--------------------------- MODULE ConfigLoadProofs ---------------------------
(***************************************************************************)
(* Proofs about module ConfigLoad, for any variables, words, files and      *)
(* numbers of edits.                                                        *)
(***************************************************************************)
EXTENDS ConfigLoad, TLAPS

USE DEF Returns, Fails

-----------------------------------------------------------------------------
(* What the expansion of a text returns.                                    *)

\* An environment none of whose values holds a reference.
PlainEnv(e) == \A v \in Var : ~IsReference(e[v])

\* The parts of a text.
LEMMA TextCases ==
  ASSUME NEW t \in Text
  PROVE  \/ ~IsReference(t)
         \/ /\ IsReference(t) /\ t.var \in Var
            /\ t.fallback = {} \/ \E w \in Word : t.fallback = {w}
<1>1. ASSUME NEW w \in Word, t = Literal(w)
      PROVE  ~IsReference(t)
  BY <1>1 DEF Literal, IsReference
<1>2. ASSUME NEW v \in Var, NEW f, t = Reference(v, f)
      PROVE  IsReference(t) /\ t.var = v /\ t.fallback = f
  BY <1>2 DEF Reference, IsReference
<1>3. \/ \E w \in Word : t = Literal(w)
      \/ \E v \in Var : t = Reference(v, {})
      \/ \E v \in Var, w \in Word : t = Reference(v, {w})
  <2> DEFINE WithFallback == {Reference(v, {w}) : v \in Var, w \in Word}
  <2>1. ASSUME NEW x \in WithFallback
        PROVE  \E v \in Var, w \in Word : x = Reference(v, {w})
    OBVIOUS
  <2>2. t \in Value => (\E w \in Word : t = Literal(w)) \/ \E v \in Var : t = Reference(v, {})
    BY DEF Value
  <2>3. t \in Value \/ t \in WithFallback
    BY DEF Text
  <2> HIDE DEF WithFallback
  <2> QED
    BY <2>1, <2>2, <2>3
<1> QED
  BY <1>1, <1>2, <1>3

\* Literal words are texts without a reference.
LEMMA Literals ==
    /\ Empty \in Text /\ ~IsReference(Empty)
    /\ \A w \in Word : Literal(w) \in Text /\ ~IsReference(Literal(w))
<1>1. \A w \in Word : Literal(w) \in Value
  BY DEF Value
<1>2. Value \subseteq Text
  BY DEF Text
<1>3. \A w \in Word : ~IsReference(Literal(w))
  BY DEF Literal, IsReference
<1>4. "" \in Word
  BY ConfigLoadAssumption
<1> QED
  BY <1>1, <1>2, <1>3, <1>4 DEF Empty

\* A literal stays as it is. What replaces a reference is a text again, and one
\* without a reference if the environment has none.
LEMMA ExpandEnvReturns ==
  ASSUME NEW e \in [Var -> EnvValue], NEW t \in Text
  PROVE  /\ ~IsReference(t) => ExpandEnv(e, t) = Returns(t)
         /\ ExpandEnv(e, t) # Fails =>
              \E x \in Text : /\ ExpandEnv(e, t) = Returns(x)
                              /\ PlainEnv(e) => ~IsReference(x)
<1>1. CASE ~IsReference(t)
  BY <1>1 DEF ExpandEnv
<1>2. CASE IsReference(t) /\ e[t.var] \notin {Unset, Empty}
  <2>1. Value \subseteq Text
    BY DEF Text
  <2>2. t.var \in Var /\ e[t.var] \in Text
    BY <1>2, <2>1, TextCases DEF EnvValue
  <2> QED
    BY <1>2, <2>2 DEF ExpandEnv, PlainEnv
<1>3. CASE IsReference(t) /\ e[t.var] \in {Unset, Empty} /\ t.fallback # {}
  <2>1. PICK w \in Word : t.fallback = {w}
    BY <1>3, TextCases
  <2>2. (CHOOSE x \in t.fallback : TRUE) = w
    BY <2>1
  <2> QED
    BY <1>3, <2>1, <2>2, Literals DEF ExpandEnv
<1>4. CASE IsReference(t) /\ e[t.var] \in {Unset, Empty} /\ t.fallback = {}
  BY <1>4, Literals DEF ExpandEnv
<1> QED
  BY <1>1, <1>2, <1>3, <1>4

\* A credential that was not empty does not become empty.
LEMMA ExpandEnvSecretReturns ==
  ASSUME NEW e \in [Var -> EnvValue], NEW t \in Text
  PROVE  /\ ~IsReference(t) => ExpandEnvSecret(e, t) = Returns(t)
         /\ ExpandEnvSecret(e, t) # Fails =>
              \E x \in Text : /\ ExpandEnvSecret(e, t) = Returns(x)
                              /\ x = Empty => t = Empty
                              /\ PlainEnv(e) => ~IsReference(x)
<1>1. CASE ~IsReference(t)
  BY <1>1, ExpandEnvReturns DEF ExpandEnvSecret
<1>2. CASE IsReference(t)
  BY <1>2, ExpandEnvReturns DEF ExpandEnvSecret
<1> QED
  BY <1>1, <1>2

\* The value of an EnvBool follows from the text it keeps, so that to resolve
\* it again changes nothing.
LEMMA ResolveBoolReturns ==
  ASSUME NEW e \in [Var -> EnvValue], NEW b \in Bool, ResolveBool(e, b) # Fails
  PROVE  \E x \in Bool : ResolveBool(e, b) = Returns(x) /\ ResolveBool(e, x) = Returns(x)
<1>1. CASE b.raw = Empty
  BY <1>1 DEF ResolveBool
<1>2. CASE b.raw # Empty
  <2>1. \/ ResolveBool(e, b) = Returns([b EXCEPT !.val = FALSE])
        \/ ResolveBool(e, b) = Returns([b EXCEPT !.val = TRUE])
    BY <1>2 DEF ResolveBool
  <2>2. ASSUME NEW v \in BOOLEAN, ResolveBool(e, b) = Returns([b EXCEPT !.val = v])
        PROVE  \E x \in Bool : ResolveBool(e, b) = Returns(x) /\ ResolveBool(e, x) = Returns(x)
    <3> DEFINE x == [b EXCEPT !.val = v]
    <3>1. x \in Bool /\ x.raw = b.raw
      BY DEF Bool
    <3>2. [x EXCEPT !.val = FALSE] = [b EXCEPT !.val = FALSE]
          /\ [x EXCEPT !.val = TRUE] = [b EXCEPT !.val = TRUE]
      BY DEF Bool
    <3>3. ResolveBool(e, x) = ResolveBool(e, b)
      BY <1>2, <3>1, <3>2 DEF ResolveBool
    <3> QED
      BY <2>2, <3>1, <3>3
  <2> QED
    BY <2>1, <2>2
<1> QED
  BY <1>1, <1>2

\* A password that is there is not lost, and one read from the file is what the
\* file holds.
LEMMA ResolvePasswordReturns ==
  ASSUME NEW e \in [Var -> EnvValue], NEW s \in SecretValue, NEW cl, cl.password \in Text,
         ResolvePassword(e, s, cl) # Fails
  PROVE  \E x \in Text :
            /\ ResolvePassword(e, s, cl) = Returns(x)
            /\ x = Empty => cl.password = Empty
            /\ PlainEnv(e) /\ ~IsReference(s) =>
                 /\ ~IsReference(x)
                 /\ x = Empty /\ cl.passwordFile => s = Empty
<1>1. CASE cl.password = Empty /\ cl.passwordFile
  <2>1. s # Missing /\ ResolvePassword(e, s, cl) = Returns(s)
    BY <1>1 DEF ResolvePassword
  <2>2. Value \subseteq Text
    BY DEF Text
  <2>3. s \in Text
    BY <2>1, <2>2 DEF SecretValue
  <2> QED
    BY <1>1, <2>1, <2>3
<1>2. CASE ~(cl.password = Empty /\ cl.passwordFile)
  <2>1. ResolvePassword(e, s, cl) = ExpandEnvSecret(e, cl.password)
    BY <1>2 DEF ResolvePassword
  <2>2. PICK x \in Text : /\ ExpandEnvSecret(e, cl.password) = Returns(x)
                          /\ x = Empty => cl.password = Empty
                          /\ PlainEnv(e) => ~IsReference(x)
    BY <2>1, ExpandEnvSecretReturns
  <2> QED
    BY <1>2, <2>1, <2>2
<1> QED
  BY <1>1, <1>2

\* What ResolveCluster keeps of an entry: all that the rules look at, and if no
\* value from outside holds a reference, a resolved entry resolves to itself,
\* whatever port the defaults have given it.
KeepsCluster(e, s, cl, x) ==
    /\ x.name = cl.name /\ x.port = cl.port /\ x.passwordFile = cl.passwordFile
    /\ x.endpoint = Empty => cl.endpoint = Empty
    /\ x.username = Empty => cl.username = Empty
    /\ x.password = Empty => cl.password = Empty
    /\ PlainEnv(e) /\ ~IsReference(s) =>
         \A p \in Int : ResolveCluster(e, s, [x EXCEPT !.port = p]) = Returns([x EXCEPT !.port = p])

LEMMA ResolveClusterReturns ==
  ASSUME NEW e \in [Var -> EnvValue], NEW s \in SecretValue, NEW cl \in Cluster,
         ResolveCluster(e, s, cl) # Fails
  PROVE  \E x \in Cluster : ResolveCluster(e, s, cl) = Returns(x) /\ KeepsCluster(e, s, cl, x)
<1>1. /\ cl.skip \in Bool /\ cl.endpoint \in Text /\ cl.username \in Text
      /\ cl.password \in Text /\ cl.passwordFile \in BOOLEAN
  BY DEF Cluster
<1>2. /\ ResolveBool(e, cl.skip) # Fails
      /\ ExpandEnvSecret(e, cl.endpoint) # Fails
      /\ ExpandEnvSecret(e, cl.username) # Fails
      /\ ResolvePassword(e, s, cl) # Fails
  BY DEF ResolveCluster
<1>3. PICK skip \in Bool : /\ ResolveBool(e, cl.skip) = Returns(skip)
                           /\ ResolveBool(e, skip) = Returns(skip)
  BY <1>1, <1>2, ResolveBoolReturns
<1>4. PICK endpoint \in Text : /\ ExpandEnvSecret(e, cl.endpoint) = Returns(endpoint)
                               /\ endpoint = Empty => cl.endpoint = Empty
                               /\ PlainEnv(e) => ~IsReference(endpoint)
  BY <1>1, <1>2, ExpandEnvSecretReturns
<1>5. PICK username \in Text : /\ ExpandEnvSecret(e, cl.username) = Returns(username)
                               /\ username = Empty => cl.username = Empty
                               /\ PlainEnv(e) => ~IsReference(username)
  BY <1>1, <1>2, ExpandEnvSecretReturns
<1>6. PICK password \in Text :
         /\ ResolvePassword(e, s, cl) = Returns(password)
         /\ password = Empty => cl.password = Empty
         /\ PlainEnv(e) /\ ~IsReference(s) =>
              /\ ~IsReference(password)
              /\ password = Empty /\ cl.passwordFile => s = Empty
  BY <1>1, <1>2, ResolvePasswordReturns
<1> DEFINE x == [cl EXCEPT !.skip = skip, !.endpoint = endpoint,
                           !.username = username, !.password = password]
<1>7. ResolveCluster(e, s, cl) = Returns(x)
  BY <1>2, <1>3, <1>4, <1>5, <1>6 DEF ResolveCluster
<1>8. x \in Cluster
  BY DEF Cluster
<1>9. /\ x.name = cl.name /\ x.port = cl.port /\ x.passwordFile = cl.passwordFile
      /\ x.skip = skip /\ x.endpoint = endpoint /\ x.username = username /\ x.password = password
  BY DEF Cluster
<1> HIDE DEF x
<1>10. ASSUME PlainEnv(e), ~IsReference(s), NEW p \in Int
       PROVE  ResolveCluster(e, s, [x EXCEPT !.port = p]) = Returns([x EXCEPT !.port = p])
  <2> DEFINE y == [x EXCEPT !.port = p]
  <2>1. /\ y.skip = skip /\ y.endpoint = endpoint /\ y.username = username
        /\ y.password = password /\ y.passwordFile = cl.passwordFile
    BY <1>8, <1>9 DEF Cluster
  <2>2. [y EXCEPT !.skip = skip, !.endpoint = endpoint,
                  !.username = username, !.password = password] = y
    BY <1>8, <1>9 DEF Cluster
  <2> HIDE DEF y
  <2>3. /\ ExpandEnvSecret(e, y.endpoint) = Returns(endpoint)
        /\ ExpandEnvSecret(e, y.username) = Returns(username)
    BY <1>4, <1>5, <1>10, <2>1, ExpandEnvSecretReturns
  <2>4. ResolvePassword(e, s, y) = Returns(password)
    <3>1. CASE y.password = Empty /\ y.passwordFile
      <4>1. s = Empty /\ Empty # Missing
        BY <1>6, <1>10, <2>1, <3>1 DEF Empty, Literal, Missing
      <4> QED
        BY <2>1, <3>1, <4>1 DEF ResolvePassword
    <3>2. CASE ~(y.password = Empty /\ y.passwordFile)
      <4>1. ExpandEnvSecret(e, y.password) = Returns(password)
        BY <1>6, <1>10, <2>1, ExpandEnvSecretReturns
      <4> QED
        BY <3>2, <4>1 DEF ResolvePassword
    <3> QED
      BY <3>1, <3>2
  <2>5. ResolveBool(e, y.skip) = Returns(skip)
    BY <1>3, <2>1
  <2>6. ResolveCluster(e, s, y) =
          Returns([y EXCEPT !.skip = skip, !.endpoint = endpoint,
                            !.username = username, !.password = password])
    BY <2>3, <2>4, <2>5 DEF ResolveCluster
  <2> QED
    BY <2>2, <2>6 DEF y
<1> QED
  BY <1>4, <1>5, <1>6, <1>7, <1>8, <1>9, <1>10 DEF KeepsCluster

-----------------------------------------------------------------------------
(* Configurations.                                                          *)

\* The same for all the entries of a configuration.
KeepsClusters(e, s, c, r) ==
    /\ DOMAIN r.clusters = DOMAIN c.clusters
    /\ \A i \in DOMAIN c.clusters : KeepsCluster(e, s, c.clusters[i], r.clusters[i])

\* The entries of a configuration.
LEMMA ConfigClusters ==
  ASSUME NEW c \in Config
  PROVE  /\ c.clusters \in Seq(Cluster)
         /\ DOMAIN c.clusters = 1..Len(c.clusters) /\ Len(c.clusters) \in Nat
         /\ \A i \in DOMAIN c.clusters : c.clusters[i] \in Cluster
         /\ c.clusters = <<>> <=> DOMAIN c.clusters = {}
<1>1. c.clusters \in Seq(Cluster)
  BY DEF Config
<1>2. DOMAIN c.clusters = 1..Len(c.clusters) /\ Len(c.clusters) \in Nat
  BY <1>1
<1>3. c.clusters = <<>> <=> Len(c.clusters) = 0
  BY <1>1
<1>4. Len(c.clusters) = 0 <=> 1..Len(c.clusters) = {}
  <2>1. Len(c.clusters) # 0 => 1 \in 1..Len(c.clusters)
    BY <1>2
  <2>2. Len(c.clusters) = 0 => 1..Len(c.clusters) = {}
    BY <1>2
  <2> QED
    BY <2>1, <2>2
<1>5. \A i \in 1..Len(c.clusters) : c.clusters[i] \in Cluster
  BY <1>1
<1> QED
  BY <1>1, <1>2, <1>3, <1>4, <1>5

\* Other entries in as many places make a configuration.
LEMMA ReplaceClusters ==
  ASSUME NEW c \in Config, NEW f \in [DOMAIN c.clusters -> Cluster]
  PROVE  /\ [c EXCEPT !.clusters = f] \in Config
         /\ [c EXCEPT !.clusters = f].clusters = f
<1>1. f \in Seq(Cluster)
  <2>1. DOMAIN c.clusters = 1..Len(c.clusters) /\ Len(c.clusters) \in Nat
    BY ConfigClusters
  <2> QED
    BY <2>1
<1> QED
  BY <1>1 DEF Config

LEMMA ResolveSecretsReturns ==
  ASSUME NEW e \in [Var -> EnvValue], NEW s \in SecretValue, NEW c \in Config,
         ResolveSecrets(e, s, c) # Fails
  PROVE  \E r \in Config : ResolveSecrets(e, s, c) = Returns(r) /\ KeepsClusters(e, s, c, r)
<1> DEFINE resolved == [i \in DOMAIN c.clusters |-> ResolveCluster(e, s, c.clusters[i])]
           clusters == [i \in DOMAIN resolved |-> Head(resolved[i])]
           r == [c EXCEPT !.clusters = clusters]
<1>1. \A i \in DOMAIN c.clusters : resolved[i] # Fails
  BY DEF ResolveSecrets
<1>2. ResolveSecrets(e, s, c) = Returns(r)
  BY <1>1 DEF ResolveSecrets
<1>3. ASSUME NEW i \in DOMAIN c.clusters
      PROVE  clusters[i] \in Cluster /\ KeepsCluster(e, s, c.clusters[i], clusters[i])
  <2>1. c.clusters[i] \in Cluster
    BY ConfigClusters
  <2>2. PICK x \in Cluster : /\ ResolveCluster(e, s, c.clusters[i]) = Returns(x)
                             /\ KeepsCluster(e, s, c.clusters[i], x)
    BY <1>1, <2>1, ResolveClusterReturns
  <2>3. clusters[i] = x
    BY <2>2
  <2> QED
    BY <2>2, <2>3
<1>4. clusters \in [DOMAIN c.clusters -> Cluster]
  BY <1>3
<1> HIDE DEF clusters
<1>5. r \in Config /\ r.clusters = clusters
  BY <1>4, ReplaceClusters
<1> QED
  BY <1>2, <1>3, <1>4, <1>5 DEF KeepsClusters

\* The defaults change an entry in its port alone.
LEMMA DefaultPortsReturns ==
  ASSUME NEW c \in Config
  PROVE  /\ DefaultPorts(c.clusters) \in [DOMAIN c.clusters -> Cluster]
         /\ \A i \in DOMAIN c.clusters :
               \E p \in Int : DefaultPorts(c.clusters)[i] = [c.clusters[i] EXCEPT !.port = p]
<1>1. ASSUME NEW i \in DOMAIN c.clusters
      PROVE  \E p \in Int : /\ DefaultPorts(c.clusters)[i] = [c.clusters[i] EXCEPT !.port = p]
                            /\ [c.clusters[i] EXCEPT !.port = p] \in Cluster
  <2>1. c.clusters[i] \in Cluster
    BY ConfigClusters
  <2> DEFINE p == IF c.clusters[i].port = NoPort THEN 8080 ELSE c.clusters[i].port
  <2>2. p \in Int
    BY <2>1 DEF Cluster
  <2>3. DefaultPorts(c.clusters)[i] = [c.clusters[i] EXCEPT !.port = p]
    BY DEF DefaultPorts
  <2> HIDE DEF p
  <2>4. [c.clusters[i] EXCEPT !.port = p] \in Cluster
    BY <2>1, <2>2 DEF Cluster
  <2> QED
    BY <2>2, <2>3, <2>4
<1>2. /\ DOMAIN DefaultPorts(c.clusters) = DOMAIN c.clusters
      /\ DefaultPorts(c.clusters) = [i \in DOMAIN c.clusters |-> DefaultPorts(c.clusters)[i]]
  BY DEF DefaultPorts
<1> QED
  BY <1>1, <1>2

\* Other settings make a configuration.
LEMMA ReplaceSettings ==
  ASSUME NEW c \in Config, NEW host \in Setting, NEW port \in Int, NEW uri \in Setting,
         NEW interval \in Setting, NEW timeout \in Setting,
         NEW push \in [enabled : BOOLEAN, endpoint : Setting, interval : Setting]
  PROVE  [c EXCEPT !.host = host, !.port = port, !.uri = uri, !.interval = interval,
                   !.timeout = timeout, !.push = push] \in Config
  BY Zenon DEF Config

\* SetDefaults makes a configuration of a configuration.
LEMMA SetDefaultsReturns ==
  ASSUME NEW c \in Config
  PROVE  SetDefaults(c) \in Config /\ SetDefaults(c).clusters = DefaultPorts(c.clusters)
<1> DEFINE interval == OrDefault(c.interval, "10s")
           push == [c.push EXCEPT !.interval = OrDefault(@, interval)]
           d == [c EXCEPT !.host = OrDefault(@, "0.0.0.0"),
                          !.port = IF @ = NoPort THEN 9444 ELSE @,
                          !.uri = OrDefault(@, "/metrics"),
                          !.interval = interval,
                          !.timeout = OrDefault(@, "8s"),
                          !.push = push]
<1>1. /\ c.host \in Setting /\ c.port \in Int /\ c.uri \in Setting /\ c.interval \in Setting
      /\ c.timeout \in Setting /\ c.push.interval \in Setting
  BY DEF Config
<1>2. \A x \in Setting, y \in Setting : OrDefault(x, y) \in Setting
  BY DEF OrDefault
<1>3. push \in [enabled : BOOLEAN, endpoint : Setting, interval : Setting]
  <2>1. interval \in Setting
    BY <1>1, <1>2, ConfigLoadAssumption
  <2>2. OrDefault(c.push.interval, interval) \in Setting
    BY <1>1, <1>2, <2>1
  <2> HIDE DEF interval
  <2> QED
    BY <2>2 DEF Config
<1>4. SetDefaults(c) = [d EXCEPT !.clusters = DefaultPorts(c.clusters)]
  BY DEF SetDefaults
<1>5. d.clusters = c.clusters
  BY DEF Config
<1> HIDE DEF push
<1>6. d \in Config
  <2> DEFINE host == OrDefault(c.host, "0.0.0.0")
             port == IF c.port = NoPort THEN 9444 ELSE c.port
             uri == OrDefault(c.uri, "/metrics")
             timeout == OrDefault(c.timeout, "8s")
  <2>1. host \in Setting /\ uri \in Setting /\ timeout \in Setting
    BY <1>1, <1>2, ConfigLoadAssumption
  <2>2. port \in Int
    BY <1>1
  <2>3. interval \in Setting
    BY <1>1, <1>2, ConfigLoadAssumption
  <2>4. d = [c EXCEPT !.host = host, !.port = port, !.uri = uri, !.interval = interval,
                      !.timeout = timeout, !.push = push]
    OBVIOUS
  <2> HIDE DEF d, host, port, uri, interval, timeout
  <2> QED
    BY <1>3, <2>1, <2>2, <2>3, <2>4, ReplaceSettings
<1> HIDE DEF d
<1> QED
  BY <1>4, <1>5, <1>6, DefaultPortsReturns, ReplaceClusters

\* A configuration whose entries resolve to themselves resolves to itself.
LEMMA ResolveSecretsFixed ==
  ASSUME NEW e, NEW s, NEW d \in Config,
         \A i \in DOMAIN d.clusters : ResolveCluster(e, s, d.clusters[i]) = Returns(d.clusters[i])
  PROVE  ResolveSecrets(e, s, d) = Returns(d)
<1> DEFINE resolved == [i \in DOMAIN d.clusters |-> ResolveCluster(e, s, d.clusters[i])]
<1>1. \A i \in DOMAIN resolved : resolved[i] # Fails
  OBVIOUS
<1>2. [i \in DOMAIN resolved |-> Head(resolved[i])] = d.clusters
  <2>1. d.clusters = [i \in DOMAIN d.clusters |-> d.clusters[i]]
    BY ConfigClusters
  <2>2. \A i \in DOMAIN d.clusters : Head(resolved[i]) = d.clusters[i]
    OBVIOUS
  <2> QED
    BY <2>1, <2>2
<1>3. [d EXCEPT !.clusters = d.clusters] = d
  BY DEF Config
<1> QED
  BY <1>1, <1>2, <1>3 DEF ResolveSecrets

\* With no reference in a value from outside, to resolve once more after the
\* defaults changes nothing.
LEMMA ResolvesOnce ==
  ASSUME NEW e \in [Var -> EnvValue], NEW s \in SecretValue, NEW c \in Config,
         PlainEnv(e), ~IsReference(s),
         NEW r, ResolveSecrets(e, s, c) = Returns(r)
  PROVE  ResolveSecrets(e, s, SetDefaults(r)) = Returns(SetDefaults(r))
<1>1. r \in Config /\ KeepsClusters(e, s, c, r)
  BY ResolveSecretsReturns
<1>2. SetDefaults(r) \in Config /\ SetDefaults(r).clusters = DefaultPorts(r.clusters)
  BY <1>1, SetDefaultsReturns
<1>3. DOMAIN DefaultPorts(r.clusters) = DOMAIN r.clusters
  BY DEF DefaultPorts
<1>4. ASSUME NEW i \in DOMAIN r.clusters
      PROVE  ResolveCluster(e, s, DefaultPorts(r.clusters)[i]) = Returns(DefaultPorts(r.clusters)[i])
  <2>1. PICK p \in Int : DefaultPorts(r.clusters)[i] = [r.clusters[i] EXCEPT !.port = p]
    BY <1>1, DefaultPortsReturns
  <2>2. KeepsCluster(e, s, c.clusters[i], r.clusters[i])
    BY <1>1 DEF KeepsClusters
  <2> QED
    BY <2>1, <2>2 DEF KeepsCluster
<1> QED
  BY <1>2, <1>3, <1>4, ResolveSecretsFixed

\* The rules about clusters survive a resolution.
LEMMA RulesKept ==
  ASSUME NEW e, NEW s, NEW c \in Config, NEW r \in Config, KeepsClusters(e, s, c, r),
         ClustersRules(c)
  PROVE  ClustersRules(r)
<1>1. DOMAIN r.clusters = DOMAIN c.clusters
  BY DEF KeepsClusters
<1>2. ASSUME NEW i \in DOMAIN r.clusters
      PROVE  ClusterRules(r.clusters[i]) /\ r.clusters[i].name = c.clusters[i].name
  BY <1>1, <1>2 DEF KeepsClusters, KeepsCluster, ClustersRules, ClusterRules
<1>3. r.clusters # <<>>
  BY <1>1, ConfigClusters DEF ClustersRules
<1> QED
  BY <1>1, <1>2, <1>3 DEF ClustersRules

\* What passes Validate, and what a reload loads.
LEMMA ValidateReturns ==
  ASSUME NEW c \in Config, Validate(c) # Fails
  PROVE  /\ Validate(c) = Returns(SetDefaults(c))
         /\ SetDefaults(c) \in Config /\ ClustersRules(SetDefaults(c))
  BY SetDefaultsReturns DEF Validate

LEMMA ReloadLoadReturns ==
  ASSUME NEW e \in [Var -> EnvValue], NEW s \in SecretValue, NEW f \in File \cup {Bad},
         ReloadLoad(e, s, f) # Fails
  PROVE  \E c \in Config : ReloadLoad(e, s, f) = Returns(c) /\ ClustersRules(c)
<1>1. f \in Config /\ f # Bad
  BY ConfigLoadAssumption DEF ReloadLoad
<1>2. PICK r \in Config : ResolveSecrets(e, s, f) = Returns(r)
  BY <1>1, ResolveSecretsReturns DEF ReloadLoad
<1>3. ReloadLoad(e, s, f) = Validate(r)
  BY <1>1, <1>2 DEF ReloadLoad
<1> QED
  BY <1>3, ValidateReturns

-----------------------------------------------------------------------------
(* The inductive invariant.                                                 *)

\* From Validate on the clusters meet the rules.
RulesMet == phase \in {"valid", "running"} => ClustersRules(cfg)

\* Until a file is touched, the configuration is what the start has made of the
\* files as they are, and what a reload would make of them: at once while main
\* has not resolved again, and afterwards if no value from outside holds a
\* reference.
LoadedFromFiles ==
    ~touched =>
        /\ phase \in {"read", "valid"} => file # Bad
        /\ phase = "read" => ResolveSecrets(env, secret, file) = Returns(cfg)
        /\ phase = "valid" =>
             \E r \in Config : /\ ResolveSecrets(env, secret, file) = Returns(r)
                               /\ cfg = SetDefaults(r)
        /\ phase = "valid" \/ (phase = "running" /\ PlainValues)
             => ReloadLoad(env, secret, file) = Returns(cfg)

LoadInv == TypeOK /\ RulesMet /\ LoadedFromFiles

\* The invariant holds at first: nothing is loaded yet.
LEMMA LoadInitial == Init => LoadInv
<1> SUFFICES ASSUME Init PROVE LoadInv
  OBVIOUS
<1>1. edits \in 0..MaxEdits
  <2>1. MaxEdits \in Nat
    BY ConfigLoadAssumption
  <2>2. edits = 0
    BY DEF Init
  <2> QED
    BY <2>1, <2>2
<1>2. TypeOK
  BY <1>1 DEF Init, TypeOK
<1>3. RulesMet /\ LoadedFromFiles
  BY DEF Init, RulesMet, LoadedFromFiles
<1> QED
  BY <1>2, <1>3 DEF LoadInv

\* What a step of main that succeeds or fails leaves.
LEMMA StartStepType ==
  ASSUME TypeOK, NEW from, NEW x, NEW to \in {"read", "valid", "running"},
         StartStep(from, x, to), touched' \in BOOLEAN,
         x # Fails => \E c \in Config : x = Returns(c)
  PROVE  TypeOK'
<1>1. CASE x = Fails
  <2>1. phase' = "failed" /\ cfg' = NoConfig /\ UNCHANGED <<env, file, secret, edits, changed>>
    BY <1>1 DEF StartStep
  <2> QED
    BY <2>1 DEF TypeOK
<1>2. CASE x # Fails
  <2>1. PICK c \in Config : x = Returns(c)
    BY <1>2
  <2>2. phase' = to /\ cfg' \in Config /\ UNCHANGED <<env, file, secret, edits, changed>>
    BY <1>2, <2>1 DEF StartStep
  <2> QED
    BY <2>2 DEF TypeOK
<1> QED
  BY <1>1, <1>2

\* utils.ReadFile.
LEMMA StartReadsStep ==
  ASSUME LoadInv, StartReads
  PROVE  LoadInv'
<1> USE DEF LoadInv
<1> DEFINE x == IF file = Bad THEN Fails ELSE ResolveSecrets(env, secret, file)
<1>1. StartStep("start", x, "read") /\ touched' = FALSE
  BY DEF StartReads
<1>2. x # Fails => file # Bad /\ \E c \in Config : x = Returns(c)
  <2> SUFFICES ASSUME x # Fails
               PROVE  file # Bad /\ \E c \in Config : x = Returns(c)
    OBVIOUS
  <2>1. file # Bad /\ x = ResolveSecrets(env, secret, file)
    OBVIOUS
  <2>2. env \in [Var -> EnvValue] /\ secret \in SecretValue /\ file \in Config
    BY <2>1, ConfigLoadAssumption DEF TypeOK
  <2> QED
    BY <2>1, <2>2, ResolveSecretsReturns
<1>3. file # Bad => x = ResolveSecrets(env, secret, file)
  OBVIOUS
<1> HIDE DEF x
<1>4. TypeOK'
  BY <1>1, <1>2, StartStepType
<1>5. CASE x = Fails
  BY <1>1, <1>4, <1>5 DEF StartStep, RulesMet, LoadedFromFiles
<1>6. CASE x # Fails
  <2>1. PICK c \in Config : x = Returns(c)
    BY <1>2, <1>6
  <2>2. /\ phase' = "read" /\ cfg' = c /\ UNCHANGED <<env, secret, file>>
        /\ file # Bad /\ ResolveSecrets(env, secret, file) = Returns(c)
    BY <1>1, <1>2, <1>3, <1>6, <2>1 DEF StartStep
  <2> QED
    BY <1>4, <2>2 DEF RulesMet, LoadedFromFiles
<1> QED
  BY <1>5, <1>6

\* Config.Validate.
LEMMA StartValidatesStep ==
  ASSUME LoadInv, StartValidates
  PROVE  LoadInv'
<1> USE DEF LoadInv
<1>1. StartStep("read", Validate(cfg), "valid") /\ touched' = touched
  BY DEF StartValidates
<1>2. phase = "read" /\ cfg \in Config
  BY <1>1 DEF StartStep, TypeOK
<1>3. TypeOK'
  BY <1>1, <1>2, ValidateReturns, StartStepType DEF TypeOK
<1>4. CASE Validate(cfg) = Fails
  BY <1>1, <1>3, <1>4 DEF StartStep, RulesMet, LoadedFromFiles
<1>5. CASE Validate(cfg) # Fails
  <2>1. /\ phase' = "valid" /\ cfg' = SetDefaults(cfg) /\ UNCHANGED <<env, secret, file, touched>>
        /\ Validate(cfg) = Returns(SetDefaults(cfg)) /\ ClustersRules(SetDefaults(cfg))
    BY <1>1, <1>2, <1>5, ValidateReturns DEF StartStep
  <2>2. ASSUME ~touched
        PROVE  /\ file # Bad /\ ResolveSecrets(env, secret, file) = Returns(cfg)
               /\ ReloadLoad(env, secret, file) = Returns(SetDefaults(cfg))
    <3>1. file # Bad /\ ResolveSecrets(env, secret, file) = Returns(cfg)
      BY <1>2, <2>2 DEF LoadedFromFiles
    <3> QED
      BY <2>1, <3>1 DEF ReloadLoad
  <2>3. LoadedFromFiles'
    BY <1>2, <2>1, <2>2 DEF LoadedFromFiles
  <2> QED
    BY <1>3, <2>1, <2>3 DEF RulesMet
<1> QED
  BY <1>4, <1>5

\* utils.ResolveSecrets, after the validation.
LEMMA StartResolvesAgainStep ==
  ASSUME LoadInv, StartResolvesAgain
  PROVE  LoadInv'
<1> USE DEF LoadInv
<1> DEFINE x == ResolveSecrets(env, secret, cfg)
<1>1. StartStep("valid", x, "running") /\ touched' = touched
  BY DEF StartResolvesAgain
<1>2. phase = "valid" /\ cfg \in Config /\ env \in [Var -> EnvValue] /\ secret \in SecretValue
  BY <1>1 DEF StartStep, TypeOK
<1>3. x # Fails => \E r \in Config : x = Returns(r) /\ KeepsClusters(env, secret, cfg, r)
  BY <1>2, ResolveSecretsReturns
<1>4. ASSUME ~touched, PlainValues
      PROVE  x = Returns(cfg) /\ ReloadLoad(env, secret, file) = Returns(cfg)
  <2>1. PICK r \in Config : ResolveSecrets(env, secret, file) = Returns(r) /\ cfg = SetDefaults(r)
    BY <1>2, <1>4 DEF LoadedFromFiles
  <2>2. file \in Config
    BY <1>2, <1>4, ConfigLoadAssumption DEF LoadedFromFiles, TypeOK
  <2>3. x = Returns(cfg)
    BY <1>2, <1>4, <2>1, <2>2, ResolvesOnce DEF PlainValues, PlainEnv
  <2> QED
    BY <1>2, <1>4, <2>3 DEF LoadedFromFiles
<1> HIDE DEF x
<1>5. TypeOK'
  BY <1>1, <1>2, <1>3, StartStepType DEF TypeOK
<1>6. CASE x = Fails
  BY <1>1, <1>5, <1>6 DEF StartStep, RulesMet, LoadedFromFiles
<1>7. CASE x # Fails
  <2>1. PICK r \in Config : x = Returns(r) /\ KeepsClusters(env, secret, cfg, r)
    BY <1>3, <1>7
  <2>2. phase' = "running" /\ cfg' = r /\ UNCHANGED <<env, secret, file, touched>>
    BY <1>1, <1>7, <2>1 DEF StartStep
  <2>3. ClustersRules(r)
    BY <1>2, <2>1, RulesKept DEF RulesMet
  <2>4. ~touched /\ PlainValues => r = cfg /\ ReloadLoad(env, secret, file) = Returns(cfg)
    BY <1>4, <2>1
  <2>5. RulesMet'
    BY <2>2, <2>3 DEF RulesMet
  <2>6. LoadedFromFiles'
    BY <2>2, <2>4 DEF LoadedFromFiles, PlainValues
  <2> QED
    BY <1>5, <2>5, <2>6
<1> QED
  BY <1>6, <1>7

\* SafeConfig.ReloadConfig.
LEMMA ReloadStep ==
  ASSUME LoadInv, Reload
  PROVE  LoadInv'
<1> USE DEF LoadInv
<1> DEFINE x == ReloadLoad(env, secret, file)
<1>1. /\ phase = "running" /\ UNCHANGED <<env, file, secret, edits, phase>>
      /\ \/ x = Fails /\ changed' = FALSE /\ UNCHANGED <<cfg, touched>>
         \/ /\ x # Fails /\ changed' = (Head(x).clusters # cfg.clusters)
            /\ cfg' = Head(x) /\ touched' = FALSE
  BY DEF Reload
<1>2. x # Fails => \E c \in Config : x = Returns(c) /\ ClustersRules(c)
  BY ReloadLoadReturns DEF TypeOK
<1>3. changed' \in BOOLEAN
  BY <1>1
<1>4. CASE x = Fails
  <2>1. UNCHANGED <<cfg, touched>>
    BY <1>1, <1>4
  <2>2. TypeOK'
    BY <1>1, <1>3, <2>1 DEF TypeOK
  <2> QED
    BY <1>1, <2>1, <2>2 DEF RulesMet, LoadedFromFiles, PlainValues
<1>5. CASE x # Fails
  <2>1. PICK c \in Config : x = Returns(c) /\ ClustersRules(c)
    BY <1>2, <1>5
  <2>2. cfg' = c /\ touched' = FALSE
    BY <1>1, <1>5, <2>1
  <2>3. TypeOK'
    BY <1>1, <1>3, <2>2 DEF TypeOK
  <2> QED
    BY <1>1, <2>1, <2>2, <2>3 DEF RulesMet, LoadedFromFiles
<1> QED
  BY <1>4, <1>5

\* The invariant is inductive.
LEMMA LoadInductive ==
  ASSUME LoadInv, [Next]_vars
  PROVE  LoadInv'
<1>1. CASE UNCHANGED vars
  BY <1>1 DEF vars, LoadInv, TypeOK, RulesMet, LoadedFromFiles, PlainValues
<1>2. CASE Edit
  <2> USE DEF LoadInv
  <2>1. edits' \in 0..MaxEdits
    <3>1. MaxEdits \in Nat
      BY ConfigLoadAssumption
    <3>2. edits \in 0..MaxEdits
      BY DEF TypeOK
    <3>3. edits < MaxEdits /\ edits' = edits + 1
      BY <1>2 DEF Edit
    <3> QED
      BY <3>1, <3>2, <3>3
  <2>2. file' \in File \cup {Bad} /\ secret' \in SecretValue
    BY <1>2 DEF Edit, TypeOK
  <2>3. touched' = TRUE /\ UNCHANGED <<env, phase, cfg, changed>>
    BY <1>2 DEF Edit
  <2>4. TypeOK'
    BY <2>1, <2>2, <2>3 DEF TypeOK
  <2> QED
    BY <2>3, <2>4 DEF RulesMet, LoadedFromFiles
<1>3. CASE Failed
  BY <1>1, <1>3 DEF Failed
<1> QED
  BY <1>1, <1>2, <1>3, StartReadsStep, StartValidatesStep, StartResolvesAgainStep, ReloadStep
  DEF Next

LEMMA LoadInvariant == Spec => []LoadInv
<1>1. LoadInv /\ [Next]_vars => LoadInv'
  BY LoadInductive
<1> QED
  BY <1>1, LoadInitial, PTL DEF Spec

-----------------------------------------------------------------------------
(* Theorems.                                                                *)

\* There is a configuration of the right shape from the first step that
\* succeeds on, and no reload takes it away.
THEOREM LoadTypeCorrect == Spec => []TypeOK
<1>1. LoadInv => TypeOK
  BY DEF LoadInv
<1> QED
  BY <1>1, LoadInvariant, PTL

\* What validateClusters (config.go:213) takes for a port.
LEMMA PortBounds == \A p : IsPort(p) => p >= 1 /\ p <= 65535
  BY DEF IsPort

\* Whatever the variables and files hold and however they are edited, what runs
\* meets the rules of validateClusters (config.go:211), although main resolves
\* once more after it has validated (main.go:424).
THEOREM AdoptedUsable == Spec => []AdoptedIsUsable
<1>1. LoadInv => AdoptedIsUsable
  <2> SUFFICES ASSUME LoadInv, phase = "running" PROVE AdoptedIsUsable!2
    BY DEF AdoptedIsUsable
  <2>1. ClustersRules(cfg)
    BY DEF LoadInv, RulesMet
  <2>2. cfg.clusters # <<>>
    BY <2>1 DEF ClustersRules
  <2>3. ASSUME NEW i \in DOMAIN cfg.clusters
        PROVE  AdoptedIsUsable!2!2!(i)
    <3>1. ClusterRules(cfg.clusters[i])
      BY <2>1 DEF ClustersRules
    <3>2. IsPort(cfg.clusters[i].port)
      BY <3>1 DEF ClusterRules
    <3>3. /\ Empty \notin {cfg.clusters[i].endpoint, cfg.clusters[i].username}
          /\ cfg.clusters[i].password = Empty => cfg.clusters[i].passwordFile
      BY <3>1 DEF ClusterRules
    <3>4. \A j \in DOMAIN cfg.clusters : cfg.clusters[j].name = cfg.clusters[i].name => i = j
      BY <2>1 DEF ClustersRules
    <3> QED
      BY <3>2, <3>3, <3>4, PortBounds
  <2> QED
    BY <2>2, <2>3
<1> QED
  BY <1>1, LoadInvariant, PTL

\* The start, with its two resolutions around Validate (main.go:428), and the
\* reload, with its one before it (safe_config.go:53), make the same of the same
\* files as long as no value from outside holds a reference: then a reload of
\* untouched files changes nothing and rebuilds no pool.
THEOREM ReloadIsSteady == Spec => SteadyReload
<1>1. LoadInv /\ [Next]_vars
        => [phase = "running" /\ ~touched /\ PlainValues /\ Reload
              => cfg' = cfg /\ ~changed']_vars
  <2> SUFFICES ASSUME LoadInv, phase = "running", ~touched, PlainValues, Reload
               PROVE  cfg' = cfg /\ ~changed'
    OBVIOUS
  <2>1. ReloadLoad(env, secret, file) = Returns(cfg)
    BY DEF LoadInv, LoadedFromFiles
  <2>2. cfg' = cfg /\ changed' = (cfg.clusters # cfg.clusters)
    BY <2>1 DEF Reload
  <2> QED
    BY <2>2
<1> QED
  BY <1>1, LoadInvariant, PTL DEF Spec, SteadyReload
=============================================================================
