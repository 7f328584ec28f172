------------------------------ MODULE MCPlatform ------------------------------
(* Instances, for TLC, of components that share no state and promise nothing  *)
(* that has to happen: each behaviour is one of `part`, the others rest.      *)
EXTENDS TokenBucket, CircuitBreaker, TokenRefresh, ArtifactSync, SignalFanOut,
        EntityResolution, InvestigationService,
        AgentGraph, SchemaMigrator, TemporalValidity, ModelCalls, GitHubSync, TLC

CONSTANTS c1, c2, c3, r1, r2, s1, e1, e2, t1, t2, t3, h1, h2

MCBuckets == <<"app", "account">>
MCHints   == {[remaining |-> -1, after |-> TRUE, reset |-> 2],
              [remaining |-> 1, after |-> FALSE, reset |-> 0]}

MCVersion == (e1 :> 1) @@ (e2 :> 2)
MCChunks  == (t1 :> 1) @@ (t2 :> 2) @@ (t3 :> 0)

MCSeen     == (1 :> 0) @@ (2 :> 3) @@ (3 :> 2) @@ (4 :> 1)
MCMentions == (1 :> 2) @@ (2 :> 1) @@ (3 :> 1) @@ (4 :> 1)
MCBlocks   == {[low |-> FALSE, ids |-> {1, 2, 3}], [low |-> FALSE, ids |-> {3, 4}],
               [low |-> TRUE, ids |-> {1, 2, 4}]}

\* A small and a large plan; a Critic that accepts, rejects, asks for a rewrite
\* (with fewer or no fewer findings, of the same or of another artifact), or
\* names no verdict.
MCPlans == {[size |-> 1, fresh |-> TRUE], [size |-> 1, fresh |-> FALSE], [size |-> 9, fresh |-> FALSE]}

MCRevise(n, h, stage) == [verdict |-> "revise", unresolved |-> n, sha256 |-> h, target |-> stage]

MCCritiques ==
    {[verdict |-> v, unresolved |-> n, sha256 |-> NoHash, target |-> "none"] :
        v \in {"accept", "reject", "none"}, n \in {0}}
    \cup {MCRevise(1, NoHash, "retriever"), MCRevise(2, h1, "none"), MCRevise(3, h1, "strategy"),
          MCRevise(4, h2, "insight")}

\* Claims about three instants and the time after them, of two sources that
\* disagree, early and late, sure and less sure.
MCClaims ==
    {[from |-> f, to |-> t, value |-> v, confidence |-> r[1], seen |-> r[2], source |-> v] :
        f \in 1..3, t \in {2, 3, 4, OpenEnd}, v \in {1, 2}, r \in {<<1, 1>>, <<1, 2>>, <<2, 1>>}}
MCSaid == {a \in MCClaims : a.to > a.from}

VARIABLE part

platformVars == <<part, bucketVars, breakerVars, tokenVars, artifactVars, fanVars, resolutionVars, vars,
                  graphVars, migratorVars, validityVars, callVars, gitHubVars>>

PlatformInit ==
    /\ part \in {"bucket", "breaker", "token", "artifact", "fan", "resolution", "service",
               "graph", "migrator", "validity", "calls", "github"}
    /\ BucketInit /\ BreakerInit /\ TokenInit /\ ArtifactInit /\ FanInit
    /\ ResolutionInit /\ Init /\ GraphInit /\ MigratorInit
    /\ CallsInit /\ GitHubInit
    /\ part # "github" => stream = "issues"
    /\ part # "resolution" => \A p \in Pairs : verdict[p] = "conflict"
    /\ IF part = "validity" THEN ValidityInit
       ELSE claims = {} /\ todo = {} /\ history = <<>> /\ conflicts = {}

PlatformNext ==
    \/ /\ part = "bucket" /\ BucketNext
       /\ UNCHANGED <<part, breakerVars, tokenVars, artifactVars, fanVars, resolutionVars, vars,
                      graphVars, migratorVars, validityVars, callVars, gitHubVars>>
    \/ /\ part = "breaker" /\ BreakerNext
       /\ UNCHANGED <<part, bucketVars, tokenVars, artifactVars, fanVars, resolutionVars, vars,
                      graphVars, migratorVars, validityVars, callVars, gitHubVars>>
    \/ /\ part = "token" /\ TokenNext
       /\ UNCHANGED <<part, bucketVars, breakerVars, artifactVars, fanVars, resolutionVars, vars,
                      graphVars, migratorVars, validityVars, callVars, gitHubVars>>
    \/ /\ part = "artifact" /\ ArtifactNext
       /\ UNCHANGED <<part, bucketVars, breakerVars, tokenVars, fanVars, resolutionVars, vars,
                      graphVars, migratorVars, validityVars, callVars, gitHubVars>>
    \/ /\ part = "fan" /\ FanNext
       /\ UNCHANGED <<part, bucketVars, breakerVars, tokenVars, artifactVars, resolutionVars, vars,
                      graphVars, migratorVars, validityVars, callVars, gitHubVars>>
    \/ /\ part = "resolution" /\ ResolutionNext
       /\ UNCHANGED <<part, bucketVars, breakerVars, tokenVars, artifactVars, fanVars, vars,
                      graphVars, migratorVars, validityVars, callVars, gitHubVars>>
    \/ /\ part = "service" /\ Next
       /\ UNCHANGED <<part, bucketVars, breakerVars, tokenVars, artifactVars, fanVars, resolutionVars,
                      graphVars, migratorVars, validityVars, callVars, gitHubVars>>
    \/ /\ part = "graph" /\ GraphNext
       /\ UNCHANGED <<part, bucketVars, breakerVars, tokenVars, artifactVars, fanVars, resolutionVars,
                      vars, migratorVars, validityVars, callVars, gitHubVars>>
    \/ /\ part = "migrator" /\ MigratorNext
       /\ UNCHANGED <<part, bucketVars, breakerVars, tokenVars, artifactVars, fanVars, resolutionVars,
                      vars, graphVars, validityVars, callVars, gitHubVars>>
    \/ /\ part = "validity" /\ ValidityNext
       /\ UNCHANGED <<part, bucketVars, breakerVars, tokenVars, artifactVars, fanVars, resolutionVars,
                      vars, graphVars, migratorVars, callVars, gitHubVars>>
    \/ /\ part = "calls" /\ CallsNext
       /\ UNCHANGED <<part, bucketVars, breakerVars, tokenVars, artifactVars, fanVars, resolutionVars,
                      vars, graphVars, migratorVars, validityVars, gitHubVars>>
    \/ /\ part = "github" /\ GitHubNext
       /\ UNCHANGED <<part, bucketVars, breakerVars, tokenVars, artifactVars, fanVars, resolutionVars,
                      vars, graphVars, migratorVars, validityVars, callVars>>

PlatformSpec == PlatformInit /\ [][PlatformNext]_platformVars

\* The part that moves keeps the types of its state; the others rest in theirs.
PlatformTypeOK ==
    /\ part = "bucket" => BucketTypeOK
    /\ part = "breaker" => BreakerTypeOK
    /\ part = "token" => TokenTypeOK
    /\ part = "artifact" => ArtifactTypeOK
    /\ part = "fan" => FanTypeOK
    /\ part = "resolution" => ResolutionTypeOK
    /\ part = "service" => TypeOK
    /\ part = "graph" => GraphTypeOK
    /\ part = "migrator" => MigratorTypeOK
    /\ part = "validity" => ValidityTypeOK
    /\ part = "calls" => CallsTypeOK
    /\ part = "github" => GitHubTypeOK
=============================================================================
