------------------------------ MODULE MCDraining ------------------------------
(* Instances, for TLC, of components that share no state and whose work has   *)
(* to come to an end: a consumer group on one partition with a poison and an  *)
(* undecodable message, a graph batcher, a run of the agent graph and a       *)
(* worker that is asked to stop.  Each behaviour is one of `part`.            *)
EXTENDS EventConsumer, WriteBatcher, AgentGraph, WorkerLifecycle, TLC

CONSTANTS c1, c2, p1, h1

MCPoison  == {<<p1, 0>>}
MCGarbled == {<<p1, 2>>}

Node(i, t, n) == [kind |-> "node", id |-> i, at |-> t, signals |-> n]
Edge(a, b) == [kind |-> "edge", symmetric |-> TRUE, from |-> a, to |-> b,
               since |-> 1, until |-> 0, evidence |-> 1]
MCBacklog == (1 :> <<Node(1, 1, 1), Node(2, 2, 1), Edge(2, 1)>>) @@ (2 :> <<Edge(1, 9)>>)

\* A small and a large plan; a Critic that accepts, or asks for a rewrite.
MCPlans == {[size |-> 1, fresh |-> TRUE], [size |-> 9, fresh |-> FALSE]}

MCRevise(n, h) == [verdict |-> "revise", unresolved |-> n, sha256 |-> h, target |-> "insight"]

MCCritiques ==
    {[verdict |-> "accept", unresolved |-> 0, sha256 |-> NoHash, target |-> "none"],
     MCRevise(1, NoHash), MCRevise(2, h1)}

VARIABLE part

drainingVars == <<part, vars, batcherVars, graphVars, workerVars>>

DrainingInit ==
    /\ part \in {"consumer", "batcher", "graph", "worker"}
    /\ Init /\ BatcherInit /\ GraphInit /\ WorkerInit
    /\ part # "batcher" => sink
    /\ part # "worker" => kind = "periodic"

DrainingNext ==
    \/ part = "consumer" /\ Next /\ UNCHANGED <<part, batcherVars, graphVars, workerVars>>
    \/ part = "batcher" /\ BatcherNext /\ UNCHANGED <<part, vars, graphVars, workerVars>>
    \/ part = "graph" /\ GraphNext /\ UNCHANGED <<part, vars, batcherVars, workerVars>>
    \/ part = "worker" /\ WorkerNext /\ UNCHANGED <<part, vars, batcherVars, graphVars>>

\* The fairness of each component, while it is the one that moves.
ConsumerFairness ==
    /\ WF_vars(part = "consumer" /\ Rebalance /\ UNCHANGED rebalances)
    /\ \A c \in Consumers : /\ WF_vars(part = "consumer" /\ Start(c))
                            /\ WF_vars(part = "consumer" /\ Work(c))
                            /\ SF_vars(part = "consumer" /\ Park(c))
                            /\ SF_vars(part = "consumer" /\ CommitOk(c))
BatcherFairness == WF_batcherVars(part = "batcher" /\ BatcherProgress)
GraphFairness   == WF_graphVars(part = "graph" /\ Step)
WorkerFairness  ==
    /\ WF_workerVars(part = "worker" /\ RunNext) /\ WF_workerVars(part = "worker" /\ NapEnds)
    /\ WF_workerVars(part = "worker" /\ Leave)
    /\ WF_workerVars(part = "worker" /\ CollectorWakes)
    /\ WF_workerVars(part = "worker" /\ WorkerTick)

DrainingSpec ==
    /\ DrainingInit /\ [][DrainingNext]_drainingVars
    /\ ConsumerFairness /\ BatcherFairness /\ GraphFairness /\ WorkerFairness

\* EventConsumer, _park: a poison message does not stop the partition; see
\* EndReached.
PartitionsEnd == part = "consumer" => EndReached

\* wrap_node, Route: every run of the graph comes to rest; see Terminates.
RunsEnd == part = "graph" => Terminates

\* Every part keeps the types of its state.
DrainingTypeOK == TypeOK /\ BatcherTypeOK /\ GraphTypeOK /\ WorkerTypeOK
=============================================================================
