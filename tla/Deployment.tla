----------------------------- MODULE Deployment -----------------------------
(***************************************************************************)
(* The life of a domain instance (railgun.go 99-233, pkg/types/config.go): *)
(* each node configures its domain from a file of its own, one of them     *)
(* prepares a deployment, the factory contract announces it, and every     *)
(* node makes its instance from the announcement.  Files differ between    *)
(* nodes and change when a node restarts; anyone may call the factory.     *)
(***************************************************************************)
EXTENDS Naturals, Sequences

CONSTANTS
    Nodes, TokenNames, CircuitNames,
    Deployments,        \* the deployment requests
    Stranger,           \* a caller of the factory that is no node
    MaxRegistrations,   \* bound: announcements of the factory
    MaxRestarts         \* bound: restarts of each node

VARIABLES
    file,       \* the configuration file of each node
    domain,     \* its domain plugin: phase and the implementations it configured
    deploy,     \* the deployment requests
    registry,   \* the announcements of the factory
    indexed,    \* the announcements each node has read
    stored,     \* the contract configuration each node keeps for the wallet
    instance,   \* the instance each node runs
    restarts

vars == <<file, domain, deploy, registry, indexed, stored, instance, restarts>>

-----------------------------------------------------------------------------
(* Configurations *)

Operations == {"shield", "unshield", "transfer"}

(* The circuits of an implementation, by operation; a file may forget one  *)
(* and leaves the type and the use of nullifiers to the domain.            *)
CircuitsFor(ops, name) == [op \in ops |-> [name |-> name, type |-> "", usesNullifiers |-> FALSE]]
FileCircuits ==
    {CircuitsFor(ops, name) :
        ops \in {Operations, Operations \ {"unshield"}}, name \in CircuitNames}
Files == UNION {[tokens -> FileCircuits] : tokens \in SUBSET TokenNames}

(* Bug, as all operators named X_Y: Circuits.Init is not called.           *)
Stamp_Skipped(circuits) == circuits

(* Circuits.Init.                                                          *)
Stamp(circuits) ==
    [op \in DOMAIN circuits |->
        [circuits[op] EXCEPT !.type = op, !.usesNullifiers = TRUE]]

None == <<>>    \* a nil map of circuits, no instance, nothing stored
Garbage == [tokenName |-> "", circuits |-> None]    \* bytes that do not decode

(* A name nobody configured has no circuits, and that is no error.         *)
GetCircuits(implementations, tokenName) ==
    IF tokenName \in DOMAIN implementations THEN implementations[tokenName] ELSE None

(* The ABI tuple has exactly one component per operation.                  *)
Encodable(circuits) == Operations \subseteq DOMAIN circuits
DomainInstanceConfig(tokenName, circuits) ==
    [tokenName |-> tokenName, circuits |-> [op \in Operations |-> circuits[op]]]

DecodeDomainConfig(config) == [valid |-> config # Garbage, config |-> config]

-----------------------------------------------------------------------------
(* A node *)

Down == [phase |-> "down", implementations |-> None]

ConfigureDomain(n) ==
    /\ domain[n].phase = "down"
    /\ domain' = [domain EXCEPT ![n] =
                    [phase |-> "configured",
                     implementations |->
                        [tokenName \in DOMAIN file[n] |-> Stamp(file[n][tokenName])]]]
    /\ UNCHANGED <<file, deploy, registry, indexed, stored, instance, restarts>>

InitDomain(n) ==
    /\ domain[n].phase = "configured"
    /\ domain' = [domain EXCEPT ![n].phase = "ready"]
    /\ UNCHANGED <<file, deploy, registry, indexed, stored, instance, restarts>>

(* A client asks the node for an instance; only the JSON is looked at.     *)
InitDeploy(n, d) ==
    /\ domain[n].phase = "ready"
    /\ deploy[d].phase = "new"
    /\ \E tokenName \in TokenNames :
          deploy' = [deploy EXCEPT ![d] = [phase |-> "requested", node |-> n,
                                           tokenName |-> tokenName, data |-> Garbage]]
    /\ UNCHANGED <<file, domain, registry, indexed, stored, instance, restarts>>

PrepareDeploy(n, d) ==
    LET tokenName == deploy[d].tokenName
        circuits == GetCircuits(domain[n].implementations, tokenName)
    IN  /\ domain[n].phase = "ready"
        /\ deploy[d].phase = "requested" /\ deploy[d].node = n
        /\ \/ /\ Encodable(circuits)
              /\ deploy' = [deploy EXCEPT
                    ![d].phase = "prepared",
                    ![d].data = DomainInstanceConfig(tokenName, circuits)]
           \/ /\ ~Encodable(circuits)
              /\ deploy' = [deploy EXCEPT ![d].phase = "failed"]
        /\ UNCHANGED <<file, domain, registry, indexed, stored, instance, restarts>>

(* The factory announces the one wallet it was made for, and whatever      *)
(* configuration the caller gives it.                                      *)
Announce(from, data) ==
    /\ Len(registry) < MaxRegistrations
    /\ registry' = Append(registry, [from |-> from, data |-> data])

MineDeploy(d) ==
    /\ deploy[d].phase = "prepared"
    /\ Announce(d, deploy[d].data)
    /\ deploy' = [deploy EXCEPT ![d].phase = "mined"]
    /\ UNCHANGED <<file, domain, indexed, stored, instance, restarts>>

StrangerDeploys ==
    /\ \E data \in {Garbage} \cup
            {DomainInstanceConfig(tokenName, circuits) :
                tokenName \in TokenNames, circuits \in {c \in FileCircuits : Encodable(c)}} :
          Announce(Stranger, data)
    /\ UNCHANGED <<file, domain, deploy, indexed, stored, instance, restarts>>

(* The node keeps the first configuration announced for an address.        *)
IndexRegistration(n) ==
    /\ indexed[n] < Len(registry)
    /\ indexed' = [indexed EXCEPT ![n] = @ + 1]
    /\ stored' = IF indexed[n] = 0
                 THEN [stored EXCEPT ![n] = registry[1].data]
                 ELSE stored
    /\ UNCHANGED <<file, domain, deploy, registry, instance, restarts>>

(* Bug: the domain answers with its own circuits for the announced token.  *)
InitContract_OwnCircuits(n) ==
    LET own == GetCircuits(domain[n].implementations, stored[n].tokenName)
    IN  /\ domain[n].phase = "ready"
        /\ stored[n] # None /\ instance[n] = None
        /\ instance' = [instance EXCEPT ![n] = DecodeDomainConfig(
                IF Encodable(own) THEN DomainInstanceConfig(stored[n].tokenName, own)
                ELSE stored[n])]
        /\ UNCHANGED <<file, domain, deploy, registry, indexed, stored, restarts>>

(* The node asks the domain whether it runs the contract it has stored.    *)
InitContract(n) ==
    /\ domain[n].phase = "ready"
    /\ stored[n] # None /\ instance[n] = None
    /\ instance' = [instance EXCEPT ![n] = DecodeDomainConfig(stored[n])]
    /\ UNCHANGED <<file, domain, deploy, registry, indexed, stored, restarts>>

(* What the node keeps in memory is lost; its file may have been edited.   *)
Restart(n) ==
    /\ restarts[n] < MaxRestarts
    /\ restarts' = [restarts EXCEPT ![n] = @ + 1]
    /\ \E edited \in Files : file' = [file EXCEPT ![n] = edited]
    /\ domain' = [domain EXCEPT ![n] = Down]
    /\ instance' = [instance EXCEPT ![n] = None]
    /\ UNCHANGED <<deploy, registry, indexed, stored>>

Init ==
    /\ file \in [Nodes -> Files]
    /\ domain = [n \in Nodes |-> Down]
    /\ deploy = [d \in Deployments |-> [phase |-> "new", node |-> None,
                                        tokenName |-> None, data |-> Garbage]]
    /\ registry = <<>>
    /\ indexed = [n \in Nodes |-> 0]
    /\ stored = [n \in Nodes |-> None]
    /\ instance = [n \in Nodes |-> None]
    /\ restarts = [n \in Nodes |-> 0]

Next ==
    \/ \E n \in Nodes :
          \/ ConfigureDomain(n)
          \/ InitDomain(n)
          \/ \E d \in Deployments : InitDeploy(n, d) \/ PrepareDeploy(n, d)
          \/ IndexRegistration(n)
          \/ InitContract(n)
          \/ Restart(n)
    \/ \E d \in Deployments : MineDeploy(d)
    \/ StrangerDeploys

Spec == Init /\ [][Next]_vars

-----------------------------------------------------------------------------
(* Properties *)

(* Every node can rebuild the instance from the blockchain alone           *)
(* (config.go 60-62): whatever the nodes' files say, and however often     *)
(* they restart, any two of them that run the instance run the same one,   *)
(* and it is the one the factory announced first.                          *)
InstanceIsFromTheChain ==
    \A n \in Nodes :
        instance[n] # None =>
            Len(registry) > 0 /\ instance[n] = DecodeDomainConfig(registry[1].data)

(* The circuits of an instance that a node deployed are complete, each     *)
(* typed with its operation and using nullifiers, although no file says so *)
(* (Circuits.Init, GetCircuits: a name that is not configured, or not      *)
(* completely, never reaches the chain).                                   *)
DeployedCircuitsAreComplete ==
    \A i \in DOMAIN registry :
        registry[i].from # Stranger =>
            LET config == registry[i].data
            IN  /\ config.tokenName = deploy[registry[i].from].tokenName
                /\ DOMAIN config.circuits = Operations
                /\ \A op \in Operations :
                      /\ config.circuits[op].type = op
                      /\ config.circuits[op].usesNullifiers

=============================================================================
