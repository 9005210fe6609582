-------------------------- MODULE DeploymentProofs --------------------------
(***************************************************************************)
(* Theorems about Deployment, for every set of nodes, tokens and requests, *)
(* and any number of announcements and restarts.                           *)
(***************************************************************************)
EXTENDS Deployment, TLAPS

(* What a configuration, and what is made of it, is built from.            *)
Circuit    == [name : CircuitNames, type : Operations \cup {""}, usesNullifiers : BOOLEAN]
CircuitMap == UNION {[ops -> Circuit] : ops \in SUBSET Operations}
Stamped(circuits) ==
    \A op \in DOMAIN circuits : circuits[op].type = op /\ circuits[op].usesNullifiers
Data == [tokenName : TokenNames \cup {""}, circuits : [Operations -> Circuit] \cup {None}]

(* The implementations a node has configured from some file.               *)
IsConfigured(implementations) ==
    /\ DOMAIN implementations \subseteq TokenNames
    /\ \A tokenName \in DOMAIN implementations :
          implementations[tokenName] \in CircuitMap /\ Stamped(implementations[tokenName])

(* What a deployment brings to the chain.                                  *)
IsComplete(config, tokenName) ==
    /\ config.tokenName = tokenName
    /\ DOMAIN config.circuits = Operations
    /\ Stamped(config.circuits)

FileInv == file \in [Nodes -> Files]

DomainInv ==
    /\ DOMAIN domain = Nodes
    /\ \A n \in Nodes :
        \/ domain[n] = Down
        \/ \E phase \in {"configured", "ready"}, implementations \in {domain[n].implementations} :
              /\ domain[n] = [phase |-> phase, implementations |-> implementations]
              /\ IsConfigured(implementations)

DeployInv ==
    /\ deploy \in [Deployments ->
            [phase : {"new", "requested", "prepared", "failed", "mined"}, node : Nodes \cup {None},
             tokenName : TokenNames \cup {None}, data : Data]]
    /\ \A d \in Deployments :
        /\ deploy[d].phase = "requested" => deploy[d].tokenName \in TokenNames
        /\ deploy[d].phase \in {"prepared", "mined"}
                => IsComplete(deploy[d].data, deploy[d].tokenName)

Announcement == [from : Deployments \cup {Stranger}, data : Data]

RegistryInv ==
    /\ registry \in Seq(Announcement)
    /\ \A i \in DOMAIN registry : registry[i].from # Stranger =>
        /\ deploy[registry[i].from].phase = "mined"
        /\ IsComplete(registry[i].data, deploy[registry[i].from].tokenName)

(* A node that has read any announcement has stored the first.             *)
NodeInv ==
    /\ indexed \in [Nodes -> Nat]
    /\ stored \in [Nodes -> Data \cup {None}]
    /\ \A n \in Nodes :
        /\ indexed[n] <= Len(registry)
        /\ indexed[n] = 0 => stored[n] = None
        /\ indexed[n] # 0 => stored[n] = registry[1].data
    /\ DOMAIN instance = Nodes
    /\ \A n \in Nodes :
        \/ instance[n] = None
        \/ stored[n] # None /\ instance[n] = DecodeDomainConfig(stored[n])

IndInv == FileInv /\ DomainInv /\ DeployInv /\ RegistryInv /\ NodeInv

-----------------------------------------------------------------------------
LEMMA GarbageIsData == Garbage \in Data
    BY DEF Garbage, Data

(* A configuration made from circuits of all operations.                   *)
LEMMA DomainInstanceConfigIsData ==
    ASSUME NEW tokenName \in TokenNames, NEW circuits \in CircuitMap, Encodable(circuits)
    PROVE  /\ DomainInstanceConfig(tokenName, circuits) \in Data
           /\ Stamped(circuits) => IsComplete(DomainInstanceConfig(tokenName, circuits), tokenName)
<1>1. circuits \in [Operations -> Circuit]
    BY DEF CircuitMap, Encodable
<1> QED
    BY <1>1 DEF DomainInstanceConfig, Data, IsComplete, Stamped

LEMMA FileCircuitsAreMaps == FileCircuits \subseteq CircuitMap
<1> SUFFICES ASSUME NEW ops \in SUBSET Operations, NEW name \in CircuitNames
             PROVE  CircuitsFor(ops, name) \in CircuitMap
    BY DEF FileCircuits
<1> QED
    BY DEF CircuitsFor, CircuitMap, Circuit

(* Circuits.Init on each implementation of a file.                         *)
LEMMA StampConfigures ==
    ASSUME NEW f \in Files
    PROVE  IsConfigured([tokenName \in DOMAIN f |-> Stamp(f[tokenName])])
<1>1. PICK tokens \in SUBSET TokenNames : f \in [tokens -> FileCircuits]
    BY DEF Files
<1>2. ASSUME NEW circuits \in CircuitMap
      PROVE  Stamp(circuits) \in CircuitMap /\ Stamped(Stamp(circuits))
    <2>1. PICK ops \in SUBSET Operations : circuits \in [ops -> Circuit]
        BY DEF CircuitMap
    <2> DEFINE stamped(op) == [circuits[op] EXCEPT !.type = op, !.usesNullifiers = TRUE]
    <2>2. ASSUME NEW op \in ops
          PROVE  stamped(op) \in Circuit /\ stamped(op).type = op /\ stamped(op).usesNullifiers
        BY <2>1 DEF Circuit
    <2>3. Stamp(circuits) = [op \in ops |-> stamped(op)]
        BY <2>1 DEF Stamp
    <2> HIDE DEF stamped
    <2> QED
        BY <2>2, <2>3 DEF CircuitMap, Stamped
<1> QED
    BY <1>1, <1>2, FileCircuitsAreMaps DEF IsConfigured

-----------------------------------------------------------------------------
LEMMA InitEstablishesInvariant == Init => IndInv
<1> SUFFICES ASSUME Init PROVE IndInv
    OBVIOUS
<1>1. FileInv /\ DomainInv
    BY DEF Init, FileInv, DomainInv
<1>2. DeployInv
    BY GarbageIsData DEF Init, DeployInv
<1>3. RegistryInv /\ NodeInv
    BY DEF Init, RegistryInv, NodeInv
<1> QED
    BY <1>1, <1>2, <1>3 DEF IndInv

(* Steps of a node that configures its domain from its file.               *)
LEMMA ConfigurationKeepsInvariant ==
    ASSUME IndInv, NEW n \in Nodes, ConfigureDomain(n) \/ InitDomain(n) PROVE IndInv'
<1> DEFINE implementations == [tokenName \in DOMAIN file[n] |-> Stamp(file[n][tokenName])]
<1>1. DomainInv'
    <2>1. CASE ConfigureDomain(n)
        <3>1. IsConfigured(implementations)
            BY StampConfigures DEF IndInv, FileInv
        <3>2. domain' = [domain EXCEPT ![n] = [phase |-> "configured",
                                               implementations |-> implementations]]
            BY <2>1 DEF ConfigureDomain
        <3> HIDE DEF implementations
        <3> QED
            BY <3>1, <3>2 DEF IndInv, DomainInv
    <2>2. CASE InitDomain(n)
        BY <2>2 DEF InitDomain, IndInv, DomainInv, Down
    <2> QED
        BY <2>1, <2>2
<1>2. UNCHANGED <<file, deploy, registry, indexed, stored, instance>>
    BY DEF ConfigureDomain, InitDomain
<1> QED
    BY <1>1, <1>2 DEF IndInv, FileInv, DeployInv, RegistryInv, NodeInv

LEMMA RequestKeepsInvariant ==
    ASSUME IndInv, NEW n \in Nodes, NEW d \in Deployments, InitDeploy(n, d) PROVE IndInv'
<1>1. PICK tokenName \in TokenNames :
        deploy' = [deploy EXCEPT ![d] = [phase |-> "requested", node |-> n,
                                         tokenName |-> tokenName, data |-> Garbage]]
    BY DEF InitDeploy
<1>2. UNCHANGED <<file, domain, registry, indexed, stored, instance>> /\ deploy[d].phase = "new"
    BY DEF InitDeploy
<1>3. DeployInv'
    BY <1>1, GarbageIsData DEF IndInv, DeployInv
<1>4. RegistryInv'
    BY <1>1, <1>2 DEF IndInv, RegistryInv, DeployInv
<1> QED
    BY <1>2, <1>3, <1>4 DEF IndInv, FileInv, DomainInv, NodeInv

(* Whatever a node prepares is complete; it knows no other circuits.       *)
LEMMA PrepareKeepsInvariant ==
    ASSUME IndInv, NEW n \in Nodes, NEW d \in Deployments, PrepareDeploy(n, d) PROVE IndInv'
<1> DEFINE tokenName == deploy[d].tokenName
           circuits  == GetCircuits(domain[n].implementations, tokenName)
           config    == DomainInstanceConfig(tokenName, circuits)
<1>1. /\ deploy[d].phase = "requested"
      /\ UNCHANGED <<file, domain, registry, indexed, stored, instance>>
      /\ \/ Encodable(circuits)
               /\ deploy' = [deploy EXCEPT ![d].phase = "prepared", ![d].data = config]
         \/ deploy' = [deploy EXCEPT ![d].phase = "failed"]
    BY DEF PrepareDeploy
<1>2. tokenName \in TokenNames
    BY <1>1 DEF IndInv, DeployInv
<1>3. CASE /\ Encodable(circuits)
           /\ deploy' = [deploy EXCEPT ![d].phase = "prepared", ![d].data = config]
    <2>1. circuits \in CircuitMap /\ Stamped(circuits)
        <3>1. circuits # None
            BY <1>3 DEF Encodable, None, Operations
        <3>2. IsConfigured(domain[n].implementations)
            BY DEF IndInv, DomainInv, Down, PrepareDeploy
        <3> QED
            BY <3>1, <3>2 DEF GetCircuits, IsConfigured
    <2> HIDE DEF circuits
    <2>2. config \in Data /\ IsComplete(config, tokenName)
        BY <1>2, <1>3, <2>1, DomainInstanceConfigIsData
    <2> HIDE DEF config, tokenName
    <2>3. DeployInv'
        BY <1>3, <2>2 DEF IndInv, DeployInv, tokenName
    <2>4. \A e \in Deployments : deploy'[e].tokenName = deploy[e].tokenName
                /\ (deploy[e].phase = "mined" => deploy'[e].phase = "mined")
        BY <1>1, <1>3 DEF IndInv, DeployInv
    <2>5. RegistryInv'
        <3>1. \A i \in DOMAIN registry : registry[i] \in Announcement
            BY DEF IndInv, RegistryInv
        <3> QED
            BY <1>1, <2>4, <3>1 DEF IndInv, RegistryInv, Announcement
    <2> QED
        BY <1>1, <2>3, <2>5 DEF IndInv, FileInv, DomainInv, NodeInv
<1>4. CASE deploy' = [deploy EXCEPT ![d].phase = "failed"]
    <2>1. DeployInv' /\ RegistryInv'
        BY <1>1, <1>4 DEF IndInv, RegistryInv, DeployInv
    <2> QED
        BY <1>1, <2>1 DEF IndInv, FileInv, DomainInv, NodeInv
<1> HIDE DEF circuits, config, tokenName
<1> QED
    BY <1>1, <1>3, <1>4

(* An announcement comes behind those that were made.                      *)
LEMMA AnnouncementKeepsRegistry ==
    ASSUME RegistryInv, NodeInv, NEW from \in Deployments \cup {Stranger}, NEW data \in Data,
           Announce(from, data),
           \A d \in Deployments : deploy'[d].tokenName = deploy[d].tokenName
                /\ (deploy[d].phase = "mined" => deploy'[d].phase = "mined"),
           from # Stranger => deploy'[from].phase = "mined"
                                /\ IsComplete(data, deploy'[from].tokenName),
           UNCHANGED <<indexed, stored, instance>>
    PROVE  RegistryInv' /\ NodeInv'
<1>1. /\ registry' \in Seq(Announcement)
      /\ Len(registry') = Len(registry) + 1 /\ Len(registry) \in Nat
      /\ \A i \in 1 .. Len(registry) : registry'[i] = registry[i]
      /\ registry'[Len(registry) + 1] = [from |-> from, data |-> data]
    <2>1. [from |-> from, data |-> data] \in Announcement
        BY DEF Announcement
    <2> QED
        BY <2>1 DEF Announce, RegistryInv
<1>2. ASSUME NEW i \in DOMAIN registry', registry'[i].from # Stranger
      PROVE  /\ deploy'[registry'[i].from].phase = "mined"
             /\ IsComplete(registry'[i].data, deploy'[registry'[i].from].tokenName)
    <2>1. CASE i \in 1 .. Len(registry)
        <3>1. registry'[i] = registry[i] /\ i \in DOMAIN registry
            BY <1>1, <2>1 DEF RegistryInv
        <3>2. registry[i] \in Announcement
            BY <3>1 DEF RegistryInv
        <3>3. registry[i].from \in Deployments
            BY <1>2, <3>1, <3>2 DEF Announcement
        <3> QED
            BY <1>2, <3>1, <3>3 DEF RegistryInv
    <2>2. CASE i = Len(registry) + 1
        BY <1>1, <1>2, <2>2
    <2> QED
        BY <1>1, <2>1, <2>2
<1>3. RegistryInv'
    BY <1>1, <1>2 DEF RegistryInv
<1>4. \A n \in Nodes : indexed[n] # 0 => registry'[1] = registry[1]
    BY <1>1 DEF NodeInv
<1>5. NodeInv'
    BY <1>1, <1>4 DEF NodeInv
<1> QED
    BY <1>3, <1>5

LEMMA MineKeepsInvariant ==
    ASSUME IndInv, NEW d \in Deployments, MineDeploy(d) PROVE IndInv'
<1>1. /\ deploy[d].phase = "prepared" /\ deploy' = [deploy EXCEPT ![d].phase = "mined"]
      /\ Announce(d, deploy[d].data) /\ UNCHANGED <<file, domain, indexed, stored, instance>>
    BY DEF MineDeploy
<1>2. DeployInv'
    BY <1>1 DEF IndInv, DeployInv
<1>3. /\ deploy[d].data \in Data /\ IsComplete(deploy[d].data, deploy[d].tokenName)
      /\ deploy'[d].phase = "mined"
      /\ \A e \in Deployments : deploy'[e].tokenName = deploy[e].tokenName
            /\ (deploy[e].phase = "mined" => deploy'[e].phase = "mined")
    BY <1>1 DEF IndInv, DeployInv
<1>4. RegistryInv' /\ NodeInv'
    BY <1>1, <1>3, AnnouncementKeepsRegistry DEF IndInv
<1> QED
    BY <1>1, <1>2, <1>4 DEF IndInv, FileInv, DomainInv

LEMMA StrangerKeepsInvariant == ASSUME IndInv, StrangerDeploys PROVE IndInv'
<1>1. PICK data \in {Garbage} \cup
            {DomainInstanceConfig(tokenName, circuits) :
                tokenName \in TokenNames, circuits \in {c \in FileCircuits : Encodable(c)}} :
          Announce(Stranger, data)
    BY DEF StrangerDeploys
<1>2. UNCHANGED <<file, domain, deploy, indexed, stored, instance>>
    BY DEF StrangerDeploys
<1>3. data \in Data
    BY <1>1, GarbageIsData, DomainInstanceConfigIsData, FileCircuitsAreMaps
<1>4. RegistryInv' /\ NodeInv'
    BY <1>1, <1>2, <1>3, AnnouncementKeepsRegistry DEF IndInv
<1> QED
    BY <1>2, <1>4 DEF IndInv, FileInv, DomainInv, DeployInv

(* The first announcement a node reads is the first there is.              *)
LEMMA IndexKeepsInvariant ==
    ASSUME IndInv, NEW n \in Nodes, IndexRegistration(n) PROVE IndInv'
<1>1. /\ indexed[n] < Len(registry) /\ indexed' = [indexed EXCEPT ![n] = @ + 1]
      /\ stored' = IF indexed[n] = 0 THEN [stored EXCEPT ![n] = registry[1].data] ELSE stored
      /\ UNCHANGED <<file, domain, deploy, registry, instance>>
    BY DEF IndexRegistration
<1>2. Len(registry) \in Nat /\ indexed[n] \in Nat
    BY DEF IndInv, RegistryInv, NodeInv
<1>3. registry[1].data \in Data
    <2>1. 1 \in DOMAIN registry
        BY <1>1, <1>2 DEF IndInv, RegistryInv
    <2>2. registry[1] \in Announcement
        BY <2>1 DEF IndInv, RegistryInv
    <2> QED
        BY <2>2 DEF Announcement
<1>4. \A m \in Nodes \ {n} : indexed'[m] = indexed[m] /\ stored'[m] = stored[m]
    BY <1>1 DEF IndInv, NodeInv
<1>5. indexed'[n] = indexed[n] + 1 /\ stored'[n] = registry[1].data
    BY <1>1, <1>2 DEF IndInv, NodeInv
<1>6. indexed' \in [Nodes -> Nat] /\ stored' \in [Nodes -> Data \cup {None}]
    BY <1>1, <1>2, <1>3 DEF IndInv, NodeInv
<1>7. instance[n] # None => stored'[n] = stored[n]
    BY <1>5 DEF IndInv, NodeInv
<1>8. NodeInv'
    BY <1>1, <1>2, <1>4, <1>5, <1>6, <1>7 DEF IndInv, NodeInv
<1> QED
    BY <1>1, <1>8 DEF IndInv, FileInv, DomainInv, DeployInv, RegistryInv

LEMMA InstanceKeepsInvariant ==
    ASSUME IndInv, NEW n \in Nodes, InitContract(n) PROVE IndInv'
    BY DEF InitContract, IndInv, FileInv, DomainInv, DeployInv, RegistryInv, NodeInv

LEMMA RestartKeepsInvariant == ASSUME IndInv, NEW n \in Nodes, Restart(n) PROVE IndInv'
<1>1. /\ file' \in [Nodes -> Files]
      /\ domain' = [domain EXCEPT ![n] = Down] /\ instance' = [instance EXCEPT ![n] = None]
      /\ UNCHANGED <<deploy, registry, indexed, stored>>
    BY DEF Restart, IndInv, FileInv
<1>2. FileInv' /\ DomainInv'
    BY <1>1 DEF IndInv, FileInv, DomainInv
<1>3. NodeInv'
    BY <1>1 DEF IndInv, NodeInv
<1> QED
    BY <1>1, <1>2, <1>3 DEF IndInv, DeployInv, RegistryInv

LEMMA NextKeepsInvariant == IndInv /\ [Next]_vars => IndInv'
<1> SUFFICES ASSUME IndInv, [Next]_vars PROVE IndInv'
    OBVIOUS
<1>1. CASE UNCHANGED vars
    BY <1>1 DEF vars, IndInv, FileInv, DomainInv, DeployInv, RegistryInv, NodeInv
<1> QED
    BY <1>1, ConfigurationKeepsInvariant, RequestKeepsInvariant, PrepareKeepsInvariant,
       MineKeepsInvariant, StrangerKeepsInvariant, IndexKeepsInvariant, InstanceKeepsInvariant,
       RestartKeepsInvariant DEF Next

(* Whatever the files of the nodes say, however often they restart and     *)
(* whoever calls the factory, all of them run what it announced first.     *)
THEOREM InstanceTheorem == Spec => []InstanceIsFromTheChain
<1>1. IndInv => InstanceIsFromTheChain
    <2> SUFFICES ASSUME IndInv, NEW n \in Nodes, instance[n] # None
                 PROVE  Len(registry) > 0 /\ instance[n] = DecodeDomainConfig(registry[1].data)
        BY DEF InstanceIsFromTheChain
    <2>1. stored[n] # None /\ instance[n] = DecodeDomainConfig(stored[n])
        BY DEF IndInv, NodeInv
    <2>2. stored[n] = registry[1].data /\ Len(registry) > 0
        BY <2>1 DEF IndInv, NodeInv, RegistryInv
    <2> QED
        BY <2>1, <2>2
<1> QED
    BY <1>1, InitEstablishesInvariant, NextKeepsInvariant, PTL DEF Spec

(* No file, whatever it leaves out, makes a node deploy an instance with   *)
(* missing or untyped circuits.                                            *)
THEOREM CompleteCircuitsTheorem == Spec => []DeployedCircuitsAreComplete
<1>1. IndInv => DeployedCircuitsAreComplete
    BY DEF IndInv, RegistryInv, IsComplete, Stamped, DeployedCircuitsAreComplete
<1> QED
    BY <1>1, InitEstablishesInvariant, NextKeepsInvariant, PTL DEF Spec

=============================================================================
