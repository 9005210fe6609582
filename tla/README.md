# Railgun domain: specifications, checks and proofs

This directory holds TLA+ specifications of the Railgun domain for Paladin
(`src/domain-impl`), the TLC configurations that check them on small instances,
and the theorems about them that TLAPS checks for every value of their constants.
`PROJECT.json` lists, by machine, the components, the runs, the source lines of
every definition, the mutants, the hazards and the theorems.

The domain is a plug-in of a Paladin node. A node stores private states (the
notes), runs transactions through the domain's `Assemble`, `Sign` and `Prepare`
and hands it the events of the one public contract, the `RailgunSmartWallet`.
A note is in the contract only as a commitment, a leaf of a Merkle tree; spending
it publishes a nullifier, made from the owner's key and the position of the leaf.

## Inventory

| part of the code | state | operations | modules |
| --- | --- | --- | --- |
| **Event indexer**: `handler_events.go`, `railgun.go` 291-322, `events*.go` | none of its own; the node stores what it answers: confirmed notes, tree leaves, spends, completions | `HandleEventBatch`: correlation pass, then one handler per event | `RailgunEvents`, `EventIndexer`, `LedgerReplica`, `DomainLemmas`, `EventIndexerProofs` |
| **Commitment tree**: `states.go` 180-231, `railgunnote/merkle.go` | leaves of a sparse tree, rebuilt for each transaction | `loadTree`, `Insert`, `Root`, `Proof` | `CommitmentTree`, `AssemblyQueries`, `MerkleTree`, `DomainLemmas`, `MerkleTreeProofs` |
| **Note selection**: `states.go` 122-172, 237-264 | a page cursor, the notes taken, their sum | `prepareInputsForTransfer`, `getAccountBalance` | `NoteSelection`, `AssemblyQueries`, `DomainLemmas`, `AssemblyQueriesProofs`, `Requests`, `PaymentPathProofs` |
| **Handlers**: `handler_shield.go`, `handler_transfer.go`, `handler_unshield.go` | none; the node keeps what was assembled | `ValidateParams`, `Init`, `Assemble`, `Prepare` | `PrivateTransactions`, `PrivateTransactionsProofs`, `Requests`, `PaymentPath`, `PaymentPathProofs` |
| **Proving**: `proving.go`, `witness.go`, `railguntx/` | the payload that is passed on | `GenerateTransactionProof`, `BuildWitness`, `BoundParamsHash`, `BuildTransact` | `PrivateTransactions`, `PaymentPath` |
| **Note ciphertexts**: `railguncrypto/` | none | blinding, key agreement, AES | `NoteCiphertexts`, `PaymentPathProofs` |
| **Prover**: `railgunprover/prover.go` | mutex, caches of calculators and keys | `load`, `Prove` | `ProverCache`, `ProverCacheProofs` |
| **Addresses**: `railgunnote/address.go` | none | encode, decode | `AddressCodec`, `Requests`, `PaymentPathProofs` |
| **Receipts**: `receipts.go` | none | `BuildReceipt` | `Receipts`, `PaymentPath`, `PaymentPathProofs` |
| **Entry points**: `railgun.go` 239-285, 328-350, 431-569, `fungible/base.go` | none | `InitTransaction`, `AssembleTransaction`, `PrepareTransaction`, `InitCall`, `ExecCall`, `GetVerifier`: validation and dispatch | `Requests`, `PaymentPath`, `PaymentPathProofs` |
| **Domain lifecycle**: `railgun.go` 99-233, `pkg/types/config.go`, `RailgunFactory.sol` | the configuration of the node, the instances | `ConfigureDomain`, `InitDomain`, `InitDeploy`, `PrepareDeploy`, `InitContract` | `Deployment`, `DeploymentProofs` |
| **State validation**: `railgun.go` 382-424 | none | `ValidateStateHashes` | `PaymentPath`, `PaymentPathProofs` |
| key derivation, ABI and message texts | none | | not modelled |

How they interact: `Assemble` of a transfer queries the node's store twice, once
for the inputs (`prepareInputsForTransfer`) and once for the tree (`loadTree`). It
predicts the positions of the new notes from the end of that tree and asks the
sender to sign; the signer makes the ciphertexts, hashes the bound parameters,
builds the witness and proves. The node submits, distributes the notes, and later
receives the events; the handlers turn them into state updates, which the queries of
the next `Assemble` see. Nothing but the node's locks and the contract's checks
coordinate two transactions.

What is hard in it:

- **Stale predictions.** A note's nullifier depends on the position its leaf *will*
  have. Anything that is inserted in between makes the prediction wrong.
- **Batches.** The Paladin transaction id is carried by one event of an on-chain
  transaction and needed for the others; batches end anywhere, are delivered again
  after a failure, and one event can fail a batch.
- **Two views of one store.** Inputs and tree are read by separate queries, each page by
  page, while notes and leaves arrive, some of them at one time.
- **Ways to a payee.** A payee is a party of the network, its address, or an outside
  wallet's; a note reaches it by mail and confirmation, or by its ciphertext, or not at all.
- **Retries.** A revert is always called retryable.
- **Concurrent proofs** through one cache.

## Modules

Names follow the source. An operator named `X_Y` is a mutant: what `X` would be with
the bug `Y`; nothing uses it but the mutation runs.

- **`RailgunEvents`**: the events as records and the handlers as operators from an
  event to the update they append to the response. `HandleEventBatch(batch)` is the whole function:
  correlation by transaction hash, then every event, and `failed` if any handler
  returned an error. An event is `ok`, `malformed` (does not unmarshal: logged and dropped) or
  `unhashable` (a shield preimage Poseidon rejects: an error).
- **`RailgunContract`** *(external)*: which events `shield` and `transact` emit and where
  leaves go. The contract's source is not in the repository; this is what the
  event structures, the ABI and the integration tests rely on.
- **`CommitmentTree`**: `LoadTree` of a set of leaf states: sorted by index, the
  contiguous ones from zero. Several leaves of one index stop it at the second.
- **`EventIndexer`** composes the three: a contract on which anybody acts, one
  node that takes batches of any cut (`DeliverBatch`), drops a failed one, and after a `Restart`
  continues from the position it saved. `cursor` is what the event stream will deliver
  next and `indexed` what was ever stored, so that redelivery is `cursor < indexed`.
- **`LedgerReplica`**: what the indexer promises, without batches, redelivery or
  correlation: the state of a node is the effect of a growing prefix of the events.
  `EventIndexer` is checked to implement it under a refinement mapping (`ViewIsReplica`).
- **`NoteSelection`**: the selection as one function of the available notes, for the modules
  that take it in one step.
- **`AssemblyQueries`**: the two queries of an assembly as the loops they are, one after the
  other. `QueryNotes` reads a page behind the last creation time, `TakeNote` is one turn of the
  loop over it, `QueryLeaves` one page of `loadTree`; between any two of them the store changes
  (`StoreStep`: a note is created, a leaf is indexed and may confirm a note, a note is spent).
  Creation times never go back and may be equal: that decides what a page boundary skips. Notes
  have a token, which no query asks for.
- **`PrivateTransactions`**: the life of transactions on several nodes. `PrepareInputs`
  and `BuildTransaction` are the two halves of `Assemble` around its two queries,
  `AssembleShield` the one of a shield; `Sign` is the proof, possible only if the
  witness satisfies the circuit (`Provable`); `Dispatch` submits and mails the notes; `Mine` is accepted by the
  contract's checks only; `BaseLedgerRevert` leads back to assembly; `DeliverBatch` is that of
  `RailgunEvents`; `ForeignShield` is any other wallet. `Discipline` says what may overlap:
  `concurrent` everything, `sequential` nothing is inserted between an assembly and its
  confirmation, `settled` moreover the sender's node has stored all events.
- **`MerkleTree`**: the sparse tree of `merkle.go` over a free hash. It justifies the
  abstraction of the module above, in which the root of a tree *is* the tree and a proof
  is the leaf's being at its position: a root is that of one filling of the complete tree
  (`RootIsCompleteTree`) and a path leads to the root only from the leaf that is there (`ProvesExactlyTheLeafThere`).
  Its loops are recursive functions, and so are the powers of two, because the provers can reason about those.
- **`AddressCodec`**: both directions of the "0zk" address as operators. A byte has `ByteBits` bits, and key
  and chain id have few bytes, so that small numbers reach the ends of the fields: ids that do
  not fit, the sentinel of all chains, leading zeros. A text may be written in every wrong way too. Powers, shifts,
  digits and the exclusive or are recursive functions, because the provers can reason about those.
- **`Requests`**: a request from the client who writes it, through the entry points, to the
  assembled outputs or the answer to a call. Every entry point validates anew (`Enter`);
  `InitTransaction` and `InitCall` name the parties to resolve, the node resolves them or not, and the
  handlers of the four functions go on with what `GetVerifier` answered.
- **`NoteCiphertexts`**: the ciphertext of a note. The curve is a free algebra: a
  point is the bag of scalars the base point was multiplied by, so that multiplication
  commutes and nothing else is equal. A wallet decrypts when it derives the same key.
- **`Receipts`**: what a receipt makes of spent and confirmed states, which come in no order: a total is the sum in
  some order (`TotalOf`), and that it does not depend on which is part of the proof.
- **`PaymentPath`** composes these four with `RailgunContract` and `RailgunEvents`: the request of
  `Requests` becomes a payload with placeholder ciphertexts (`BuildProvingPayload`); `Sign` is
  the loop of `encryptOutputCiphertext`, the hash and the proof; `PrepareTransaction`, `Mine`, `HandleEvents` lead
  to the events and to what they confirm. Meanwhile parties receive their notes and validate them
  (`ReceiveNote`), wallets scan, and at the end `BuildReceipt` reads the transaction's states.
- **`ProverCache`**: calls of `Prove` step by step through the mutex, the caches and
  the files, which may be incomplete. The calculator of go-rapidsnark keeps its inputs in
  WASM memory, hence the two steps `SetInputs` and `ComputeWitness` of what is one call here.
- **`Deployment`**: nodes with files of their own, deployments, the factory, restarts.
- **`MC*`**: constants for TLC that a `.cfg` cannot write.

## Runs

A run that passes checks properties we hold the code to. A run that ends in a
violation checks a statement of the repository's own docs, comments or messages, and shows
that the code does otherwise; `PROJECT.json` quotes the statement under `findings`.

| run | what it shows | bounds |
| --- | --- | --- |
| `EventIndexer` | the loaded tree is the contract's, completions follow effects, nothing is attributed to another transaction, every mined transaction completes, and the view refines `LedgerReplica` | 2 ids and foreign wallets, 3 commitments in trees of 2 leaves (so the second tree is reached), batches of up to 3 events (a whole unshield, or a cut through it), unhashable events, 1 restart |
| `SplitBatch` ✗ | spends lose their transaction when a batch ends inside one | 1 id, 2 commitments |
| `Settled` | on nodes that have indexed everything: predicted positions hold, everything assembled is provable, spends and balances are right, owners are reached and requests answered | shield, transfer with change and an external payee, unshield by the payee; 2 nodes, 2 attempts, 1 foreign shield |
| `Concurrent` | what is submitted is accepted though nodes lag and transactions overlap | 4 transactions of 2 nodes and a foreign shield; batches of 2 |
| `Sequential` ✗ | sequential execution is not enough for the predicted index: two notes share a nullifier, and both count as spent | two shields to one owner, one unshield |
| `AssemblyQueries` | the loop selects what one look at the store would but for ties, covers, takes nothing twice, skips only what ties, ends; the tree is one the contract had and has every input | pages of 2 notes and of 2 leaves, up to 3 inputs, 3 notes and 3 leaves with all creation times: full, partial and empty pages, ties within a page and across its end, both reverts |
| `TwoTokens` ✗ | a transfer of one token is assembled from a note of another | 2 tokens, 2 notes |
| `MerkleTree` | the sparse root is the complete tree's, a path proves the leaf that is there and no other | depth 3 (15 nodes), all its fillings |
| `PaymentPath` | recipients and nobody else find and read their notes, parties are given theirs under ids the events confirm, the receipt tells the payments, proof before ciphertext never happens, ids reach the events; addresses, circuit range and balances are right at their edges | every request of one or two payments (and some of three) to a party, a stranger, two wallets, an upper-case text, over up to 3 notes; every address and every text of keys and chain ids of 2 bytes of 2 bits; every way a request may be wrong, at both entry points |
| `ProverCache` | the cache is right, the mutex is given back, every call ends | 3 calls, 2 circuits |
| `SharedCalculator` ✗ | two proofs of one circuit share its calculator | 3 calls, 2 circuits |
| `Deployment` | instances come from the chain alone, with complete circuits | 2 nodes, 2 deployments, a stranger, 1 restart per node |

Why the bounds are enough: each hazard has a shortest history (a batch cut needs one
transaction of three events; a collision two assemblies against one tree; a rollover one leaf
more than a tree has; a page boundary one note more than a page) and every bound
allows that history and one more actor or step. For the mutants of `PROJECT.json`, the same bounds
find the bug.

`CHECK_DEADLOCK FALSE` is in every configuration: all of these systems come to rest, when
the events are indexed, the calls have ended or a bound is reached.

**Fairness.** `EventIndexer`: weak fairness of delivery; the node's event stream
retries until a batch is stored. `MinedCompletes` excepts a log with an unhashable event,
which blocks the stream for good. `Settled`: weak fairness of each step of a transaction, of mining, of
each node's deliveries and of the node-to-node transport, which are the queues Paladin
works off; not of reverts, other wallets or restarts. `AssemblyQueries`: of the selection, which is a loop in one
goroutine; the store need not change. `ProverCache`: of each call; a goroutine runs, and Go's mutex
starves nobody. Nobody is forced to install a circuit.

**Met while modelling, and left without a run.** Each of these follows from a line or two of the
code and needs no exploration:

- After the contract's tree is full, the tree that `loadTree` rebuilds is none of the contract's:
  the handlers never read the event's tree number (`handler_events.go` 69, 87) and `loadTree` stops at
  the second leaf of a position, while `src/README.md` 52 speaks of rebuilding the on-chain tree.
  `LoadedTreeIsContractTree` is stated up to the rollover.
- The selection takes the oldest notes and gives up after `MAX_INPUT_COUNT` (`states.go` 167). Whole
  unshields leave change notes of value zero, which come first; a transfer that one later note would pay
  for is then answered with "Need more than maximum (%d) notes" (`en_errors.go` 69).
- The balance adds up the notes of all tokens (`states.go` 237-264), as the selection takes them (run `TwoTokens`).
- With equal creation times a page boundary skips notes, and leaves (`states.go` 141, 187): a transfer may be
  refused though the account has the funds, and a tree may end before leaves that are stored. The run
  `AssemblyQueries` shows how far that goes: what is skipped ties, and the tree is still one the contract has had.
- A note that comes without id is given one without leading zeros (`railgun.go` 415), under which no event would confirm
  it. No handler makes such a note.
- When a batch ends between the `Nullified` and the `Transact` event, the receipt of the transaction names
  nobody as payer, and the sender's change as a payment: the spends are in nobody's name.
- The chain of the highest type and id is written as the all-chains sentinel and read back as nil (`address.go` 160-187).
- `OneTextPerAddress` needs the test for lower case (`address.go` 140): `DecodeRailgunAddress` itself reads an upper-case text.
- `validateValueParam` (`base.go` 77) looks at the sign of a value only; its comment speaks of the circuit's range.
- For a function of the interface that an entry point does not handle, the test for a nil handler
  (`railgun.go` 499) reflects on a nil interface.

## Proofs

Seven parts have theorems: the indexer, the private transactions, the queries, the tree, the payment path, the prover and
deployments: every safety property a passing run checks is a theorem. What their proofs share is in `DomainLemmas`: the laws of the running sums the selection and the balance
are made of, what `ElementsAt` keeps of a sequence, when two sequences have the same sum because their elements match one to one, what a call appends to log
and tree, what the two folds of `HandleEventBatch` compute, and what `LoadTree` makes of a set of leaves.

`EventIndexerProofs` proves for every set of transactions, commitments and nullifiers,
every tree capacity, batch size, number of restarts and length of the log:

- `TypeCorrect`: `Spec => []TypeOK`.
- `CompletionTheorem`: `Spec => []CompletionFollowsEffects`. A transaction that is complete
  has all its commitments confirmed and all its nullifiers stored, wherever batches are cut.
- `LoadedTreeTheorem`: `Spec => []LoadedTreeIsContractTree`. What `loadTree` makes of the stored leaves is the
  contract's first tree, up to the last event stored.

All three follow from one inductive invariant, `IndInv`, of three parts.
`ChainInv` is about the contract's events: the leaves of any prefix of the log fill the tree from
the left, the event with an id is the last one of its on-chain transaction, and no two events have
one id. `NodeInv` is about the node: its leaf states are exactly the leaves of the first `indexed` events,
these events' commitments are confirmed and their nullifiers spent, and what is complete has its
id in one of them. `CompletionFollowsEffects` alone is not inductive: one must know that
all events of a transaction precede the one that completes it. `LoadedTreeIsContractTree` is not either:
it does not say which leaves are missing. The lemmas are about the two folds the code
consists of (`CorrelationComesFromTheHash`, `HandleEventBatchFacts`), about what a call appends
to log and tree (`LeavesOfLongerLog`, `FirstLeavesOfLongerTree`), and one per kind of step
(`CallKeepsInvariant`, `DeliveryKeepsInvariant`).

The second half of the module goes on from there, for the same constants:

- `AttributionTheorem`: `Spec => []NeverAttributedToAnother`.
- `RefinementTheorem`: `Spec => ViewIsReplica`. The indexer implements `LedgerReplica` under the refinement
  mapping: a call of the contract is a `Publish`, a batch that reaches further than any before is a `Learn`,
  and failed batches, redelivery and restarts are stuttering steps.

`IndInv` says that what was indexed has arrived; these two need the converse, that nothing else has. `OriginInv` gives every
confirmed or spent state an event among the first `indexed` ones, and its transaction one of the same hash.
`OnceInv` makes that event unique: no commitment and no nullifier is in two events, and the event with an id,
a foreign one too, is the last of its on-chain transaction. The step that could fail is redelivery in other batches,
where one more event of a hash might give it another id, or complete what was not (`BatchOrigins`, `CorrelationFindsTheTag`).

`PrivateTransactionsProofs` proves all seven invariants of `PrivateTransactions`, for every set of parties, any
requests with any number of payees, every limit, and any number of attempts and of other wallets'
commitments. The runs have 3 or 4 transactions of 2 nodes. For every discipline:

- `TypeCorrect`, `AcceptedTheorem` (`SubmittedIsAccepted`), `LoadedRootTheorem` (`LoadedRootIsKnown`).

`SubmittedIsAccepted` speaks of the moment of submission and is far from inductive. `IndInv` has
`ChainInv` (the leaves of any beginning of the log are a tree whose root the contract still accepts; a published
nullifier is that of a mined transaction), `NodeInv` (a node has the effects of the events up to its cursor, and nothing
else), `TxInv` (the root of what was assembled is one of the contract's, and a signed transaction's inputs are under it)
and `Exclusive` (no note is an input of two transactions). The argument is that of the last: a note is locked from its selection until
the node has the completion, and the completion comes with an event that follows those of the nullifiers, so that a note
never becomes available between the two, however far the node is behind.

For the discipline `settled`:

- `LeafIndexTheorem` (`LeafIndexIsPosition`), `ProvableTheorem` (`AssembledIsProvable`), `SpentTheorem` (`SpentIffNullified`),
  `BalanceTheorem` (`BalanceIsHoldings`).

`settled` is a hypothesis about scheduling that nothing in the code enforces; the run `Sequential` shows what happens
without it, and the runs and the theorems say what it buys. `SettledInv`: whoever is in flight is alone and was assembled on
the contract's tree (`Alone`); the positions it predicted are the next ones and become those of its notes when it is mined
(`Predicted`); what goes out is what came in (`Balanced`); a leaf with a Paladin random is an output of a mined transaction
(`OwnLeaves`), and a note on a node or on its way to one is an output of its transaction as that is, or of an earlier attempt (`OwnNotes`). The balance needs more
(`HandInv`): a note is in one place only, on a node or in the mail (`Once`), the outputs of a submitted transaction have been handed to their
owners (`Handed`), and leaves without a Paladin random are of other wallets (`OtherLeaves`). A lemma on matching sums then equates the unspent leaves of a party with
its available notes, in whatever order either came.

`AssemblyQueriesProofs` proves, for every page size and limit, any number of notes and leaves and
any creation times:

- `TypeCorrect`, and `NoNoteTwiceTheorem` (`NoNoteTwice`).
- `OnlyTiesTheorem` (`OnlyTiesAreSkipped`): whoever is refused had nothing left but what ties.
- `CoverageTheorem` (`CoversAndNoMore`): what is taken covers the amount, and would not without the last note.
- `PagesTheorem` (`PagesDoNotMatter`): without ties and on a store at rest, the loop over pages selects what one look at
  the whole store would, or refuses with the same answer.
- `TreeTheorem` (`TreeIsWhatWasStored`) and `InputsTheorem` (`InputsAreInTheTree`).

The inductive invariant follows a note and a leaf through the loops. `PickedInv` and `PageInv`: what was
taken is no younger than the cursor, what is left of the page no older and in order, so that a page can have nothing that
was taken. `SkipInv`: a note that neither was taken nor ties is on the page or behind all that was asked for.
`LeafInv`: without ties, the leaves collected are exactly those up to the cursor; a leaf that arrives
meanwhile is younger. `StoreInv` is what the node guarantees: times in order, and a leaf for every confirmed
note. `LoadTreeOfLeaves` is the lemma about the tree: of any set of leaves `loadTree` returns the longest
beginning of the tree that is among them.

Two parts are about the sums. `SumInv`: the code's `sum` is that of the notes taken, and no shorter beginning of them covered the
amount. `OrderInv`: the notes taken are the first of the available ones, with nothing available between them. A sum over the notes
taken is then one over the first available notes (`PickedComeFirst`), which is where the selection in one step stops too.

`MerkleTreeProofs` proves, for every depth, any commitments and any number of leaves there is room for:

- `SparseRootTheorem` (`RootIsCompleteTree`): the root of the sparse map, with its zero values and its fallback for
  an empty tree, is that of the complete tree.
- `PositionTheorem` (`ProvesExactlyTheLeafThere`): a path of the tree leads to its root from the leaf at that position and
  from no other.
- `RootsTellTreesApart`: trees with the same root have the same leaves. This is what entitles the other modules to take the leaves for
  the root; it needs that the zero value is no commitment.

The recursions of the module are shown to define functions first (`ZerosRecursion` and its like); the induction over
levels is done by hand, with the least level at which a statement fails. `NodeIsHashOfChildren` is the main lemma: at
every level, and across the edge of the sparse map, a node is the hash of its children. `PathStaysRight`
follows a path from the leaf upwards.

`PaymentPathProofs` proves all nine invariants of the run `PaymentPath`, for bytes of any number of bits, keys and chain ids of
any number of bytes, any mask, any parties and wallets, any circuit range and limits, and every request with any number of
payments over any notes:

- about requests, `OneText` (`OneTextPerAddress`), `TransfersFit` (`TransferFitsTheCircuit`), `BalanceWhole`
  (`BalanceIsWholeUnlessFlagged`);
- about the way to the payees, `ProvedIsSubmitted` (`SubmittedAsProved`), `OwnersReadAlone` (`OnlyTheOwnerReads`), `NotesAreFound`
  (`WalletsFindTheirNotes`), `EventsAreFound` (`EventsCarryTheTransaction`), `NotesAreGiven` (`PartiesAreGivenTheirNotes`);
- about the end of it, `ReceiptIsRight` (`ReceiptTellsWhatWasPaid`).

Each of these looks at one stage of the path and at things decided in others: whose a note is was written by the client, read by the
domain, encrypted by the signer and scanned in an event. The inductive invariant (`PathInvariant`) therefore says of every
record what it was made from: the request is what the client asked, with the wallets' addresses written out (`RequestWritten`); the
verifiers are the addresses of the parties in it (`PartiesResolved`); inputs are the sender's, and the outputs are one payment
each and the change (`OutputsMade`); the ciphertexts up to the next are those of the outputs, the rest blank, and what was
hashed is all of them (`CiphertextsMade`); events, update, notes given and receipt are what the contract, the indexer, the gate
and `BuildReceipt` make of these (`EventsEmitted`, `UpdateIndexed`, `NotesGiven`, `ReceiptMade`). TLC found it true in every state of
the run before it was proved. What is not obvious from there:

- *Addresses.* Digits and numbers determine each other (`NumberFromItsDigits`, `DigitsFromTheirNumber`), the exclusive or undoes
  itself (`XorTwice`), and only the last chain has the sentinel's bytes (`AllBytesHighest`); so `AddressIsRead` and `TextIsWritten`: decoding
  and encoding are inverse on addresses that can be written and on texts that are accepted.
- *Ciphertexts.* `DecryptsFacts`: a wallet opens a ciphertext exactly if it is the one it was encrypted to, because the
  product of three scalars is the same bag only for the same scalars (`ThreeScalars`). Which wallet that is goes back to what
  the client meant (`PaysWhoWasMeant`).
- *Range.* The values of a transfer are positive and their sum is in range, so each is; the change is smaller than the last note
  taken, because the selection stops at the first sum that covers (`SelectionFits`).
- *Events.* A batch that is one call is correlated whole (`CallHandled`, `HandledFacts`): the tag of the one event with an id reaches
  the spends before it and the unshields after it.
- *Receipts.* The total of a set of states does not depend on the order (`TotalOfStates`), distinct outputs are distinct states
  (`StatesDiffer`), and inputs less change are what was asked (`TransferIsCovered`, `PaidIsWorth`).

`ProverCacheProofs` proves, for every number of calls and circuits, `TypeCorrect` (with the mutex), `OneCalculatorTheorem`
(`OneCalculatorPerCircuit`) and `LoadedIsCompleteTheorem` (`LoadedIsComplete`). Neither property is
inductive: one needs that a call that found the cache empty finds it empty until it fills it (`EmptyInv`),
which holds because the mutex is held exactly within `load` (part of `TypeOK`), and that what
is cached is complete (`CacheInv`). `BuildKeepsInvariant` is the step where the mutex matters.

`DeploymentProofs` proves, for every set of nodes, files, requests and announcements,
`InstanceTheorem` (`InstanceIsFromTheChain`) and `CompleteCircuitsTheorem`
(`DeployedCircuitsAreComplete`). Its invariant says that a node has stored the first
announcement as soon as it has read any (`NodeInv`), that the implementations a node
configured are stamped whatever its file (`DomainInv`), and that what is prepared or announced is
complete (`DeployInv`, `RegistryInv`).

The assumptions are those the modules name: `EventIndexerAssumption`, `PrivateTransactionsAssumption`, `AssemblyQueriesAssumption`,
`MerkleTreeAssumption`, `ProverCacheAssumption`, `AddressCodecAssumption`, `RequestsAssumption` and `PaymentPathAssumption`; the
proofs about deployments need none. They say that limits and widths are positive, that tags, parties
and the zero value are told apart from what they mark the absence of, that no two parties have one key and a party's key and the
domain's chain id have room in an address, that notes there are fit the circuit, and what a request may look like.

Left to TLC: the liveness properties (`MinedCompletes`, `OwnersAreReached`, `RequestsAreAnswered`, `SelectionEnds`, `CallsEnd`), which are out of the
provers' reach, and the four runs that end in a violation.

## What is taken for granted

- **The Paladin node.** A note is available when it was received, is confirmed, is not locked and its
  nullifier is not recorded; locks last until the node has the completion. The updates of
  a batch are stored together with the position, a failed batch leaves nothing, and a batch
  may begin and end anywhere. Creation times never go back. The first
  registration of a contract address is kept.
- **The contract.** The order of its events, one call per on-chain transaction, positions
  from left to right, a new tree when one is full; it accepts any root it has had and a
  nullifier once. Note commitments are unique, for their randoms are.
- **The circuits** accept a witness when the inputs are under the root at their positions,
  belong to the signer and the sums agree. **Cryptography** is free: hashes collide only on equal inputs.
- **States given to `BuildReceipt`** are those recorded in the transaction's name.

Not modelled: key derivation (`identity.go`, a pure function of a seed), the ABI and calldata encodings
and the bech32 checksum (other libraries' work, or layout), the ciphertext of a shield (which the shield handler
leaves empty), `EndorseTransaction` (no attestation plan of the domain asks for it), ERC-721 tokens, privacy groups (not
supported by the domain), wording and logging.

## Plan

Done: the event indexer, private transactions, the two queries of an assembly, the tree, the way of a payment from the
client to its payees with addresses, requests, ciphertexts, state validation and receipts, the prover, deployment; theorems
about all of them, among them the refinement of the indexer. What could follow:

1. The tree with rollover composed into `PrivateTransactions`.
2. Bounded queries of `PrivateTransactions` refined to the loops of `AssemblyQueries`.
