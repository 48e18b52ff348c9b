# A verification of the bitcoin terminal exchange

This directory holds TLA+ models of the control logic of the bitcoin terminal exchange (BTX),
TLC configurations that check them on small instances, and theorems about them that the TLA+
proof system (TLAPS) checks for every value of their constants.

`PROJECT.json` lists, machine-readably, the components, the runs, the source lines behind every
definition, the hazards the properties are for, and the theorems.

## The system

BTX lets a Bitcoin wallet announce an open order as an artifact on the chain, lets anyone fill
it with a signature that the maker has published, and lets anyone rebuild the order book from
the chain. One user runs all of it on one machine:

```
  window (Tauri)          browser (btx-web, btx_*.html)
      | commands, close        | HTTP
      v                        v
  supervisor.rs  --starts-->  btxd.py  --runs-->  btx_wallet.py, btx_envelope_publish.py, ...
      | starts, signals, probes    |  reads book       |  bitcoin-cli
      v                            v                   v
  bitcoind, brk, ord          indexer (btx_index)   bitcoind: wallet, mempool, chain
                                   | event stream
                                   v
                              btx_light_client.py
```

### Inventory

| Part | Source | State | Operations | What is hard | Modelled in |
|---|---|---|---|---|---|
| Desktop supervisor | `app/src/supervisor.rs`, `lib.rs` | per daemon: `state`, `stopping`, `consecutive_failures`; `shutting_down`; the processes | `start_all`, `start_one`, `stop_all`, `stop_one`, `restart_one`, health watcher, wedge detector, close handler, IPC commands | every await is a preemption point; several callers of the same operation; a watcher that outlives what it watches; two close requests | `Supervisor`, `DaemonLifecycle` |
| Order-book indexer | `btx_index.rs` | the orders, keyed by offer | `on_new_order`, `on_spend`, `expire`, `revert_to`, `validate`, `index_block` | reorganisations; an offer announced twice, or before it exists; a UTXO set read at the tip while an older block is indexed | `OrderBook` |
| Book commitments, independent scan | `btx_orderbook.py`, `btx.py book scan` | none | Merkle root and proofs, event stream and cumulative hash, book hash, price-time book, scan | computed from records that later blocks rewrite; odd levels of the tree; two readers that must agree | `Commitments`, `BookViews` |
| Event-stream light client | `btx_light_client.py` | the checkpoint file | `follow`, `verify_stream`, `check_against_checkpoint` | two requests per poll; an indexer that lies, an honest one that is reorganised | `LightClient` |
| Trading orchestrator and wallet tools | `btxd.py`, `btx_wallet.py`, `btx_envelope_publish.py` | `_WALLET_LOCK`, the recovery file; in Core: coins, locked coins, mempool | create an order (OP_RETURN or envelope carrier), fill, send, cancel, `relock_open_offers` | concurrent requests; failures between two calls; tools that outlive btxd; locks lost with the node; takers and cancels that race | `Trading`, `OfferLedger` |
| Runes | `btx_runes.py`, `btx_runes_decode.py`, `btx_rune_swap.py` | none | runestone coding, allocation of units to outputs, swap builders and verifiers | cenotaphs, leftover units, widths of integers; the maker must count as ord does | `Runestone` |
| Etching | `btx_etch.py` | a state file | commit, wait for maturity, reveal, retry | interruption between commit and reveal; reorganisations; attempts side by side | `Etch`, `Runestone` |
| Addressed swaps, batch fill | `btx_wallet.py`, `btxd.py` | PSBTs, mempool | propose, countersign, their rune forms, batch-fill | two parties; late, repeated and altered PSBTs; an ord that lags | `Swap` |
| Pool ceremony | `btx_pool_*.py`, `btx_musig2_bip327_protocol.py` | per member: pool, message, secret nonce | setup, two rounds, check, exclusion | nonces of dead sessions, lost answers, members that misbehave, positions in lists | `Ceremony` |
| Signatures | `btx_musig2*.py`, `btx_frost*.py`, `btx_adaptor.py`, `btx_dlc_*.py`, `btx_s2c*.py`, `btx_halfagg.py`, `btx_dleq.py` | none | sign, aggregate, pre-sign, attest, complete, commit, prove | a negation to an even y in each construction | `Signatures` |
| Codecs and order tools | `btx.py`, `btx_0b.py`, `btx_carrier.py`, `btx_envelope_publish.py`, `btx_artifact_v2_demo.py`, `btx_trades.py` | none | artifacts, carriers, extraction, lots, the commands around an order, trade history | a reader must find exactly what a writer wrote | `Codec`, `OrderTools` |
| Wire formats | `btx_bip322.py`, `btx_taproot.py`, `btx_descriptor.py` | none | sizes, transactions, base58, bech32, descriptors, PSBT fields | boundaries of widths, checksums, padding | `Wire` |
| Attestations | `btx_attest.py`, `btx_bip322.py`, `btxd.py` | none | sign and verify, BIP341 sighash | two front ends with checks of their own | `Attestation` |
| Web front end | `btx-web/src` | React state | connect, fill, publish, select | closures over stale state across awaits | no |
| Installer | `app/src/install.rs` | a marker file | copy the bundle | | no |
| Test harnesses, static pages, scripts | `btx_verify_check`, `xtest_*`, `*.html`, `*.sh` | | | | no |

How they interact: the supervisor only starts, probes and signals processes. btxd runs each
wallet tool as a subprocess under one lock and reads the book from the indexer. The tools and
btxd share the wallet of Bitcoin Core, and they share it with a cancel that the user runs from
the command line without that lock. The chain is the only channel between makers, takers, the
indexer and the light client.

What makes each part correct: a daemon is started by one task at a time, watched once, never
left in a transient state, and the user's own node is never signalled; the book is a function of
the active chain, an open order can be filled, and every reader of the chain sees the same open
orders; a light client's checkpoints extend each other; offers are not spent as funding, requests
do not take each other's coins and no key that holds money is lost; an etch mints what its owner
asked for; a swap that confirms gives both sides what they agreed on; what is published under a
pool's key was signed by the whole pool; what one tool writes or signs, the others read or accept,
and nothing else. Where the code falls short of this, the properties name the exception, and the section on
disagreements has the counterexample.

## The modules

| Module | Models |
|---|---|
| `Supervisor` | `supervisor.rs` and the handlers of `lib.rs`, one action per lock acquisition, signal, spawn or probe |
| `DaemonLifecycle` | the abstract specification: the life of a daemon as the `State` enum documents it |
| `MCSupervisor`, `SupervisorProofs` | instances; theorems, the refinement of `DaemonLifecycle` among them |
| `OrderBook` | `btx_index.rs` on a chain that is reorganised |
| `Commitments` | `btx_orderbook.py`: hashes, Merkle tree, event stream, price-time book, as operators |
| `BookViews`, `MCOrderBook` | `OrderBook` with `Commitments`: the stream it serves, and `btx.py book scan`; instances |
| `OrderBookProofs` | theorems about the book, its projection, the scan and the stream, over `BookViews`; about Merkle roots and proofs |
| `LightClient`, `LightClientProofs` | `btx_light_client.py` against two kinds of indexer; theorems |
| `Trading` | `btxd.py` with the tools it runs, and a concurrent cancel |
| `OfferLedger` | the abstract specification: a coin that is offered is not paid away |
| `TradingProofs` | theorems about `Trading`, the refinement of `OfferLedger` among them |
| `Etch`, `EtchProofs` | `btx_etch.py` and its regtest handler on a chain; theorems, with those about names of `Runestone` |
| `Runestone` | runestones, allocation, rune names, builders and verifiers of swaps, as operators |
| `Swap`, `MCSwap`, `SwapProofs` | two takers and a maker over `Runestone`; instances; theorems |
| `Ceremony`, `CeremonyProofs` | the coordinator and the members of a pool; theorems |
| `Signatures`, `Attestation`, `MCSignatures` | Schnorr constructions over a small group; BIP341 and BIP322 on top of them; their inputs and properties |
| `SignatureProofs` | theorems about both, for any group, hash, key and nonce |
| `Codec`, `OrderTools` | artifacts and their carriers over `Runestone`; the commands around an order over `Codec` |
| `Wire` | formats of bytes: sizes, transactions, base58, bech32, descriptors, PSBT fields |
| `MCEncodings` | inputs and properties of `OrderTools`, `Commitments` and `Wire` |

How they compose. `BookViews` extends `OrderBook` and `Commitments`: it shows that the stream of an
indexer that is extended and reverted has the form that `LightClient` assumes of an honest one.
`Swap` moves PSBTs between parties; the transactions in them, the checks and what ord does with
them are those of `Runestone`. `Codec` and `OrderTools` build orders with the runestones of
`Runestone`. `Attestation` signs with `Signatures`; it takes an address with a
spoilt checksum to be recognised, which `Wire` shows of the real polynomials. `Supervisor` instantiates
`DaemonLifecycle` `WITH` its own daemons, states and failure counts, `Trading` instantiates `OfferLedger` `WITH`
its history of lost reservations (`loose <- exposed`) and whether a tool runs without its btxd (`orphaned <- Orphans`).

Definitions named `..._M`, or `...Never`, `...Anyway`, `...Holding` and the like, under a comment that
starts with "Mutant", are plausible bugs. Each property is shown to fail when one of them replaces
the definition it stands above; they are used nowhere else.

### Supervisor

A *task* is an asynchronous call: `start_all` (Main), one `stop_all` for each close event
(Closers), the commands of the page and restarts by the wedge detector (Users), and the watchers.
Its record holds where it is, on which daemon, and who called it. The actions of a task are the
stretches of Rust between two awaits; a lock is never held across an await in this code.

- `start_one`: `StartOneCheck` (shutting down?), `StartOneClaim` (the locked block that leaves
  early for Running, Starting and external daemons, else sets Starting), `PreKill`, `Spawn` or
  `SpawnFails`, `ReadyProbe` or `ReadyTimeout`, `MarkRunning` (which spawns a watcher).
- `stop_one`: `StopOneClaim`, `Terminate`, `GraceEnds`, `Kill`, `MarkStopped`.
- watcher: `WatchPoll` (reads `stopping` and `state` under the lock), `WatchProbe` (the port,
  without the lock), `WatchMark`, `WatchBury`, `WatchBackoff` (which goes on to `start_one`).
- `restart_one`: stop, `RestartReset`, start. Close handler: `CloseRequested`, `stop_all`, `Destroy`.
- The processes (`PortOpens`, `BootFails`, `DaemonCrashes`, `DaemonExits`) are external.

What is abstracted: durations (a timeout may fire at any time), `topo_order` (the constant
`Order`), the wedge detector's arithmetic (any daemon that runs may be found wedged), logs.
`failures` saturates one above `MaxFailures`: the code only compares it with that.

### OrderBook

`chain` is the active chain, `indexed` the height the book includes, `valid` how much of what is
indexed is still on the chain. `Mine` and `Reorg` are the environment: a block creates offers, holds
announcements and spends offers, and an offer may be announced before a block creates it, or without one that ever
does. `IndexBlock` is `index_block` with its order (artifacts, spends, expiry), `RevertTo` is `revert_to`, which
comes before the next `IndexBlock` once something indexed left the chain. `get_utxo` answers for the *tip*, as the
node does, and finds no output that is spent or absent there. An artifact is an offer, its terms and its expiry; the
signature check is membership in `Authentic`; a spend is what it pays and whether it uses a published signature of
the maker.

Two history variables name the offers of which the book may differ from the chain. `disturbed`: announced again, or
rejected because the tip had spent the output already, which the announcing block had not. `early`: admitted because
the tip had the output already, which a block after the announcement creates.

### LightClient

A poll is two steps because `follow` makes two requests, with the indexer free to move in between
and between polls. `honest` chooses, once, an indexer that serves what its chain determines or
one that serves anything: any blocks in any order, a spoilt cumulative hash at any place, any
final hash. The hash is taken to be free of collisions: the cumulative hash *is* the sequence of
what was folded. `moved`, `forked` and `witness` are history variables for the properties.

### Trading

A coin is spent by nobody, by the wallet (`fund`), by a taker's `fill`, or by a `cancel`, and that
is confirmed or not. `locked` is Core's in-memory set. `req` are POST requests: they wait for
`_WALLET_LOCK`, then make one call of `bitcoin-cli` per action:

| Request | Calls |
|---|---|
| order create, envelope | `LockOffer`, `Sign`, `Commit`, `Persist`, `Reveal` |
| order create, OP_RETURN | `LockOffer`, `Sign`, `Select`, `Broadcast` |
| order fill | `Select`, `Broadcast` |
| wallet send | `Send` |

`Fails` lets any of them fail. The lock may fail too, and the tool goes on, as the code does.
`CancelCheck`, `CancelUnlock`, `CancelFund`, `CancelSend` are `cmd_cancel`, outside the lock.
`TakerFills`, `ConfirmSpend`, `ConfirmOrder` and `NodeRestarts` are the environment. `BtxdDies` stops
btxd anywhere; a tool it runs is a process of its own and may run on without the lock
(an *orphan*), next to the requests of the btxd that `BtxdStarts` starts again. `exposed` is a history
variable: the coins whose lock failed, was released by a cancel or was lost with the node.

Not in it: reorganisations, change outputs (they are unconfirmed, and a payment always finds a coin
or fails), and etches, swaps and batch fills as competitors for the lock.

### BookViews and Commitments

`Commitments` has the canonical line of an order, the order of lines, the flat hash, the Merkle levels with
a lone last node carried up, proofs and their verification, the events of a record (which
carry its terms, not the status that later blocks rewrite: `Norm`) and their fold, and the price-time book. A hash is the term that was hashed. `BookViews` applies the stream to the
records of `OrderBook`, and adds `Scan`, which keeps the first announcement of an offer, decides expiry by
itself and never looks whether the offer exists. `ScanAgrees` compares the offers that the blocks announce once, with
an authentic artifact: what the book has Open is Open in the scan, and the converse for offers that are not `disturbed`
and existed when they were announced.

### Etch

Heights are distances: the depth of the commit and of the reveal, and the blocks until the name unlocks (a name stays
unlocked: `NamesStayUnlocked`).
`Preflight`, `ScanCoins`, `SendCommit`, `LocateCommit`, `SaveState`, `Announce`, `MineMaturity` and `Poll` are
`cmd_etch`; `StartReveal`, `RevealAddress`, `SendReveal` and `MineReveal` are `_do_reveal` for it and for
`etch-reveal`, which may be run again and beside an earlier one. The flags (`--wait`, `--state-file`, `--ord-url`,
`--premine-addr`, the regtest one-shot) are chosen at the start. `Die` stops a command anywhere, faults fail any call,
`Reorg` disconnects the tip. `ScanCoins` is best-effort, as the code is: the list, a query or a lock may fail, each failure
is swallowed, and the coin stays unlocked. History variables: `cuts`, a reorganisation after the last depth check; `known`,
whether the preflight had a height; `missed`, the coins the scan learnt nothing of (no ord, or a list or query that
failed); `stuck`, those ord reported and that were not locked; `fresh`, those received between the scan and the commit.

### Runestone, Codec, OrderTools, Wire, Commitments as functions

These modules have no actions: the code has no state there. `MCEncodings` makes each initial state one input to one family
of operators, and each invariant says what must hold of the result. Widths are constants: a varint digit has 2 bits,
u128 has 5, a byte of the wire has 3, names have 3 letters, so that all values around each boundary occur. The generator polynomials of bech32
and of descriptor checksums are the real ones. Operators that must agree were written from different
files: the allocator (`btx_rune_swap.py`), ord's rule (external), the minimal indexer (`btx_runes.py`), the decoder
(`btx_runes_decode.py`) and the encoders (`btx_runes.py`, `btx_etch.py`).

### Swap

A PSBT, once made, can be countersigned at any time, again, or after another one. `Propose` and `Countersign` are the
handlers with the tools they run, in both forms; `BatchFill` sweeps one or two open orders. `ProposeOther` makes
PSBTs that differ from the deal in price, recipient or runestone. `indexed` is what ord has seen, `synced` whether it is
within the margin that `ord_synced` accepts; `Confirm`, `SpendElsewhere`, `OrdIndexes` and `OrdCatchesUp` are the environment. A
coin may carry a stray unit of another rune.

### Ceremony

The coordinator goes through `setup`, `round1_nonce` and `round2_partial` member by member, and `verify_all_partials`;
it may die, ask again for an answer that was lost, or mix up nonces of an older session (`Mixed`). Members that may
misbehave return garbage or sign something else. A refused partial signature excludes the member at its
position from the next session, as the fail-stop demonstration does.

### Signatures and Attestation

A point of the curve is its discrete logarithm modulo `Q`; `Even` is any choice of one point of each pair, standing for the
even y; `hash` is one member of a family of functions, chosen in the initial state. Signing, aggregation, FROST
shares and their interpolation, pre-signatures, oracles, nonce commitments and proofs are computed in that group as in the code's.
`Attestation` adds the BIP341 message field by field and the BIP322 formats, with the ways an encoding, an address or a key file can be
malformed as variants of a record.

## The runs

| Run | Instance | Shows |
|---|---|---|
| `supervisor_crash` | two daemons, a dependency between them; one user `start`; three watchers; `MaxFailures = 1` | `OneStarter`, `RunningIsWatchedOnce`, `ExternalNeverSignalled`; refinement of `DaemonLifecycle` (`LifecycleSpec`) |
| `supervisor_races` | one daemon; a close; a user who may start, stop, restart, or a wedge | `TransientIsOwned`; under fairness `CloseEndsTheApp`, `CommandsReturn` |
| `orderbook` | two offers, of which blocks create none, one or both; three artifacts with early and late expiry, one of them forged; chains of 3 blocks; lag 2 | `BookIsProjection`, `OpenIsLive`, `ScanAgrees`, `StreamExtends` |
| `light_client` | heights to 3, streams of 2, two digests, both indexers | `CheckpointIsCommitment`, `AdvanceExtends`, `HonestIsAccepted` |
| `trading` | two coins, two requests, one cancel | `OffersNotSpentAsFunding`, `FundingNotStolen`, `RevealIsRecoverable`; under fairness `RequestsReturn`; refinement of `OfferLedger` (`LedgerSpec`) |
| `etch` | two coins, one with a rune; one repeated `etch-reveal`; maturity 2; a fault and a reorganisation | `EtchMints`, `PremineIsClean`, `ReportedRevealIsReal`; under fairness `EtchCompletes` |
| `encodings` | some 97,000 inputs to the operators of `OrderTools`, `Commitments`, `Wire` | `RoundTrips`, `NamesUnlockForGood`, `VerifyIsSound`, `SwapsDeliver`, `OrdersSurvive`, `RootsBindTheBook` |
| `swap` | two takers with a coin each, a maker with two offers; two PSBTs, one of them altered | `MakerGetsAgreed`, `TakerGetsRune` |
| `ceremony` | three members, one that may misbehave; three sessions, two slips | `SignedByAll`, `NonceUsedOnce`, `BlameIsRight`; under fairness `PoolSigns` |
| `signatures` | the group of order 7, 42 hash functions, every secret | `BatchesVerify`, `AdaptorsLockTheOrder`, `CommitmentsOpen`, `AttestationsBind`, `SighashCommits` |
| `trading_recovery` | two coins, two requests, no cancel | violation of `CommitNotStranded` |
| `signatures_completed` | as `signatures` | violation of `CompletedSettles` |

`CHECK_DEADLOCK FALSE` is set wherever a run may stop because its environment is bounded: the
commands, requests, cancels, sessions, faults and blocks are used up.

**Why the bounds are enough.** Supervisor: what matters is which tasks meet on one daemon; the
races run has every operation next to a watcher and a close on one daemon, the crash run has
two so that loops over `Order` take two turns. `MaxFailures` is compared with a count that stays at one, so that `Dead` is not reached whatever it is (`NeverGivenUp`).
`OneStarter`, `RunningIsWatchedOnce` and `LifecycleSpec` are checked while nobody stops or restarts
a daemon, because a restart during a start does break them (see below). OrderBook: three blocks
hold an announcement, a second one and a spend, a creation or an expiry, each below or above a
reorganisation; two lagging blocks let the tip spend, or create, what is announced in the block that is being indexed. LightClient: a
checkpoint in the middle of a stream, at its end, above and absent all occur with streams
of two out of three heights. Trading: two requests suffice for anything that one request does to
another, with a coin to offer and a coin to pay with; the cancel needs both too. Etch: the commit is
immature, mature, and one block above; the name unlocks before, between and after; the one fault may be a scan
that misses a coin or fails to lock it; one reorganisation takes
back either transaction, and an attempt meets an earlier one at every step. Swap: two PSBTs compete for the
offer and for a coin, and one altered PSBT stands for each field the maker checks. Ceremony: with three
members every order of a list occurs and two honest ones remain; two slips make a nonce outlive a session and
come back in another. Encodings: each integer width is small enough that values below, at and
above it are enumerated; transactions have up to three outputs, batches up to two legs, books up to
five orders, which gives odd levels at two heights of the tree. Signatures: order 7 has three points of each
parity; a construction that forgets one negation fails for one of them, and chance collisions of a
hash into so small a group are excluded by name (`NoSig`, a zero nonce, equal challenges). The theorems
remove these bounds for the safety properties they cover.

**Fairness.** `Supervisor!FairSpec`: the Tokio runtime polls every task that can go on, and every
wait of the code has a timeout. Nothing is fair that a user, a daemon or the network does.
`Trading!FairSpec`: weak fairness on the steps of a request, which include failing: `bcli` and `run_tool`
bound every call by a timeout (120 s, 300 s) and a handler that fails returns through the `with` block.
No fairness on arrivals, takers, blocks or restarts. `Etch!Spec`: the command runs, blocks go on
being mined with what waits in the mempool, and the operator repeats `etch-reveal`, as its output tells him; faults and
reorganisations are bounded and owe nothing. `Ceremony!Spec`: the coordinator goes on and starts another session
while there is no signature. The other modules have safety properties only.

## The theorems

Every one holds for all values of the constants that satisfy the module's assumptions, with
runs of any length and any number of tasks, blocks, requests or coins.

| Theorem | Statement | Argument |
|---|---|---|
| `SupervisorProofs!TypeCorrect` | `Spec => []TypeOK` | inductive with the loop index and the operation of each task in range; `AfterStop` needs `Len(Order) > 0` |
| `SupervisorProofs!TransientStatesOwned` | `Spec => []TransientIsOwned` (Starting and Stopping each with its call) | inductive with `TypeOK`: a state becomes transient in a claim, which puts the claiming task in its section; a task leaves the section by an action that writes the state |
| `SupervisorProofs!ExternalSpared` | `[]ExternalNeverSignalled` | `external` never changes, and a task between claim and signal works on a daemon that is not external |
| `SupervisorProofs!OneStarterUntilStop`, `WatchedOnceUntilStop` | `Spec => [](Quiet => OneStarter)`, `Spec => [](Quiet => RunningIsWatchedOnce)` | `QuietInv`, below; corollaries without `Quiet` when nobody may stop (`OneStarterCorrect`, `WatchedOnceCorrect`) |
| `SupervisorProofs!NeverGivenUp` | `Spec => [](Quiet => \A d \in Daemons : state[d] # "Dead")` | `QuietInv`: a running daemon has no failure on record |
| `SupervisorProofs!ImplementsLifecycle`, `LifecycleCorrect` | `Spec /\ []Quiet => LifecycleSpec`; `Spec => LifecycleSpec` when nobody may stop | each step of a task maps to a step of `DaemonLifecycle` or to a stutter, under `QuietInv` |
| `OrderBookProofs!TypeCorrect` | `Spec => []TypeOK` | orders are keyed by their own offer and heights stay within what was indexed |
| `OrderBookProofs!OpenOrdersAreLive` | `[]OpenIsLive` | `OpenIsLive` speaks of a book that has caught up with reorganisations; the inductive invariant says for *every* height what holds of the orders announced up to it and not resolved up to it (`LiveUntilResolved`), which is what a revert to that height brings back; that the offer exists since its announcement comes from the block the record was taken from (`TakenFromChain`), unless it was admitted `early` |
| `OrderBookProofs!BookIsDetermined` | `Spec => []BookIsProjection` | `ProjectionInv`, below |
| `OrderBookProofs!ScansAgree` | `Spec => []ScanAgrees` | from the book to the scan, by `OpenIsLive`: an offer announced once has one artifact for both, no block spends it and the tip is not above its expiry. From the scan to the book, by `ProjectionInv`: its output existed at the announcement, which was therefore admissible, and no block ends the order |
| `OrderBookProofs!StreamOnlyExtends` | `Spec => StreamExtends` | below |
| `OrderBookProofs!RootIsTheBook` | two books have one root exactly when they hold the same canonical lines | below |
| `OrderBookProofs!OnlyTheBookIsProven` | `merkle_verify(order, proof, book_root(a)) => Line(order) \in Lines(a)`, for any path | below |
| `OrderBookProofs!EachOrderIsProven` | the proof for an outpoint verifies for exactly the line of the order that offers it | below |
| `LightClientProofs!TypeCorrect` | `Spec => []TypeOK` | a hash that passed `verify_stream` is a fold |
| `LightClientProofs!CheckpointsExtend` | `Spec => AdvanceExtends` | a stream that verifies has ascending heights, so its entry at the checkpoint's height is unique; the fold there equals the checkpoint's, and a fold is a prefix of later ones |
| `LightClientProofs!CheckpointsCommit` | `Spec => []CheckpointIsCommitment` | the only checkpoint written is the last fold of a stream that verified, and the fold of ascending heights ascends |
| `LightClientProofs!HonestNotAccused` | `Spec => HonestIsAccepted` | `HonestInv`, below |
| `TradingProofs!TypeCorrect` | `Spec => []TypeOK` | with `Shaped` (what a request at a place has) and `Serialised` (who is past the lock holds it, and btxd runs, unless orphaned) |
| `TradingProofs!OffersAreSafe` | `[]OffersNotSpentAsFunding` | below |
| `TradingProofs!FundingIsSafe` | `[]FundingNotStolen` | below |
| `TradingProofs!RevealsAreRecoverable` | `[]RevealIsRecoverable` | only the request past the lock writes the file |
| `TradingProofs!ImplementsLedger` | `Spec => LedgerSpec` | below |
| `EtchProofs!TypeCorrect` | `Spec => []TypeOK` | part of `EtchInv` |
| `EtchProofs!MintsWhenChecked` | `Spec => []EtchMints` | `EtchInv`: once the preflight had a height, depth of the commit plus blocks to the unlock never exceed the depth that is required (`Unlocking`), and a reveal is sent for a commit that deep unless it was cut (`Buried`) |
| `EtchProofs!PremineNeverMixed` | `Spec => []PremineIsClean` | a rune-bearing coin that is held after the scan is `missed`, `stuck`, `fresh` or locked (`Spared`), nothing unlocks it or takes it out of these sets, and `sendtoaddress` passes locked coins over (`RunesLocked`, `RunesStay`) |
| `EtchProofs!ReportedRevealCorrect` | `Spec => []ReportedRevealIsReal` | a reveal that was accepted is replaced by none (`RevealKept`) |
| `EtchProofs!NamesStayUnlocked` | `validate_name(name, h) /\ h <= g => validate_name(name, g)` | within an interval what is taken off grows with the remainder (`PartGrows`), at its end it is the whole step (`NextQuotient`), and the steps grow with the length (`StepsGrow`): so from block to block the minimum falls (`MinimumFalls`) |
| `CeremonyProofs!TypeCorrect` | `Spec => []TypeOK` | part of `CeremonyInv` |
| `CeremonyProofs!NonceNeverReused` | `Spec => []NonceUsedOnce` | a nonce names its member and a serial number that was new when it was drawn; one that is still held has signed nothing (`HeldIsUnused`) |
| `CeremonyProofs!PublishedIsSignedByAll` | `Spec => []SignedByAll` | each answer that passes the check is a partial signature by the member at its place, on the session's pool, message and aggregate nonce (`AnswersAreSigned`) |
| `CeremonyProofs!BlameCorrect` | `Spec => []BlameIsRight` | without slips nonces and answers stand at their member's place (`Places`, `NoncesOfSession`), and the answer of an honest member passes (`HonestAnswers`) |
| `SwapProofs!MakerIsPaidInBitcoin` | `Spec => [](~deal.rune => MakerGetsAgreed)` | `PaymentInv`, below |
| `SignatureProofs!BatchesAlwaysVerify` | `Spec => []BatchesVerify` | below |
| `SignatureProofs!AdaptorsAlwaysLock` | `Spec => []AdaptorsLockTheOrder` | below |
| `SignatureProofs!CommitmentsAlwaysOpen` | `Spec => []CommitmentsOpen` | below |
| `SignatureProofs!AttestationsAlwaysBind` | `Spec => []AttestationsBind` | below |

For `Trading`, the invariant is `IInv`. An offer is *covered*, locked or exposed, from the moment
it is signed (`Covered`); this persists because whatever removes a coin from `locked` adds it to
`exposed`, and whatever removes it from `exposed` locks it (`ProtectionGrows`). Coin selection avoids
locked coins, so a selected coin that is an offer is exposed (`Picked`). It stays so until the payment,
because between the two nothing else is signed, paid or locked: without orphans one request at most is past the
lock (`Exclusive`), and a request past it means that btxd runs, so no restart locks coins either. An
orphan never ceases to be one (`OrphansStay`), which is why the properties may except them.

That `Trading` implements `OfferLedger` rests on the same invariant. The ledger decides and spends in one step, where
`Trading` reads first and spends some calls later: the proof maps the broadcast of a fill, an order or a send to
`Pay`, and `Picked`, `Covered` and `Exclusive` say that what was read still holds then. `Aimed` does this for a cancel,
which is outside the lock: between its checks and `CancelSend` the coin to be cancelled stays an order. Of the fee coin the ledger
only requires that it is unspent, because a coin that a cancel has chosen may be signed as an offer before it pays. Only
`BtxdDies` makes an orphan (`OrphansFrom`). Each other step of `Trading` is one step of the ledger or a stutter (`LedgerStep`).

For `Supervisor`, `Quiet` says that nobody has closed the window, stopped or restarted a daemon so far, the wedge
detector included. While it holds, `QuietInv` is inductive: whoever is past the claim of `start_one` holds the
daemon in Starting and is alone there (`StartersHold`, `Alone`); whoever watches holds it in Running, alone; every
Running daemon has such a watcher and no failure on record. The restriction is the code's: a restart during
a start lets two starts meet. A watcher that finds a crash therefore always counts 1 and never gives a daemon up, so
that `Dead` is not reached (`NeverGivenUp`). These theorems need `MaxFailures > 0`, as `MAX_FAILURES` is 5, and the corollaries
`NobodyStops`: no closer, and only start commands.

For the book, `ProjectionInv` says of every prefix of the indexed chain what a revert would need: a block announces an
offer once, an offer that is not `disturbed` is announced once in the chain, a record was taken from the block at its
`announce_height` and its offer existed by then (`TakenFromChain`, for offers that are not `early`), and a record that
is not Open was ended by the block at its `last_event_height`, in the way this block says. A lagging tip that has
created an output which a reorganisation takes away again is why `early` is needed.

That the stream is only extended and cut is in two parts. Of the records, `index_block` adds events at its own height and
leaves every earlier event as it is (`IndexedEvents`), and `revert_to` takes back the events above its height and no other
(`RevertedEvents`); this needs that an event does not carry the status of its record. Of the list, cutting a finite
set of events at a height cuts its ascending list at that place (`AscendingCut`, `StreamCut`), which is shown with the rank of
an event, the number of events up to it. The digest of a block is then a function of the events in it.

The theorems about Merkle trees are about the operators, for a book of any size (`IsBook`: a list of orders of which no two
offer one outpoint, as the indexer's records do, which are keyed by it). That a root determines its leaves is
shown by the depth of the leftmost descent: the hash of a pair has a spine one longer than its first half, a hash has one
spine (`SpineUnique`), so trees of one root have one height (`SpineLevel`, `SpineRoot`), and a lone node that was carried up is
less deep than any node that was paired at its level (`NoneAlone`): two levels that are equal come from equal levels
below (`SameBelow`). The tags keep a leaf from passing for a node (`LeafIsNoNode`), so a path that leads to the root starts at a
leaf (`PathInTree`). In the other direction the steps of `merkle_prove` follow the ancestors of the leaf, with no step
where one is alone (`ProofClimbs`). `sorted_norm` puts an order at the place that counts those before it, which is the
same in every listing of the book (`PlacesNumber`, `SameBook`). Hashes are terms here, free of collisions; the run
`encodings` also tries lists that offer an outpoint twice.

For `LightClient`, `HonestInv` says of an honest indexer: its events ascend, what it served is its chain until that moves,
the checkpoint's history begins its chain unless that was cut below the checkpoint. That a stream verifies is about every
index of a recursive function; the proof takes the least index at which the fold would differ (`WFMin`).

For `Ceremony`, that the pool's list in canonical order has each member once rests on the sorted arrangement of a
finite set of numbers, which is proved by cardinalities: a member stands at the place that counts the members up to it.

For `Swap`, `PaymentInv` says that every PSBT is for the deal, whatever was altered in it, and that what is in the
mempool pays the maker already. An altered price or recipient is refused by `addressed_countersign`; a sweep
pairs each offer with the maker's output at the same index by the form of the transaction (`BatchShape`). The half of
`MakerGetsAgreed` about deals in runes is about ord's fold over the edicts of a runestone and is only model-checked.

For `Signatures`, the fold of a hash or of a sum of points is shown to be the last of the values on the way
(`FoldByPlaces`, `SumByPlaces`), so that a hash is below `Q` and a sum is the remainder of a sum. `Congruence` and `SameIsEqual`
turn an equation of points into one of integers, where the two sides of a verification are the same polynomial. A
negation to an even point is then one lemma for each place where the code makes it: the signer's key and nonce, the signature that
completes a pre-signature, the pool's secret after aggregation (`PoolSecret`), the attestation of an oracle. `AggregateVerifies` has no bound on the number of legs.
That an attestation does not verify for another message, address or signature goes the other way: verification reduces to
equal challenges because a multiplication by a nonzero point cancels (`MulCancels`, `OtherMessage`), and equal
challenges of different messages are the collisions that the property names. The secret of an address is the even one of its tweaked point
(`TweakedKey`), and each way to malform an attestation meets the check that refuses it (`BrokenRefused`). The theorems
hold for any prime order, any choice of even points and every hash function of the family, key and nonce.

The assumptions are those of the modules: `NobodyAssumption`, `OrderAssumption`,
`SetsAssumption`, `TasksAssumption`, `WatchersAssumption`, `ArtifactsAssumption`, `BoundsAssumption`,
`NoneAssumption`, `EtchAssumption` (`NoTx` is no attempt), `CeremonyAssumption` (two members, `Garbage` is no partial
signature), `RunestoneAssumption`, `SwapAssumption` (coins are not the maker's offers), `QAssumption`,
`NoZeroDivisors` (the order of secp256k1 is prime), `EvenAssumption` (one point of each pair is even), `KeysAssumption` (there are
as many keys as the inputs name). Every one is
evaluated by TLC on the runs; the hypotheses `MaxFailures > 0` and `NobodyStops` hold in `supervisor_crash`.

**Only model-checked**: the liveness properties (`CloseEndsTheApp`, `CommandsReturn`, `RequestsReturn`,
`EtchCompletes`, `PoolSigns`), which need ENABLED and fairness; the properties of `MCEncodings`, which compare digits, bits and
bytes that library operators (`SelectSeq`, `SortSeq`, folds with an operator as parameter) and powers of two make of
their inputs, beyond the laws of names and of Merkle trees above, which are proved for every size; `SighashCommits`, whose inputs depend on no constant, so that the run is exhaustive; `TakerGetsRune` and
the rune half of `MakerGetsAgreed`, which need that a runestone decodes to what was encoded, that is, laws of shifts by powers of
two and of `SelectSeq`. The prover has no induction over data with an operator as parameter: a property of every index of a recursive
function, or of every prefix of a fold, is reached by its least counterexample (`WFMin`), as in `LightClientProofs` and `SignatureProofs`.

## Where the code and its comments disagree

Two runs are expected to end in a counterexample; the property states what a comment says.

- **A commit can be stranded** (`trading_recovery`, `CommitNotStranded`). The key is written after the broadcast
  and after another call that may fail.
- **A conditional order that cannot be settled** (`signatures_completed`, `CompletedSettles`). `pre_sign` does not make
  its nonce point even, so that for half of the nonces the completed signature is one BIP340 rejects.

Further counterexamples each have a configuration of their own, beside the runs, and are found in seconds
with `tlc -config <cfg> <module>`:

| Configuration | Module | Property | What happens |
|---|---|---|---|
| `SupervisorCleanStop.cfg` | `MCSupervisor` | `CleanStopIsNoCrash` | The watcher reads `stopping`, releases the lock, probes the port and records a crash without reading `stopping` again. |
| `SupervisorTwoCloses.cfg` | `MCSupervisor` | `CloseRunsToCompletion` | The second close skips the daemons that are Stopping and destroys the window while the first one waits. |
| `SupervisorRestart.cfg` | `MCSupervisor` | `RestartIsPending` | The comments on the states promise restarts until `MAX_FAILURES` are exceeded. A start that fails records Crashed and returns without a watcher, and one that succeeds resets the count: a daemon is tried again once, and Dead is not reached by restarting, which `NeverGivenUp` proves for any limit. |
| `OrderBookReannounce.cfg` | `MCOrderBook` | `LiveOffersAreOpen` | A second announcement overwrites the first; a reorganisation of the second drops both. |
| `OrderBookOldTerms.cfg` | `MCOrderBook` | `CancelledByMaker` | The classifier knows only the last announced terms; a taker may use earlier ones, and the fill is recorded as a cancel. |
| `OrderBookGhost.cfg` | `MCOrderBook` | `OpenOffersExist` | An offer is announced in one block and created in the next. An indexer that lags by one block asks the tip and admits it; a reorganisation takes the second block away, `revert_to` keeps the order, and it stays Open for an output that does not exist, although the comment of `validate` admits only what is live against the chain. |
| `OrderBookLateOffer.cfg` | `MCOrderBook` | `ScanOpensAreBooked` | The same two blocks and no lag: the indexer rejects the announcement and does not look again, `book scan` never looks whether the offer exists and says OPEN, although btx.py:323-326 says that it must match the book. |
| `LightClientRewrite.cfg` | `LightClient` | `AcceptedHistoryStands` | A stream that ends below the checkpoint replaces it, after which a rewrite passes. |
| `TradingCancel.cfg` | `Trading` | `CancelRefusedOnlyIfConfirmed` | `gettxout` also looks at the mempool, so the cancel gives up where it should replace. |
| `EtchRevealKey.cfg` | `Etch` | `FailureSurfacesKey` | The address calls are outside the `try` block: a failure there ends the command without the recovery text. |
| `EtchLockFails.cfg` | `Etch` | `ReportedRunesAreLocked` | `_lock_rune_utxos` promises to lock every coin that ord reports and excepts only a failing query; a `lockunspent` that fails is swallowed too, and the commit may spend the coin. |
| `SignaturesOutputs.cfg` | `MCSignatures` | `OutputsAlwaysCommitted` | The comment at btx_bip322.py:530-535 (and BTX-SESSION-INDEX-2026-06-04.md:173) says that `tap_sighash` commits to all outputs whatever the type. It is stale: for NONE and SINGLE the code (btx_taproot.py:286-315) leaves out the outputs that BIP341 leaves out, as `SighashCommits` says. |

Met while modelling, and not a counterexample of their own:

- `start_all` goes on when a dependency has failed to come up.
- `start_one` reads `shutting_down` once; a close after that and before the spawn leaves a daemon behind.
  A `MarkRunning` after a stop leaves Running with `stopping` set, which its watcher takes as its cue to leave.
- The wedge detector is documented to fire when ord is unreachable; it needs an earlier height of ord, and
  a later movement of bitcoind.
- `validate` judges an announcement by the UTXO set of the tip, and looks at it once: if a later block spends the offer and
  is then reorganised away, or creates it, the announcement stays rejected.
- The scan keeps the first announcement of an offer, the indexer the last. `h_dex_book` compares its hash with the
  indexer's over two fetches, between which a block may come.
- After an honest reorganisation of the checkpoint's block, the light client rejects for ever. A
  checkpoint file that cannot be parsed counts as a first sync.
- Offer locks are re-placed when btxd starts ("restart-safe"), not when the node does, and only for orders
  already in the book. If maker-sign fails after its lock, the coin stays locked. The recovery file
  has one path: the next publish overwrites what a failed one left. The properties except these exposed coins.
- The setup marker is truncated and then written, and GET requests, which are not under the lock, may read it in between.
- A funding coin is not locked between propose and countersign; a second proposal may use it. Units of a third
  rune on a rune-bearing funding coin go to the maker's output 0: `_pick_rune_utxo` looks for one rune only.
- `batch-fill` looks at each offer once; a spend of one of them meanwhile makes the whole transaction fail.
- `classify_runes_trade` lists every pre-signed input with every edict, so that a batch counts as a product of both.
  `book_summary` counts cancelled lots as open.
- The command-line tools accept `tb1p` addresses that the verifier, fixed to `bc`, calls invalid, and the server
  answers 501. An address is stripped for the first look at it and not for the verifier. Truncated base64 ends as an
  `IndexError` (exit 2, HTTP 500), trailing bytes as a failed check (exit 1). The simple format accepts the sighash byte 0x01, the full
  one does not.
- `segwit_address` writes the bech32m checksum for every witness version; mixed-case addresses are lower-cased
  before they are read; descriptors accept capital hex digits; `_b58_decode` gives one zero byte too many for a string of
  only "1"; `parse_unsigned_tx` reads a truncated transaction as a shorter one.
- `extract_maker_witness` accepts an empty signature, which the verification after it refuses. `swap build` does not
  look at the signature it transplants; `maker_sig` does not cover amount, rune, expiry and group.
- `Oracle.attest` signs two outcomes with one nonce if it is asked to. FROST's `keygen` draws again on a zero share
  by calling itself. A member's own check of the aggregate nonce adds nothing to `SignedByAll`: the check of
  partial signatures finds the same.

## Not modelled

- The web front end: asynchronous handlers over React state. `fill` and `publish` check the network before they connect, a
  draft of another order stays until the fetch answers, and `connect`, `disconnect` and `restore` interleave. It holds
  no keys, and what it sends is checked again by the tools that are modelled.
- HTTP routing, the setup page, argument parsing, display prices and spacers, logs.
- The installer, launch scripts, packaging and static pages: input and output only.
- The self-tests, fuzzers, demonstrations of attacks and the cross-implementation probes: they test the code that is modelled.
- `deterministic_sign`, which nothing calls; Unicode normalisation of oracle messages; payload offsets of a conditional order.
- The wedge detector's two clocks: `Supervisor` lets any running daemon be found wedged, which allows all that the detector can decide.

## Plan

1. *Done*: all components above with state of their own, their runs, and the algorithms against reference definitions.
2. *Done*: the theorems about `Supervisor`, with its refinement of `DaemonLifecycle`, about the book as a projection, the
   light client, `Etch` and `Ceremony`, and about payment in bitcoin in `Swap`.
3. *Done*: `OfferLedger`, a wallet that chooses and spends in one step, implemented by `Trading`.
4. *Done*: `StreamExtends`, from the records behind the stream and the order of its events.
5. *Done*: the algebra under the signatures, for any prime order of the group.
6. *Done*: Merkle roots and proofs of books of any size; the unlocking of names.
7. Open: the laws of varints that `TakerGetsRune` would rest on.
