# conspiracy in TLA+

`conspiracy` is a daemon for community meshes on small routers: an 802.11s/batman-adv
mesh carries the data, and a slow LoRa radio carries a control plane on which nodes
announce themselves, join and change keys. This directory holds TLA+ models of the parts
of it whose correctness depends on order, time or failure, the TLC configurations that
check them, and TLAPS proofs of the most important results.

The code is the reference. Each definition says which function it models, `PROJECT.json`
gives the lines, and names are those of the source where TLA+ allows it.

To check one run: `tlc -workers 2 -config Scheduler.cfg MCTXScheduler.tla`.
To check the proofs of a module: `tlapm TXScheduler_proofs.tla`.

## 1. The system

`conspiracyd` (`cmd/conspiracyd/main.go`) starts these parts as goroutines of one process.
Only the configuration, the entropy audit, the reboot counter, the radio, the nonce
generator, the receive loop of the frame handler, the batman controller with its scale
limiter and the metrics are started today; the others are complete packages with tests
that the daemon does not wire in yet. They are modelled as packages: through the
operations they export, called as their comments and tests call them.

| component | state | operations | talks to |
|---|---|---|---|
| Nonce generator, reboot counter (`crypto/nonce.go`, `reboot_counter.go`) | frame sequence, counter in memory and on disk | `Generate`, `handleFrameSeqWrap`, `Increment`, construction | everyone that encrypts |
| Transmit scheduler, token bucket (`lora/scheduler.go`) | three queues, tokens, counters | `Enqueue`, `run`, `Wait`, `Consume`, `Close`, `GetStats` | radio, beacons, join, bridge |
| Replay window (`crypto/replay.go`) | last sequence and bitmap of each peer | `Accept`, `PruneStale` | receivers |
| SX127x driver (`lora/sx127x_spi.go`) | mode, FIFO and IRQ registers, locks | `Send`, `Recv`, `SetFrequency`, channel check | scheduler, receive loop |
| Rekey manager (`crypto/rekey.go`) | generation, file | `GenerateREKEY`, `ValidateREKEY` | peers, over the radio |
| Beacon transmitter (`lora/beacon.go`) | peer count, budget of the window, sequence | `Run`, `UpdatePeerCount` | radio |
| Bridge node, zone manager (`lora/bridge.go`, `zoning.go`) | peer frequencies, bridge status, scan position, Bloom filter | `UpdatePeerFrequency`, `RemovePeer`, `ProcessFrame`, `forwardFrame`, `cycleFrequency` | radio |
| Hint bus (`hint/bus.go`) | consumers, a channel each, closed flag | `RegisterConsumer`, `UnregisterConsumer`, `Publish`, `Run`, `Close` | providers and consumers of hints |
| Overlay plugins (`plugins/cjdns`, `plugins/yggdrasil`) | address cached of each node | `Consume` | hint bus; admin API of the overlay |
| Automatic join (`autojoin/join.go`), frame handler (`frame_handler.go`) | state of the FSM, scanned peers, attempts | `Run`, one handler for each state; the answer to a JOIN_REQ | other nodes, over the radio |
| Scale limiter, storm mitigation (`batman/`) | originator count, emission switch; a token bucket for each originator, rejoin mode | polls, `UpdatePeerCount`, `AllowOGM` | kernel's originator table |
| UDP radio, frame format, AEAD, entropy audit, proof of work, configuration, metrics, Wi-Fi | none, or trivial | | |

What is hard, and what would make each part correct:

* **Nonces.** Several goroutines share a counter, a wrap of the sequence increments a file,
  writes fail, the process stops at any point. No (counter, sequence) pair may occur twice,
  within a boot or across boots; a counter must be in the file before it is used.
* **Scheduler.** Producers, worker, `Close` and a radio that fails. Airtime must stay
  within the duty cycle, each frame must be accounted for once, HIGH frames must not wait
  behind lower ones, nothing may go out after `Close`, and everything must terminate.
* **Replay window.** 16-bit numbers that wrap, with frames lost, duplicated and reordered.
  No frame is taken twice and none refused wrongly.
* **Hint bus and plugins.** Channels are closed while others send on them; slow consumers
  hold up a publisher that holds the lock; API calls fail. No send on a closed channel,
  no loss by closing, `Close` and `Run` return, a cached address is a peer.
* **Join.** Frames are lost or late and name no receiver. Requests must be bounded, and
  a joiner must end up connected or cancelled, in its own mesh.
* **Mesh control.** A mode that comes and goes rewrites buckets that are refilled lazily.
  OGMs must stay metered, the mode must end, the emission must not flap.
* **Rekeying.** Messages are lost, late and repeated; writes fail, nodes restart, clocks are
  wrong. No message is taken twice, no generation goes back, and one maker gives a
  generation one key.
* **Radio.** The driver locks single register accesses; transfers fail, contexts are
  cancelled in the middle, the chip receives while it is read out. A `Send` that succeeds
  has put its payload on the air, once, nothing else goes out, `Recv` returns what
  came in, and calls come back.
* **Beacons.** The interval is stretched while a ticker of the old one runs, and the window is
  a log of what was sent. Airtime must keep within the budget of every window, the
  frame about to go out included, and a transmitter that defers must resume.
* **Bridge and zones.** Forwarding and the scan loop change one frequency, nodes hear each
  other's copies, restarts forget what was seen. A beacon must not be flooded for ever, the list
  frames are forwarded by must be the zone manager's, and a node must find back home.

The full list of hazards, each at its line, is under `hazards` in `PROJECT.json`.

## 2. The modules

| module | models | notes |
|---|---|---|
| `NonceGenerator` | nonce generator, reboot counter, crash, power cut | instances in `MCNonceGenerator` |
| `DutyCycleMeter` | what a duty-cycle limit promises: a leaky bucket of airtime | abstract; instantiated by `TXScheduler` and `MeshControl` |
| `TXScheduler` | scheduler, token bucket, radio as a step that fails or not | `MCTXScheduler`; implements `DutyCycleMeter` |
| `AntiReplay` | what a replay window promises: a filter that remembers every frame | abstract; instantiated by `ReplayWindow` |
| `ReplayWindow` | `Accept` and `PruneStale` of one receiver, an honest peer, a channel | `MCReplayWindow`; implements `AntiReplay` |
| `HintBus` | the bus, its lock, its workers | |
| `OverlayHints` | `HintBus` with plugins among its consumers, and the admin API | `MCOverlayHints`; every step is a step of `HintBus` |
| `AutoJoin` | the join FSM of some nodes, the answers of others, the channel between | `MCMeshNode` |
| `Rekey` | the rekey managers of some nodes, their files and clocks, the messages between | `MCRekey` |
| `SX127xSPI` | the radio driver, access by access, against the chip | `MCSX127xSPI` |
| `BeaconTransmitter` | the beacon loop, its ticker, its window | `MCMeshNode`; `MCBeaconTransmitter` for its budget |
| `ZoneManager` | what a node knows of the frequencies | operators only; used by `BridgeNode` |
| `BridgeNode` | bridge nodes that hear each other, each with a zone manager | `MCBridgeNode` |
| `ScaleLimiter`, `StormMitigator` | one part each | operators only |
| `MeshControl` | both, on one originator table | `MCMeshNode`; each bucket follows `DutyCycleMeter` |
| `*_proofs` | theorems about the module of that name | |
| `OverlayHints_proofs`, `Membership_proofs`, `Beacons_proofs` | theorems about `HintBus` and `OverlayHints`; `Rekey` and `AutoJoin`; `BridgeNode` and `BeaconTransmitter` | |

### State and actions against the code

**NonceGenerator.** `Generate` is cut where another goroutine can get in between:
`BeginGenerate` (the atomic add), `WrapNeeded` / `WrapAlreadyDone` (taking the lock of
`handleFrameSeqWrap` and looking again), `Increment` or `IncrementFails`, `ResetFrameSeq`,
and `ComputeNonce` or `EntropyFails`. `ComputeNonce` reads the counter anew, as
`computeNonce` does, and not the value at the time the sequence was drawn.
`RebootCounter.Increment` holds its own lock throughout and is one step; when it fails,
`value` has been raised and the file has not. `disk` is the file as the file system shows
it, `synced` what a power cut leaves of it: the code renames without syncing. `boot`,
`issued` and `reused` are history, and so are the three mishaps the properties depend on:
`raced` (a wrap met another call), `failed` (a write of the file failed) and `cut` (power
went before the file was on the medium). The random half of the nonce is left out, as the
question is whether the deterministic half is unique by itself.

**TXScheduler.** Every non-blocking `select` is a step: `TryHigh`, `TryMedium`, `TryLow` in
the worker; in `Enqueue` the attempt, the eviction (`EvictLow`) and the second attempt
(`RetryMedium`). A frame is its time on air, with 0 for a payload that
`Calculate` rejects. `earned` is what the time since `lastRefill` is worth, so that
`Refill` has the lazy form of the code. A send that reports failure may have gone out
(`SendFailsAfterAir`), as `waitForTxDone` reads the radio after the fact; the code does not
charge it. `level`, the airtime of successful sends that has not leaked away yet,
`offered` and `bypass` are history. The check for a busy channel is taken to return;
with the SX127x driver it does not (`SX127xSPI`).

**ReplayWindow.** The bitmap is two sets of bit positions, shifted word by word as the code
does it, the defective branch included. A frame is its unwrapped number; `Accept` sees it
modulo `SeqSpace`. A peer's age is a flag that `PruneStale` reads.

**HintBus.** A registration is a number, since the channel of an unregistered consumer can
outlive its name in the worker. The lock is a guard: a writer needs every publisher idle
(`MayWrite`), a publisher that no writer waits (`MayRead`, Go's rule); only `Close` is
followed while it waits. `Publish` goes through the consumers in any order, one step each:
`Send`, or `GiveUp` when the channel has been full for 100 ms. A panic of a channel
operation stops the bus and is recorded in `panicked`.

**OverlayHints.** `Consume` is two steps: up to the call of the admin API, and the call
with its return (`CallSucceeds`, `CallFails`), so that the rest of the bus moves while a
plugin waits for the API. A failed call may have taken effect or not. `Plugins` are the
consumers with the code of `plugins/yggdrasil`, or of `plugins/cjdns`, which is the same but for a
`removePeer` that calls nothing (`Removers`); any other consumer changes nothing here. Two nodes may
be announced with one address, as in `plugins/yggdrasil/consumer_test.go:346-354`: `orphaned` is
history, the addresses removed for one node while another still has them in the cache. A hint
with a nil address, or of another type, is `Ignored`.

**AutoJoin.** A step of the FSM is one handler, cut at its receptions: the machine is in
`busy` = scan, send or await while it is inside one. JOIN_REQ carries no address and
JOIN_ACK names no joiner, so a member answers whatever it hears and a joiner takes the
first answer, including a late one to an earlier request of its own, or one of a member of
another mesh. Its specification is
`JoinSpec`, and that of `BeaconTransmitter` `BeaconSpec`, so that a module can speak of
each next to another.

**Rekey.** `GenerateREKEY` and `ValidateREKEY` hold the manager's mutex from the first look
at the generation to the rename of the file, so each is one step, with a second
action for a write that fails: a failed rotation takes its increment back, a failed
acceptance keeps it. `sent` keeps every message, so that each may be delivered never, late
or again, to its maker too. A clock may be set to anything at any time. `forgot` records a
node that stopped before the file, or the medium, had its newest generation.

**MeshControl.** `PollOriginatorCount` and `EnforceScaleLimits` are two steps, because the
code stores the count and enforces the limit under two separate locks. `UpdatePeerCount`
and `AllowOGM` hold a mutex throughout and are one each. `UpdatePeerCount` compares with
the count of two updates ago, as the code does. Time runs up to the span after which more
of it changes nothing. `swung` is history: has the table called for a switch of the
emission since the last one?

**SX127xSPI.** `writeRegister` and `readRegister` lock the mutex for one SPI transfer, so one
transfer is one step (`AccessRegister`, `WriteFifo`, `ReadFifo`, ...), and what each does to the
chip and where the call goes next stands in tables named after the functions
(`PrepareTxMode`, `StartTransmission`, `EnterRxMode`, `IsChannelClear`). A transfer may fail
before or after the chip has taken it; the call then ends, but in the places where the
code drops the error (`CloseOff`). A poll reads the flags, or finds the context
done (`PollCancelled`). The chip takes a frame into its FIFO at any address (`RxDone`), also
while another is read out, and ends a transmission by itself (`TxDone`). A byte is a frame
and an index. `Held` is the payload where the driver has put it, from address 0; `OnAir` is what the
chip sends, from `TxBase`, the content of the register `RegFifoTxBaseAddr`, which the driver
never writes: it is a constant here. `transmitted` counts the transmissions that began
with the payload held whole, `aired` are the payloads that were whole on the air; both,
`arrived`, `delivered` and the flags below them are history.

**BeaconTransmitter.** `transmitBeacon` is cut at the check of the window (`CanTransmit` or
`Defer`), the sending (`SendBegins`, `SendSucceeds`, `SendFails`) and a failure before it
(`PrepareFails`); `Run`, `CancelRun` and `LoopReturns` are the loop's start and end, and `Elapse`
is time, with Go's ticker that drops what nobody takes. `UpdateBeaconPeerCount` changes the
interval and not the ticker, as in the code. The log is a set of entries with ages instead of
times: two entries never begin together, since a beacon lasts a unit at least. `onAir` is the true
history of the air over the last window, against which the log is held.

**ZoneManager and BridgeNode.** The zone manager is a record; `UpdatePeerFrequency` and
`RemovePeer` give its next states, several where the code goes through a Go map in random
order. `BridgeNode` interleaves three goroutines of each node: the scan loop (`NotBridging`,
or `Bridging` and `UpdateBridgeFrequencies`, then `CycleFrequency`), the receiver
(`ProcessFrame`, `ForwardFrame`, and `Retune` and `Restore` for each frequency), and whoever
tells the zone manager of peers. `air` keeps every copy, so that one may be heard late, again
and by everyone. `setFrequency` only records the frequency, so the copies go out where the
radio is, and the nodes of one primary hear each other. The Bloom filter is the set of
beacons in it; a false positive is a beacon that is not processed. `sent`, `twice`,
`entered` and `scanned` are history.

## 3. The runs

| run | configuration | result | question |
|---|---|---|---|
| `nonce` | two callers, two boots, failing writes, power cuts | holds | are tags unique within and across boots, counters persisted before use, and does every call return? |
| `scheduler` | two producers, queues of one, refill rate of the unit tests | holds | airtime, accounting, priorities, `Close`; does it implement the meter? is a HIGH frame served? |
| `sched_starves` | refill rate of the constructor | **violated** | is a HIGH frame served? |
| `replay_wrap` | two wraps, losses up to one word or beyond the window | holds | is the window exactly the recent history? does it implement the filter? |
| `replay_shift` | any loss | **violated** | is no frame taken twice? |
| `rekey` | two nodes, two rotations, failing writes, power cuts, clocks set at will | holds | one use of a generation, no way back, one key |
| `hint_routing` | a plugin and another consumer, two nodes with one address, one publisher | holds | closing, draining, delivery, the cache |
| `mesh_node` | three parts of a node: a joiner, two members of its mesh, one of which refuses, and one of another; one originator, sizes 0 to 3; a window of three intervals | holds | bounds, eventual connection, cancellation; metering, the end of the mode, settling, hysteresis; resumption after deferring |
| `radio` | two payloads, two frames of others, one failing transfer | holds | what is transmitted and how often, what comes in, return of every call |
| `radio_base` | the base address elsewhere than the driver writes | **violated** | has a `Send` that succeeds put its payload on the air? |
| `beacon_budget` | a window of four or five intervals, any peer count, sends of one or two units | **violated** | is the airtime of every window within the budget? |
| `bridge` | one node, three frequencies, TTL 2, two restarts | holds | the end of a flood, the stored list, the way home |

### The properties

* `NoReuseWithinBoot` (unless calls met at a wrap), `NoReuseAcrossBoots` and
  `UsedIsPersisted` (unless power went too early, or a failed write met another call).
  `CallsReturn`: the wrap handler's lock is released on every path.
* `NoOverdraft`: what `Wait` granted is there when `Consume` takes it, so the clamp at zero
  hides nothing. `ImplementsMeter`: the abstract duty-cycle meter, as a refinement.
  `FramesConserved`: each frame is queued, in hand, sent or dropped, once.
  `BoundedBypass`: at most one lower frame goes before a waiting one. `SilentAfterClose`,
  `HighServed`, `CloseTerminates`.
* `NoReplay`, `NoFalseRefusal` (up to the second wrap), `WindowIsHistory`, the reason for
  both, and `ImplementsFilter`, the abstract filter as a refinement: nothing is taken from before
  the window of the newest frame, however often the number has wrapped.
* `GenerationsUsedOnce`, `GenerationsGrow`, `OneKeyPerGeneration`: rekeying.
* `NoSendOnClosed`, `DrainedBeforeExit`, `CloseReturns`, `RunEnds`,
  `HintsConsumed`, and `CachedIsPeer` for the plugins.
* `RequestsBounded`, `EventuallyConnected`, `CancelEnds`. `EventuallyConnected` is to some member
  that accepts, not to a member of the own mesh: the code does not look.
* `OGMsMetered`; `RejoinEnds`; `EmissionSettles`; `Hysteresis`: the emission switches only after
  the mesh has swung to the other threshold since the last switch.
* `TransmittedOnce`, `ReceivedWhole`, `CallsReturn`: the radio, for one goroutine at a time.
  `TransmittedOnce` is about the order of the accesses: when a transmission begins, the payload is
  whole where the driver writes it, and each `Send` has one. That these bytes are those on the air
  is `PayloadOnAir`, which needs the base address to be 0 (`radio_base`, `SendsFromZero`). What the
  driver promises with several goroutines in it is below, under what the code does.
* `BudgetObeyed`: in no window, wherever it begins, does the airtime of beacons pass the budget
  (`beacon_budget`). `DeferredResumes`.
* `StormBounded`: no copy takes more hops than the TTL, and no node sends a beacon to a frequency
  twice between two starts. `StoredListIsZoneList`, `HomeAgain`.

Some are theorems only, on which these rest: `BootsDisjoint` (boots use disjoint counters),
`AirtimeBounded`, `BudgetKept` (what the beacon's window gives instead of its budget),
`OfferedToAll`, `GivesUpLate`, `PluginTypeOK`, `LimitersFollowMode`
(each bucket is sized for the mode), `LockedOut` (what a channel check does to the radio), and
the type invariants.

Each property of a passing run has a mutant in `PROJECT.json`: a changed definition, of the kind a
slip in the code would be, under which the same run finds the property violated. The mutated forms
stand before their originals and are marked `Mutant`; no specification uses them.

### What the code does otherwise than it says

1. *The bucket is never refilled* (`sched_starves`, `scheduler.go:91`). The rate is an
   integer division of durations and is 0 for every duty cycle below 100 %.
2. *Marks are lost on some shifts* (`replay_shift`, `replay.go:130`). For a gap of more
   than 64 and less than 128 numbers the low word is moved the wrong way.
3. *A payload is not sent from where it is written* (`radio_base`, `sx127x_spi.go:24`, `317`). The
   driver fills the FIFO from address 0, the chip transmits from `RegFifoTxBaseAddr`, which is 0x80
   after a reset and which nothing writes. With 0 in the register `Send` does what it says.
4. *The budget of beacons is passed* (`beacon_budget`, `beacon.go:254`).
   `docs/lora-mesh-design.md:318` counts the frame that is about to go out, `CanTransmit` does not.

Behaviour that the models contain and no run of its own is spent on:

* A nonce tag can repeat (`nonce.go:112`, `128`): two goroutines that reach the wrap
  together both get sequence 1, and one that drew its number before the wrap reads the
  counter after it. The 64 random bits still differ. With one caller, as in the daemon
  today, this cannot happen (theorem `SerialUnique`); `NoReuseWithinBoot` excepts exactly
  these meetings (`raced`).
* With concurrent callers, a failed counter write leaves the memory ahead of the file, and a
  goroutine in `computeNonce` may then use the unwritten value; a power cut can bring back
  an older file. Hence `Durable` in two of the nonce properties.
* From the second wrap of a peer's numbers on its frames are refused (`replay.go:76`): the
  normalised number is stored, above 65535, and the next wrap lies below it for good.
  `NoFalseRefusal` excepts these frames, and the run goes through both wraps. A restart, or
  a prune, forgets the window.
* With the SX127x driver the channel check locks itself out: `isChannelClear`
  (`sx127x_spi.go:535`) holds the mutex that `writeRegister` takes again. Everyone who uses the
  radio then waits, for good (theorem `CheckLocksOut`); `CallsReturn` of the radio excepts this,
  and `TXScheduler` takes the check to return.
* The driver shares mode, FIFO pointer and flags between `Send`, `Recv` and the settings; only
  single accesses are locked, while `docs/lora-mesh-design.md` describes separate goroutines. The
  module has several `Callers`; the run has one. For one, too: a flag whose clearing failed makes
  `Recv` return a frame again; a frame that arrives during the readout is mixed into it; a
  cancelled `Send` leaves the chip transmitting, and a `SetFrequency` that fails in the middle
  leaves registers of two frequencies.
* A beacon whose send failed after the air is not counted. A changed interval does not reach the
  ticker until `Run` starts anew, while `docs/lora-mesh-design.md:276` makes it follow the number of
  peers.
* `setFrequency` of the bridge records a number and tunes no radio: copies go out on the home
  frequency. They bypass scheduler and beacon budget. A beacon is marked as seen
  before it is known whether it can be forwarded, and after a restart everything is unseen. A
  new list of the same length does not replace the old one. JOIN_ACK passes
  `ShouldForwardFrame` and is not forwarded. Every beacon raises the count of its frequency, which
  `zoning.go:44` calls the number of peers. The zone manager has no lock: it is read and written
  by several goroutines, here one field at a time.
* `Enqueue` of a MEDIUM frame may evict a LOW frame and still fail; a HIGH frame is dropped
  when its own queue is full; a frame whose send failed after the air is not charged.
* A REKEY whose acceptance was not written can be accepted again after a restart, as the
  code says itself (`rekey.go:170`). Two nodes that rotate at once split the mesh between
  two keys of one generation, until somebody rotates again. Nobody repeats a REKEY, and
  one that arrives after its `validAfter` is refused: a node that was off for a day has
  to be provisioned by hand.
* `Close` of the bus followed by `UnregisterConsumer` closes a channel twice and panics. A
  consumer registered after `Run` began has no worker, and each `Publish` waits 100 ms for
  it once its channel is full.
* A plugin caches an address before the API call and does not repeat a call that failed.
  An address that changes leaves the old one in the overlay. When two nodes have one address, the
  removal of either takes it from both, and the other's hints do not bring it back.
* A forwarded beacon is encrypted anew, with another TTL, under the nonce it came with
  (`bridge.go:243`). The models have no contents of frames, so none shows it; the uniqueness of
  nonces is checked for the generator.
* JOIN_ACK names no joiner and no mesh: a refusal by another mesh's member counts as an
  attempt, an acceptance as a success, although `docs/lora-mesh-design.md:429-431` has the joiner verify the
  NetID. The strongest peer is chosen and not addressed.
* A mesh that grows by half within two updates, each small, enters the rejoin mode; growth
  is compared with the count of two updates ago.

## 4. Bounds

* *Nonces*: `MaxSeq = 2` makes every third call wrap, so that wraps, failures and crashes
  meet; two callers are the fewest that race, and a second boot sees what the first wrote.
  `MaxCounter` and `MaxBoots` bound what a call or a start may begin.
* *Scheduler*: queues of one and three calls of `Enqueue` reach every full queue, eviction
  and failed second attempt. Frames of 1 and 3 with a capacity of 3 make a frame wait
  for tokens that are partly there, or cost the whole bucket; 0 is the rejected payload.
  In `sched_starves` an hour is 100 capacities, which is a duty cycle of one per cent, so
  that the constructor's division has the code's operands in proportion.
* *Replay*: words of 2 bits and a sequence space of 12 keep the code's proportion, a window
  not above half the space. Frames 9 to 25 cross the wraps at 12 and at 24.
  `SoundArrivals` leaves out exactly the gaps of the second item above; `replay_shift` is the same
  check with them, on a shorter sequence. Peers share nothing, so one suffices.
* *Rekey*: two rotations put 0, 1 and 2 into memory, file and medium, the most that can
  differ; no property relates more than two nodes. Clocks of 0 to 2 with a transition of 1
  and a limit of 2 make messages expired, valid and too far ahead.
* *Hints*: two names and two registrations allow an unregistered consumer to come back, or two to
  coexist; a channel of one is full after one hint; three hints are published: two nodes announced
  with one address and one of them removed is the shortest way to an orphaned address. One
  consumer is a plugin, the other any consumer: plugins share nothing but the bus. A second
  publisher adds no new kind of interleaving with the writers, as readers exclude nobody but them;
  the theorems hold for any number.
* *Join*: one joiner. Late answers to its own earlier requests already are answers to
  something else, which is all that a second joiner would add; two joiners were explored for
  safety with the same result. Three attempts allow a retry after a retry. Two
  answers in the air, more are lost. The third member has another key: its beacons are not taken,
  its answers are.
* *Mesh control*: originators share nothing but the mode, so one suffices. Thresholds 3 and
  1 with sizes 0 to 3 have sizes below, on, between and above them; bursts 1 and 2 differ by
  one refill; the window and the mode last two ticks each.
* *Radio*: payloads and frames of one and two bytes in a FIFO of two, so that a readout can be
  overtaken, wrap, or be longer than what follows. Each payload is sent in one call and
  each frame is on the air once, which names them; one transfer fails, at any place, on either
  side of the chip. One caller, as the properties hold for one. The base address is 1, half of the
  FIFO as 0x80 is of 256 bytes; in `radio_base` no transfer fails.
* *Beacon*: in `mesh_node` an interval of 2 that peers and backoff stretch up to 5, a window of 6
  and a budget of 2 with frames of 1 and 2; in `beacon_budget` 2, 6, 9 and 3. In both the window
  fills within two or three intervals, is overshot by a frame, and empties while the stretched
  interval runs. Ages stop at the window.
* *Bridge*: one node that hears its own copies stands for a neighbour that answers with them;
  the theorems hold for any number. Three frequencies give lists of two in two orders;
  one peer decides (`MinPeers` 1, `Share` 2), which lets bridging begin and end at every
  moment. TTL 2 as in the code, and two restarts.

`CHECK_DEADLOCK FALSE` stands where the system really may stop: the bounds are exhausted,
the scheduler or the bus is closed, `Run` has returned.

## 5. Fairness

* `NonceGenerator`: a goroutine inside `Generate` runs on (weak fairness). Taking the lock
  is strongly fair, because `sync.Mutex` hands the lock to a waiter after a millisecond.
  No call, start, crash or write-back is forced.
* `TXScheduler`: the worker runs, time passes, `Close` goes on after the worker has
  returned. Nobody has to call `Enqueue`, `GetStats` or `Close`.
* `HintBus` and `OverlayHints`: publishers and workers run and `RunReturns` and `Close`
  are weakly fair. A worker's `Consume` returns because the plugins' HTTP client has a
  timeout; `GiveUp` happens because of the 100 ms timer. `Close` gets the lock
  as Go's `RWMutex` keeps new readers out while a writer waits.
* `AutoJoin`: each handler goes on, since scans and waits have deadlines. Of the channel it
  is assumed that a frame of a member of the mesh that accepts gets through in time if it is
  sent for ever (strong fairness); without it nobody could ever join by radio. It is stated
  apart from the code's own fairness, as `FairChannel`. `CancelEnds` needs none of it.
* `Rekey`: none; nothing live is claimed of it.
* `MeshControl`: time passes and the tickers fire; the table can be read now and then.
* `SX127xSPI`: a call goes on and a transmission ends. No call, frame or cancellation is forced,
  and `Recv` returns only if its context is done.
* `BeaconTransmitter`: the loop goes on and time passes; sends may fail for ever.
* `MCMeshNode`: the parts share no state and wait for nothing of each other, so a run of the node is
  an interleaving of a run of each. One part is chosen at the start and runs alone, with the
  fairness above; the others stand still and are owed none.
* `BridgeNode`: the scan loop's ticker fires, and forwarding goes on because `Send` returns.

## 6. The proofs

TLC checks the instances above; TLAPS proves the following for every value of the constants
that the modules' assumptions allow. The assumptions only give types, exclude a null value
from a set or order two thresholds; `BeaconAssumption` says that the airtimes of beacons have
a longest one, and `DutyCycleMeter` has none. TLC evaluates each of them in some run.

**`NonceGenerator_proofs`.** `CounterDurable`: as long as power was not cut too early and no
failed write met another call, counters are in the file before use and boots use disjoint
ones, from which `BootsNeverRepeat`. Neither is inductive: one has to say who may be inside
the wrap handler, when memory and file agree, and that the running boot's counter is above
those of all earlier boots. `UniqueUnlessRaced` (`NoReuseWithinBoot`): until a wrap meets
another call the sequence is ahead of every tag made with the counter in memory, and those
drawn and not yet used are all different. `SerialUnique`: with one caller no call ever meets a
wrap.

**`TXScheduler_proofs`.** `GrantKept` (`NoOverdraft`) needs only that no one but the worker takes
tokens. `SchedulerIsMeter` is the refinement of `DutyCycleMeter`, for the sends that succeed; its
invariant `BalanceInv` weighs the meter's level and the balance of the bucket, including what is
earned and not credited yet, and the frame sent and not yet charged. `AirtimeWithinCapacity`
follows from it. `AllAccountedFor` (`FramesConserved`): each step moves a frame between the
queues, the hands and the counters and leaves the sum alone; the lengths of the queues and the
counters are its terms (`ConservedInv`). `NothingAfterClose` (`SilentAfterClose`): `Close` returns
only after the worker has, and the worker does not come back (`ClosedInv`). `OneBypass`: the
worker, once past a queue, serves it before it takes anything lower (`PastQueue`, `BypassInv`).

**`ReplayWindow_proofs`.** `TypeCorrect` on every channel. `NeverReplayed`,
`NeverWronglyRefused` and `WindowDescribesHistory` assume `SoundChannel`: the window is not above
half of the sequence space, no frame arrives further from the newest than that half, and no gap lies strictly
between a word and the window, which are the gaps `shiftWindow` gets wrong. `SoundArrivals` of
the run satisfies it. The invariant (`WindowInv`) is that each entry describes its history
(`Describes`): the stored number stands for the newest accepted frame, up to the one sequence
space that the code adds at a wrap and keeps (`StandsFor`), and the bits are the distances of
the accepted ones. `Normalised` is the arithmetic of the wrap: the distance of the normalised
numbers is the distance of the frames, unless the frame comes after the second wrap and is
too old by them. `ShiftedMarks` and `MarkedBit` say what a shift and a set bit do to the
marks, across the two words. `TakesAsFilter` (`ImplementsFilter`) is the refinement of
`AntiReplay`, on the same channel: by the same invariant each acceptance is a step of the filter,
a refusal a stutter, and a prune the filter's `Forget`.

**`OverlayHints_proofs`.** Of the bus: `SendsFindOpenChannels`, `NothingLeftBehind`,
`PublishReachesAll`.
`BusInv` has the lock (`LockInv`: while a publisher is inside, the bus is open and the
consumers are its audience), the channels (`ChannelInv`: closed ones are out of the map, or
the bus is closed), and `DrainInv`: an ended worker was cancelled, or its channel is closed
and empty, and stays so because nothing is sent on it.

Of the plugins: `PluginsKeepBus`: bus and plugins together implement the bus, so
its theorems carry over. `CachedPeers` (`CachedIsPeer`) rests on
`WorkerInv` (a name has one worker at most), `CallInv` (only that worker has a call of
the API open, so calls of a plugin never overlap) and `CacheInv`, which says what is known
of a cached address while a call is open: it is being added, or it is a peer, unsure or
orphaned. While one is being removed, an entry that has it is orphaned already.

**`Membership_proofs`.** Of the join machine: `BoundedRequests`, `BackoffIsLate`. That a
failed machine has used all its requests follows from the way it got there; `JoinInv` says of
every state which handler may be running in it and how the attempts compare with the
requests.

Of rekeying: `Monotone`, from `CopiesInv`: the medium is behind the file and the file
behind the memory. `NeverTwice`: a node that did not fall back stands no lower than
anything it has used (`UsedInv`), so that what passes the comparison is new; neither clocks
nor failed writes matter to it. `SameKey` adds that a maker has used what it sent
(`SenderInv`), so that its next generation differs from all those it has sent.

**`MeshControl_proofs`.** `ModeReachesAll`, `OGMsObeyMeter`. `BalanceInv` bounds what an
originator can still get, uncredited time included, plus what it has got by the
rejoin burst, through both changes of mode. The second disjunct of its first part is
needed since time may be worth more than the burst when nothing was used.
`SwitchNeedsSwing` (`Hysteresis`) rests on `SwingInv`: if the table, or the count last polled,
calls for a switch, the mesh has swung. The count may be older than the last switch, so
this is not the guard of the switch; it needs that the thresholds lie apart.

**`Beacons_proofs`.** Of the bridges: `FloodEnds` (`StormBounded`): `FloodInv` says that the hops
of a copy and its remaining TTL are together what a beacon starts with, also while it is being
forwarded; `OnceInv` that what a node has sent is marked as seen, and that the targets a job has
left are all different and not sent to yet. `ListFollowsZone` (`StoredListIsZoneList`): `ListsInv`
relates the stored list, the zone manager's and what the scan loop has in hand, by how often
bridging has begun.

Of the transmitter: `BudgetHolds`, for any window, budget, interval and airtimes: no
window passes the budget by a whole frame (`BudgetKept`). This is weaker than what the document asks
for, which the code does not keep (`beacon_budget`), and it bounds by how much.
The invariant `BudgetInv` relates the log to the air. `LogInv`: each unit of airtime in the window
belongs to the frame being sent, is covered by an entry of the log, or is so old that it leaves the
window before a frame now sent could end. The last case is needed since an entry is dropped as a
whole. `GrantInv`: from the moment the window has let a beacon pass until
it is recorded, the units of earlier frames (`Recent`) are below the budget, so the frame adds at most its
own length. The lemmas under it count units of airtime: shifting a set of ages does not
change its size (`ShiftedCount`), and a frame adds its length (`UnionCount`, `LoggedCount`).
`BeaconTypeCorrect` includes that the interval stays between the configured one and the maximum.

**`SX127xSPI_proofs`.** For any number of goroutines: `TypeCorrect` with `CallsInv`, which says of
every place in a call what kind of call it is and how much of the payload it has
written; so no byte is written beyond the payload, and the transmission starts with all of
it, in the eyes of that goroutine. `CheckLocksOut` (`LockedOut`): whoever holds the mutex
stands before the first access of the check (`LockInv`), and every access waits for that mutex.

For one goroutine (`OneCaller`): `SendsOnce` (`TransmittedOnce`), with any number of failing
transfers, any payloads, any FIFO and any base address; and `SendsFromZero` (`PayloadOnAir`),
which assumes that the base address is 0, where `Held` and `OnAir` are the same bytes
(`HeldOnAir`). `SendInv` says what the chip holds at each place of a `Send`: standby until it is
started, the bytes written so far at the start of the FIFO, no flag of an earlier transmission
from the clearing on. `TxInv` says whose payload is on the air when the chip transmits: that of
the `Send` that waits for it (`OnTheWay`), or of one that failed and left it behind
(`LeftBehind`), which nothing has touched but a setting. `ReceptionsWhole` (`ReceivedWhole`), as
long as no transfer has failed and no frame came in during a readout: `FlagInv` says that flags
that announce a sound frame announce one that no `Recv` has returned, and that it is stored where
the chip says (`Stored`), unless a `Send` is overwriting it, which clears the flags before it is
done; `ReadInv` that what a `Recv` has read so far is what is stored there. `BytesDiffer` tells
frames apart by their bytes. With several goroutines neither holds, as the driver locks single
accesses only: one clears the flags another waits for.

Each component also has its type invariant proved (`TypeCorrect`, `JoinTypeCorrect`,
`BeaconTypeCorrect`).

## 7. Only model-checked, and not modelled

*Only model-checked*: everything live (`CallsReturn` of nonces and of the radio, `HighServed`,
`CloseTerminates`, `CloseReturns`, `RunEnds`, `HintsConsumed`, `EventuallyConnected`,
`CancelEnds`, `RejoinEnds`, `EmissionSettles`, `DeferredResumes`, `HomeAgain`), as the proof
system does not reason about fairness. Every other property of a passing run is the statement of
a theorem. The four violations are counterexamples; what holds in place of two of them is proved
(`SendsFromZero`, `BudgetHolds`).

*Not modelled*: the byte layout of frames, the formula of the time on air and the cipher (no
state); the entropy tests and the proof of work; configuration, metrics, Wi-Fi setup and the
wiring of `main.go`; the metrics and peer list of the frame handler; churn statistics and jitter
of the storm mitigation; the UDP radio, which stands in for the driver in tests; the radio's
constructor, the values of its settings and the signal strength; the contents of beacons; the
statistics, the spreading factor and the frequency plan of the zone manager. Two bridge nodes, and
two goroutines in the radio driver, are in the modules and not in a run. Fractions of a token are
left out of both buckets; the scheduler's `refill` truncates them, so that the model of the
scheduler allows more than the code emits, while the storm mitigation keeps them.

## 8. Plan

Done, in the order of importance: nonces, scheduler, replay window, hint bus and plugins,
join, mesh control, rekeying, radio, beacons, bridge and zones. What would add most next:

1. The scheduler on the radio driver, in place of a radio that fails or not, with the
   theorems of both as lemmas about the composition.
2. Which promises of the driver survive several goroutines: bytes of a payload reach the FIFO in
   order if no other `Send` or `Recv` moves its pointer, for instance.
3. A perfect FIFO for each consumer of the bus, as an abstract specification of delivery.
4. That a joiner is connected to its own mesh, as `docs/lora-mesh-design.md:429-431` has it, and that
   no two encryptions share a nonce when frames are forwarded: both are false of the code.
5. What the counts of the zone manager still promise although beacons raise them without end:
   that a frequency somebody is on is never given up.
