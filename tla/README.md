# TITAN V14 / HIDRA: TLA+ models, model checking and proofs

TITAN V14 is an encryption board (two FPGAs, described in VHDL) with the
software around it: the HIDRA crates in Rust (`hidra_core`, `hidra_net`,
`hidra_e2e`, `hidra_ui`), the `titan-core` crates and the Call-White
microcontroller in C. This directory models the parts of it whose correctness
depends on *order*: messages that cross, get lost and come twice, kills that
arrive in the middle of a kill, crashes between a pick-up and its checkpoint,
budgets and windows that end between two calls. Paths below are relative to
the repository's `src/`; file names without a directory are unique in it.

Contents: 1 inventory, 2 plan, 3 modules and the code they model, 4 runs and
bounds, 5 fairness and deadlock, 6 proofs, 7 findings, 8 what is not modelled.

## 1. Inventory

### Components that keep state

| Component | State | Operations | Talks to | What makes it correct |
|---|---|---|---|---|
| Symmetric ratchet, `hidra_core/src/ratchet.rs` | chain key, message number, cache of skipped keys | `next_key`, `key_for` | its peer, by message number | same key on both sides in any order of delivery; each key at most once; cache bounded; a replay verdict is true |
| Double ratchet, same file | root key, two chains, DH pair, peer's public key, skipped keys, chain counter | `ratchet_encrypt`, `ratchet_decrypt` (both may turn the DH ratchet) | the other party, by header | key agreement across changes of direction; fresh keys; forward secrecy; bounded cache |
| Ratchet session, `hidra_net/src/double_ratchet.rs` | as the double ratchet, other code | `encrypt`, `decrypt` | the other party | as above; plus: the AEAD, not the ratchet, refuses wrong keys |
| Anti-replay window, `hidra_core/src/protocol.rs` | high water mark, 64-bit bitmap, counters | `validate`, `reset` | fed by `TitanBridge::next_seq` | bitmap exact; no number twice per epoch; nothing fresh refused below the wrap |
| SPI bridge, `titan_spi.rs` | sequence and heartbeat counters | encrypt, decrypt, status, heartbeat, kill | the FPGA over SPI | a result comes from a response of the right kind, and of the right heartbeat |
| Session guard and audit log, `session.rs`, `audit.rs` | counters; hash chain with rotation | `validate`, `record_*`, `log`, `verify_chain` | the application | a warning before the limit; what the chain's verdict says of the log, and what it cannot |
| Handshakes, `key_exchange.rs` (both crates), `pqc_hybrid.rs` | key pairs, consumed or not | initiate, respond, complete | the other party | same keys exactly for matching messages; the id that comes with a key says whose it is |
| Credentials, `shamir.rs`, `revocation.rs`, `secure_boot.rs`, `canary.rs` | shares, lists, images, marked texts | split, reconstruct, sign, verify, embed, identify | authority, devices | what was signed, shared or embedded is read back whole |
| Framing, `framing.rs`, `cobs.rs`, `transport.rs`, `static_alloc.rs` | byte accumulator, ring, vectors | `seal`, `open`, `encode`, `feed`, `push` | UART | frames in = frames out; damage is local; no secret lingers |
| HYDRA mesh, `hydra.rs` | broker health, reputation, topic, seen nonces | `select_targets`, `broadcast_message`, `subscribe_channel`, `check_and_record_nonce` | MQTT brokers, concurrently | bad brokers left out; every broadcast returns; nothing fresh is taken for a duplicate |
| Messaging and carriers, `messaging.rs`, `ghost_link.rs`, `sat_mesh.rs` | sequence numbers; circuit and its age; retry queue | `send_payload`, `receive`; `connect_tcp`, `rotate_circuit`; `send`, `flush_queue` | the peer, Tor, modems | each message once; no dial on an old circuit; what is refused for want of a connection waits until a flush |
| Traffic shaping, `topic_rotation.rs`, `decoy.rs`, `tor_jitter.rs` | topic with its age and count, decoy budget, delays | `check_and_rotate`, `should_send`, `JitteredSend::new` | the sender and the clock | budgets and intervals hold across the edge of a window |
| End-to-end device, `hidra_e2e/src/main.rs` | two ratchets, guard, audit log | `send`, `receive` | another device over any carrier | each number honoured once; the callers' counts stay in step |
| Operator console, `hidra_ui/src/main.rs` | mode, panel, draft, message list, ticks | keys, commands, `tick`, frames | operator | what is shown and sealed is what was typed |
| titan-core conversation, `titan_hopping`, `titan_dead_drop`, `titan_ratchet`, `titan_sentry`, `titan_dht` | slots by address, counters, checkpoint, chains, signals | `store`, `retrieve`, `expire_old`, `checkpoint`, `advance_chain`, `scan` | peer, by time and address | a crash does not desynchronise for good; a signal is noticed in its epoch |
| `kill_protocol.vhd` | machine, latch, scrub address and pass, factory timer | asynchronous kill, clocked scrub | key memory, kill sources, reset | a kill is final and erases everything; no kill, no erasure |
| `watchdog_monitor.vhd` | filter, timer, failure counter, grace counter, latch | one edge | heartbeat of the PolarFire | a beating line lives, a still one kills |
| `system_supervisor.vhd`, `post_self_test.vhd` | boot state, timers; self-test state and verdict | one edge each | PLL, AES core, each other | ready only when settled and tested; boot ends |
| `artix7_top_v14.vhd` | wiring: kill sources, gating by `system_ready`, reset | - | all of the above | digital kills only after the self-test; a kill once taken runs to its end behind the gate |
| HMAC heartbeat, `hmac_heartbeat_ctrl.vhd`, `pf_hmac_responder.vhd` | challenge, tag, timers, verdict | one edge each | each other, over SPI and a master | the verdict was earned by the answer to this round's challenge |
| HMAC unit, `hmac_sha256.vhd`, `sha256_core.vhd` | phase, word and block counters, word memory, hash | one edge each | controller and responder above | every start is answered with the HMAC of its message, in constant time |
| Call-White MCU, `callwhite_mcu/src` | PIN attempts and binding (backup registers), lockout, dead-man timer and key queue (RAM), `wake_pending` | boot loop, main loop, interrupts | operator, FPGA KILL pin, TPL5010, supply | attempts are counted across restarts; kills have their reason; the dead man fires |

Stateless or numeric parts (ciphers, KDFs, the AEGIS neural network,
side-channel countermeasures) and simulators, testbenches and scripts have no
behaviour over time that is worth a state machine.

### How they interact

The host software encrypts under ratchet keys, wraps layers around the text,
frames the result, and sends it through the SPI bridge, over the HYDRA mesh
through Tor, or over a fallback carrier; `HidraDevice` is the code that puts
ratchets, layers, guard and audit log together. On the FPGA the supervisor
releases `global_rst`, the self-test answers, and `system_rdy` opens the gate
for the digital kill sources, one of which is the watchdog that listens to the
PolarFire. All FPGA modules modelled here run on one clock; pins move between
its edges and the kill branch is asynchronous. `titan-core` is a second,
separate stack: two parties who meet at addresses derived from time and a
shared secret, a navigator that checkpoints its counters, and a sentry that
polls a DHT for signals.

The same idea is often written twice, independently, and differs: the double
ratchet of `hidra_core` refuses a number behind the chain, that of `hidra_net`
does not look; `CoreKeyExchange` and `KeyExchange` model two handshakes;
replay is refused by the window, by the nonces of the mesh, by the numbers of
a messaging session and by the keys of a ratchet. Of these layers each is
modelled with everything that calls it left free, which covers every caller.
Rust's `&mut self` keeps calls of one object apart, so calls are atomic except
where the code awaits while it holds only `&self` (`broadcast_message`) or
time passes in an await (`connect_tcp`).

### What is hard

* *Delivery*: reordering, loss and duplication around a change of direction,
  with a cache at its limit; a message that comes back to its own sender.
* *Interruption*: a kill in the middle of a scrub, a reset in the middle of a
  kill, an unlock in the middle of a boot, a power cycle in the middle of a
  PIN, a crash between pick-up and checkpoint, a step of `send` that fails
  after the ratchet has moved.
* *Boundaries*: the shift of the window by the width of its word, the wrap of
  the counter, the last address of the key area, a full COBS block, a full
  ring, a deduplication window that loses its half, a budget that renews
  between two calls.
* *Stale values*: registered outputs read one edge late, a duplicate that
  carries an old public key, targets chosen before a broker failed, a response
  to an earlier request, a circuit that ages while it is dialled.

Each hazard is listed at its line in `PROJECT.json`, with the properties that
catch it or the reason why none does.

## 2. Plan

Done, in the order of importance:

1. `AtMostOnce`, `SymmetricRatchet`, `SequenceValidator`.
2. `RatchetKeys`, `DoubleRatchet`, `RatchetSession`: the two-party protocols.
3. `KillProtocol`, `WatchdogTimer`/`WatchdogMonitor`, `BootSupervisor`, and
   their composition `KillChain`.
4. The wire and what makes it credible: `UartLink` (with COBS), `Envelope`,
   `StaticBuffers` (a refinement of `BoundedQueue`), `LayeredFormats`,
   `Shamir`, `SignedArtifacts`, `KeyExchange`, `CoreKeyExchange`.
5. The services of the network: `HydraMesh`, `CarrierLinks`, `Messaging`,
   `TrafficShaping`.
6. The services around the device: `TitanBridge`, `SessionAudit`,
   `OperatorConsole`, `HidraDevice`; and of titan-core `DeadDrop`, `TitanRatchet`, `Sentry`.
7. The heartbeat of the two FPGAs, `HmacHeartbeat`, with the unit behind it,
   `HmacCore`; and the firmware of the Call-White board, `CallWhite`.
8. The proofs: of every safety property the runs check on the board, in its
   kill chain, in the services of the core and in those of the network, and of
   the symmetric ratchet (section 6).

Left of the model:

* The command path of the FPGA (`comm_protocol.vhd`, `spi_cmd_slave.vhd` beyond
  its heartbeat commands, the key store): would make the device behind
  `TitanBridge` a module of its own.
* The verdict of `HmacHeartbeat` as one of the kill sources of `KillChain`,
  which now takes it as part of its free `alarm`.

Left of the proofs:

* `KeysUsedOnce`, `EveryDeliveryOpens` and the refinement of `AtMostOnce` by
  `DoubleRatchet` and `RatchetSession`, with the chains as functions of their
  roots (no recursion needed: `RatchetKeys` is free symbols), and
  `KeepNewestIsTheLoop`, an induction over the keys of a gap;
* the refinement of `BoundedQueue` by `StaticBuffers` (`RingIsQueue`);
* of `MCWire`, the handshakes and signed artifacts, in a proof module that does
  not reach `Shamir`, whose field needs `Bitwise`.

## 3. Modules

Every definition's source lines are in `PROJECT.json` under `map`. Definitions
whose names begin with `Mut` are deliberately wrong variants of the definition
that follows them; no specification uses them. They document which mistake each
property would catch.

**`AtMostOnce`** is the abstract promise of every anti-replay filter here: a
count per identifier that only ever goes from 0 to 1; `EpochSpec` also allows
all counts to be cleared at once. **`BoundedQueue`** is that of the ring: first
in, first out, refusing a byte when full.

### Ratchets

**`SymmetricRatchet`** (`ratchet.rs` 50-123, 543-608). One direction. A chain
key is the number of HMAC steps that made it. `NextKey` is `next_key`; `KeyFor`
is `key_for`, one action per branch: `KeyFromCache`, `KeyInOrder`, `KeyAhead`,
`TooManySkipped`, `ReplayDetected`. The network needs no variable: any message
ever sealed may be asked for at any time, any number of times. The insertion
loop with eviction is `KeepNewest`, a closed form; `KeepNewestIsTheLoop` checks
it against the loop.

**`SequenceValidator`** (`protocol.rs` 171-277, `titan_spi.rs` 473-477). The
bitmap is the set of ages whose bit is set. A packet is identified by how many
were sent before it, and carries that number modulo `MaxSeq + 1`.

**`RatchetKeys`** holds the algebra both double ratchets share. A root key is
the tuple of the DH values mixed into it, a DH value is the unordered pair of
key pairs, a message key is its chain and number. `Derivable` says what a
holder of a state can compute: HKDF and X25519 are one-way and collision free,
which is the only cryptographic assumption made.

**`DoubleRatchet`** (`ratchet.rs` 246-523). `Encrypt`, including the forced DH
step, and `Decrypt` with one disjunct per way out of `ratchet_decrypt`. The
order of eviction among entries of equal number is that of a HashMap and is
left open. A failing skip on the old chain leaves `recv_chain` taken out, as
the code's `take()` followed by `?` does. The returned keys are what the code
returns: it does not know whether a key opens anything.

**`RatchetSession`** (`hidra_net/double_ratchet.rs` 131-287). Here `decrypt`
also opens the AEAD; a message opens exactly under its own key. State changes
made before a failing open stay, as in the code.

### The wire and its credentials

**`Envelope`** (`framing.rs`) the sizes and the replay window of
`seal` and `open`; **`UartLink`** COBS byte by byte, with a
shorter full block (`cobs.rs`), and the accumulator (`transport.rs`) on a line
that drops bytes, damages them or makes delimiters of them, a byte being the
message it belongs to and its index; **`StaticBuffers`** (`static_alloc.rs`) the
three fixed containers, whose ring implements `BoundedQueue`;
**`LayeredFormats`** the sizes through envelope, HLP packet and transport
envelope, the padding tiers of titan-core, the CRC-32 as a linear map, and the
embedding and reading back of fingerprints (`canary.rs`).

**`Shamir`** is GF(256) arithmetic with split and reconstruct, one byte at a
time; **`SignedArtifacts`** the revocation lists, installed in any order
(`revocation.rs`), and firmware images, signed and verified with the header
only partly under the signature (`secure_boot.rs`); **`KeyExchange`** the
envelope handshake, in which any envelope under the pre-shared key is taken,
the party's own included, and the hybrid one of `hidra_net`;
**`CoreKeyExchange`** that of `hidra_core`, where Kyber's implicit
rejection gives a key instead of an error. Keys are terms: equal terms are
equal keys.

### Network services

**`HydraMesh`** (`hydra.rs`). `broadcast_message` awaits between its publishes
and takes `&self`: one call per message is in progress, and calls interleave
with each other, with health and reputation reports, with the hour that
changes the topic and with the receiver. What a broker makes of a queued
publish, `Forwarded`, is external: nothing, one copy or two.
`check_and_record_nonce` is `Recorded`/`SeenBefore` with `Evicted`.

**`CarrierLinks`** holds the two carriers: of `ghost_link.rs` a circuit is, for
the code, the time of its last rotation, and time passes while `connect_tcp`
dials (`GhostSpec`); of `sat_mesh.rs` failover, queue and flush
(`FallbackSpec`). Where the code has a TODO in place of a driver the model does
nothing either: `send` answers `Ok`, and `flush_queue` empties the queue and
counts what was in it.
**`Messaging`** (`messaging.rs`, window of `framing.rs`): two parties with
skewed clocks, each of which may receive any message, its own included; nothing
is persistent, a restart resets the numbers.
**`TrafficShaping`**: topics with their budget, decoys per minute, jitter. The
owner asks `check_and_rotate` before each message it records; the topic's budget
rests on that.

### Services around the device

**`TitanBridge`** (`titan_spi.rs`): a call sends its request, waits a fixed
time and reads what the device holds then: nothing readable, the response, or
one to an earlier request. **`SessionAudit`** (`session.rs`,
`audit.rs`): the limits of a session with their warning (`GuardSpec`), the
chained log with rotation and a writer of its public entries (`AuditSpec`), who
changes a field, the HMAC included, removes an entry, or computes an HMAC anew
from the one stored before it. An HMAC is the key, the number and the data it
was computed over.
**`OperatorConsole`** (`hidra_ui/main.rs`): draw, key, tick.
**`HidraDevice`** (`hidra_e2e/main.rs`): `send` and `receive` of two devices
with one session's keys, each step in its order, over a network that hands any
wire to either of them. The number a wire is opened with comes from the caller.

**`DeadDrop`** composes sender, slots and receiver of titan-core as its
integration tests do, with checkpoints and crashes of either navigator;
**`TitanRatchet`** is the ratchet of their messages at both ends; **`Sentry`**
the signals per epoch under a drift of the clocks.

### The board

**`KillProtocol`** (`kill_protocol.vhd`). Input ports are variables. The
environment changes them with an edge (`ClockEdge`) or between edges
(`InputChange`); `Settle` is the asynchronous branch and applies to whatever
the edge would have done. The scrub writes through a registered port, so the
memory sees each byte one edge late (`MemoryStep`). A byte is `key`, `random`
or `zero`.

**`WatchdogTimer`** is the clocked core (grace, timer, failures, latch) with a
voted edge as input; **`WatchdogMonitor`** adds the synchronizer and the
3-of-5 vote and a history of what the line did.

**`BootSupervisor`** is `system_supervisor` and `post_self_test` stepping
together; each sees the other's registers of the edge before. The AES core is
external: it answers or not, right or wrong.

**`KillChain`** composes `BootSupervisor`, `WatchdogTimer` and `KillProtocol`
by `INSTANCE ... WITH`, with the wiring of `artix7_top_v14.vhd`: `global_rst`
resets watchdog and kill machine, `safe_kill` gates all sources but `KILL_PIN`
by `system_rdy`. The other nine digital sources are one free level `alarm`, and
the voted heartbeat edge is free.

**`HmacHeartbeat`** (`hmac_heartbeat_ctrl.vhd`, `pf_hmac_responder.vhd`, the two
heartbeat commands of `spi_cmd_slave.vhd`). One operator per state of each
machine; the machines have a clock each, so their edges interleave freely, and
each may be reset at any time. Between them the slave hands out a challenge in
the one cycle it is offered, and a master relays any challenge and any tag it
has seen, in any order, any number of times, or none. A tag is the challenge it
answers; nonces do not repeat; an HMAC is busy for a number of cycles, in which
its core sees no start.

**`HmacCore`** (`hmac_sha256.vhd`, `sha256_core.vhd`) is that core at its full
size. A word is named by where it comes from, a hash by the message it is over
if that is an inner or outer message of an HMAC, so that a word fed early,
twice, or not at all changes the result; rounds are counted.

**`CallWhite`** (`main.c`, `boot_pin.h`, `operator_bind.h`, `dead_man.h`,
`mcu_watchdog.h`, `pvd_kill.h`, the queue of `keypad.h`). One action per turn of
a loop and per step that a restart can cut off: the comparison and the write of
an attempt, each word of the binding, each group of registers of the wipe. Time
is in seconds, a WAKE comes in each, and the TPL5010 resets when two in a row went
unanswered; a delay starts anywhere between two of them. A PIN is one event of
the queue. The firmware has no caller for setting a PIN, so the model starts
with one set.

### Instances

`MC*` modules and `.cfg` files are the TLC instances; `*_proofs` modules hold the
theorems, of each component and of their compositions. Components that share no state with each other are checked in one
run: a variable `subject` says which of them moves in this behaviour while the
others rest in their initial states, and the run's properties are conjunctions
of theirs. The state space is the sum of theirs, not the product, so nothing is
lost; where parts do interact (the board's chain, a whole device, a
conversation over the dead drop) there is a module that composes them.

## 4. Runs

| Run | Parts | Bounds, and why they are enough |
|---|---|---|
| `ratchets` | the three ratchets | symmetric: 6 messages, skip limit 3, cache 2, so gaps below, at and above both limits, several in a row, eviction of keys of an earlier gap. Double ratchet, once within its limits: 8 messages without duplicates, several changes of direction with stragglers of every earlier chain; once beyond them: 5 messages, 2 copies, skip limit 1, cache 1, a DH step forced after 2. Session: 5 messages, 2 copies, skip limit 1 |
| `board` | `KillProtocol`, `WatchdogMonitor`, `BootSupervisor`, `HmacHeartbeat`, `HmacCore`, `CallWhite`, each alone with free inputs | 3 key addresses starting at 1, not at 0, to which a reset returns the counter; factory window 2; a timeout of 2 and 3 failures, the smallest that tell one late beat from a dead line; boot timers 3, 3 and 2, long enough that a counter left over from an earlier attempt makes a difference; heartbeat: 2 nonces, so that the old tag meets the new round, interval 2, random wait up to 2, HMAC 2 cycles, timeout 4, longer than the shortest answer; hash core: the real sizes, 2 messages; MCU: 3 attempts with lockouts of 2 s and 3 s from the first and second, warning and kill after 2 s and 4 s, duress delay of 3 s as in the code, a binding of 2 words (none, torn, whole), a queue of 2, 8 s after each reset and 2 restarts |
| `kill_chain` | the wired chain under free pins | shortest timers with every state reachable; one key address (the area's size is covered by `board` and by the proof) |
| `wire` | codecs, sizes, link, buffers, credentials, handshakes | COBS: every payload of up to 8 bytes from {0, 1, 7}, full block 2 instead of 254; sizes: every length up to 4200, past every limit and tier; link: 5 frames, one above the limit of 4, 3 damaged bytes; buffers: 3 cells and 2 values; CRC: 14 bytes; shares: 3 with coefficients of both halves of the field; 3 list entries, 2 keys; 3 crossing handshakes, 2 pairs for each party of the envelope handshake |
| `net_services` | mesh, inbox, Tor link, fallback, messaging, shaping | mesh: 2 concurrent broadcasts to 2 of 3 brokers, one change of topic, 2 copies under way; with an owner: 3 reports, enough to enter and leave the blacklist and for the rate to fall on both sides of the hysteresis; inbox: 6 senders, a window of 4 that is halved twice over 7 messages; circuits up to an age of 5 around an interval of 3 and a minimum of 2; queue of 2; messaging: 2 messages in all, clocks apart by the window of 1, one restart; shaping: one decoy per 4-tick minute, where spacing alone would allow four, and topics of 2 messages or 3 ticks |
| `core_services` | window, bridge, guard, audit, console, devices, drop, ratchet ends, sentry | window: 6 numbers, width 3, 8 packets, so shifts below, at and beyond the width and two packets past the wrap; bridge: 4 calls over a counter of 3 values; guard: 10 messages, so that 80 percent is not the limit itself, and 5 ticks; log: 6 events, cut at 4, 3 changes by hand, enough to alter an entry and chain the two after it anew; console: drafts of 2 from {`:`, `k`, `l`}; devices: 4 records each, numbers 0 to 2, skip limit 1; drop: 5 messages, time to live 2, checkpoint every 2, lookahead 3, 2 crashes; ratchet: 4 keys, 2 turns; sentry: epochs of 3 ticks, drifts of 0, 2 and 3 around the limit of 2 |
| `double_ratchet_forced`, `ratchet_session_duplicate`, `kill_chain_level`, `cobs_round_trip`, `device_unique_keys`, `titan_coordinate` | the disagreements of section 7 | the smallest instance that shows each |

What the passing runs show:

* `ratchets`. `KeyAgreement`, `EveryDeliveryOpens`: within the limits and
  without duplicates, reordering never costs a message or yields a wrong key.
  `CacheAccounting`: a skipped key is cached, used or evicted, never two of
  these, and a replay verdict never falls on a message that could still be
  opened. `KeysUsedOnce`, `ImplementsAtMostOnce`,
  `SessionsImplementAtMostOnce`: even with duplicates, evictions, forced steps
  and half-failed calls no key serves two messages, none can be derived after
  its use, and no message opens twice.
* `board`. `NeverNormalAgain`, `EraseExact` (stopped means erased, after four
  passes; without a kill the keys survive), `WindowClosesForGood`,
  `WatchdogExact` in both directions, so the watchdog is neither deaf nor
  nervous; `BootGates` (released only when settled, ready only when freshly
  tested); `GetsDone` (kills whose level falls and boots whose lock lasts
  complete). `HeartbeatExact`: the verdict was earned by the tag of this round's
  challenge and lasts one round, whatever old tags come late; a tag on offer
  answers the last challenge unless that one crossed a computation; an HMAC is
  the right one, 653 edges after its start, at whatever point the one before was
  killed. `CallWhiteExact`: no wrong PIN goes uncounted but one whose restart
  fell before the write; only the listed reasons kill, and the duress PIN is not
  one of them; the dead man fires in time unless a key is left in the queue; a
  loop that turns is never reset by the external watchdog.
* `kill_chain`. `NoKillBeforeTested`, `WatchdogKillLands`; `ErasedInTime`: once
  the gate is shut and `KILL_PIN` low, a kill that was taken is erased and
  halted at the latest `EraseTime` edges later, those of four passes, although the
  supervisor resets and boots the board meanwhile and a latched source stays high. Without
  the gate's mask it would not be, which is what `kill_chain_level` shows of the
  open gate.
* `wire`. `CodecsExact`: what fits comes back whole from every layer, what does
  not is refused by the layer whose limit it exceeds, any three flipped bits
  within a packet are noticed, a leaked text names its holder. `LinkExact`: a
  damaged byte costs at most its frame and the next one, order is kept, and no
  secret stays in a popped or cleared cell. `CredentialsExact`: enough shares
  reconstruct, a signed list installs whole, only signed images boot, and two
  parties derive equal keys exactly for matching messages, with handshakes
  crossing, reflected, repeated and answered twice; in the envelope handshake
  that is to say exactly if each was told the other's id. `RingIsQueue`:
  refinement.
* `net_services`. `BadBrokersLeftOut`: no broker is chosen between its fall
  below the threshold and its recovery above twice the threshold.
  `MeshProgress`: every broadcast returns and every first copy that arrives is
  accepted. `OnceAndRecent`: nonces are remembered for half a window; a session
  returns each message at most once and nothing outside the clock window,
  until a restart. `CarriersKeepFaith`: no dial on an old circuit, and what
  `send` refused for want of a connection is in the queue until a flush counts
  it, no more and no less often. That it is transmitted then is not claimed, for
  the code does not. `TrafficPaced`: budgets and distances.
* `core_services`. `WindowExact`, `FreshRefusedOnlyAfterWrap`,
  `ImplementsAtMostOncePerEpoch`; `AnswersBelieved`: results come from a
  response of the right kind, and the heartbeat counter counts answered
  heartbeats whatever failed between; `GuardsExact`: the warning comes before
  the limit; a log nobody changed verifies through all rotations; and one that
  was changed, if its last HMAC was once logged, as it is whenever `log` was
  called since, verifies exactly when every entry stands where it was logged,
  with no gap, what the first one says aside; `ConsoleFaithful`; `DeviceKeepsCount`: each
  number is honoured once, and every key and every record is accounted for by
  a message, a waiting key or a failure; `TitanDelivers`: after crashes and
  expiry a sweep longer than what was lost finds the next envelope, the ends
  take the same keys, and a signal is noticed within its epoch or never.

Named bounds (`MaxMessages`, `MaxCopies`, `MaxSend`, `MaxCalls`, `MaxTime`, ...;
each is marked as a bound where it is declared) appear only in guards; all
other constants are the code's own with smaller values. No symmetry is
declared: the parties play different parts, and addresses, brokers and numbers
are ordered.

## 5. Fairness and deadlock

Only liveness uses fairness. On the board it is that of the clock:
`KillProtocol` and `KillChain` assume weak fairness of an edge: the oscillator
runs. `BootSupervisor` assumes weak fairness of an edge at which the AES core
answers: its rounds are counted, so it is busy only for a while. The fairness
is stated over the registers, not over the lock, so that it never forces the
PLL to move. `KillCompletes` and `BootCompletes` state what else they need: a
kill level that falls, a lock that lasts.

In `HydraMesh` it is that of the runtime: weak fairness of `Publish(m)` and of
`Arrive(m)` for each message, because tokio polls every task that is ready and
the receiver's event loop keeps being polled. No broker is assumed to succeed:
a publish may fail or be queued, and either lets the call go on.

`ratchets`, `wire`, `net_services` and `core_services` set
`CHECK_DEADLOCK FALSE`: with a budget of messages, bytes or calls a behaviour
may have nothing left to do. `board` sets it for the MCU, whose seconds and
restarts are bounded and which halts behind a kill. `kill_chain` checks for
deadlock: a circuit never stops.

## 6. Proofs

Every theorem holds for every value of the constants that the assumptions named
in the modules allow (`ConstantsAssumption`, `BootConstants`,
`CallWhiteConstants`, ...). Most only give types and rule out empty sizes. Those
that say more, all satisfied by the values in the code:

* three timeouts of the watchdog are longer than its filter's delay
  (`KillAfter > Lag`), without which no line is slow enough to be regular;
* the duress delay outlasts two WAKEs, the PIN tiers and the lockouts rise, the
  dead man warns before it kills, a binding has two words or more;
* a block of the hash has room for the length after the message and after a
  hash, and more rounds than words; an HMAC takes two cycles or more;
* `warning_percent` leaves a message and a second between warning and limit
  (80 percent of the configured limits does);
* the circuit's age is counted past both limits it is compared with;
* the blacklist's threshold is a rate, its decay a factor of at most 1, the
  deduplication window even; the jitter's maximum is above its minimum.

The bounds of section 4 (`MaxMessages`, `MaxCalls`, `MaxTime`, ...) are
parameters too: what is proved does not depend on how many messages, calls,
copies, crashes or restarts there are.

### Ratchet, window and services of the core

* **`SymmetricRatchet_proofs`**: `IInv` is inductive: types; both chains at
  their counters and every held key being that of its number
  (`KeysFollowTheChain`); the accounting of keys; the cache bound; and that
  what is cached is newer than what was evicted (`EvictsOldest`), without which
  the accounting is not preserved by an eviction in the middle of a gap. From
  it `Agreement`, `Bounded`, `Accounting`, `Verdicts`, their conjunction
  `Cached`, and `Refinement`: every step is one of `AtMostOnce` or a stutter.
* **`CoreServices_proofs`**, component by component:
  * the window: exactness of the bitmap *and* of the high water mark; without the
    mark, a bit below the window could have been forgotten and be accepted again
    (`Exactness`, `Refinement`). `FreshIsAccepted` adds that below the wrap the
    mark is not above the newest packet (`MarkBelowWrap`).
  * `GuardInv`: the warning before the limit, inductive as it stands; the step is
    that one message or one tick before a limit the advice is given
    (`NearTheLimit`). `AuditInv`: each HMAC as logged is computed under the one
    before, the chain key is the last of them, and while nobody changed an entry
    the log is their end. What is true of a changed log needs no invariant
    beyond that: HMACs that are equal were computed over the same
    (`HmacsDiffer`), so from an HMAC once logged the chain leads back to the one
    logged before it (`LinkBack`), place by place (`ChainLeadsBack`).
  * `BridgeInv`: every request carries the number its call gives, and the device
    holds requests in the order of the calls, so a number comes again only after
    the whole counter.
  * `ConsoleInv`: draft, frame and queue against what was typed, in each mode.
  * `DeviceInv`: per device, `Honoured` (its receiving number, its keys in
    waiting and the numbers that were opened or failed partition what it has
    passed) and `Accounted` (the session's count is the sum of the ledger).
    `KeyForCounts` says what one key taken does to the first.
  * `DropInv`: while the sender has not restarted, `InTurn`: what was picked up,
    skipped, expired or still lies in a slot makes up what was sent, and slots
    and pick-ups are in order. This is what makes a sweep long enough.
  * `EndsInv`: for every root and chain (`KeysLineUp`), the envelopes in the drop
    are sealed with the next keys in order, unless a turn crossed them. The
    invariant has to speak of every root, since an end that lags is on an older
    one; the run checks the root of the moment.
  * `WatchInv`: a signal is posted under the epoch of its time, and one that
    woke the sentry was younger than an epoch and met no drift.

### The board

* **`KillProtocol_proofs`**: "stopped means erased" is not inductive. The
  invariant says, for each state, which addresses hold zero and how often each
  was written, in terms of `scrub_addr` and `scrub_pass` and of the one byte
  still in the registered port; a kill may restart it at any point. From it
  `Typing`, `Latched`, `Erasure`, `FourPasses`, `Preservation`, their
  conjunction `Erased`, and `WindowCloses`.
* **`KillChain_proofs`**: the invariant of `KillProtocol_proofs` holds of the
  machine in its place on the board (`MachineInv`). `ReadyInv` (what the board
  knows of the boot at `system_rdy`) gives `NoKillUntested`; `LandInv` (no level
  that the window lets through waits for an edge) gives `WatchdogKillIsTaken`.
  `CutInv` says that the edges for which nothing could reach the machine and
  those it still needs (`Left`, from its state, pass and address) never exceed
  `EraseTime` together; each edge brings it nearer (`Nearer`). With
  `MachineInv` that is `KillRunsToItsEnd`, a bound in edges where the runs have
  liveness under fairness.
* **`Board_proofs`**:
  * `BootInv`: how long the lock has held in each state (`SettledInv`), and that
    nothing the self-test shows is older than this boot (`FreshTestInv`). From
    it `BootIsGated`, an action property.
  * `WatchdogInv`: the eight samples from pin to vote are a delay line; on a
    regular line (`RegularInv`) the time of the timer and its failures so far is
    bounded by where in the delay line the next change is, and on a still line
    (`ArmedInv`) bounded from below by how long it has been still. Both
    directions of `WatchdogIsExact` need the filter: the timer sees the past.
  * `McuInv`: RAM repeats the attempts in the backup registers, which are one
    behind the wrong guesses between comparison and write (`AttemptsInv`), and
    the binding but while it is written (`BindInv`); the lockout is over before a comparison
    (`LockoutInv`), a kill has its reason (`KillInv`), the duress delay runs out
    only behind the watchdog's reset (`DelayInv`), a turn answers the pending
    WAKE (`WakeInv`), the modem's absence is short (`AwayInv`).
* **`Heartbeat_proofs`**: `HeartbeatInv` follows a round through the states of
  the controller (`CoreInv`, `RoundInv`), bounds the age of the verdict in each
  (`AgeInv`), and says what the responder's register can hold after a challenge
  that crossed a result or a computation (`OnOffer`), the case distinction of
  the code's race. `HashInv` is a list of the ten situations of the HMAC unit
  (`InStep`), each with its exact cycle, so that the answer and its constant
  time are proved together, for any number of words and rounds.

### Services of the network

**`NetServices_proofs`**:

* `GhostInv`: the state of a dial and the age its circuit had when it began.
  `FallbackInv`: per payload, flushed plus queued is what was refused for want of
  a connection, a count over the places of the queue; and no message in the queue was ever
  tried, which is why the limit of attempts drops none.
* `ChatInv`: every receipt is remembered by the session that gave it out, in
  this incarnation or a former one, and numbers of one incarnation rise.
* `ShapingInv`: topics and jitter are plain; for decoys (`WindowsOfDecoys`) the
  invariant is that some index splits those of the last minute into the window
  that runs and the one before. The bound of twice the budget per minute, and
  not once, is that split.
* `MeshInv`: the blacklist knows the rate (`JudgedBy`: no low rate is off it, no
  high one on it, which is the hysteresis), and the remembered nonces are a
  suffix of the accepted ones, the whole or more than half a window
  (`DedupInv`).

### Compositions

The `MC*` modules put components side by side under one `subject`. A step of
`BoardNext` or `ServicesNext` is a step of one component and a stutter of the
others (`KillOnTheBoard`, `McuOnTheBoard`, ...), so each component's theorem
holds of the composition, in the very form the run checks: `BoardTyped`,
`HeartbeatIsExact`, `BoardIsSafe`; `ServicesTyped`, `GuardsAreExact`,
`BridgeIsNotFooled`, `OperatorIsServed`, `TitanIsDelivered`, `DevicesAgree`;
`NetServicesTyped`, `CarriersAreFaithful`, `MessagesAreRecent`,
`TrafficIsPaced`, `BadBrokersStayOut`.

### Model-checked only

* Of `ratchets`: `TypesOK`, `KeepNewestIsTheLoop`, `EveryDeliveryOpens`,
  `KeysUsedOnce` and `SessionsImplementAtMostOnce`, the two double ratchets (see
  the plan; the closed form against the loop is an induction over data). What
  the symmetric ratchet contributes is proved.
* All of `wire`: `Shamir` computes with `Bitwise`, which no module with a theorem
  may reach; COBS and CRC are recursions over bytes.
* Liveness (`GetsDone`, `MeshProgress`): fairness and `ENABLED` are out of the
  prover's reach. So is induction over data with the library's theorems, and
  recursive operators; no module proved about declares one.

## 7. Findings

Six runs are expected to fail, each showing the code at odds with what its
documentation or tests say:

* **`kill_chain_level`**: a latched digital source, such as the watchdog, holds
  `kill_active` high for ever; the asynchronous branch then holds the machine
  in `ZEROIZE_START` and nothing is ever erased (`kill_protocol.vhd:239`). The
  documents promise that a kill leads to the zeroized state. Only a source that
  lets go, or an unlock that drops `system_rdy`, lets the passes run.
* **`double_ratchet_forced`**: the DH step forced after
  `MAX_MESSAGES_PER_CHAIN` messages makes sender and receiver mix different
  values (`ratchet.rs:296`); keys disagree from then on.
* **`ratchet_session_duplicate`**: a duplicate burns the key of the next
  message (`hidra_net/src/double_ratchet.rs:228`), although the test
  `t7_duplicate_message_rejected` treats it as harmless.
* **`cobs_round_trip`**: a zero right after a full block of non-zero bytes is
  lost in `encode` (`cobs.rs:56`), although `decode` claims to restore the
  original (`cobs.rs:86`). `CodecsExact` states which payloads survive.
* **`device_unique_keys`**: both ratchets of both devices start from one root
  (`hidra_e2e/src/main.rs:145`), so the n-th message of either device is under
  the same key; criterion 4 of the file says every message has its own
  (`main.rs:33`).
* **`titan_coordinate`**: a navigator restored from its last checkpoint sends to
  coordinates already used (`navigator.rs:37`); `titan_hopping/src/lib.rs:33`
  calls them one-time.

Further divergences met while modelling, without a run of their own. The models
contain the behaviour of the code.

Ratchets and window:

* `ratchet.rs:347`: a late duplicate of an *earlier* chain is taken for a new
  DH key; it replaces root and chains and returns a wrong key with `Ok`, where
  `error.rs:43` has a replay error for it. It is why `KeyAgreement` is asked
  without duplicates.
* `protocol.rs:177` says the counter's wrap is detected and forces a new key;
  `needs_rekey` only reports, and fresh packets past the wrap are refused until
  somebody calls `reset` (`FreshRefusedOnlyAfterWrap` states the exact limit).
* `hidra_net/src/double_ratchet.rs:25` calls `MAX_SKIP` the number of keys
  stored; it limits one skip, and the map is never trimmed.

Device and its services:

* `titan_spi.rs:354` announces sequence validation of responses, and 267-268 a
  heartbeat bound to its counter; no number is compared, so a late response to
  an earlier request of the same kind is taken for this one. `AnswersBelieved`
  states what is left: the kind. `get_status` accepts anything of 24 bytes or
  more, `kill` returns `Ok` even if nothing was sent, a response with more
  than 501 payload bytes never fits, and `spi_cmd_slave.vhd` speaks an older
  format of the packet.
* `HidraDevice` audits every error of the ratchet as `ReplayDetected`, also a
  gap too far ahead; a failed `send` uses up its key and one message of the
  session; a device's own message that is echoed to it opens, and uses up the
  number of its peer's.
* `audit.rs:6-10` speaks of an unbreakable chain: no entry is deleted, none
  modified, none forged. `verify_chain` compares each entry with the one before
  only. It accepts a log cut at either end (rotation cuts one end itself, line
  188), and one whose first entry says something else; it never reads
  `severity`; and since each key is the HMAC stored before, whoever may write
  the entries can compute the rest of the chain anew, which goes unseen until
  another entry is logged. `chain_key` and `next_seq` would tell; they are not
  compared. `ChainVerdictExact` states what is left.
* `secure_boot.rs` takes `min_version` from the part of the header that is not
  signed. A Layer-1 envelope above 4068 bytes exceeds `HLP_MAX_PAYLOAD`.
* The console stays in command mode after Enter; F1 there returns to text mode
  with the draft `:`; `:kill` only sets a flag; nothing drains
  `outgoing_queue`; the network panel is never refreshed (`hidra_ui/main.rs`).

Network:

* `broadcast_message` returns `Ok` when publishes were queued, while
  `hydra.rs:378` speaks of brokers that received the message; nothing calls `record_success` or
  `record_failure`; a SICK broker is never set alive again except by its owner;
  the receiver stays on the topic of the hour it subscribed in (474), so
  messages of the next hour pass it by; a message whose three brokers fail is
  lost, although line 14 lets any seven of ten fail. A nonce older than half the
  window is accepted again.
* `process_kex_envelope` does not look at the sender
  (`hidra_net/src/key_exchange.rs:162`): a
  party's own envelope, sent back to it, uses up its pair and makes a key with
  itself. The id returned with the key is the only sign of it.
* `GhostLink::rotate_circuit` changes counters, not the circuit.
* `FallbackTransport` has a TODO in place of transmission (`sat_mesh.rs:145`,
  148, 180): what `send` answers `Ok` for goes nowhere, and a flush discards the
  queue while it counts it as sent. The limit of attempts cannot
  be reached; a caller that repeats what returned
  `NoConnectivity` queues it twice.
* A messaging session does not retry and does not use acknowledgements; its own
  messages, echoed to it, are returned like its peer's and advance the receive
  number; a restart forgets the numbers,
  after which only the five minutes of the envelope bound a replay.
* The decoy budget bounds a window that starts at a poll, not a minute; with a
  maximum equal to the minimum `compute_jitter` divides by zero, with a smaller
  one its subtraction overflows (`tor_jitter.rs:43`).
* An envelope of four blocks or more exceeds `MAX_FRAME_SIZE` (`transport.rs`).
* Revocation lists carry no version: an older signed list replaces a newer one.
  `reconstruct` with too few shares returns a wrong secret, not an error. Both
  handshakes consume the key pair also when the answer is bad; in
  `pqc_hybrid.rs` one side may fall back to the classical key while the other
  does not, and the two keys then differ.

titan-core:

* After expiry or a crash `n_in` lags behind for good and the sweep has to reach
  over the gap each time; `expire_old` acts only when called; with the default
  tiers a padded envelope whose plaintext does not fill its tier does not open
  (`titan_envelope`). An envelope in flight across a turn of the root costs the
  channel until the next turn. A device one epoch ahead misses every signal,
  with a drift it is not warned of. Addresses are named from the side of A.

Board:

* `kill_protocol.vhd:369` says there is no exit from `DEAD_LOOP`; a new rise of
  the kill level leaves it and repeats the passes (the keys stay erased).
* `post_self_test.vhd:229` says a failed self-test needs a power cycle; the
  supervisor's `FAIL_SAFE` resets it and tries again.
* `watchdog_monitor.vhd:7-10` describes an 8-bit counter as the heartbeat; the
  code listens to a toggling line with a majority vote.
* The RAM port of `kill_protocol` is connected to signals that nothing else in
  `artix7_top_v14.vhd` reads (169-171, 860-862). The models assume a memory
  behind that port; on the board as wired there is none.

Heartbeat of the FPGAs:

* The challenge is handed out only in the cycle in which `challenge_valid`
  pulses (`spi_cmd_slave.vhd:499`); a master that asks in any other gets none,
  and the round ends in `heartbeat_fail`, a kill source
  (`artix7_top_v14.vhd:832`).
* `pf_hmac_responder.vhd:165` says a new challenge cancels the old computation:
  the core does not see its start, finishes the old one, and that tag is
  offered. A challenge in the cycle of a result is computed, but its tag never
  offered. `TagOfChallenge` states both. The tag is wired nowhere in
  `polarfire_top.vhd` (569).
* `trng_valid` is a level: both words of a nonce may be the same word of the
  generator (`hmac_heartbeat_ctrl.vhd:219`). A generator that stays silent stops
  the heartbeat without a timeout, with the last verdict standing.
* `hb_ok_int` of `spi_cmd_slave.vhd` (482) is set by any heartbeat command and
  cleared only by a kill.
* `hmac_sha256.vhd:15` speaks of about 400 cycles; it is 653. A kill "zeroizes"
  the hash (`sha256_core.vhd:225`), but the word memory `W`, the padded keys and
  the latched message keep their values.

Call-White firmware:

* The duress PIN never kills: `HAL_Delay(3000)` (`main.c:209`) answers no WAKE
  and the TPL5010 resets the MCU first (`mcu_watchdog.h:9`), while `boot_pin.h:6`
  promises a silent kill.
* The dead-man switch never fires once a key is left in the queue: the main
  loop pops it, counts it as a touch and pushes it back in every turn
  (`main.c:366`); a key typed after the PIN is enough.
* A lockout is forgotten by a restart, and ends early at the wrap of the tick
  (49 days; not modelled). An attempt whose restart falls before the write is
  not counted.
* A binding torn by a restart makes the operator's own PIN kill at the next
  boot.

## 8. Not modelled, and abstractions

Abstractions of the modules:

* Ciphers, hashes, KDFs and KEMs: free symbols. Their side-channel protections
  and the erasure of Rust buffers on drop have no counterpart in the model.
* Contents of messages, topics, log entries and status words, except where a
  property reads them: a message is its number, a length or a model value.
* Metastability and glitches shorter than a clock period: a pin has one value
  between two edges. Clock domains other than `sys_clk` are not modelled.
* The LFSR of the scrub is "random"; the LED and the supervisor's toggling
  output are left out.
* The capacity of channels of the operating system and thread scheduling inside
  the crates: operations take `&mut self`, and the one that awaits with `&self`,
  `broadcast_message`, is interleaved at its awaits. Time is counted in ticks
  up to a bound.
* Rates of the reputation are whole parts of `Perfect`; the policy `All` of the
  mesh, which only a test configures, is left out.
* An audit entry's time and event are one field, `data`; a writer of the entries
  changes and removes them but does not insert any.
* Of the Call-White firmware: the T9 input of the keypad, the tamper pins and
  the shield (further ways to raise the same kill), functions that nothing calls
  (`boot_pin_set`, `boot_pin_set_duress`, `operator_bind_transfer`,
  `dead_man_disarm`, the zeroization of `bkp_zeroize.h`, `radio_silence.h`), and
  the wrap of the tick.
* `combined_hb_ok`, the AND of the heartbeat's verdict with a toggling line.

Components with status `not_modelled`:

* comparison and entropy helpers, titan-core's wrappers of library primitives:
  stateless;
* FPGA ciphers and random numbers, AEGIS: data paths over wide words and
  numeric code, out of TLC's reach;
* FPGA sensors and countermeasures: drivers of the alarm inputs, which
  `KillChain` lets change at any time;
* the FPGA's command and key path: serial machines clocked bit by bit, on whose
  state nothing modelled depends;
* peripheral drivers of the Call-White board, many of them stubs;
* a future variant of the board and older copies of its modules; the network
  bridge, which the console never calls; simulators, testbenches and scripts.
