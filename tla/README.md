# A TLA+ model of givenergy_local

`givenergy_local` is a Home Assistant (HA) integration for GivEnergy inverters. One process, one
asyncio event loop: the hard part is not parallelism but everything that may happen between two
`await`s. This directory models that, checks it with TLC and proves most of its safety with TLAPS.
Source paths below are relative to `src/custom_components/givenergy_local/`.

## 1. Inventory

| Component | Source | State | Operations | Interacts with |
|---|---|---|---|---|
| Update coordinator | `coordinator.py` | recovery state, trusted snapshot and its age, `require_full_refresh`, `last_full_refresh`, backoff, the client | `_async_update_data` and what it calls, `execute`, `async_shutdown` | client (calls, replaces it), HA (timer, debouncer, notification), entities (published plant) |
| Modbus client | `givenergy_modbus/client/client.py` | `connected`, `tx_queue`, `expected_responses`, two tasks, `plant`, `clock_received_at` | `connect`, `detect_plant`, `close`, `refresh_plant`, `execute`, the consumer and producer loops | the dongle, the coordinator, the framer, the plant |
| Command builder, write safety | `givenergy_modbus/client/commands.py`, `pdu/` | none (pure) | builders of request batches, `ensure_valid_state`, shape keys | client, services, entities |
| Framer, codec | `givenergy_modbus/framer.py`, `codec.py` | the receive buffer | `decode` | consumer loop |
| Plant, register cache | `givenergy_modbus/model/` | register caches, battery count, serial numbers | `update`, `detect_batteries`, views | consumer loop, coordinator (clones it) |
| Entry life cycle, services | `__init__.py`, `runtime.py`, `services.py`, `config_flow.py` | runtime data per entry, "services registered" | setup, unload, reload, service handlers, the config flow | coordinator, HA |
| Charge slot sensor | `binary_sensor.py` | the scheduled timer | `_schedule_next_update`, `is_on`, coordinator updates | HA timers, coordinator |
| Entities | `sensor.py`, `number.py`, `select.py`, `switch.py`, `time.py`, `entity.py` | none of their own | conversions, writes through `execute` | coordinator |
| Debug script, CRC table | `debug.py`, `givenergy_modbus/lut.py` | none | | |

What makes each hard, and what correct means:

- **Coordinator.** A poll is a chain of reads, sleeps, closes and connections with a timeout each;
  commands, losses of the connection and the unloading of the entry come in between. Correct: no
  stale data stays available, the state, the notification and the entities agree, the dongle is
  left alone during a backoff, published settings never go back, every update ends and a good
  network heals it.
- **Client.** Futures shared between request coroutines and two tasks, a queue that survives a
  connection, a `close()` that awaits in its middle and may run twice. Correct: an answer resolves
  the request it answers, nothing queued for one connection is sent on the next, and `connected`
  says whether the tasks run.
- **Commands.** Batches are sent concurrently and may fail in part. Correct: a batch has no two
  requests of one shape, and only write-safe registers are written.
- **Framer.** Frames arrive in pieces, with garbage. Correct: a good frame is delivered or stays in
  the buffer, and the decoder always makes progress.
- **Plant.** Snapshots must not alias the live plant; batteries are counted on a boundary.
- **Entry.** Services are shared by all entries and must exist while one is loaded.
- **Charge slot.** The sensor must change state at the boundaries, also when the slot changes while
  a timer runs.

`PROJECT.json` lists the hazards line by line.

## 2. Modules

| Module | Models | Composes, refines | Runs |
|---|---|---|---|
| `RecoveryPolicy` | what users are promised (abstract) | | |
| `Coordinator` | the update task, `execute`, shutdown | refines `RecoveryPolicy` | `coordinator_*` |
| `CoordinatorProofs`, `CoordinatorPolicyProofs` | theorems about `Coordinator`, its age bound, its refinement and the length of updates | extend it | |
| `RequestContract` | what a caller of a request may rely on (abstract) | | |
| `Client` | queue, futures, the two network tasks, `connect` and `close` | refines `RequestContract` | `client_*` |
| `ClientProofs` | theorems about `Client`, its refinement and the length of requests | extends it | |
| `Framer` | `Framer.decode` and the decoders | | `framer` |
| `FramerProofs` | theorems about `Framer` | extends it, `SequenceLemmas` | |
| `Entry` | config entries, services, config flows | | `integration` |
| `ChargeSlot` | the charge slot sensor and its timer | | `integration` |
| `Integration` | both | `Entry`, `ChargeSlot` | `integration` |
| `IntegrationProofs` | theorems about `Entry`, `ChargeSlot` and both together | extends `Integration` | |
| `Commands` | builders, conversions, what the entities show (operators only) | | `control` |
| `CommandsProofs` | what holds of every operation | extends `Commands`, `SequenceLemmas` | |
| `Control` | commands and refreshes over an unreliable network | `Commands` | `control` |
| `ControlProofs` | theorems about `Control` | extends it, `CommandsProofs` | |
| `SequenceLemmas` | induction, `FlattenSeq`, sets and orders of sequences | | |

`MC...` modules hold the constants of the runs. The layers meet through what each assumes of the
other: `Coordinator` lets a command stay behind, a close fail and a request be cancelled, which is
what `Client` does; `Client` takes answers of any outcome, and a consumer that may die, from
`Framer`; `Control` keeps of the connection only that frames and answers may be lost or late.

## 3. Coordinator

`Coordinator.tla` is the update task with its environment. `pc` says where the task awaits:

| `pc` | await |
|---|---|
| `idle` | no update runs (HA's timer or a request starts one) |
| `connecting`, `detecting` | `_connect(detect=True)` of `_async_update_data` |
| `reading` | `refresh_plant` under `asyncio.timeout(10)` |
| `retrySleep`, `reconnectSleep` | the two `asyncio.sleep` |
| `reconnecting`, `redetecting` | `_connect(detect=replaced)` of `_reconnect_after_failure` |
| `close...` | `client.close()` inside `_close_client`, one label for each caller |

An action is the code from one await to the next: `ReadFailed` records the failure, tests the
unhealthy limit and starts the close; `ClosedToReconnect` ends that close, replaces the client if
it failed and goes to sleep. Between two of them act:

- `CommandStep`: `execute()` calls. `Execute` is its health check, `ApplyWrite` a write (or retry)
  the inverter applies, `WriteAnswered` the consumer that gets the answer and stores the written
  register in the plant, `ExecuteOk` the assignments after the last answer, `ExecuteFailed` the
  error; after a failure the rest of the batch may stay behind (`leftover`), because `gather` does
  not cancel it.
- `Shutdown`, `ShutdownClosed`: `async_unload_entry` with `async_shutdown`.
- `ConnectionLost`, `RelayedRead`: what the client's own tasks do to `connected` and `plant`.
- `LinkChanges`, `Tick`: the network turns bad or good; one unit of time passes. Time stops at the
  timeout of the current await, so nothing outlives its timeout; and it waits for a call whose last
  answer has come (`answered`), whose coroutine the event loop resumes at once.

**Abstractions.** A plant is three facts: model detection has filled it, `_is_data_valid` accepts
it, and which of the device's writes its holding registers reflect (`settings`, a set of writes: an
answer to a write brings that write alone). The published data and `last_trusted_plant` are one
object in the code and one variable here. Timestamps are ages, counted up to `AgeCap`, which exceeds
every limit they are compared with. `consecutive_failures` and `failure_category_counts` are left
out: they are written on the same lines as `last_failure_category` and only read for display. A full
read that has all its answers knows the writes before it (`SettingsRead`), and any read may miss
none that the cache holds, since one connection answers in order. An answer that nobody waits for
any more is one of `RelayedRead`'s, which may add any of the device's writes. Calls are not timed
(`ExecuteFailed` may happen at any moment before the call returns), and a call is not told whether
the client it writes to has been replaced since. `owed` holds the writes of the calls that
succeeded, for `ForcedReadIsKept`. `async_request_refresh` is `wanted`; HA may drop the request
while an update runs.
`MayCancel` says whether `Client.close()`, run by the client's own tasks, may cancel a request the
update waits for; the resulting `CancelledError` passes every `except Exception`.

HA is external and modelled as the integration relies on it: `last_update_success` starts true,
follows the outcome of an update and is left alone by `CancelledError`; a coordinator whose first
refresh fails is discarded; unloading cancels the updates HA's timer started, not those a service
call runs. Several properties only claim something while the entry is loaded (`phase = "loaded"`):
before, no entity exists; afterwards, nobody looks at them.

`RecoveryPolicy.tla` is the promise to the users: recovering is a passing state with data still
available, giving up raises one alert and withdraws the entities, and only freshly published data
ends an outage, all at once. `ImplementsPolicy` maps its `stage`, `status`, `shown` and `alert` to
`phase`, `recovery`, `available` and `notified`.

### Properties

| Property | Hazard |
|---|---|
| `StaleDataBounded` | data older than the sum of the timeouts that may follow the unhealthy limit is not available. The thirty seconds of `_MAX_UNHEALTHY_DURATION` are not the bound: they are tested only when a failure is handled |
| `UpdateTerminates` | no update waits for ever, also on a socket that never closes |
| `Recovers` | on a network that stays good the coordinator becomes and stays healthy |
| `SettingsConverge` | ... and publishes the device's settings, although a forced full read may be lost |
| `ImplementsPolicy` | refinement of `RecoveryPolicy` with its fairness |
| `BackoffIsQuiet` | no socket during a backoff |
| `ReadsKnownPlant` | no read through a replaced client before detection |
| `AvailabilityMatchesState`, `NotificationMatchesState`, `FailureMatchesState` | variables written at different awaits agree |
| `SettingsNeverRegress`, `RetryFromSnapshot` | restored snapshots and replaced clients never bring old settings back |

### Runs

Durations are in units: what matters is which is longer. In the source the snapshot's age and the
unhealthy limit are equal (30 s), a read, a sleep and a close take 10, 2 and 5 s, a connection up
to 30 s, the poll 10 s, the backoff 10 to 60 s.

| Run | Instance | Shows |
|---|---|---|
| `coordinator_timing` | no commands, 3 attempts, a connection of 2 units, ages up to 9 | `StaleDataBounded`, `UpdateTerminates`, `Recovers`, `ImplementsPolicy` with `MayCancel = FALSE`. `AgeCap = 9` is above the largest bound (8), so staleness beyond it would be seen |
| `coordinator_commands` | 2 symmetric commands, one write, cancellations | the invariants and action properties. Two calls suffice for one to finish, fail or stay behind while another is sent; one write tells old settings from new (2.9 million states, depth 38) |
| `coordinator_settings` | 1 command, 2 attempts, all durations 1 | `SettingsConverge` (0.6 million states) |
| `coordinator_unvalidated` | | violation: `coordinator.py:253` publishes without validation |
| `coordinator_forced_read` | 1 command of two writes | violation: a partial read clears the flag that `execute` set during it, and publishes settings without a write of the call |
| `coordinator_shutdown` | | violation: a requested update connects after `async_shutdown` |
| `coordinator_cancelled` | `MayCancel = TRUE` | violation: cancelled updates leave stale data available for ever |

**Bounds.** `MaxWrites` (writes the device applies), `AgeCap` (ages), the number of commands. The
attempts are those of the source (3) except in `coordinator_settings`. Backoff runs to its maximum
in two steps.

**Fairness.** Weak fairness of the update task (the event loop runs every coroutine that is ready,
and every await has a timeout), of the end of a shutdown (its close has a timeout), of the return of
a call that has its last answer, and of time. No other fairness for commands, none for the link or
losses: `Recovers` and `SettingsConverge` say what happens if the link turns good and stays so.
`Recovers` needs no fairness of HA beyond its timer, which is the update task's own start.

## 4. Client

A step of `Client.tla` is the code a coroutine runs between two awaits of `client.py` that can
suspend it. Awaits of what is there already (`get` of a queue that is not empty, `put` into one that
is not full) do not. `pc[r]` says where a request awaits: `put` (the queue
is full), `send` (`frame_sent`), `wait` (`response_future`). `producer[c]` and `consumer[c]` are
the two tasks of connection `c`; a task that ends by an exception nobody handles is `died`. The
producer writes a frame (`ProducerWrites`), awaits `drain()` with it (`drain`) and only then tells
its request (`ProducerDrained`): `hand[c]` is the request whose frame it took last and has not
reported, and stays it when the producer is cancelled or dies in between.
`writer`, `reader` and `conn` are the attributes, which a close acts on as it finds them: that is
why `BeginClose` and `FinishClose`, before and after `wait_closed()`, are apart, and who waits for
which writer is in `closing`. A close that finds no writer awaits nothing and is one step.

Timers may fire at any moment, the peer may end or reset a connection, answers may come late, twice
or unasked (`ConsumerAnswers` resolves whoever is registered for the shape), a heartbeat may come
at any time, and the caller may be cancelled. A future is kept only as long as its request lives: an
answer to one nobody awaits changes nothing. The owner is the coordinator: `OwnerAbandons` is
`_close_client` giving up on a close.

| Property | Says |
|---|---|
| `ImplementsContract` | `RequestContract`: a request ends once, succeeds only if it was written, is written at most once per try, and after a failure at most the frame already queued goes out |
| `NoForgottenFrame` | a request waiting for a frame that is not queued waits for the one a connection's producer took last and has not reported: a close or a new connection drops no frame untold |
| `OneProducer` | producers of two connections never run together |
| `ConnectedIsServed` | `connected` means that the tasks run, unless one died of an exception or an older close tore the connection down |
| `OrphanedOnlyByClose` | a request with a pending answer is the one its shape is registered for, unless a connection was given up since: replacing, retrying and failing leave no future that nobody will resolve |
| `LeakNeedsOverlap` | a socket is left open only when a connection was opened during the close of an older one |
| `RequestsEnd` | no request waits for ever, except in the queue of a client that is not connected |

The exceptions in these properties are what the code does: `set_result` on a future that
`wait_for` cancelled kills the producer while `connected` stays true; a `close()` that cancels a
producer in `drain()` leaves a written frame whose request is not told and runs into its timeout; a
full queue is the one await
without a timeout, which only the coordinator's own timeout ends.

`client_reconnection`: two requests of one shape, one of which retries, over two connections with a
queue of one (source: 20): the second frame, heartbeat included, finds it full. Two connections are
the least for a close of one to overlap the other. `client_requests`: the same on one connection,
for liveness. The first has 2.3 million states (depth 35). **Fairness**: weak for every coroutine
step, since each await but `put` has a timeout, except that none is assumed of `drain()`, which a
peer that stops reading holds up; strong for `put`, since `asyncio.Queue` wakes waiters in order;
weak for the owner's close of a connection without both tasks, which the failed reads of the
coordinator cause. None for the peer, heartbeats, answers or cancellation.

## 5. Framer

`Framer.tla` follows the branches of `decode`, one pass of its loop a step, on streams of bytes cut
anywhere. Field sizes are smaller than in the source, their order and the tests on them are the
same. `DecodeBytes` says which frames become a message, which an invalid one (`InvalidPduState`,
delivered as such) and which raise something `decode` does not catch, which ends the consumer.

`CleanStreamIsDelivered`: without a fault every frame comes out once, as soon as its last byte is
in, also when its values look like a marker. `ResyncIsBounded`: after a cut frame, a flipped byte or
garbage only frames that begin within the longest frame are lost. `ReadsAreGenuine`: what passes as
a read answer was sent as it is. `BufferIsBounded`: while it waits the buffer is shorter than a
frame, or holds no marker (bytes without a marker are kept until one comes: the code never drops
them). `PassesAdvance`: every pass that is not the last shortens the buffer.

`WellFormed` is what a sound frame is taken to be: its header tells the truth, it can be decoded,
and no second marker begins within the window in which the code takes one for a truncated frame. In
the source that window holds the length, the unit, the function and the data adapter's serial, which
is text, so a marker cannot be there. Behind it values may look like anything. A marker is dropped
only when at least `MinFrame` bytes are there, and two markers fit into these (4 and 18 bytes in the
source, `FramerAssumption`), so a drop never reaches into a frame that begins behind it.

What finding the way back depends on is said by three definitions that the model itself does not use
and theorems assume (section 9): `FramesAreUnmistakable`, the window without a marker whatever
follows the frame; `NoHeaderWithin(Messages)`, no header that `decode` would believe inside a sound
frame; and `NoHeaderWithin(Faults)`, the same of faults. `InstanceAssumption` of `MCFramer` has TLC
check that the run's frames and faults meet all of them.

The run has all streams of at most two of five kinds of frames with at most one fault before,
between or after them, in every division into reads: a fault is any proper prefix of a frame, any
byte of it replaced by zero, a length or half a marker, or garbage. The CRC is a sum, and these flips
are such as a sum finds: `ReadsAreGenuine` holds of them. A check code may be right by chance, in the
source too; what is true then is the theorem `GenuineReads`.

## 6. Entries, services, config flows and the charge slot sensor

`Entry.tla`: `life[e]` is where `async_setup_entry` or `async_unload_entry` awaits; a reload is an
unload and a setup. Home Assistant is external: it runs one of the two for an entry at a time, and
those of several entries at once; it calls the entry's on-unload callbacks after a good unload. A
flow validates over the network between its start and its check of the unique id.

- `ServicesWhileLoaded`, `ServicesLeaveWithLastEntry`: the shared services exist while an entry is
  loaded, find its coordinator, and go with the last. One exception is the code's: a setup whose
  platforms fail leaves its runtime data, and with it the services, behind.
- `OneListener`: one update listener for an entry after any sequence of failures and reloads.
- `UniqueInverters`, `EntryKeepsInverter`: also with two flows open at a time.

`ChargeSlot.tla`: the timer for the next boundary of the slot. `ShownIsCurrent`: unless a timer is
due, the state last written is what the sensor would compute now. `TimersBelongToSensor`: no timer
is leaked by changes of the slot or by unloading. A slot that wraps around midnight is never on,
since `is_on` asks for `start <= now < end`.

`integration` runs two entries, two serial numbers, two flows and the sensor of one entry over a day
and a half of four units, with a slot within the day, one that begins with it, one from its first
instant to its last, one across midnight, an empty one and none (1.6 million states). The sensor's
actions happen within those of its entry.

## 7. Commands and Control

`Commands.tla` holds the pure part: every builder of `commands.py` as a sequence of writes (empty
when it raises `ValueError`), the reads of a refresh, the write-safe list, the conversions of
`number.py`, `register.py` and the time slots, and `Value`, what the entities show. An operation
pairs a batch with what the user means by it (`shows`): the sources of the two sides differ, so
that they agree is a claim.

`Control.tla` sends these batches: `Execute` deduplicates a batch, refuses unsafe writes and puts
the rest on the wire; `Retry`, `GiveUp` and `ExecuteTimeout` are the client's retries and the
coordinator's limit; `Inverts` is the inverter, `Receive` the consumer with `Plant.update`;
`StartFull`, `StartPartial`, `AcceptTrustedPlant`, `RefuseData` a refresh. When one write of a batch
fails its caller is told and the others go on.

What users may ask for is bounded by `Times`, `Percents` and `Watts`; `Operations` is every
operation over them. `Serially` says what a register holds once the calls were carried out one after
the other: the last value that the last call to write it gives it.

| Property | Says |
|---|---|
| `AcknowledgedTakesEffect` | a call that returns without an error has taken effect: the inverter's registers show what was asked, power limits within a step |
| `ReadShowsAcknowledged` | once a full refresh begun after it is published, so do the entities |
| `OlderNeverOverwrites` | retries of an older call never undo a newer one |
| `SuccessIsSerial` | calls that all succeed leave the inverter as if done one after the other |
| `TypeOK` | registers hold 16 bits, only write-safe ones change, and all can be decoded |

Answers are matched by register, not by value: a late answer to an older write of the same
register is taken for the newer one's. If that one's frame is lost the call succeeds without effect;
`Alone`, and `contested` with `lost` in `SuccessIsSerial`, leave exactly this out.

Left out: the connection (a refresh whose last try times out, which closes it, is not followed);
input registers, and with them the traffic of a partial refresh; error answers; seconds and the
date of the clock, which stands still. The quality ranges of `_is_data_valid` are a choice
(`RefuseData`), its decoding is `DataIsValid`. Frames stay in order, as on one TCP connection.

`control` runs every kind of operation alone and four sequences of two or three overlapping calls,
each request tried twice (source: four times). A fault is a frame or an answer lost, a timeout
although the answer was still to come, or refused data. `Budget` bounds refreshes and faults together,
a fault counting twice: two faults beside one refresh, which lose a try and then delay the next, or
one fault beside three refreshes, the least for one that shows a command's effect, one whose data are
refused and the snapshot restored, and one that publishes what was restored. The run has 2.4 million
states (depth 32); two faults beside three refreshes are more than it can cover, and
`ShownIsAcknowledged` (section 9) has no bound. No fairness: all its properties are safety.

What modelling this part brought to light, and no sentence of the repository contradicts:

- The battery pause registers 318 to 320 are not on the write-safe list, so the pause entities of
  `select.py` and `time.py` always fail.
- `refresh_plant` never passes `additional_holding_registers`: they are read at detection only.
- The range check of `write_registers.py:114`, a chained comparison, never holds; the builders'
  own checks keep values in range.
- The charge limit's slider of `number.py` offers 0 to 3, which raise.
- Submitting the power limit that is displayed may lower the raw value by one.
- `NullResponse` looks its values up under the wrong keyword.

## 8. What the violations say

The four violation runs quote a sentence of the repository and show the code doing otherwise; see
`findings` in `PROJECT.json`. None of them contradicts the other runs: `StaleDataBounded` holds
when the client's `close()` cancels nobody, and `SettingsConverge` holds although forced reads are
lost, because the five-minute full refresh reads the settings.

The lost forced read takes more than a partial read that clears the flag: the answer to a write puts
its value into the plant before `execute()` returns (`client.py:282`), so that a partial read
publishes it all the same. In the trace a command of two writes overlaps a partial read of corrupt
data. The first write is answered; `_restore_client_to_trusted_snapshot` (`coordinator.py:443`) puts
the older plant back; the retry begins, the second write is answered, `execute()` sets the flag; and
the retried read publishes a plant without the first write and clears the flag. The source's times
allow it: a command has fifteen seconds for up to four tries of three each, the retry waits two.

## 9. Proofs

Every safety property that a passing run checks is also a theorem, for every value of the constants
that the modules' assumptions allow; three need more said, and their theorems say it:
`StaleDataBounded` (until a cancellation), `ResyncIsBounded` (of frames and faults without headers
inside) and `ReadsAreGenuine` (unless a check code is right by chance). `PROJECT.json` lists the
theorems. The
properties are not inductive; each module proves an invariant that is.

**Coordinator** (`CoordinatorProofs`). `CoordinatorAssumption` asks for positive durations, an
initial backoff within its maximum, age caps above the limits, and `MaxUnhealthy <=
SnapshotMaxAge`: the last one is a property of the two source constants (both thirty seconds) that
`RetryFromSnapshot` needs. Take `AvailabilityMatchesState`: an update that finds a backoff running
fails without touching the recovery state, so it preserves the property only because a backoff runs
in state "unavailable" only, which holds because a failed reconnection always ends its update, and
so on. `IInv` adds to `TypeOK` what holds at each await:

- `SetupInv`: before the first publication only the first connection has run;
- `CloseInv`: nothing is connected while a close is in progress;
- `BackoffInv`: a backoff runs only with no update, no connection and state "unavailable";
- `VerdictInv`: at the awaits after a failure the state is not healthy; while loaded, state,
  reason, notification and availability agree;
- `CacheInv`: where a read may start the client's plant is detected and as new as the published
  one; a detection reads everything, from settings no older than the published ones.

One lemma per action shows that it preserves `IInv`: first what the action does to the variables,
then one step per part of the invariant. The two action properties follow from `IInv` by looking at
the steps that publish and those that start a retry.

**What users are promised** (`CoordinatorPolicyProofs`). `PolicyIsKept` is the safety half of
`ImplementsPolicy`: every step of the coordinator is a step of `RecoveryPolicy` or changes nothing
users see. It needs `AlertInv`, since a withdrawal is only allowed while the alert stands. `AgeInv`
bounds the age of data that is shown at each await by what the awaits before it can take; an await
that ends by its timeout hands its bound to the next. `StaleDataIsBounded` has no hypothesis about
`MayCancel` and says four things: `AgeInv` holds at the start; where it holds so does
`StaleDataBounded`; only a cancelled update (`UpdateCancelled`) ever breaks it; and an update that
ends in any other way restores it. More is not true: a cancelled update leaves by none of the paths
that withdraw data, which is what the fourth violation shows.

`UpdatesAreBounded` is what of `UpdateTerminates` needs no fairness: `TimeLeft` and `StepsLeft` say
how long an update can still run and how many steps of its own it can take. Both are bounded, by
`LongestUpdate` (each attempt's read, close, sleep and connection, and one last close) and by six
steps per attempt; every step of the update makes the second smaller, time that passes the first,
and nothing else makes either larger. Only if the event loop ran neither the update nor the clock
could it go on for ever.

**Client** (`ClientProofs`). `IInv` has two halves that few steps touch both of:

- `NetPart`: types and `ConnectedIsServed`, with `NetInv`: a producer runs only for the newest
  connection and while `connected`; reader and writer belong together; a client that is not
  connected holds no open socket; who waits in a close waits for a writer that was there;
- `RequestPart`: types and `NoForgottenFrame`, with `QueueInv`: no request has two frames in the
  queue, and one in the queue belongs to a try whose caller waits for it or has just given up. This
  is what makes "written at most once per try" hold. `HandInv` says the same of the frame a producer
  drains, which is queued no more.

`OneProducer` follows from `NetInv`. `OrphanedOnlyByClose` needs only `writer <= conn` besides;
`LeakNeedsOverlap` is proved of the few steps that change `writer`. `Refinement` is all of
`ImplementsContract`, which promises safety only: a lemma for each way a request moves
(`ContractTry`, `ContractEnd`, `ContractTake` when the producer takes a frame, `ContractDrain` when
a close empties the queue), then `ContractStep` for all actions. `RequestsAreBounded` does for
`RequestsEnd` what `UpdatesAreBounded` does for updates: a request has at most three steps per try,
each of its steps leaves it fewer, and no step of another task gives it one back. What is left to
fairness is that the await it is in ends.

**Entries and the charge slot** (`IntegrationProofs`), for any entries, serial numbers, flows, slots
and length of a day. `EntryInv` says in which stages of its life an entry has runtime data and the
services exist, and that no two entries are for one inverter. `SlotInv` strengthens `ShownIsCurrent`
from now to every instant before the timer is due, and says that only the timer the sensor remembers
can run: without the first an advance of time, without the second a cancelled timer would break
the property. The rest is arithmetic of days: between now and the boundary `_schedule_next_update`
finds, over at most one midnight, `IsOn` does not change. `SensorInv` ties the sensor to the life of
its entry's platforms.

**Framer** (`FramerProofs`), for any marker, sizes, sound messages, faults and streams. `FramerType`:
the buffer is the part of the stream it claims to be. `PassShortens` gives `PassesAdvance` (TLC's
version of it would let a pass that changes nothing through as a stutter; the lemma, which has no
stutter, does not). `CleanInv` says that after some `k` frames exactly these were passed and
yielded, and that the framer waits only when the next one is incomplete. Its step is `SoundHead`: a
buffer that begins a sound frame leads to no branch but `Incomplete` and `Extract`; `Window` shows
why what follows the frame cannot disturb it.

After a fault the framer may be anywhere, so `CleanInv` is of no use. `ResyncInv` says instead that
no step passes over the beginning of a *clear* frame, one that begins at least `LongestFrame` behind
what the faults before it cost (`Clear`, `Costs`): whatever `decode` takes off before it, garbage up
to a marker (`FoundBefore`), a marker (`DropsBefore`) or what a header claims (`ExtractsBefore`),
ends where the frame begins at the latest, and at its beginning `SoundHead` applies. What a header
claims is where the hypotheses come in. One that lies in a fault reaches at most `LongestFrame`
beyond it. One that lies in a sound frame is the frame's own, by `NoHeaderWithin(Messages)`
(`NoneWithin`); without this hypothesis values that spell a whole header could cost the next frame,
whose values could cost the one after it, and so on. Hence:

- `ResyncAfterAnyFault`: whatever the faults are, a frame that begins `LongestFrame` behind the end
  of the last one is yielded;
- `Resync` (`ResyncIsBounded`): with `NoHeaderWithin(Faults)` the only header in a fault is at its
  beginning, so the distance counts from there;
- `NothingElseMisleads`: what is yielded is a sound frame in its place, unless it begins in a fault
  or in the frame just before one;
- `GenuineReads`: of what is left after `NothingElseMisleads`, a read answer has a header that tells
  the truth and the check code of its bytes (`ReadIsChecked`). So a read answer that was not sent
  takes a fault where it begins, or just behind, and a check code that is right by chance: without
  that, `ReadsAreGenuine`. No check code of 16 bits excludes it;
- `NoByteTwice`, without any hypothesis: what is yielded is what its header claims of the stream, and
  no two parts overlap.

**Commands** (`CommandsProofs`). `OperationsAreProper`: for an inverter of any capacity, model and
firmware and any value in the ranges offered, the batch of an operation holds only values of 16 bits
that can be decoded, gives no register two values and, once its registers hold it, is shown as
the user meant it, if all of them are safe to write. Times survive their encoding as hours and
minutes (`TimesSurvive`), and a power limit comes back within a step although it is rounded twice in
integers (`LimitsAgree`).

**Control** (`ControlProofs`), for any operations in any order, any number of tries, refreshes and
faults. `ControlInv` has five parts:

- `OrderInv`: types; requests and frames are reads of the updater or writes of a call's own batch;
  answers hold what an inverter may answer; a request that waits is the one registered for its
  shape; among frames on their way, and behind what the inverter has carried out, no older call of a
  register follows a newer one. `OlderNeverOverwrites` and `TypeOK` follow;
- `EffectInv`: of a write that is alone with its register (`AloneWith`) only its own requests are
  on the way, an answer on its way implies that the inverter holds its value, and unless the call
  has failed the write still waits or is in force. Answers are matched by register only, so this
  cannot be had without being alone;
- `ReadInv`: answers that follow the write's own tell its value, so a late answer brings nothing old
  back; while the full refresh reads, the cache holds the value or the block is still asked for; once
  shown, cache and published plant hold it, which is why restoring a snapshot does no harm;
- `Provenance`: a register holds what the last call that wrote it asked for;
- `Arrives`: a write of a call that lost no frame is carried out, overwritten or on its way.

`AcknowledgedIsInForce` and `ShownIsAcknowledged` join `EffectInv` and `ReadInv` with
`OperationsAreProper`, from registers to what users see; `SuccessLeavesSerial` joins the last two
parts with `OrderInv`. `DedupeKeeps` shows that `_dedupe_requests` takes nothing from a proper batch.

`SequenceLemmas` has what several of these need: induction over the natural numbers stated of a set,
`FlattenSeq` of prefixes (its definition recurs over the sequence), the set of a sequence's elements,
and sequences ordered by a relation.

## 10. Only model-checked, and not modelled

Liveness is out of the prover's reach and stays with TLC: `UpdateTerminates`, `Recovers`,
`SettingsConverge`, `RequestsEnd` and the liveness half of `ImplementsPolicy`.

Their safety halves are proved: that the policy takes no other step (`PolicyIsKept`), and that updates
and requests have a bounded number of steps left (`UpdatesAreBounded`, `RequestsAreBounded`).

`ResyncIsBounded` and `ReadsAreGenuine` are true only with what section 9 says of them; for any bytes
whatever neither is: values that spell out headers make the framer lose frame after frame, and a
fault may by chance leave what a check code accepts.

Commands sent on while the coordinator recovers, because its health is tested only before the first
write, are in `Coordinator` but under no property: nothing in the repository says they must not be.

What recursive definitions compute (`FlattenSeq` of a whole stream, `Crc`) is only used through what
`SequenceLemmas` proves of them, and for `Crc` nothing is proved.

Not modelled: `debug.py` and `lut.py` (no state); read-only sensors, descriptions, units and
translations (functions of one snapshot, or text); battery models and the count of batteries; the
guess when the inverter's clock was read (`_note_clock_reading`) and the clock's drift;
`watch_plant`, `one_shot_command` and the debug queues of the client; the decoding of requests,
which a client never receives.
