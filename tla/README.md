# A TLA+ verification of mbsscaner

mbsscaner polls Modbus devices over TCP, sends what it reads to Kafka and offers
single reads and writes over HTTP. This directory holds TLA+ modules translated
from its Go source, the TLC configurations that check them on small instances
and proofs, checked by TLAPS, of the results that do not depend on the size of
the instance. `PROJECT.json` maps every definition to the lines it models.

    tlc -workers 2 -config MCCollectorSafety.cfg MCCollector
    tlapm CollectorProofs.tla

## 1. Inventory

| Component | State | Operations | Interaction |
|---|---|---|---|
| `Collector`, connection (`pkg/modbus/collector.go` 15-192) | `connected`, `retryCount`, `stateMutex`, `opMutex`, the client's transport | `Connect`, `Disconnect`, `Reconnect`, `Close`, `ensureConnected`, `GetConnectionStats` | one per device, shared by its polling goroutine, every HTTP handler and `Stop` |
| `Collector`, batch reading (194-940) | the groups, the registers read, loop counters | `CollectPoints`, `groupPointsByRegisterType`, `readBatch`, four `read...Batch` and four `...Split`, `readBatchIndividual`, `collectBatchGroup` | calls the Modbus client, result goes to Kafka |
| Byte order (`byteorder.go`, `collector.go` 866-1402) | none (the device's registers) | `...ToRegisters`, `put...WithOrder`, `get...WithOrder`, single reads, `writeHoldingRegister` | used by polls, HTTP reads and HTTP writes |
| Converter (`converter.go`) | none | `toInt16` ... `toFloat64` | HTTP write to register value |
| `CollectorManager` | maps of collectors, points and devices, a read-write mutex | `RegisterCollector`, `RegisterPoint`, `WritePoint`, `GetPointValue` | filled by `Init`, used by HTTP handlers |
| HTTP server | listener | read, write and list points, `Stop` | goroutine per request; `Stop` does not wait for them |
| Kafka producer | sarama producer | `SendPointValues`, `Stop` | called by every polling goroutine |
| Service | context, wait group, collectors | `Init`, `Start`, `startCollector`, `collectDeviceData`, `Stop` | owns everything; waits 30 s for the pollers; a panic of a poller ends the process |
| Configuration, points | none | `Validate`, `LoadPoints`, `ValidatePoints` | once in `Init`, points again in `Start` |
| `PointCache` | map | - | never initialised: unused |
| Logger | - | - | output only |

What is hard to test here:

* the goroutines of one collector meet in two mutexes that do not exclude each
  other, with the connection test outside both;
* the flag is read, the connection tested and the flag cleared in three separate
  steps, and others connect and disconnect in between;
* requests fail one by one, in the middle of a group, a split or a fallback;
* addresses and lengths are `uint16` and wrap;
* encoding and decoding are separate code with separate defaults;
* shutdown races with polls, handlers and reconnection, under a time limit;
* handlers look names up while `Init` fills the maps, and hold the lock during
  network calls; names of devices and points need not be unique;
* what is configured, registered and polled comes from three readings of the
  same files with three sets of defaults;
* numbers are converted, narrowed and scaled on their way to a register and back.

`hazards` in `PROJECT.json` lists each at its line, with the property that would
catch it.

## 2. Modules

| Module | Models | Checked by | Proved in |
|---|---|---|---|
| `Collector` | connection management, callers and network | `MCCollector` | `CollectorProofs` |
| `CollectorCall` | abstract: one call of a collector as its caller sees it | `MCCollector`, through `Collector` | `CollectorProofs` |
| `BatchRead` | the data path of one poll | `MCBatchRead` | `BatchReadProofs` |
| `ByteOrder` | encoding and decoding of one point | `MCByteOrder` | `ByteOrderProofs` |
| `Registry` | `CollectorManager` between `Init` and the HTTP handlers | `MCRegistry` | `RegistryProofs` |
| `Service` | `Init`, `Start`, the polling goroutines, Kafka, `Stop` | `MCService` | `ServiceProofs` |
| `Configuration` | configuration and points file, up to the validated list | `MCConfiguration` | `ConfigurationProofs` |
| `PointWrite` | a number from an HTTP request to a register and back | `MCPointWrite` | `PointWriteProofs` |

How they compose. `Collector` refines `CollectorCall`; `Registry` uses a
collector as `CollectorCall` has it: a call begins and ends with or without an
error. `Service` keeps of each collector what `Stop` meets: the flag, `stateMutex`
and the client's lock, and which goroutine holds them. Of a registry it uses only
that a registered point leads to a collector, which `Registry` shows.
`Configuration` produces the lists that `BatchRead` polls (its condition
`ValidatePoints`) and `Registry` registers. `PointWrite` has numbers where
`ByteOrder` has bytes, and of the byte order what it does to a number.

Definitions named `X_Something` and marked *Mutant* are faulty variants of `X`.
None is used by a specification; replacing `X` by its mutant must violate the
property `PROJECT.json` pairs it with.

### Collector

Variables are the fields of `Collector` (`connected`, `retryCount`, the two
mutexes), the client's transport `sock`, the process's descriptors `link`, the
reachability `up` of the device and, per goroutine, where it is (`pc`) and what
is left of its loops. A step is one critical section or one client call: the
client serialises its calls, so a call is atomic, and what happens between
`Lock` and `Unlock` without a client call is seen by nobody.

| Label of a caller | Source | Action |
|---|---|---|
| `check` | `IsConnected` in `ensureConnected` | `IsConnected` |
| `test` | `testConnection` in `ensureConnected`, under no lock | `TestConnection` |
| `lost` | clear the flag under `stateMutex` | `MarkLost` |
| `connect` | waiting for `Connect`'s lock, the delay between two tries | `ConnectEnter` |
| `open`, `probe`, `abort` | `Open`, `testConnection`, `Close` inside `Connect` | `ConnectOpen`, `ConnectTest`, `ConnectAbort` |
| `lockOp`, `request` | waiting for and holding `opMutex` | `LockOp`, `NoRequest`, `ClientRequest` |
| `disconnect` | `Disconnect`, called by `Close` and `Reconnect` | `Disconnect` |
| `stats` | `GetConnectionStats` after a poll | `GetConnectionStats` |

`NewCollector` is the initial state: it connects before the collector is known
to anybody, and keeps a collector that could not connect. `Open` leaves the old
transport open, as the library does; `Finalize` is the runtime closing it some
time. `LinkDown` may kill the sockets or only silence them. `tested` and `cause`
are history: the socket a failed test was about, and whether something happened
during a call that excuses its failure (the device was unreachable, another
caller closed the connection, no descriptor was left).

Two abstractions matter. The device answers every request when it is reachable:
exceptions for single registers are the subject of `BatchRead`, and a device that
does not serve holding register 0, which the connection test reads, can never be
used with this service. And `retryCount`, an `int` that is only logged, stops
counting at `RetryCap`.

### BatchRead

One poll, from the grouping of its points to the list of values. One action per
loop of the code: `GroupPoint`, `SortPoints` (one comparison of the exchange
sort), `NextToSort`, `StartSplit`, `ReadBitBatch` and `ReadWordBatch` (the four
`read...Batch` functions are two pairs of copies), `ReadSplit`,
`ReadIndividual`, `ParseValue`, `GroupParsed`. A register's content is its type
and address, so a value shows which registers it was made of. A request may
always fail; the client also refuses an empty one and one that runs past the last
address. Slicing past the registers read is a panic or, within the spare capacity
of the slice, zeros. The values of the quality field and the offsets are the
code's; scaling is in `PointWrite`, names are positions in the list.

### ByteOrder

One point in the registers of a device, stored by the device in the documented
layout (`docs/byte_order.md`) or written by `writeHoldingRegister`, and read by a
poll (`parseRegistersForPoint`) or singly (`collectSinglePoint`). A register is a
pair of bytes and a value the tuple of its bytes. `byteOrder` ranges over the
four orders, none, and one that is misspelt, because `Validate` checks none of
it. The poll and the single read decode with two copies of the same code, and so
does the model. `DeviceLayout` is written from the document's table, apart from
the code.

### CollectorCall

Abstract: each caller is outside a call, in one, operating, or past the
operation; at most one operates (`Operate`), and a call ends with the result of
its operation (`Finish`) or, if something excused it, without one (`GiveUp`).
`Collector` defines `callPhase` and `callOutcome` from its labels and instantiates
`CollectorCall` with them; its history variable `cause` is the excuse.

### Registry

The maps `collectors`, `points` and `deviceMap`, the `RWMutex` (`pending`: Init
waits for or holds it for writing, and then no reader gets in; `readers`), `Init`
(`main`, `device`, `row`) and, per handler, request, what it looked up and status.

| Action | Source |
|---|---|
| `NewCollector`, `Lock`, `RegisterCollector` | `Init`, `RegisterCollector` |
| `LoadPoints` | `LoadPoints` and `ValidatePoints` in `Init`: refused or not; what is accepted has no name twice (`MayBeValid`) |
| `RegisterPoint` | `RegisterPoint`, one critical section per point |
| `Lookup` | the three lookups; a write then unlocks, a read keeps the lock |
| `CollectorReturns` | the collector's call returns, 200 or an error status |

### Service

`main` is where `Run` is: `init`, `start`, `run`, then the stages of `Stop`
(`cancel`, `wait`, `close`, `closing`, `kafka`, `sync`, `done`). A poller is
`starting`, in its `select`, in `CollectPoints` and the statistics after it
(`collect`) or in `SendPointValues` (`send`). The select may choose the ticker
although the context is cancelled, and a poll may take for ever, so `WaitEnds` may
be the timeout. `crash` is a panic nobody recovers: `NewTicker` of an interval of
zero, a poll of a list that indexes a register it did not ask for
(`BatchRead!NoPanic` says which), a send on a closed producer. A panic inside a
handler is recovered by gin. `late` is history: the collectors in the hands of a
handler when the HTTP server was stopped.

While a poller or a handler is inside a call of a collector it takes the steps
below, in any order; `Collector` says which orders the code produces.

| Action | Source |
|---|---|
| `MarkLost` | the second critical section of `ensureConnected`: only the flag is cleared |
| `Connect`, `ConnectEnds` | `Connect` from the lock of `stateMutex` to its release; its calls wait for the client |
| `ClientCall`, `ClientReturns` | a request, which the client serves alone |
| `CloseCollector` | `Disconnect` takes `stateMutex`, and returns if the flag is down |
| `ClientClosed` | the rest of `Disconnect`: wait for the client, close, clear the flag, unlock |

A flag that is down says nothing of the transport: one whose loss was marked
stays open, `Close` does not touch it, and the runtime closes it some time
(`Collector!Finalize`).

### Configuration

One device and its points file: `LoadConfig`, the columns and rows in `LoadPoints`,
the loop of `ValidatePoints` with its two maps. A cell is what `TrimSpace`,
`ToLower` and the parser of its column make of it. Blank lines never reach
`LoadPoints`: the CSV reader skips them.

### PointWrite

A point of a data type, a register type and a scale, and the byte order of its
device; its registers hold a number that counts in quarters, so that fractions
exist. A request carries a number, a bool or a string. `toInt64`, `toUint64` and
the narrowing conversions truncate and wrap at the widths of the instance; a
conversion that Go leaves to the machine (a float that fits no integer, or a
scaled product that does not fit its type) may give any value of the type.
`toFloat32` gives a float32 next to the number and beyond the largest one maybe an
infinity (`Nearest`). Of the byte order there is what it does to a number: a write
exchanges the bytes of 16 bits for `little` and `swap` and no read exchanges them
back (`Registers`), and under an order its read function does not know a number of
more than 16 bits reads as zero (`Decoded`). `Poll` scales, `ReadSinglePoint` does
not and fails for coils. A product that is not whole may be rounded to anything
between the whole numbers around it (`Rounded`); what a scaled float becomes is
left open.

## 3. Runs

| Run | Bounds | Result |
|---|---|---|
| `collector_safety` | a poller, a handler, a closer, 3 sockets, 2 tries, 0-2 requests; also the refinement of `CollectorCall` | pass |
| `collector_liveness` | a poller and a handler, 2 sockets, 2 tries, 0-2 requests | pass |
| `marks_the_connection_it_tested` | as safety, no closer | violated |
| `batch_read` | all lists of 1-3 points over 17 shapes, 6 addresses, limits 2 and 3 | pass |
| `byte_order` | 8 data types, 6 orders, all values over two byte values | pass |
| `byte_order_ignored_for_16_bit` | as `byte_order` | violated |
| `registry` | 3 devices, two of one name, two with a point of one name, 2 handlers | pass |
| `service` | 2 devices of two names or of one, the first with an interval or none and a list that is missing or that a poll may panic of, a handler | pass |
| `polled_lists_are_valid`, `interval_has_default` | as `service`, the first with a refused list or the same | violated |
| `configuration` | up to 3 rows of 29 shapes, every set of columns, 7 settings | pass |
| `point_write` | integers of 4, 8 and 16 values, 21 numbers, scales 1/2, 1 and 2, orders `swap`, none and misspelt | pass |

`PROJECT.json` says in a sentence what each run shows.

Why the bounds are enough. Two goroutines suffice for every race between test,
mark and reconnect, the third brings in the concurrent `Close`; the proofs cover
any number. Three sockets let two be leaked while a third is in use, and running
out of them happens too. Two tries make the loop of `ensureConnected` repeat and
end. In `batch_read` six addresses and a limit of two give groups of up to three
sub-batches with a short last one, points that end at, below and past the last
address, sums that wrap, and lengths that are zero, too short and too long for the
type. Two byte values tell any two permutations of the bytes apart. In `registry`
names meet in every way two names can, one of two handlers can hold the lock
while the other is locked out, and a list may be refused between two accepted
ones. In `service` one device can hang while the other ends, and one collector
can take the other's entry, so that two pollers and a handler hold its two locks
in any order; what a second handler could do one can. A list that may panic
need not, so it stands for every list that `Init` refuses. Three rows
let a name or an address come back after another point stood between. The
integer sizes of `point_write` keep the order of the real widths, each with
signed and unsigned types, and its numbers are the ends of each, the neighbours
of the ends and halves between them.

`registry`, `service`, `configuration` and `batch_read` run without the deadlock
check: the process ends, a refused file goes no further, a poll is over.

Fairness. `Collector!Fairness`: a goroutine inside a call keeps running. Go's
mutexes hand the lock to a waiter after a millisecond, so no waiter is starved:
strong fairness of each caller's steps. Every client call ends, in an answer or
in the client's timeout. The ticker makes a poller poll again: weak fairness.
Dropped sockets are finalized in the end. Nothing is assumed of the network, the
device, the handlers or the closers. `BatchRead` assumes only that a poll goes
on. `Registry!Fairness`: `Init` and each handler that can take a step take it
(goroutines are scheduled, `RWMutex` lets a waiting writer in before new
readers, and calls of a collector return, which is `CallsReturn`); nobody has to
send a request. In `Service` both liveness properties are checked under `FairSpec`: the statements of `Run` go on
(`http.Server.Close` and the close of the producer return, the 30 seconds pass),
a lock that is freed again and again is obtained, and a request of the client
ends, in an answer or its timeout. It assumes of polls, sends and handlers
nothing, so in `StopTerminates` `Stop` meets collectors whose locks are held by
pollers that outlived the wait. `PollsAgain` has the further condition
`PollersGoOn`, that each polling goroutine goes on: a poll ends, which
`BatchRead!Terminates` and `Collector!CallsReturn` show, and the Kafka client
answers. Neither assumes which branch `select` takes, nor that a signal comes.

### What disagrees with the documents

Shown by a run:

* `MarksTheConnectionItTested` (comment in `ensureConnected`): the connection
  marked as broken may be one that another goroutine has just opened.
* `ByteOrderIgnoredFor16Bit` (`docs/byte_order.md` 63): 16-bit writes are swapped and
  reads are not.
* `PolledListsAreValid` (README: "comprehensive validation"): `Start` polls a list
  that `ValidatePoints` refused in `Init`.
* `IntervalHasDefault` (comment in `Validate`): the default of 10 seconds is
  assigned to a copy of the device; without an interval `NewTicker` panics.

Seen in the code while modelling it, and stated by no run; where a property has a
condition or an exception because of it, it is named:

* Testing and reconnecting are not under `opMutex` (README 29: all operations are
  protected): another goroutine may replace the transport in the middle of a batch.
* Coils and discrete inputs have no fallback, whatever the log of `readCoilBatch`
  says: `readBatchIndividual` supports registers only.
* 0x12345678 is written to a little device as 0x7856, 0x3412; the example in
  `docs/byte_order.md` 79-80 has 0x1234, 0x5678. Line 77 of the same document, DCBA,
  agrees with the code, and so does `WritesDocumentedLayout`.
* The order swap makes BADC of ABCD; the comment at `ByteOrderSwap` (`config.go` 17)
  says CDAB, which is what the code does for middle. `docs/byte_order.md` 15, 85 and
  `WritesDocumentedLayout` have BADC.
* A missing `byte_order` is big for a poll, as `docs/byte_order.md` 60 and 185 and
  `config.go` 43 say; a single read of more than 16 bits then returns zero
  (`PollAndReadAgree`).
* A misspelt `byte_order` is accepted, and numbers of more than 16 bits then read as
  zero (`PollAndReadAgree`); `docs/byte_order.md` 190 says that loading fails.
* At the top of the address space the `uint16` sum wraps and a point at 0 joins the
  group of one that ends at 65535; the comments at `groupPointsByRegisterType`
  (`collector.go` 272 and 281) say consecutive addresses (`InRange` in
  `GoodMeansOwnRegisters` and `NoPanic`).
* The byte order rearranges `float64` too (`docs/byte_order.md` 62 and 186: 32-bit
  types only).
* A connection whose loss was marked stays open: `Connect` opens another transport
  over it and `Disconnect` returns before it closes anything. It is left to the
  runtime (`NoneLeftConnected` speaks of flags only).
* Single reads are not scaled, and a scaled integer loses its fraction (README 278
  shows one that kept it; `ScaledWithinOne`).
* A point's name, unique within its file, may be taken by another device
  (`AcceptedPointsServed`), and so may a device's (`AsksThePointsDevice`,
  `NoneLeftConnected`): its collector is then never closed.
* Every error of a read is answered 404 "point not found".
* `Stop` of the HTTP server does not wait for handlers (`late` in
  `NoneLeftConnected`).
* `slave_id` (README 167) is parsed and never used.
* The column `register_type` is required, though its cells have a default
  (`points.go` 146); the files in `config/` without it are refused.
* Any positive length is accepted: a `float32` of length 1 is always BAD
  (`DefaultLengthFits` is about points without a length).
* A number that does not fit, a fraction, a bool or a string written to an integer
  point is acknowledged with 200 (`Representable` in `AcknowledgedNumberIsRead`).
* A coil can be written by name and not be read by name.
* The README's defaults for `port` (502) and `interval` (5) are not the code's:
  `Validate` refuses port 0, and see `IntervalHasDefault`.

## 4. Proofs

Every type invariant and every safety invariant that a run checks, the action
property of `Collector` and the refinement of `CollectorCall` are proved, for every
value of the constants that the named assumptions allow. `PROJECT.json` lists the
theorems with the properties they state.

`CollectorProofs` proves, for any sets of goroutines and descriptors, any number
of retries and any number of requests, that `TypeOK`, `ConnectedStateConsistent`,
`RequestsHaveTransport` and `FailsOnlyForCause` are invariants of `Spec` and that
every step satisfies `OpensOnlyWhenDisconnected`. The only assumption is
`CollectorAssumption`: the roles are disjoint, the sentinels are not members and
the bounds are positive. None of the four is inductive. The inductive invariant
`IInv` adds

* `LockInv`: who is inside `Connect` holds `stateMutex`, who is inside an
  operation holds `opMutex`, and conversely;
* `BudgetInv`: who may still call `Connect` has a try left;
* `TransportInv`: while somebody is inside `Connect` the flag is down, and who is
  past a test has a transport;
* `CauseInv`: a call without an excuse finds the device up, its transport alive
  once it is connected, and, while another caller's `Connect` is about to give up
  a socket, has not looked at anything yet. The last part is why a stale mark and
  a lost race for the reconnection never become a failure.

There is one lemma per conjunct with one step per action.

`CollectorProofs` also proves `ImplementsCalls`: every step of `Collector` is, under
the mapping of section 2, one of `CollectorCall` or a stutter. Beside `IInv` it
needs `RoleInv`, which labels belong to which role.

`BatchReadProofs` proves the six safety properties of a poll for any set of lists,
any address space, any limits of a request and any pattern of failures.
`BatchReadAssumption` says that the limits are positive, that no list is empty and
that a point carries its position as its name. None of the properties follows
from a loop alone, so the invariant is built in layers, each proved with the help
of those below it:

* `TypeInv`: the counters of each loop stay in their group and no group is empty.
  The `uint16` sums are taken modulo the address space, so this holds for lists
  that run past the last address too;
* `RowsInv`: every row grouped so far stands in exactly one place of one group, of
  its own register type, and sorting only exchanges places;
* `ReportInv`: the values are those of the places `collectBatchGroup` is past, one
  for each. With `RowsInv` this is `EveryPointReported`; `BadOnlyForCause` is
  inductive over the two;
* `RunInv`: in a list in range a group is a run of adjacent points, from
  `StartAddress` to `StartAddress + TotalLength` without a gap. `GroupPoint` keeps it
  because nothing wraps, and `SortPoints` because a run is sorted already: it
  never exchanges anything;
* `ReadInv`: the registers read are the first of the group, up to where the split
  or the single reads have come, and the offset of `collectBatchGroup` is the
  distance of its point from the start. `GoodMeansOwnRegisters`, `NoPanic` and
  `RequestsAreConfigured` are inductive over it.

`ByteOrderProofs` proves `TypeOK`, `ReadBack`, `PollAndReadAgree` and
`WritesDocumentedLayout` for every set of byte values with a zero. `PollDecodes` and
`ReadDecodes` reduce the two copies of the decoding to one table, a missing and a
misspelt order included. `Written32` and
`Written64` show that decoding inverts encoding, `DeviceAgrees32` and
`DeviceAgrees64` that the documented layout is the one the code writes; the
invariant says that the registers hold the encoding of the stored value and a
result is a decoding of the registers.

`RegistryProofs` proves `TypeOK`, `EntriesFitTogether`, `AsksThePointsDevice` and
`AcceptedPointsServed` for any devices, names, files and handlers, from
`RegistryAssumption` (there is a device, every device has a name and a non-empty
list) and `NoneAssumption`. What is registered fits together only because a
device's collector is there before the first of its points (`LoadInv`) under that
device's name (`CollectorInv`). `ServedInv` says that a point that was entered
stands for its name, or a point of a later device does; within one list this
needs that `ValidatePoints` accepts no name twice, without which a later row could
take the name of an earlier one of the same device.

`ServiceProofs` proves `TypeOK`, `PollersEndBeforeClosing`, `SendsWhileProducerOpen`
and `NoneLeftConnected` for any number of devices and handlers. The wait group is a
number, so the core is `CountInv`: it equals the cardinality of the set of living
pollers, to which `StartInv` (a device is started once) and `PollerCounts` (a
poller ends once) contribute. `ProducerInv` and `ClosingInv` say what is closed at
which stage of `Stop`, `LateInv` and `CalledIsCreated` who may still set a flag:
after a wait that was not given up only a handler that was late is inside a call.

`ConfigurationProofs` proves `TypeOK`, `AcceptedListIsUnambiguous` and
`DefaultLengthFits` for any settings, any rows and any number of them. `MapInv`
is the invariant of the loop of `ValidatePoints`: its maps hold exactly the
points seen, which differ from each other. `RowsAssumption` and
`SettingsAssumption` say what the parsers of a cell and of the settings return;
a scale or a port may be negative.

`PointWriteProofs` proves `TypeOK`, `AcknowledgedNumberIsRead` and `ScaledWithinOne`
for any even widths that grow, any unit, any scales, any set of numbers and any
finite set of float32 among them (`PointWriteAssumption`, `NumbersAssumption`).
`SentInv` says that until the device changes the point the registers hold one of
the numbers the last acknowledged write may have produced, `ReadInv` that a result
is one of what the registers hold. The lemmas about the conversions do the rest:
`NarrowedType` (narrowing ends in the type and leaves a number alone that fits),
`Widens` (every value of a point's type passes the 64-bit integer between),
`NearestToItself` (a number that a float32 expresses is its own nearest),
`WrittenExactly`, and for the scaling `RoundedClose` and `TruncatedBetween`: a
rounded and truncated product stays between the whole numbers around it.

Only model-checked: the liveness properties `CallsReturn`, `Recovers`, `Terminates`,
`InitTerminates`, `RequestsAnswered`, `StopTerminates` and `PollsAgain`, because
fairness and `ENABLED` are out of the prover's reach; and the four properties the
code violates. What a string point decodes to (`Text`, a `CHOOSE`) has no type
in `ByteOrder!TypeOK`; `PollAndReadAgree` covers it.

## 5. Plan

1. Done: all modules of section 2, their runs, the refinement of `CollectorCall`,
   and the proofs of section 4.
2. Left: the safety half of `Terminates`, a lexicographic measure (loop, groups
   left, registers or points left) that every step of a poll decreases, for lists
   whose `uint16` sums wrap too; for `StopTerminates`, that whoever holds a lock of
   a collector is inside a call of it or is `Stop` itself.
3. Left: what a list whose sums wrap is decoded to; liveness of `Collector` with a
   closer beside poller and handler.

## 6. Not modelled

* `PointCache`: `InitPointCache` is never called. The methods of `Collector` that
  repeat `byteorder.go`, and `toString`, are unused.
* Logger, command line flags and the signals of `main.go` beyond the fact that one
  may come; `handleListPoints` and `/health`, which return constants.
* CSV, TOML, JSON and HTTP syntax; the meaning of float bits (that JSON refuses some
  is a send that fails); defaults of names and of the log.
* The message to Kafka and the default limits of its batches.
* sarama, gin and the Modbus library beyond what their callers see. The client
  serialises its requests; that a device answers a request late, to the next one,
  is the library's affair (transaction identifiers).
* A device that does not serve holding register 0 never counts as connected. The
  model assumes one that does.
