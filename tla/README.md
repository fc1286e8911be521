# A verification project for the harns gateway

The gateway reads industrial devices (Modbus TCP / RTU, Siemens S7, OPC UA),
publishes what it reads over MQTT, and lets an HTTP API create, change, start,
stop and delete the devices. These TLA+ modules model its concurrent core (the
manager that owns the devices, the broker that polls one device, the pool of
connections a broker polls with, the file a device is kept in), what passes
over a connection (the planning of frames, the exchanges of Modbus, S7 and OPC
UA, the layouts of values, the table of variables behind them), and the chunk
files of the time series package that comes with it. TLC checks them on small
instances; TLAPS proves every invariant and action property that the passing runs
check, and three refinements, for every value of the constants.

    tlc -config MCMessengerPool.cfg MCMessengerPool.tla
    tlapm MessengerPoolProofs.tla

## 1. The system

    HTTP (gin) ──► device manager ──► broker of a device ──► connection pool ──► device
                     │    ▲  │            │
          file store ◄    │  └ listener,  └─ results channel ─► consumer goroutine
                          │    heartbeat                          (status, MQTT)
                      web.Server.Serve (shutdown)

| Part | Source | State | Operations | What is hard | What makes it correct |
|---|---|---|---|---|---|
| Connection pool | `pkg/protocol/{modbus,s7}/runtime/clients.go` | list of idle messengers, counter `Idle`, map of request channels, `Mux` | `GetMessenger`, `ReleaseMessenger`, `Destroy` | many goroutines of one poll and HTTP actions at once; decisions on a counter beside the list; `Destroy` leaves counter and map as they were | a connection has one user; none leaks; a waiter is served |
| Broker | `modbusbroker.go`, `s7broker.go`, `opcuabroker.go` | collector, goroutine per frame, roll, `VariableCh`, `ExitCh` | `NewBroker`, `Collect`, `poll`, `message`, `retry`, `rollVariable`, `DeliverAction`, `Destroy` | late rolls, a channel closed under a sender, a retry that does not count | a result is the whole of one poll; results in order, once; `Destroy` meets no poll and comes back |
| Device manager | `pkg/device/manager.go` | `devices`, `heartBeatDevices` (`sync.Map`s), `brokers`, `brokerReturnCh`, `mu`, `deviceStatusCh` | `Init`, `CreateDevice`, `DeleteDevice`, `UpdateDeviceById`, `SwitchDeviceStatus`, `DeliverAction`, `Shutdown`, `readyCollect`, `cancelCollect`, listener, heartbeat | operations on one device are not excluded from one another; `mu` is kept across `Destroy`; the object and the map entry go apart | at most one collector per device, and one the manager can stop; unconnected devices are probed; memory agrees with disk; a request ends |
| Device store | `pkg/generic/store.go`, `pkg/storage` | one JSON file per device, locked while open | `Create`, `Update`, `Delete`, `LoadResource` | truncate, then write, and either may fail; version bump that may be 0 | an update is refused when its version is old; the file is lost nowhere but between truncation and write |
| OPC UA pool and broker | `opcua/runtime/clients.go`, `opcua/opcuabroker.go`, `opcua/model` | as the pool, with dialling under `Mux`; groups of variables; sessions | as the pool; `message`, `retry`, `update` | returns that do not unlock; redials that do not count; results matched by place; empty groups | values under their own variables, each once; a poll ends |
| Modbus exchange | `modbus/modbusbroker.go`, `modbus/model`, `modbus/runtime/type.go` | response buffer and transaction id of a frame; what has arrived on the connection | `AskAtLeast`, `ValidateAndExtractMessage`, `DeliverAction` | short reads, late answers, buffers used again | what is parsed is the answer to what was asked; an accepted command is carried out |
| S7 exchange | `s7/s7broker.go`, `s7/model`, `s7/runtime/type.go` | as above | as above | as above; a length in one byte; a transport size that sticks | as above |
| Frame planning | `NewBroker` of the three brokers | frames of sorted variables | packing under the protocol's limits | unsigned arithmetic, relative and absolute addresses | every variable in one frame, no frame over the limit |
| Protocol managers, types | `pkg/protocol/*/manager.go`, `*/runtime/deepcopy.go`, `pkg/v1` | list of variables and a map into it | create, update, copy, reload | an index into a list that changes; trimmed and untrimmed names | the table is the one requested; a name leads to its variable |
| Gateway manager | `pkg/gateway/manager.go` | CPU samples under an RWMutex | `collectCpu`, `getGatewayCpu` | an early return keeps the read lock | a reader ends; sampling goes on |
| HTTP layer | `pkg/web/server.go`, `pkg/device/server.go`, `cmd/gateway/app` | none of its own | routing; shutdown | the manager is shut down before the server | no request meets a manager that is gone |
| Data service | `pkg/data`, `pkg/dataweb`, `cmd/data` | none | queries to databases | I/O only | not modelled |
| tsdb | `pkg/tsdb/chunks`, `pkg/tsdb/chunkenc` | chunk files, mapped files, a writer's buffer; a stream of bits | `WriteChunk`, `Chunk`, `IterateAllChunks`, `Truncate`, `DeleteCorrupted`, restart; `Append`, `Next` | truncation while chunks are written; power loss in the middle; fields at their ends | a reference reads its chunk; the directory opens again; a series is read as it was written |
| Simulator, commands | `pkg/iotsimulator`, `cmd` | | test tool, flags | | not modelled |
| Utilities | `pkg/utils` | none | byte orders, differences of tables, CRC, file lock | four orders written out for every width | a number written is read back |

The hazards, each at its line and with the properties that would catch it, are
in `PROJECT.json`.

## 2. The modules

| Module | What it is |
|---|---|
| `MessengerLease` | abstract: messengers are free or leased to one caller; what any pool promises |
| `MessengerPool` | `Clients` of Modbus and S7 and the callers around it; implements `MessengerLease` |
| `MessengerPoolProofs` | proofs for any workers, deliveries and size |
| `DeviceManager` | `pkg/device/manager.go`: all requests, the listener, the heartbeat, the consumers, the shutdown |
| `DeviceManagerProofs` | proofs for any devices, requests, brokers and revisions |
| `ResultStream` | abstract: the results channel as the manager sees it, one place, closed once |
| `Broker` | one broker's goroutines; implements `ResultStream` |
| `BrokerProofs` | proofs for any frames and any number of polls |
| `VersionedFile` | abstract: one object that is replaced whole, compare-and-swap, removed for good, or lost while it is being made or replaced |
| `FsStore` | `pkg/storage/store_fs.go` for one device, with the manager's memory of it, failing calls and crashes; implements `VersionedFile` |
| `FsStoreProofs` | proofs for any number of requests, failures and crashes |
| `ByteOrder` | `binutil`: the orders of bytes, as which place of a buffer holds which byte |
| `VariableTable` | the list of variables and the map into it, through create, update, copy and reload, for the three managers |
| `VariableTableProofs` | what those operators compute, of lists of any length; the induction over folds that all proofs about lists cite |
| `ModbusFrames` | what `NewBroker` plans for Modbus, the messages of the three modelers, the check of an answer, the conversions: operators |
| `S7Frames` | the same for S7 |
| `Exchange` | one connection of a Modbus or S7 device: polls and commands that take turns on it |
| `ExchangeProofs` | proofs for any devices and lists of variables |
| `OpcUa` | an OPC UA device: groups, poll, pool, retry, sessions, update and restart |
| `OpcUaProofs` | proofs for any variables, size of groups and number of clients |
| `ChunkDiskMapper` | `head_chunks.go`: chunk files with a writer, truncation and power loss |
| `ChunkDiskMapperProofs` | proofs for any chunks, restarts and truncations; and of `XorChunk` for any samples |
| `XorChunk` | `chunkenc`: samples as a stream of bits, and the iterator |
| `MC*` | instances for TLC |

The modules meet at their abstractions. A broker is, in `DeviceManager`, a
running collector with a place for one result and a `Destroy` that blocks until
the collector is there; `Broker` opens that box (`DestroyEnds`,
`DestroyedBetweenPolls`, `ResultStream`). A `message()` of `Broker` has the
messenger it needs; `MessengerPool` says why it gets one (`CallersFinish`) and
that it is alone with it (`ExclusiveMessenger`). What the messenger then sends
and reads is `Exchange`, which has one connection and turns on it in place of
the pool and the goroutines. `OpcUa` has its own pool, because its clients are
dialled and replaced under `Mux`. The store's calls are one step
each in `DeviceManager`; `FsStore` says for which of them that is right:
`Update` is (`ImplementsFile`), `Delete` is not (`DeletesItsVersion`).

### MessengerPool

A critical section under `Mux` is one step, because nothing else touches the
pool's fields. `Messengers`, `Idle` and `ConnRequests` are the fields;
`granted` is the messenger a goroutine holds, or finds in its own one-place
request channel; `pc` is where it is. Workers (one per data frame) come round
with each poll; a delivery is one HTTP request and happens once. When the pool
closes a delivery's channel it dials a connection of its own, and gives that to
the pool afterwards as the code does (`Connect`, then `Release`).
`TakeFromEmptyList` is the panic of `Front().Value` on an empty list, reached
after `Destroy`, which keeps `Idle`: it leaves `Mux` locked (`muxStuck`).
`HandToClosed` is the send on a closed channel that `ReleaseMessenger` makes
after `Destroy`. Every caller passes `context.Background()`, so the branches on
`ctx.Done()` cannot be taken and are left out.

### DeviceManager

Each goroutine has a place (`th[t].pc`) between the steps at which it can be
interrupted: a call on a `sync.Map`, the region under `mu`, the store call, the
connection attempt, the send on a channel. A device object is named by the id
and the revision `UpdateDeviceById` gives it, because `devices`, `brokers` and
`heartBeatDevices` may hold different objects of the same device; status and
version belong to the object. `DeleteDevice` leaves `cancelCollect` behind in a
goroutine and goes on to `devices.Delete` by itself: the request's thread becomes
the goroutine and `unmap` holds the request that still has to do the latter.
`cancelCollect` is two steps, `CancelLocks` and `CancelDestroys`, because
`Destroy` waits inside `mu`. `LoadMissing` is the type assertion on nil in the
listener, and `MapRace` the runtime's check of a map read and written at once:
both end the process (`crashed`). `Init` is the state after `Manager.Init` with
`LoadResource`. `Shutdown` runs before `stopCh` is closed
(`cmd/gateway/app/server.go:108-109`), so every goroutine goes on during it. MQTT
publishing and the closers of `Shutdown` change nothing modelled. The store's
calls are atomic with their version check and do not fail otherwise; their steps, and what a
failing file system leaves of one device, are in `FsStore`. A version grows by 0 .. `MaxBump` in
place of `rand.Intn(100)`. `MayHang` are the brokers whose poll may never end, as those of S7 and OPC UA
can; then `Destroy` does not come back either, and `mu` stays locked. A delivered action
is followed until its broker has it.

`overlapped` is a history variable: the ids on which an operation ever began
while another was in progress. The `Serial…` properties are stated of the other
ids: they say that the manager's code is right when operations on a device do not
meet. The runs that expect a violation show what is lost when they do.

### Broker

`collector` is where `Collect` is around its two looks at `ExitCh`; `asking`,
`broken`, `tries` are the `message()` goroutines and their `retry()` loops; `roll[p]` is
the `rollVariable()` of poll `p`, which poll `p` does not wait for, with the frames that
sent values or an error and the ones that panicked while parsing, which
`message()` recovers without a result. `consumer` and `handled` are the manager's goroutine.
`CountsBadConn` is TRUE for Modbus and FALSE for S7 and OPC UA, whose loops take
back the try a broken connection used. `RollPanics` is the send on `VariableCh`
after `Destroy` closed it. `backlog` and `handled` are history.

### FsStore

One device's file: `linked` says that the directory names it, `content` what it
holds, because an update that opened it goes on writing after a delete removed
the name. `lock` is the flock, which refuses a second holder and does not wait;
`known` is the object in memory when the request was made, whose version is its `If-Match`, and
`seen` the object a call has read and then the one it has written. `Check` is what both calls do
under the lock up to the first change of the file: `Update` truncates, `Delete` closes the file and so gives
the lock up. `Encode` is the one `write` that `json.Encoder` makes. `Store` and
`Unmap` are the manager's calls on `devices` after the store's answer. `Crash` may
happen at any step, leaves the file as it is, and `LoadResource` skips a file
that holds no object, as the code does. Each bump is 0 .. `MaxBump` in place of
0 .. 99, the first version 1 in place of a random number, and the wrap at 2^64 is
left out. `Delete` without a version is left out: nothing calls it.
`stood` is history: an update that kept its version.

Any call of the file system may fail. Opening, locking, reading and truncating leave the
file as it was (`Fail`, in `OpenFile`, `NewLock` and `Check`). A `Seek` or a write that fails after the truncation
(`EncodeFails`) leaves memory with the old object and the file with none, or, when only the
newline behind the object was not written, with the new one. A failed write of `Create`
leaves a file the manager does not know (`CreateFails`). When
`os.Remove` fails the file stays although `DeleteDevice` goes on to forget the device (`Remove`).
`VersionsKeepMemory` names the two states that a failed write leaves; without its second line
TLC refutes it.

In the refinement the object between `Truncate` and `Encode` is the one that was
read, since the lock keeps everyone else from the file. `VersionedFile` has a state for it and one for the
creation, and `Lose` is enabled in these two only: neither a crash nor a failure anywhere else may lose the
object. It lets any delete remove the object, because the code does.

### Exchange, with ModbusFrames, S7Frames, ByteOrder and VariableTable

`Setups` are devices; a behaviour begins with one of them. `frames` are the
frames `NewBroker` plans from its variables (a left fold over the sorted
variables, as the code's loop is), with the last transaction id and the
response buffer each keeps between polls. `stream` is what has arrived on the
connection and was not read. A turn (`TakeTurn`) sends a request; then its answer
is read whole or short of what was asked (`Answered`), comes after the deadline or
not at all (`Unanswered`), or panics the parser (`Overrun`), and `retry()` goes
round. `dirty` records that something was left in the stream since the last
dial, which a command does on a time-out, because it keeps its connection. A
command (`BeginCommand` ... `CommandOverrun`) goes through its messages one by one and
counts those that failed. `table` is the copy of the device that the broker has,
`stored` the manager's: an update changes the second, and `Recollect` is the
stop and start that makes a broker of it.

A message is a head and its data. A byte has `BitsPerByte` bits and a register two
such bytes, so that a 64-bit value fits TLC's integers; nothing in the code
depends on there being eight but the packing of coils, which is written with the
constant. The CRC stands for the content it was made from. `ByteOrder` says what
each of the functions of `binutil` does to the places of the bytes; that what is
written in an order is read back in it, and that no two orders read alike, TLC
evaluates as assumptions of `MCExchange`.

Of the device, which is not in the source, the model assumes: a head arrives in
one piece; a Modbus device answers what it is asked or nothing; an S7 device
packs its items without fill bytes and takes as many bytes of a written item as
the item's length says, and a `strict` one refuses an item whose stated bits are not
that length. Numbers are unsigned and below 2^(8 bytes), an S7 address has at most two
digits. A variable is of one of the seven types that the API
names for Modbus and S7 (`v1/modbus.go:7`, `v1/s7.go:6`): the code also lets `number` and `string` pass, which it reads
for OPC UA and, in part, for S7.

`Regular` is what the code needs of a device to plan its frames right, found by
checking without it. Modbus: the first address is not below the position the
device counts from, the distance to it fits a frame (the code compares a
relative limit with an absolute address), and of two variables the one that
begins later does not end earlier (a frame is as long as the variable put last
needs). S7: two variables at one address have one length, an address is written
with the letters its zone takes off, only a FLOAT64 has a rate (another one
panics in the write), the length byte of a request holds its length, and a full answer fits the response
buffer (`Roomy`: the buffer has as many bytes as the PDU, and the items of a frame are counted as if 19 bytes
came before their answers, where 21 do).
Of a Modbus variable it needs two things more, which nothing checks (`Legible`): its address ends within the
16 bits of the wire, since `uint16(...)` cuts a larger one off, and a BOOL in a register has a bit from 1, since one
of bit 0 is reported as FALSE. Where one variable of the device is not legible, nothing is claimed of its values. And a value with its rate is what is reported only where the variable's type can
hold it (`Represented`): `int16(float64(v) * rate)` wraps. Coils and inputs are bits (`Plant`).
`MCSetups` has devices on both sides of each of these conditions; on the other side
frames lack variables or are refused by the device, and only `ReportsWhatIsHeld` and
the properties without the condition are claimed. `AcceptedIsDone` is stated for values
the code can write (`Writes`): 0 or 1 for a coil or an S7 bit, otherwise a number of the variable's type, since the bytes of
a larger one are cut off; a rate that divides it; and over S7 the transport size that belongs to the variable, which sticks
after a BOOL.

A value of a command that is not of its variable's Go type makes `DeliverAction` return an error before
anything is sent (`modbusbroker.go:201-257`); `BeginCommand` takes the commands that pass.

### OpcUa

`frames` are the groups of `VariablesInGroupOf`, the empty ones included; `pc` is
where the goroutine `message()` of each is. The pool's steps are those of
`MessengerPool`; a messenger is a place among those `NewClients` made, and
`session` says whether its client's session is open, forgotten by the server or
closed. `Redial` is `Reset` in `retry()`, whose branches take the try back.
`kept` is `Mux` left locked by the two returns of `GetMessenger`. `UpdateDevice`
merges variables in the manager's table, `Start` makes a broker of it, `Restart` is
a restart of the gateway, which loads the devices from the store. A variable
with a data type the broker does not ask for has no node in the request: the
answer is shorter than the variables, the index panics, and the process ends
(`alive`). The address of a NUMBER that is a string but no number makes node 0 (`opcuabroker.go:55-58`), a node
like any other that the server knows or does not; a STRING whose address is not a string makes `NewBroker` panic (63) and is left out. `Lose` and `Regain` are what the server, the network and gopcua do by
themselves: the client library may reconnect. `DeliverAction` of OPC UA is only `panic("implement
me")` and is left out; `GetMessenger` cannot return an error, as its context is
`Background` and `NewMessenger` returns none.

### ChunkDiskMapper

A method holds `writePathMtx` from its beginning to its end, so it is one step,
but `Truncate` and `DeleteCorrupted` choose, cut, unmap and remove in steps of
their own, between which chunks are written and the power may fail. A reference
is a file and the place of a chunk in it. `m` is the mapper, `disk` the directory,
`m.pending` what the `bufio.Writer` has not flushed and `m.buffer` the chunk buffer beside it.
The writer's operations (`flushBuffer`, `cut`, `Put`) are functions of the mapper and the disk, which
`WriteChunk`, `CutNewFile` and `Close` compose as the code calls them. `Chunk` takes only `readPathMtx` and may run
inside a `WriteChunk`; the model reads between whole calls. (`flushBuffer` flushes before it clears the buffer, so that
in between a chunk is in both places.)

Assumed: no call of the file system fails; a file is synced when it is finalized
and removals reach the disk in their order; after a power loss the file that was
written to holds a beginning of what was written, perhaps torn, or not even a header;
one goroutine calls `Truncate`, `IterateAllChunks` and `DeleteCorrupted` (Prometheus'
head does); the caller deletes a corruption before it writes. The function a caller passes
to `IterateAllChunks` may return an error, between two files. `given`, `whole`, `brokenOff` are history.
Three things hold only with a condition, because the code does not do more:
`DeleteCorrupted` removes in the order of a map, so a power loss in the middle
may leave a gap that no later start accepts (`brokenOff`); after an iteration that
ended early the maxt of the files behind it is 0 and a truncation takes them for old
(`whole`); and when all files are truncated the numbers begin again.

The gateway does not use this package, and does not build it: `head_chunks.go` and its test import
`lightiot/...`, which is not in `go.mod`. The model is of the code as it stands.

### XorChunk

An appender and its chunk are one record. A series is written sample by sample
(`AppendToChunk`), with a new `Appender` before any of them (`NewAppender`), and
in every state read by `NextSample` as often as the header counts
(`XorReadsBack`). Widths are parameters in the proportions of the code (`XorSpec` takes any sample of them). A value is
the sequence of its bits, so that leading and trailing zeros and the window
between them are what they are in the code; a varint of `encoding/binary` is one
element of the stream; how `bstream` packs bits into bytes and its reader buffers
eight of them is left out. So is the end of the header's 16 bits: the count of samples is a number.

## 3. The runs

| Run | Module, configuration | Shows |
|---|---|---|
| `pool` | `MCMessengerPool` | types, exclusive use, no leak, callers finish, refinement of `MessengerLease`; `Destroy` at any time between polls |
| `manager` | `MCDeviceManager` | one broker is never destroyed twice before a shutdown; without overlap one collector at most, a delete stops collecting and probing, an unconnected device is probed, memory agrees with disk; the listener panics only after an overlap |
| `manager_live` | `MCDeviceManagerLive` | accepted requests end, unless a poll that never ends keeps `Destroy`, and with it `mu`, for ever |
| `broker` | `MCBroker` | results whole, in order while no roll is late, handled; `Destroy` between polls and ending; refinement of `ResultStream` |
| `manager_delete` | `MCDeviceManagerDelete` | violation: a delete that meets a probe leaves the collector running (`apis/device.yaml:98` says it stopped) |
| `manager_shutdown` | `MCDeviceManagerShutdown` | violation: a shutdown that meets a delete waits for ever on `ExitCh` (`options.go:57`) |
| `fs_store` | `MCFsStore` | the lock is not left behind, a call that passed the check changes the object its client knew, memory agrees with what a restart loads or, after a failed write, is not ahead of it; refinement of `VersionedFile`; failures and a crash at any point |
| `fs_store_delete` | `MCFsStoreDelete` | violation: a delete removes a version that is not the one in `If-Match` (`apis/device.yaml:112`) |
| `broker_retry` | `MCBrokerS7` | violation: the S7 and OPC UA retry never gives up on a connection that is dialled and breaks (`s7/runtime/constant.go:8`) |
| `exchange` | `MCExchange` | what a poll reports is what the device held; each variable of a regular device is answered once; a connection nobody touched late is clean between turns; an accepted command is carried out; the manager's table is the one requested |
| `opcua` | `MCOpcUa` | values under their own variables; a poll without faults reports each known variable once; polls end unless a closed client was found under `Mux` or the process died |
| `chunks` | `MCChunkDiskMapper` | references read their chunks, the directory opens again, a truncation removes nothing newer; every short series is read back from its encoding |

### Bounds

- `pool`: two workers, three deliveries, two messengers. A worker can be idle,
  queued or served while another holds the last messenger; three deliveries
  let two wait in the map, so that a release chooses, and one use the pool
  after `Destroy`. More callers only lengthen the queue; the safety part is
  proved for any number.
- `manager`: one device, two requests of any kind, three brokers. The manager
  keeps nothing that ties two devices together except `mu` and the listener;
  two requests, the listener, the heartbeat and the shutdown already make five
  threads on that device. `Brokers` bounds the brokers in existence (a broker is
  used again when nothing refers to it): two requests and a probe can each hold
  one. `MaxRev = 3` allows each request to update; `MaxBump = 1` has an update that changes the version and one that does not. `Outcomes` bounds the kinds of
  result. All the properties of this run are proved for any number of devices and requests.
- `manager_live`: no shutdown (after one, requests may hang, see
  `manager_shutdown`), one revision and one outcome: liveness does not depend on which
  revision is served. One of the three brokers may hang, so that a request meets both kinds.
- `broker`: two frames and three polls: one poll in progress, one result in
  `VariableCh` or being published, one roll that is late. `MaxPolls` is the one
  cap on an endless loop. The safety part and the refinement are proved for any.

- `fs_store`: three requests, so that two updates of one version and a delete
  meet; `MaxBump = 1` has a bump that changes the version and one that does
  not. Any number of crashes and failures. The invariants and the refinement are proved
  for any requests and bumps.
- `exchange`: thirteen devices, of the four layouts of Modbus, its three transports and S7, each
  with variables and commands that meet one or two of the hazards; at most two
  polls, one command, two updates and two faults. Two polls make a buffer and an
  id used again (`IdMod = 4` lets ids of different frames meet and wrap), one
  fault makes an answer late for whoever has the next turn. A frame takes five coils, five registers or two
  S7 items, so that the variables of a device need several. `TypeOK`, `StoredIsRequested`,
  `CleanWhenFree`, `EveryVariableAnswered`, `ReportsWhatIsHeld` and `AcceptedIsDone` are proved for any.
- `opcua`: groups of two, so that three variables make five requests (two of them with variables, three empty),
  and five requests per client as in the code, so that these need two clients; up to three faults. Seven
  devices with known and unknown nodes, a variable of another type beside one that is asked for, and a group
  without any that is. `TypeOK`, which is the account of the pool, `ReportsTheServer` and `PollIsComplete` are
  proved for any.
- `chunks`: a file takes three small chunks or one big one, which is larger than the buffer; four chunks, three opens, two
  truncations. Three files are needed to truncate one behind which another is cut, and the third open
  sees what a power loss within the second left. The four properties of the files are proved for any, and so is `XorReadsBack`. `XorChunk`, in the same
  run, since it shares nothing with the files and a behaviour is of one or of the other: all series of a first
  sample, any two times and one of three more, and all of a zero value and any three more, reopened before
  any subset of them; a fourth sample is the first that can use a window a second time after it was replaced.

Deadlock is not checked: a request runs once, a shut-down manager, a destroyed
pool or broker and a process that is gone may stop. What must not stop is stated
by the liveness properties. Symmetry is used in `manager` only, which has no
liveness property.

### Fairness

Weak fairness says that a goroutine that can go on does: the Go scheduler runs
it, an exchange with a device ends at the read deadline that `AskAtLeast` sets, a
publication at `mqttTimeout`. Nobody has to send a request, start a poll after
the last one, destroy a broker, or signal the process; those steps have no
fairness. A blocked `Destroy` has none that helps: it is enabled only while the
collector runs. And one that waits for a poll of a broker in `MayHang` has none at all (`Hangs`), since such a poll
need not end: the S7 and OPC UA retry goes round while a device accepts connections and breaks them (`broker_retry`), and
an OPC UA poll that finds a closed client keeps its pool's `Mux` (`opcua/runtime/clients.go:72`). `RequestsFinish` says that this is
the only way a request can be kept for ever: without the exception TLC refutes it, and for a broker
outside `MayHang`, as those of Modbus, there is none (`DestroyEnds` of `broker`). The broker's fairness to each frame counts on
`CallersFinish` of the pool. In `opcua` the goroutines of a poll go on (weak
fairness of `Message`); faults, updates and restarts are not owed, and faults are
bounded, since a server that breaks every session keeps the redials going without end
(`broker_retry` shows that loop).

### Conditions

Many properties hold under a condition because the code does not do more, and often the condition leaves out
the very case of a hazard: operations that overlap (`Serial`), an updated device (`SerialUnconnectedIsProbed`), late rolls (`backlog`),
a late or short answer (`dirty`, and `clean` of a result), a device outside `Regular`, `Roomy` or `Legible`, a command outside `Writes`, a kept version (`~stood`) or a
delete (`VersionsKeepMemory`), a closed client under `Mux` (`kept`), a dead process (`alive`), an interrupted `DeleteCorrupted` (`brokenOff`), an iteration
that ended early (`whole`). There the property does not catch the hazard but confines it: it says that what the
condition names is the only way the promise is broken. `hazards` in `PROJECT.json` says of each which of the two
it is. Three such cases are shown as violations of what the documents say, by the runs `manager_delete`, `fs_store_delete` and `broker_retry`.

## 4. The proofs

| Theorem | Says |
|---|---|
| `PoolTypeOK`, `PoolExclusive`, `PoolWhole`, `PoolWaiterHasHolder` | the four invariants of `pool`, for any callers and size |
| `PoolImplementsLease` | each step of `MessengerPool` is a step or a stutter of `MessengerLease` |
| `ManagerTypeOK` | the types of `manager`: no device has a revision nobody made, and a broker that collects has the goroutine that takes its results |
| `ManagerMappedBrokerRuns` | until a shutdown begins the map `brokers` names running brokers, each of its own device |
| `ManagerSerialOneCollector`, `ManagerSerialDeleteStops`, `ManagerSerialUnconnectedIsProbed`, `ManagerSerialStoreAgrees` | what the manager guarantees a device on which operations never overlapped, for any number of other devices |
| `ManagerCrashNeedsOverlap` | the listener's assertion on nil is reached only after an overlap |
| `BrokerTypeOK`, `BrokerDestroyedBetweenPolls`, `BrokerResultsAreWhole`, `BrokerResultsInOrder` | the four invariants of `broker`, for any frames and polls |
| `BrokerImplementsStream` | each step of `Broker` is a step or a stutter of `ResultStream` |
| `FsStoreTypeOK`, `FsStoreLockIsInUse` | two invariants of `fs_store`, for any requests and failures |
| `FsStoreVersionsKeepMemory` | with new versions only, memory at rest has what a restart would load, however updates overlap; after a failed write the file has nothing or a newer object |
| `FsStoreChangesWhatItKnew` | with new versions only, an update or delete past its check changes the very object its client knew |
| `FsStoreImplementsFile` | each step of `FsStore` is a step or a stutter of `VersionedFile`; so the object is lost only while it is being made or replaced |
| `ChunksTypeOK`, `ChunksEveryRefReads`, `ChunksOpensAgain`, `ChunksTruncateKeepsNewer` | the invariants and the action property of `chunks`, for any sizes, times, chunks, restarts and truncations |
| `ExchangeTypeOK` | the types of `exchange`, for any devices |
| `ExchangeStoredIsRequested` | the manager's table is the one requested and its map leads to each variable, after any updates |
| `ExchangeCleanWhenFree` | between two turns nothing waits to be read on a connection that no late or partial answer touched: every answer fits its buffer and is read whole, for any devices, memory, plans and commands |
| `ExchangeEveryVariableAnswered` | a poll of a regular device whose answers came alone reports every variable once, or an error for its frame; no frame is dropped, for any devices, memory, lists of variables and faults |
| `ExchangeReportsWhatIsHeld` | what a poll reports of a variable, of an answer that came alone, is what the device held there when it answered, for any devices, layouts, plans of frames and faults |
| `ExchangeAcceptedIsDone` | a write that `DeliverAction` counts as accepted, of an answer that came alone, has been done: the variable, read by the device's layout, is worth what was sent, for any devices, layouts, types, rates and commands |
| `XorChunkReadsBack` | an iteration of a chunk gives back every sample appended to it, for any widths of times, values, fields and windows, any samples, and new appenders at any time |
| `OpcUaTypeOK` | while there is a broker the counter is the length of the list and each client is in one place |
| `OpcUaReportsTheServer` | each value is reported under the variable whose node it came from |
| `OpcUaPollIsComplete` | before any fault a poll reports all that is asked for and known, once, and nothing else, for any size of a group |

They assume only the named assumptions on the constants (`PoolAssumption`,
`ManagerAssumption`, `BrokerAssumption`, `FsStoreAssumption`, `ChunkAssumption`, `ExchangeAssumption` with those of the
frames, `XorAssumption`, `OpcUaAssumption`). `OpcUaAssumption` says of a device only that its variables and those of its update are
lists. `ExchangeAssumption` says that too, that a device is of a protocol and over Modbus of a layout that the
API lets pass (`v1/modbus.go:24`), that addresses, the PDU and the position are not negative, that variables have the
types above and a function code from 1 to 4 (`v1/modbus.go:11`) or, over S7, one of the four zones that `Zone()` knows
(`protocol/s7/runtime/type.go`), that rates, bits and the values of a command are numbers without a sign, that a command is a list of at least one item (`device/manager.go:264` refuses an empty one), and
that a device holds lists of bytes, over Modbus in its four areas, of which two hold bits; `ChunkAssumption` that sizes are numbers and that a chunk fits a file, which `WriteChunk` relies on; `XorAssumption`
that the two fields of a window can say any window (2^6 and 2 · 2^5 are 64) and that a difference's fields are narrower than a time.

**Pool.** `ExclusiveMessenger` is not inductive by itself: it needs to know that
a queued caller has no messenger (or a hand-over would overwrite one) and that a
caller at work has one (`CallerInv`). `LivePoolIsWhole` needs that before
`Destroy` nothing is queued while something is idle, and that a waiting caller
without a messenger is queued (`LiveInv`); `WaiterHasHolder` then follows by
counting: nothing idle and `Size > 0`, so somebody holds messenger 1 .. `Size`.
Two lemmas say what `Remove(Front())` and `PushBack` do to the set of listed
messengers.

**Manager.** That a mapped broker runs must survive five kinds of threads. What
carries the proof is that only the holder of `mu` is in a `Destroy`, of the broker the
map names (`DestroyingInv`), and that a broker which `NewBroker` returned is
known to one thread only and not running until it is in the map (`OpenedInv`).
`Destroy` and the write to the map are then never about two states of one
broker. `Shutdown` takes no lock, so the invariant is stated until it begins; that
the condition is needed is what `manager_shutdown` shows. Most steps move a
thread between places outside these regions: one lemma (`PlainStep`) covers
them.

The `Serial…` theorems rest on one assertion per place (`Asserted(t, id)`): what the maps, the store and the status
say of device `id` while thread `t` is there, written as if `t` were alone. `DeviceInv` says that where nothing ever
overlapped at most one thread is at work on the device, that it is where its assertion holds, and that with nobody at
work the device is `Settled`. The proof is not one case per pair of threads: `Frame` says that a step of another
device's thread changes nothing an assertion speaks of, `OneDevice`, `Advances` and `Goes` turn one step of the one
thread into the next assertion. Late results are the exception, since a consumer applies them whenever it likes; they set
a status to collecting or to an error, and the assertions are written so that neither contradicts any of them.
`UnmapInv` says that only a delete owes a `devices.Delete`, and that meanwhile its thread is in `cancelCollect` or over. `TypeOK` needs that a revision which is saved was made (`RevisionInv`) and that whoever starts a collector starts the
goroutine that takes its results, which ends behind it (`ReaderInv`). TLC checked the whole of `SInv` on `MCDeviceManager` before it was proved.

**Broker.** `RollInv` ties each roll to where its poll is and to the channel; it
is why a channel of one place never gets a second result of the same poll.
`GatheredInv` says what a roll has gathered while frames are still asked, which
becomes `ResultsAreWhole` when none is. For the order, `OrderInv` says that
everything handled is behind what the consumer has, that behind what the
channel holds, and that behind the roll that is ready, as long as no two rolls were
ready at once.

**Store.** A call inside its critical section holds the lock, and between
`Truncate` and `Encode` it has kept an object of its own version (`HolderInv`);
that is what makes `Encode` the swap of a compare-and-swap. `CreatorInv` keeps the creation apart: until it is over nobody else
has to do with the file. `Current` is the object in the file or the one being replaced in it; `CheckCurrent` and `EncodeCurrent`
say what becomes of it in the critical section, and all other steps leave it alone (`CurrentStays`).

`ChangesWhatItKnew` compares two objects, but the code compares versions. What makes that enough is `KnownInv`: nobody knows an object newer
than the current one, and one of the same version *is* the current one (`Follows`). A write keeps that because its version is
above all that were given out, which is false as soon as a version is kept; hence `~stood`.

`VersionsKeepMemory` fails in the middle of an update: the file is then ahead of memory. `KeptFile` says by whom. A request
that was let in knows no later version than memory's (`LetInInv`), so behind an update that has written and not yet stored
no other passes the check (`BehindInv`), and when nobody is between the two, memory is what the file holds, or a write has failed
and the file has nothing or an object memory never got (`CaughtUp`). All of it is stated for histories without a kept version
and without a delete (`Kept`), as the property is.

**Chunk files.** What the writer does is stated once, of any mapper and disk:
`Continues(s, t)` says that files only grow, that one new file at most stands behind all
others and just behind the last, and that a file which is left has its maxt. Flush, cut and put each
continue (`FlushContinues`, `CutContinues`, `PutContinues`), and what continues
keeps references, order and times, whether or not a truncation is on its way
(`WriterKeeps`). A reference is then a place in `Content`, the flushed chunks
with the pending ones behind them, which a flush leaves alone; `BufferOK` says that the
chunk buffer is the pending part under its references, so that `Chunk` reads the same from either.
`OpensAgain` needs that a truncation's files are a beginning of the directory (`WorkInv`)
and are removed from the first on, so that the numbers follow one another after every removal (`OrderInv`), and that only the file
written to, the last, can lose its header. `TruncateKeepsNewer` needs that every file but the current one has the highest
maxt of its chunks, once an iteration has seen them all (`TimeInv`).

`TypeOK` says of each file that its bytes are a header and the sum of its chunks; the sum is a fold, so `SumConcat` and
`SumAppend`, that a sum goes on where the list does, carry it through flush, cut and put (`BytesInv`).

**Samples as bits.** `XorReadsBack` compares a recursive reading with a history, so its invariant is the reading as a trace
(`XorIInv`): of each sample the piece of the stream, what is left behind it and where an iterator is then. A piece is read
*whatever follows it* (`StepReads`), which is what makes an append a step of the trace (`TraceGoesOn`): the pieces before it
stay and only what is left behind them grows. `IterationStops` shows that the iterator's recursion has a solution and that any solution
follows the trace. What remains is that each piece is read (`SampleReadsBack`), by its three parts: numbers from their bits
(`BitsReadBack`, by induction over the bits), a time from a signed difference of distances modulo 2^64, in the smallest field it fits, each of
which holds one number more above zero than below (`DodReadsBack`, `DistanceFrom`), and a value from the bits within a window, which is the one written,
the last one or none (`ValueReadsBack`, `WindowIs`). The appender's window and the iterator's may differ in one way, and the invariant
says which: no window was written yet (`Windows`). That is also what a new appender starts from, so `AppenderKeepsTrace` is short. The invariant
quantifies over traces, which TLC cannot enumerate; it checked the property itself.

**Lists and folds.** Most operators on lists are left folds, which the community modules define as a recursive function on sets of places, and a
theorem that takes an operator cannot be used. `VariableTableProofs` states induction of sets (`SetInduction`, from the
well-foundedness of the naturals) and the recursion of functions (`IterationExists`: for steps that stay within a
set there is such a function, so that the `CHOOSE` of the definition has something to choose). Each fold then
has a lemma of its own that says where it has come to after `k` elements, and one that draws the
conclusion. For the table: `Without` keeps the others in their order (`WithoutIs`), `Kept` leaves each name's place where
the variable has gone (`KeptTable`), `UpsertAll` ends with the requested names (`UpsertAllTable`), and `UpdateIs`
puts them together.

**Exchange.** `StoredIsRequested` becomes inductive as `TableInv`: the list has the variables requested last, and every
variable is of one of two lists (`Requestable`). Its conditions, no name with a blank and no name twice, are those of the property; without the first the code
adds a variable beside the one it should change. `TypeOK` needs that a frame has an id to count on (`Framed`).

`CleanWhenFree` says nothing of plans or writes, and fails as soon as one answer is longer than the buffer it is read into.
`CleanInv` therefore has in it what the answers' lengths come from: the tables lead to variables of the requests (`Tabled`, across any
updates), each area of the device holds a list of bytes whatever was written to it (`Memory`), every frame is
one that the planning can make (`Planned`), and so is every message of a command, of which there is one when it
has the turn (`Commanded`). The planning's folds are followed once each: a Modbus frame asks for a size that its response
buffer was made for (`ModbusPlansAre`, `ModbusFits`), an S7 frame has no more items than `maxItemPerDataFrame`, and
the device answers an item with 12 bytes at most (`S7PlansAre`, `S7ContentIs`, `S7Fits`). An answer alone on the connection that fits
is then read to its end or cut short (`ReadsAll`), and a short read makes the connection dirty. The
proof attempt found the condition `Roomy`: for S7 the bound is 21 + 12 per item, two bytes more than the code
counts, and with a PDU of 67 or 68 the property is false. (240 and 960 satisfy it.) Without it,
nothing is claimed of an S7 connection.

`EveryVariableAnswered` speaks of results only; what makes it true lies in the planning, three steps earlier. `Whole`
says of a list of frames that each variable of the table stands at exactly one place of one of them (`Each` gives the frame and the place),
and the loop of `NewBroker` keeps it: `PlanRun` and `S7PlanRun` are that loop as the sequence of its states, where frame after
frame is closed and each step adds one place (`PlansAreWhole`, for any sorted order of any list). `Spacious` says that a frame asks for as much as
its places need. That is not so for any list: it is where `Regular` is needed (`ModbusPlansAreApt`,
`S7PlansAreApt`), since a Modbus frame has the size that the variable put *last* needs, and an S7 item the length of the
variable put *first*. Both are kept by every step and remade by `Recollect` (`Ordered`). An answer alone on the connection is then
its frame's own (`AnswerFits`, `Own`), its data covers every place (`ModbusParses`, `S7Parses`), and so a frame that has data has a
value for each of its variables, under its name (`Answers`); the panic that `message()` recovers from, and that reports nothing,
needs a foreign answer. The sum of the results' lengths is followed as the fold goes (`TotalRuns`) and compared with the places
of the table, counted frame by frame (`PlacesAreCounted`).

`ReportsWhatIsHeld` relates a result to the device's memory two steps and several conversions away. Its invariant is
`HeldInv` beside those before it: a result that says what was held reports it, and a frame keeps its plan. What a step has to show is
`OwnIsTrue`, in three parts. *Where*: `Sited` says that a Modbus frame begins at its first address, that it notes each
variable at its distance from there, and that it ends with one of them; `S7Sited` that an S7 frame notes for a variable the beginning of
an item that covers it, and that the items follow each other without a gap. `Regular` is needed for both
(`PlanIsApt`, `TakeIsFull`). *What arrives*: an answer that is no exception carries the area from the frame's first
address on (`ModbusCarries`; here an address beyond the wire's 16 bits would be another one, hence `Legible`), and coils come back from the
bytes they were packed in (`BitsComeBack`, over the sum of powers of two that `ShrinkBool` computes). An S7 answer has no
addresses, only lengths; that it is as long as the frame expects shows that no item is missing, since each is at most
as long as was planned and so none can make up for another (`NoGap`, `S7Carries`). *What is made of it*: the orders of `binutil` take
the bytes from where the letters of the layout say (`LayoutIs`), and the bit or the rate does the rest (`ModbusIsTrue`, `S7IsTrue`).
The proof attempt gave the property its conditions `Legible` and `Represented`, each of which TLC shows to be needed
on a device of `MCSetups`.

`AcceptedIsDone` is about a step, from the value a request gives to the bytes in the device. Its invariant is `DoneInv`: each
message of the command is the one made from its item (`Delivered`, `Tells`; the S7 messages come from a fold whose transport size is
passed on, `S7WritesAre`), errors are a number, so that a step that adds none is seen, and what an S7 device holds are numbers
whatever bit was set in them (`Natural`). The argument has three parts. *Accepted means answered*: only `CommandAnswered` brings a command to its
next message with no error more (`OnlyAccepted`). *Answered means carried out*: `DeliverAction` compares the response's id with
itself, so nothing but the stream says whose answer it reads; on a connection without late answers the read is its own, whole
(`ReadWhole`, from `CleanInv`), and an answer that is no exception is given only to what the device can write (`AcceptedIsCarriedOut`). *Carried out
means true* (`CarriedOutIsTrue`): a number comes back from its bytes if it fits them (`BytesReadBack`, by induction over the bytes), the orders of `binutil` put
each byte where the layout's letters read it (`OrdersTell`, `BytesPlaced`), a rate that divides is taken out and put back (`RateReadsBack`),
and setting a bit of a byte sets that bit (`BitSet`). The proof attempt found that the value must be of the variable's
type over S7 as well as over Modbus, and that an item with an address beyond the wire's 16 bits is written elsewhere (`Legible`).

**OPC UA.** The account of the pool is `Idle + |holders| = clients` together with `list ∪ held = clients`, which make the
list free of repetitions and the holders' clients different without saying so; a request that waits has none
(`HolderInv`), so that a hand-over moves one client and a release one from a holder to the list. That the number of clients
fits the frames needs the length of an updated list, hence the table's lemmas (`ListInv`). For `ReportsTheServer`,
`Read` goes by places: `ReadableIs` says that where nothing is left out (as many nodes as variables) the nodes are the
variables', and `ValuesOf` then pairs each with its own (`AnswerInv`). TLC checked the account on `MCOpcUa` before it was proved.

`PollIsComplete` is put together from the list to the values. `GroupsPartition`: every variable is in a group, at one
place of one group, whatever the remainder, and the empty groups take nothing from that. `ValuesAnswer`: a frame that is read reports the variables of
its group that the server knows, each once. `RequestInv`: the frames were made from a list with the variables of the request
the broker was made for, an update after that changes the table only, and the next broker has the update's. `FaultInv`: before the first fault every client
is open, so that only a frame without a node fails a round, and an error is such a frame's (`CompleteInv`). The proof attempt
gave the property two of its conditions: a request that names a variable twice is merged by an update,
so that fewer are read than were requested (`Unmistakable`), and a single group in which nothing is asked for ends in
an error without any fault.

**Only model-checked:** liveness (its proof needs ENABLED and fairness, out of
the prover's reach), and `ByteOrder`, which is evaluated on
small inputs. `WaiterHasHolder` is proved and in no run, since it follows from `LivePoolIsWhole`. The proof modules and what they extend
declare no RECURSIVE operator.

## 5. The plan

Done: pool, manager, broker, store and chunk files with their proofs; the exchanges of Modbus and
S7, OPC UA, the planning, the tables of variables and the encodings, model-checked, with the theorems above. From here:

1. `GatewayCpu`: the RWMutex between the sampler and readers (`gateway/manager.go:78`
   returns with the read lock held).
2. Heartbeat rounds over several devices: the first that does not connect ends the round (`device/manager.go:418`). No
   property states it yet, since one would need fairness that the order of `sync.Map` does not give.
3. The statuses late results leave behind (`device/manager.go:332`), as a property of the manager.
4. The writer and reader of block chunks (`tsdb/chunks/chunks.go`).
5. Composition: a manager over two devices with `Broker` in place of the
   one-place abstraction, for the path `cancelCollect` – `Destroy` – `poll`.

## 6. Not modelled, and why

The JSON and HTTP encodings, the signs of numbers, the handshake of an S7 dial and the text
of logs are data no property so far is about. The data service has no state of
its own: each request is a query passed on to a database. The gateway manager
is one lock and in the plan. The simulator and the flag parsing are no part of the
gateway's work. Validation of a request's body and the copying of the other fields of
a device are plain assignments. Of `pkg/tsdb`, the block writer and reader, the CRC of a chunk
and the platform files are left out. A data race other than the one on `brokers` is not modelled: the
status of an object is a string that several goroutines write and read without a
lock, so that the language allows a reader to see half of a write, and the modules
take each write and each read as a whole. The file store is modelled on Linux
(flock, and a name that can be removed while the file is open). Time is not modelled;
a timeout is a step that may happen.
