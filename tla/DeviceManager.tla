---------------------------- MODULE DeviceManager ----------------------------
(***************************************************************************)
(* The device manager of the gateway, pkg/device/manager.go: the devices it *)
(* holds in memory and in its store, the broker that collects for each, and *)
(* the threads that act on them without excluding one another:             *)
(*   - HTTP requests (Requests, one operation each),                       *)
(*   - the goroutine cancelCollect that DeleteDevice leaves behind,        *)
(*   - listeningDeviceStatusCh (Listener), which serves the unbuffered     *)
(*     deviceStatusCh,                                                     *)
(*   - heartBeatDetection (Heartbeat), which probes unconnected devices,   *)
(*   - per broker the goroutine of readyCollect that applies its results.  *)
(* Only the maps brokers and brokerReturnCh are under mu; the two sync.Maps *)
(* are atomic per call.  A device object is the pair of an id and the      *)
(* revision UpdateDeviceById makes of it: the maps hold revisions, and the  *)
(* collect status and the version belong to the object, not to the id.     *)
(* A broker connects or fails as the device pleases; its inside is         *)
(* Broker.tla.  ErrDeviceType cannot come out of NewBroker for an object   *)
(* that CreateDevice or LoadResource made, so it is left out.  A store call *)
(* is one step that refuses another version or a missing file and does not *)
(* fail otherwise: its inside, and what failures of the disk leave of one  *)
(* device, is FsStore.tla.                                                 *)
(***************************************************************************)
EXTENDS Naturals, FiniteSets

CONSTANTS
    Ids,          \* device ids
    Requests,     \* HTTP requests, each one operation
    Listener,     \* the goroutine listeningDeviceStatusCh
    Heartbeat,    \* the goroutine heartBeatDetection
    Main,         \* the main goroutine, which runs Shutdown on a signal
    MayShutdown,  \* whether that signal may come
    Brokers,      \* broker objects; one is reused when nothing refers to it
    MayHang,      \* brokers whose poll may never end (S7, OPC UA), and with
                  \* it their Destroy
    MaxRev,       \* bound: revisions of a device
    MaxBump,      \* bound: versions grow by 0..MaxBump, rand.Intn(100) in the code
    Outcomes,     \* bound: the polls considered, without or with errors
    None          \* absent from a map, or no broker

Threads == Requests \cup {Listener, Heartbeat, Main}

ASSUME ManagerAssumption ==
    /\ MaxRev \in Nat \ {0}
    /\ MaxBump \in Nat
    /\ MayHang \subseteq Brokers
    /\ MayShutdown \in BOOLEAN
    /\ Outcomes \subseteq {"ok", "err"}
    /\ Listener # Heartbeat /\ Listener # Main /\ Heartbeat # Main
    /\ {Listener, Heartbeat, Main} \cap Requests = {}
    /\ None \notin Brokers
    /\ None \notin Threads
    /\ None \notin Nat
    /\ None \notin Ids

VARIABLES
    store,        \* revision each device has on disk
    devices,      \* Manager.devices: revision held in memory
    heartBeat,    \* Manager.heartBeatDevices: revision being probed
    brokers,      \* Manager.brokers
    mu,           \* the thread inside cancelCollect's Destroy, which keeps mu
    status,       \* CollectStatus of each device object
    live,         \* brokers whose collector goroutine runs
    deviceOf,     \* the device each broker collects for
    result,       \* what the results channel of each broker holds
    th,           \* the program counter and locals of each thread
    unmap,        \* requests that still owe DeleteDevice's devices.Delete
    resume,       \* resumeDevices of the running heartbeat round
    made,         \* objects made so far per id: the revisions 1 .. made
    version,      \* the version of each device object
    closed,       \* ids whose broker Shutdown has visited
    crashed,      \* what took the process down, if anything did
    overlapped    \* history: ids two operations were ever in at once

vars == <<store, devices, heartBeat, brokers, mu, status, live, deviceOf,
          result, th, unmap, resume, made, version, closed, crashed,
          overlapped>>

Revs == 1..MaxRev
Status == {"collecting", "collectingError", "unconnected", "emptyVariable",
           "stopped", "error"}
Switches == {"start", "restart", "stop"}
Ops == Switches \cup {"none", "create", "delete", "update", "deliver", "probe"}
Crashes == {"no", "nilDevice", "mapRace"}
Places == {"new", "idle", "done",              \* outside any operation
           "remove", "save", "replace",        \* DeleteDevice, UpdateDeviceById
           "send", "load",                     \* SwitchDeviceStatus, listener
           "cancel", "destroying",             \* cancelCollect
           "ready", "opened", "register",      \* readyCollect and its caller
           "range", "purge",                   \* heartBeatDetection
           "deliver",                          \* DeliverAction
          "shutdown", "closing"}              \* Shutdown

Thread == [pc : Places, op : Ops, id : Ids \cup {None},
           rev : Revs \cup {None}, broker : Brokers \cup {None}]

At(pc) == [pc |-> pc, op |-> "none", id |-> None, rev |-> None,
           broker |-> None]

Running == crashed = "no"

-----------------------------------------------------------------------------
(* Who is inside an operation on a device *)

Engaged(id) ==
    \/ \E t \in Threads :
          th[t].id = id /\ th[t].pc \notin {"new", "idle", "done", "deliver"}
    \/ \E r \in unmap : th[r].id = id
    \/ id \in resume

(* Every operation starts with this: history only. *)
Enter(id) ==
    overlapped' = IF Engaged(id) THEN overlapped \cup {id} ELSE overlapped

-----------------------------------------------------------------------------
(* Manager.Init: a device that was stored is loaded and readyCollect has run
   for it, or it is absent.  The status on disk is that of the last save. *)

Loaded == {"absent", "collecting", "unconnected", "emptyVariable"}

Init ==
    \E loaded \in [Ids -> Loaded], broker \in [Ids -> Brokers \cup {None}] :
        /\ \A id \in Ids : (broker[id] # None) <=> (loaded[id] = "collecting")
        /\ \A i, j \in Ids : i # j /\ broker[i] # None => broker[i] # broker[j]
        /\ made = [id \in Ids |-> IF loaded[id] = "absent" THEN 0 ELSE 1]
        /\ version = [id \in Ids |-> [v \in Revs |-> 1]]
        /\ store = [id \in Ids |-> IF made[id] = 1 THEN 1 ELSE None]
        /\ devices = store
        /\ heartBeat = [id \in Ids |->
                           IF loaded[id] = "unconnected" THEN 1 ELSE None]
        /\ brokers = broker
        /\ status = [id \in Ids |-> [v \in Revs |->
                        IF v = made[id] THEN loaded[id] ELSE "stopped"]]
        /\ live = {b \in Brokers : \E id \in Ids : broker[id] = b}
        /\ deviceOf \in [Brokers -> Ids \cup {None}]
        /\ \A b \in Brokers :
              IF b \in live THEN deviceOf[b] # None /\ broker[deviceOf[b]] = b
                            ELSE deviceOf[b] = None
        /\ result = [b \in Brokers |-> "none"]
        /\ mu = None
        /\ th = [t \in Threads |-> At(IF t \in {Listener, Heartbeat}
                                   THEN "idle" ELSE "new")]
        /\ unmap = {}
        /\ resume = {}
        /\ closed = {}
        /\ crashed = "no"
        /\ overlapped = {}

-----------------------------------------------------------------------------
(* readyCollect(obj) for the thread t, and what its caller does with the
   error: a request and the listener register the object for probing, the
   heartbeat ends its round. *)

Finish(t) == At(IF t \in Requests THEN "done" ELSE "idle")

(* The caller goes on after readyCollect returned nil. *)
Returned(t) ==
    IF t = Heartbeat
    THEN /\ resume' = resume \cup {th[t].id}
         /\ th' = [th EXCEPT ![t] = At("range")]
    ELSE /\ th' = [th EXCEPT ![t] = Finish(t)]
         /\ UNCHANGED resume

SetStatus(t, s) == status' = [status EXCEPT ![th[t].id][th[t].rev] = s]

(* NewBroker: ErrConnectDevice. *)
ConnectFails(t) ==
    /\ Running
    /\ th[t].pc = "ready"
    /\ SetStatus(t, "unconnected")
    /\ th' = [th EXCEPT ![t] = IF t = Heartbeat THEN At("purge")
                               ELSE [@ EXCEPT !.pc = "register"]]
    /\ UNCHANGED <<store, devices, heartBeat, brokers, mu, live, deviceOf,
                   result, unmap, resume, made, version, closed, crashed,
                   overlapped>>

(* heartBeatDevices.Store; mutation: the error is only logged. *)
NotProbed(id, rev) == heartBeat
Probed(id, rev) == [heartBeat EXCEPT ![id] = rev]

(* The caller after ErrConnectDevice. *)
RegisterForProbe(t) ==
    /\ Running
    /\ th[t].pc = "register"
    /\ heartBeat' = Probed(th[t].id, th[t].rev)
    /\ th' = [th EXCEPT ![t] = Finish(t)]
    /\ UNCHANGED <<store, devices, brokers, mu, status, live, deviceOf,
                   result, unmap, resume, made, version, closed, crashed,
                   overlapped>>

(* NewBroker: ErrDeviceEmptyVariable, which readyCollect reports as success. *)
NothingToCollect(t) ==
    /\ Running
    /\ th[t].pc = "ready"
    /\ SetStatus(t, "emptyVariable")
    /\ Returned(t)
    /\ UNCHANGED <<store, devices, heartBeat, brokers, mu, live, deviceOf,
                   result, unmap, made, version, closed, crashed, overlapped>>

Unused(b) ==
    /\ b \notin live
    /\ result[b] = "none"
    /\ \A t \in Threads : th[t].broker # b
    /\ \A id \in Ids : brokers[id] # b

(* NewBroker connected: the status is set before mu is taken. *)
Connects(t) ==
    /\ Running
    /\ th[t].pc = "ready"
    /\ \E b \in Brokers :
          /\ Unused(b)
          /\ th' = [th EXCEPT ![t].pc = "opened", ![t].broker = b]
    /\ SetStatus(t, "collecting")
    /\ UNCHANGED <<store, devices, heartBeat, brokers, mu, live, deviceOf,
                   result, unmap, resume, made, version, closed, crashed,
                   overlapped>>

(* Under mu: the map entry is written, whatever it held, and the collector
   and the goroutine for its results start. *)
StartCollect(t) ==
    /\ Running
    /\ th[t].pc = "opened"
    /\ mu = None
    /\ brokers' = [brokers EXCEPT ![th[t].id] = th[t].broker]
    /\ live' = live \cup {th[t].broker}
    /\ deviceOf' = [deviceOf EXCEPT ![th[t].broker] = th[t].id]
    /\ Returned(t)
    /\ UNCHANGED <<store, devices, heartBeat, mu, status, result, unmap, made,
                   version, closed, crashed, overlapped>>

-----------------------------------------------------------------------------
(* cancelCollect(obj) for the thread t *)

(* DeleteDevice passes the folded copy, whose status nobody reads. *)
StopStatus(t) ==
    IF th[t].op = "delete" THEN UNCHANGED status ELSE SetStatus(t, "stopped")

AfterCancel(t) ==
    IF th[t].op \in {"start", "restart"}
    THEN [th[t] EXCEPT !.pc = "ready", !.broker = None]
    ELSE [Finish(t) EXCEPT !.id = th[t].id]

(* Broker.Destroy ends once the collector has taken ExitCh: a broker whose
   collector is gone never lets its caller go.  A result may still be in the
   closed results channel; the goroutine that reads it ends with it. *)
DestroyEnds(b) ==
    /\ b \in live
    /\ live' = live \ {b}
    /\ deviceOf' = IF result[b] # "none" THEN deviceOf
                   ELSE [deviceOf EXCEPT ![b] = None]

(* heartBeatDevices.Delete; mutation: the entry stays. *)
StillProbed(id) == heartBeat
Unprobed(id) == [heartBeat EXCEPT ![id] = None]

(* delete(brokers, id); mutation: the destroyed broker stays in the map. *)
StillMapped(id) == brokers
Forgotten(id) == [brokers EXCEPT ![id] = None]

CancelWithoutBroker(t) ==
    /\ Running
    /\ th[t].pc = "cancel"
    /\ mu = None
    /\ brokers[th[t].id] = None
    /\ StopStatus(t)
    /\ heartBeat' = Unprobed(th[t].id)
    /\ th' = [th EXCEPT ![t] = AfterCancel(t)]
    /\ UNCHANGED <<store, devices, brokers, mu, live, deviceOf, result, unmap,
                   resume, made, version, closed, crashed, overlapped>>

(* mu stays locked while Destroy waits for the collector to take ExitCh. *)
CancelLocks(t) ==
    /\ Running
    /\ th[t].pc = "cancel"
    /\ mu = None
    /\ brokers[th[t].id] # None
    /\ StopStatus(t)
    /\ heartBeat' = Unprobed(th[t].id)
    /\ mu' = t
    /\ th' = [th EXCEPT ![t].pc = "destroying", ![t].broker = brokers[th[t].id]]
    /\ UNCHANGED <<store, devices, brokers, live, deviceOf, result, unmap,
                   resume, made, version, closed, crashed, overlapped>>

CancelDestroys(t) ==
    /\ Running
    /\ th[t].pc = "destroying"
    /\ DestroyEnds(th[t].broker)
    /\ brokers' = Forgotten(th[t].id)
    /\ mu' = None
    /\ th' = [th EXCEPT ![t] = AfterCancel(t)]
    /\ UNCHANGED <<store, devices, heartBeat, status, result, unmap, resume,
                   made, version, closed, crashed, overlapped>>

-----------------------------------------------------------------------------
(* The results of a broker *)

Produce(b) ==
    /\ Running
    /\ b \in live
    /\ result[b] = "none"
    /\ \E r \in Outcomes : result' = [result EXCEPT ![b] = r]
    /\ UNCHANGED <<store, devices, heartBeat, brokers, mu, status, live,
                   deviceOf, th, unmap, resume, made, version, closed,
                   crashed, overlapped>>

(* The goroutine that takes the results of b goes on while the broker runs;
   mutation: it returns after each. *)
ReaderReturns(b) == [deviceOf EXCEPT ![b] = None]
ReaderAfter(b) ==
    IF b \in live THEN deviceOf ELSE [deviceOf EXCEPT ![b] = None]

(* The result is applied to the object now in devices, if any, whether or not
   the broker is still the one in brokers or even alive. *)
Consume(b) ==
    /\ Running
    /\ result[b] # "none"
    /\ LET id == deviceOf[b] IN
       IF devices[id] = None THEN UNCHANGED status
       ELSE status' = [status EXCEPT ![id][devices[id]] =
                 IF result[b] = "ok" THEN "collecting" ELSE "collectingError"]
    /\ result' = [result EXCEPT ![b] = "none"]
    /\ deviceOf' = ReaderAfter(b)
    /\ UNCHANGED <<store, devices, heartBeat, brokers, mu, live, th, unmap,
                   resume, made, version, closed, crashed, overlapped>>

-----------------------------------------------------------------------------
(* HTTP requests *)

Begin(r, pc, op, id, rev) ==
    th' = [th EXCEPT ![r] = [At(pc) EXCEPT !.op = op, !.id = id, !.rev = rev]]

(* CreateDevice: a fresh id, stored, put in devices, then readyCollect. *)
CreateDevice(r, id) ==
    /\ Running
    /\ th[r].pc = "new"
    /\ made[id] = 0
    /\ made' = [made EXCEPT ![id] = 1]
    /\ store' = [store EXCEPT ![id] = 1]
    /\ devices' = [devices EXCEPT ![id] = 1]
    /\ Begin(r, "ready", "create", id, 1)
    /\ Enter(id)
    /\ UNCHANGED <<heartBeat, brokers, mu, status, live, deviceOf, result,
                   unmap, resume, version, closed, crashed>>

(* DeleteDevice: the version the client names is that of the object it finds
   (GetDeviceById); another version is refused without effect. *)
DeleteDevice(r, id) ==
    /\ Running
    /\ th[r].pc = "new"
    /\ devices[id] # None
    /\ Begin(r, "remove", "delete", id, devices[id])
    /\ Enter(id)
    /\ UNCHANGED <<store, devices, heartBeat, brokers, mu, status, live,
                   deviceOf, result, unmap, resume, made, version, closed,
                   crashed>>

(* The file is there and has this version. *)
OnDisk(id, ver) == store[id] # None /\ version[id][store[id]] = ver

(* The version foldDevice copies, which store.Delete compares with the file's;
   mutation: that of the object first stored. *)
FoldedFirst(r) == version[th[r].id][1]
FoldedVersion(r) == version[th[r].id][th[r].rev]

(* store.Delete, whose error (the file is gone or has another version) is
   only logged; then the goroutine cancelCollect starts. *)
StoreDelete(r) ==
    /\ Running
    /\ th[r].pc = "remove"
    /\ store' = IF OnDisk(th[r].id, FoldedVersion(r))
                THEN [store EXCEPT ![th[r].id] = None] ELSE store
    /\ unmap' = unmap \cup {r}
    /\ th' = [th EXCEPT ![r].pc = "cancel"]
    /\ UNCHANGED <<devices, heartBeat, brokers, mu, status, live, deviceOf,
                   result, resume, made, version, closed, crashed,
                   overlapped>>

(* devices.Delete, concurrently with that goroutine. *)
Unmap(r) ==
    /\ Running
    /\ r \in unmap
    /\ devices' = [devices EXCEPT ![th[r].id] = None]
    /\ unmap' = unmap \ {r}
    /\ UNCHANGED <<store, heartBeat, brokers, mu, status, live, deviceOf,
                   result, th, resume, made, version, closed, crashed,
                   overlapped>>

(* UpdateDeviceById: the object found is deep-copied, status and version
   included, and the copy changed. *)
UpdateDevice(r, id) ==
    /\ Running
    /\ th[r].pc = "new"
    /\ devices[id] # None
    /\ made[id] < MaxRev
    /\ LET new == made[id] + 1 IN
       /\ made' = [made EXCEPT ![id] = new]
       /\ status' = [status EXCEPT ![id][new] = status[id][devices[id]]]
       /\ version' = [version EXCEPT ![id][new] = version[id][devices[id]]]
       /\ Begin(r, "save", "update", id, new)
    /\ Enter(id)
    /\ UNCHANGED <<store, devices, heartBeat, brokers, mu, live, deviceOf,
                   result, unmap, resume, closed, crashed>>

(* store.Update: the copy's version must be that of the file. *)
StoreUpdate(r) ==
    /\ Running
    /\ th[r].pc = "save"
    /\ LET id  == th[r].id
           rev == th[r].rev
       IN IF OnDisk(id, version[id][rev])
          THEN /\ store' = [store EXCEPT ![id] = rev]
               /\ \E bump \in 0..MaxBump :
                     version' = [version EXCEPT ![id][rev] = @ + bump]
               /\ th' = [th EXCEPT ![r].pc = "replace"]
          ELSE /\ th' = [th EXCEPT ![r] = Finish(r)]
               /\ UNCHANGED <<store, version>>
    /\ UNCHANGED <<devices, heartBeat, brokers, mu, status, live, deviceOf,
                   result, unmap, resume, made, closed, crashed, overlapped>>

(* devices.Store of the copy: brokers and heartBeatDevices keep the old
   object. *)
ReplaceDevice(r) ==
    /\ Running
    /\ th[r].pc = "replace"
    /\ devices' = [devices EXCEPT ![th[r].id] = th[r].rev]
    /\ th' = [th EXCEPT ![r] = Finish(r)]
    /\ UNCHANGED <<store, heartBeat, brokers, mu, status, live, deviceOf,
                   result, unmap, resume, made, version, closed, crashed,
                   overlapped>>

(* GetDeviceById's test; mutation: the id is not looked up. *)
FoundAnyway(id) == TRUE
Found(id) == devices[id] # None

(* SwitchDeviceStatus: the device exists, so the request goes to the channel
   and waits for the listener. *)
SwitchDeviceStatus(r, id, op) ==
    /\ Running
    /\ th[r].pc = "new"
    /\ Found(id)
    /\ Begin(r, "send", op, id, None)
    /\ Enter(id)
    /\ UNCHANGED <<store, devices, heartBeat, brokers, mu, status, live,
                   deviceOf, result, unmap, resume, made, version, closed,
                   crashed>>

-----------------------------------------------------------------------------
(* listeningDeviceStatusCh *)

Receive(r) ==
    /\ Running
    /\ th[Listener].pc = "idle"
    /\ th[r].pc = "send"
    /\ th' = [th EXCEPT ![Listener] = [th[r] EXCEPT !.pc = "load"],
                        ![r] = Finish(r)]
    /\ UNCHANGED <<store, devices, heartBeat, brokers, mu, status, live,
                   deviceOf, result, unmap, resume, made, version, closed,
                   crashed, overlapped>>

(* devices.Load found nothing: that is logged and the nil value asserted to
   be a Device all the same.  No recover in this goroutine. *)
LoadMissing ==
    /\ Running
    /\ th[Listener].pc = "load"
    /\ devices[th[Listener].id] = None
    /\ crashed' = "nilDevice"
    /\ UNCHANGED <<store, devices, heartBeat, brokers, mu, status, live,
                   deviceOf, result, th, unmap, resume, made, version, closed,
                   overlapped>>

(* switchDeviceStatus, the table of the current status and the operation;
   mutation: a collecting device is started again without cancelCollect. *)
SwitchWithoutCancel(s, op) ==
    IF s = "stopped" /\ op = "stop" THEN "idle"
    ELSE IF s \in {"collecting", "stopped"} THEN "ready" ELSE "cancel"
SwitchFrom(s, op) ==
    IF \/ s = "collecting" /\ op = "start"
       \/ s = "stopped" /\ op = "stop" THEN "idle"
    ELSE IF s = "stopped" THEN "ready" ELSE "cancel"

Load ==
    /\ Running
    /\ th[Listener].pc = "load"
    /\ LET id == th[Listener].id
           op == th[Listener].op
       IN /\ devices[id] # None
          /\ LET next == SwitchFrom(status[id][devices[id]], op)
             IN th' = [th EXCEPT ![Listener] =
                          IF next = "idle" THEN At("idle")
                          ELSE [@ EXCEPT !.pc = next, !.rev = devices[id]]]
    /\ UNCHANGED <<store, devices, heartBeat, brokers, mu, status, live,
                   deviceOf, result, unmap, resume, made, version, closed,
                   crashed, overlapped>>

-----------------------------------------------------------------------------
(* heartBeatDetection: one round per tick.  Range passes the entries in any
   order and ends at the first one whose device does not connect; then the
   entries of the resumed devices are deleted, one by one. *)

Tick ==
    /\ Running
    /\ th[Heartbeat].pc = "idle"
    /\ th' = [th EXCEPT ![Heartbeat] = At("range")]
    /\ UNCHANGED <<store, devices, heartBeat, brokers, mu, status, live,
                   deviceOf, result, unmap, resume, made, version, closed,
                   crashed, overlapped>>

(* The entries Range still passes. *)
Due(id) == heartBeat[id] # None /\ id \notin resume

Visit(id) ==
    /\ Running
    /\ th[Heartbeat].pc = "range"
    /\ Due(id)
    /\ Begin(Heartbeat, "ready", "probe", id, heartBeat[id])
    /\ Enter(id)
    /\ UNCHANGED <<store, devices, heartBeat, brokers, mu, status, live,
                   deviceOf, result, unmap, resume, made, version, closed,
                   crashed>>

EndRange ==
    /\ Running
    /\ th[Heartbeat].pc = "range"
    /\ \A id \in Ids : ~Due(id)
    /\ th' = [th EXCEPT ![Heartbeat] = At("purge")]
    /\ UNCHANGED <<store, devices, heartBeat, brokers, mu, status, live,
                   deviceOf, result, unmap, resume, made, version, closed,
                   crashed, overlapped>>

Purge ==
    /\ Running
    /\ th[Heartbeat].pc = "purge"
    /\ \/ \E id \in resume :
             /\ heartBeat' = Unprobed(id)
             /\ resume' = resume \ {id}
             /\ UNCHANGED th
       \/ /\ resume = {}
          /\ th' = [th EXCEPT ![Heartbeat] = At("idle")]
          /\ UNCHANGED <<heartBeat, resume>>
    /\ UNCHANGED <<store, devices, brokers, mu, status, live, deviceOf,
                   result, unmap, made, version, closed, crashed, overlapped>>

-----------------------------------------------------------------------------
(* DeliverAction, up to the broker it hands the action to: the map is read
   without mu.  A missing broker is a nil call, which gin recovers. *)

DeliverAction(r, id) ==
    /\ Running
    /\ th[r].pc = "new"
    /\ devices[id] # None
    /\ IF status[id][devices[id]] = "unconnected"
       THEN th' = [th EXCEPT ![r] = Finish(r)]
       ELSE Begin(r, "deliver", "deliver", id, devices[id])
    /\ UNCHANGED <<store, devices, heartBeat, brokers, mu, status, live,
                   deviceOf, result, unmap, resume, made, version, closed,
                   crashed, overlapped>>

ReadBroker(r) ==
    /\ Running
    /\ th[r].pc = "deliver"
    /\ th' = [th EXCEPT ![r] = Finish(r)]
    /\ UNCHANGED <<store, devices, heartBeat, brokers, mu, status, live,
                   deviceOf, result, unmap, resume, made, version, closed,
                   crashed, overlapped>>

-----------------------------------------------------------------------------
(* Shutdown, before the HTTP server stops: it ranges over brokers without mu,
   destroys each and leaves it in the map. *)

Shutdown ==
    /\ Running
    /\ MayShutdown
    /\ th[Main].pc = "new"
    /\ th' = [th EXCEPT ![Main] = At("shutdown")]
    /\ UNCHANGED <<store, devices, heartBeat, brokers, mu, status, live,
                   deviceOf, result, unmap, resume, made, version, closed,
                   crashed, overlapped>>

ShutdownVisits(id) ==
    /\ Running
    /\ th[Main].pc = "shutdown"
    /\ id \notin closed
    /\ brokers[id] # None
    /\ closed' = closed \cup {id}
    /\ th' = [th EXCEPT ![Main].pc = "closing", ![Main].broker = brokers[id]]
    /\ UNCHANGED <<store, devices, heartBeat, brokers, mu, status, live,
                   deviceOf, result, unmap, resume, made, version, crashed,
                   overlapped>>

ShutdownDestroys ==
    /\ Running
    /\ th[Main].pc = "closing"
    /\ DestroyEnds(th[Main].broker)
    /\ th' = [th EXCEPT ![Main] = At("shutdown")]
    /\ UNCHANGED <<store, devices, heartBeat, brokers, mu, status, result,
                   unmap, resume, made, version, closed, crashed, overlapped>>

ShutdownEnds ==
    /\ Running
    /\ th[Main].pc = "shutdown"
    /\ \A id \in Ids \ closed : brokers[id] = None
    /\ th' = [th EXCEPT ![Main] = At("done")]
    /\ UNCHANGED <<store, devices, heartBeat, brokers, mu, status, live,
                   deviceOf, result, unmap, resume, made, version, closed,
                   crashed, overlapped>>

(* A read of the map brokers without mu that meets a write: the runtime may
   notice, and ends the process. *)
ReadsBrokers(t) == th[t].pc \in {"deliver", "shutdown"}
WritesBrokers(t) ==
    \/ th[t].pc = "opened" /\ mu = None
    \/ th[t].pc = "destroying" /\ th[t].broker \in live

MapRace ==
    /\ Running
    /\ \E s, t \in Threads : ReadsBrokers(s) /\ WritesBrokers(t)
    /\ crashed' = "mapRace"
    /\ UNCHANGED <<store, devices, heartBeat, brokers, mu, status, live,
                   deviceOf, result, th, unmap, resume, made, version, closed,
                   overlapped>>

-----------------------------------------------------------------------------
ReadyCollect(t) ==
    \/ ConnectFails(t) \/ RegisterForProbe(t) \/ NothingToCollect(t)
    \/ Connects(t) \/ StartCollect(t)

CancelCollect(t) ==
    \/ CancelWithoutBroker(t) \/ CancelLocks(t) \/ CancelDestroys(t)

Request(r) ==
    \E id \in Ids :
        \/ CreateDevice(r, id)
        \/ DeleteDevice(r, id)
        \/ UpdateDevice(r, id)
        \/ DeliverAction(r, id)
        \/ \E op \in Switches : SwitchDeviceStatus(r, id, op)

Continue(r) ==
    \/ StoreDelete(r) \/ StoreUpdate(r) \/ ReplaceDevice(r)
    \/ Receive(r) \/ ReadBroker(r)

Collect(t) == ReadyCollect(t) \/ CancelCollect(t)

Listen == LoadMissing \/ Load

HeartBeatDetection == Tick \/ EndRange \/ Purge \/ \E id \in Ids : Visit(id)

Stop ==
    \/ Shutdown \/ ShutdownDestroys \/ ShutdownEnds
    \/ \E id \in Ids : ShutdownVisits(id)

Next ==
    \/ \E r \in Requests : Request(r) \/ Continue(r) \/ Unmap(r)
    \/ \E t \in Threads : Collect(t)
    \/ \E b \in Brokers : Produce(b) \/ Consume(b)
    \/ Listen
    \/ HeartBeatDetection
    \/ Stop
    \/ MapRace

(* The thread is in a Destroy that waits for a poll that may never end. *)
Hangs(t) ==
    /\ th[t].pc \in {"destroying", "closing"}
    /\ th[t].broker \in MayHang \cap live

(* A goroutine that can go on does.  Nobody has to send a request, start a
   shutdown or lose a race, and the Destroy of a broker that may hang need not
   come back. *)
Fairness ==
    /\ \A t \in Threads : WF_vars(Collect(t) /\ ~Hangs(t))
    /\ \A r \in Requests : WF_vars(Continue(r) \/ Unmap(r))
    /\ WF_vars(Listen)
    /\ WF_vars(HeartBeatDetection)
    /\ WF_vars(Stop /\ th[Main].pc # "new" /\ ~Hangs(Main))

Spec == Init /\ [][Next]_vars
FairSpec == Spec /\ Fairness

-----------------------------------------------------------------------------
(* What every variable holds; and every collector has the goroutine that takes
   its results, without which it would wait for ever on the second. *)
TypeOK ==
    /\ store \in [Ids -> Revs \cup {None}]
    /\ devices \in [Ids -> Revs \cup {None}]
    /\ heartBeat \in [Ids -> Revs \cup {None}]
    /\ brokers \in [Ids -> Brokers \cup {None}]
    /\ mu \in Threads \cup {None}
    /\ status \in [Ids -> [Revs -> Status]]
    /\ live \subseteq Brokers
    /\ deviceOf \in [Brokers -> Ids \cup {None}]
    /\ \A b \in live : deviceOf[b] # None
    /\ result \in [Brokers -> {"none", "ok", "err"}]
    /\ th \in [Threads -> Thread]
    /\ unmap \subseteq Requests
    /\ resume \subseteq Ids
    /\ made \in [Ids -> 0..MaxRev]
    /\ version \in [Ids -> [Revs -> Nat \ {0}]]
    /\ closed \subseteq Ids
    /\ crashed \in Crashes
    /\ overlapped \subseteq Ids

(* No operation is in progress on the device. *)
Quiet(id) == ~Engaged(id)

(* Operations on the device never ran at the same time. *)
Serial(id) == id \notin overlapped

(* The broker that brokers names is running and is the device's own, except
   for the one Destroy the holder of mu is in: so, until Shutdown begins,
   Destroy is never called twice on a broker, which would wait on ExitCh for
   ever, keeping mu. *)
MappedBrokerRuns ==
    th[Main].pc = "new" =>
      \A id \in Ids :
        brokers[id] # None =>
            brokers[id] \in live /\ deviceOf[brokers[id]] = id

(* Without overlap a device has one collector at most, the one the manager
   can still stop. *)
SerialOneCollector ==
    \A id \in Ids : Serial(id) =>
        {b \in live : deviceOf[b] = id} \subseteq {brokers[id]}

(* A deleted device is no longer collected nor probed, once its operations
   are over. *)
DeletedStopsCollecting(id) ==
    made[id] # 0 /\ devices[id] = None /\ Quiet(id) =>
        /\ \A b \in live : deviceOf[b] # id
        /\ heartBeat[id] = None

SerialDeleteStops == \A id \in Ids : Serial(id) => DeletedStopsCollecting(id)

(* A device that shows unconnected is not forgotten: it is probed, or
   collected already.  (Serially this holds for an object that no update
   replaced: the probe sees the old object only, and when that one turns out
   to have no variables the new one is left behind.) *)
UnconnectedIsProbed(id) ==
    /\ devices[id] # None
    /\ Quiet(id)
    /\ status[id][devices[id]] = "unconnected"
    => heartBeat[id] # None \/ brokers[id] # None

SerialUnconnectedIsProbed ==
    \A id \in Ids :
        Serial(id) /\ devices[id] = 1 => UnconnectedIsProbed(id)

(* Memory and disk agree on which devices there are and at which revision,
   so a restart brings back what the API last showed.  (The disk does not fail
   here; see FsStore.) *)
SerialStoreAgrees ==
    \A id \in Ids : Serial(id) /\ Quiet(id) => devices[id] = store[id]

(* The listener finds every device it is asked about unless another
   operation on that device came in between. *)
CrashNeedsOverlap == crashed = "nilDevice" => overlapped # {}

(* What the API says of a delete: the device stopped collecting. *)
DeleteStopsCollecting == \A id \in Ids : DeletedStopsCollecting(id)

(* A request that was accepted ends, and mu is given back: until a shutdown no
   interleaving leaves a thread in Destroy for ever, except that of a running
   broker whose poll never ends.  While one hangs so, mu stays locked and who
   needs it waits.  (An action counts as ended when its broker has it.) *)
RequestsFinish ==
    \/ \A r \in Requests :
          th[r].pc \notin {"new", "done"} ~>
              \/ th[r].pc = "done"
              \/ ~Running
              \/ th[Main].pc # "new"
    \/ <>[](mu # None /\ Hangs(mu))

(* What the graceful-timeout flag says of a signal: the shutdown ends. *)
ShutdownTerminates ==
    th[Main].pc = "shutdown" ~> th[Main].pc = "done" \/ ~Running
=============================================================================
