------------------------------- MODULE FsStore -------------------------------
(***************************************************************************)
(* The file of one device, pkg/storage/store_fs.go, between the requests   *)
(* that update and delete it and a crash of the gateway.  Files of         *)
(* different devices share nothing.  The manager above it keeps the object  *)
(* in memory and refuses a request with another version before it calls    *)
(* the store; what it does after the store has answered is in the model    *)
(* because a restart replaces that memory by what the file holds.          *)
(*                                                                         *)
(* The file is locked by flock, which does not wait: a second call fails   *)
(* with ErrWriteConflict.  What one call does under the lock, between two  *)
(* changes of the file, is one step.  Any call of the file system may      *)
(* fail.  No caller passes an empty version, so Delete without a check is  *)
(* left out.                                                               *)
(***************************************************************************)
EXTENDS Naturals

CONSTANTS
    Requests,   \* updates and deletes, each made once
    MaxBump,    \* bound: versions grow by 0..MaxBump, rand.Intn(100) in the code
    None        \* nobody

ASSUME FsStoreAssumption ==
    /\ MaxBump \in Nat
    /\ None \notin Requests

VARIABLES
    linked,     \* the directory names the file
    content,    \* the object the file holds, or Empty
    lock,       \* the call that has the file locked
    creator,    \* where the call Create is
    memory,     \* the object in Manager.devices, or Empty when there is none
    pc,         \* where each request is
    op,         \* "update" or "delete"
    known,      \* the object each request was made from: its If-Match
    seen,       \* the object a call read, later the one it wrote
    up,         \* the gateway runs
    stood       \* history: some update left the version as it was

vars == <<linked, content, lock, creator, memory, pc, op, known, seen, up,
          stood>>

Objects == [version : Nat \ {0}, from : Nat, by : Requests \cup {None}]

Empty == [version |-> 0, from |-> 0, by |-> "nobody"]

Places == {"new", "open", "lock", "check", "encode", "store", "remove",
           "unmap", "done", "failed"}

Init ==
    /\ linked = FALSE
    /\ content = Empty
    /\ lock = None
    /\ creator = "new"
    /\ memory = Empty
    /\ pc = [r \in Requests |-> "new"]
    /\ op = [r \in Requests |-> "update"]
    /\ known = [r \in Requests |-> Empty]
    /\ seen = [r \in Requests |-> Empty]
    /\ up = TRUE
    /\ stood = FALSE

Goto(r, place) == pc' = [pc EXCEPT ![r] = place]

(* The call returns with an error: UpdateDeviceById passes it on, DeleteDevice
   logs it and goes on. *)
Fail(r) == Goto(r, IF op[r] = "delete" THEN "unmap" ELSE "done")

-----------------------------------------------------------------------------
(* Create: the file, then the object.  Nobody else knows the id before the
   manager has put the object in devices. *)

CreateOpens ==
    /\ up
    /\ creator = "new"
    /\ creator' = "opened"
    /\ linked' = TRUE
    /\ UNCHANGED <<content, lock, memory, pc, op, known, seen, up, stood>>

Created == [version |-> 1, from |-> 0, by |-> None]

CreateEncodes ==
    /\ up
    /\ creator = "opened"
    /\ creator' = "done"
    /\ content' = Created
    /\ memory' = content'
    /\ UNCHANGED <<linked, lock, pc, op, known, seen, up, stood>>

(* A failed write: CreateDevice returns and the manager does not know the
   device, but the file stays.  What it holds cannot be decoded, unless only
   the newline that ends it is missing. *)
CreateFails ==
    /\ up
    /\ creator = "opened"
    /\ creator' = "failed"
    /\ content' \in {content, Created}
    /\ UNCHANGED <<linked, lock, memory, pc, op, known, seen, up, stood>>

-----------------------------------------------------------------------------
(* UpdateDeviceById and DeleteDevice compare the version with the one in
   memory. *)
Request(r) ==
    /\ up
    /\ pc[r] = "new"
    /\ memory # Empty
    /\ \E o \in {"update", "delete"} : op' = [op EXCEPT ![r] = o]
    /\ known' = [known EXCEPT ![r] = memory]
    /\ Goto(r, "open")
    /\ UNCHANGED <<linked, content, lock, creator, memory, seen, up, stood>>

(* os.OpenFile without O_CREATE.  An error other than a missing file is
   passed over, but then flock fails on the nil file. *)
OpenFile(r) ==
    /\ up
    /\ pc[r] = "open"
    /\ (linked /\ Goto(r, "lock")) \/ Fail(r)
    /\ UNCHANGED <<linked, content, lock, creator, memory, op, known, seen, up,
                   stood>>

(* flock refuses a second holder; mutation: it does not. *)
LockedNever == FALSE
Locked == lock # None

NewLock(r) ==
    /\ up
    /\ pc[r] = "lock"
    /\ \/ Fail(r) /\ UNCHANGED lock
       \/ ~Locked /\ Goto(r, "check") /\ lock' = r
    /\ UNCHANGED <<linked, content, creator, memory, op, known, seen, up,
                   stood>>

(* The version in the file is the request's; mutation: not looked at. *)
MatchesAny(r) == content # Empty
Matches(r) == content # Empty /\ content.version = known[r].version

(* Truncate(0); mutation: the old object is cut short. *)
CutShort == [version |-> 0, from |-> 0, by |-> "torn"]
Truncated == Empty

(* The lock after an error return, by the deferred Release; mutation: it is
   released on success only. *)
StillLocked == lock
Released == None

(* The call returns when the file cannot be read or decoded, when the
   versions differ, and when Truncate fails, which changes nothing.  Otherwise
   Update truncates under the lock; Delete closes the file, and with that
   gives up the lock, before it removes the name. *)
Check(r) ==
    /\ up
    /\ pc[r] = "check"
    /\ \/ /\ Fail(r)
          /\ lock' = Released
          /\ UNCHANGED <<content, seen>>
       \/ /\ Matches(r)
          /\ seen' = [seen EXCEPT ![r] = content]
          /\ IF op[r] = "update"
             THEN Goto(r, "encode") /\ content' = Truncated /\ UNCHANGED lock
             ELSE Goto(r, "remove") /\ lock' = None /\ UNCHANGED content
    /\ UNCHANGED <<linked, creator, memory, op, known, up, stood>>

(* The object with its new version, in one write. *)
Writes(r) ==
    \E bump \in 0..MaxBump :
        /\ content' = [version |-> known[r].version + bump,
                       from |-> known[r].version, by |-> r]
        /\ stood' = (stood \/ bump = 0)

Encode(r) ==
    /\ up
    /\ pc[r] = "encode"
    /\ Writes(r)
    /\ seen' = [seen EXCEPT ![r] = content']
    /\ lock' = None
    /\ Goto(r, "store")
    /\ UNCHANGED <<linked, creator, memory, op, known, up>>

(* Seek or the write fails after the truncation: the call returns an error,
   memory keeps the old object and the file holds none, or the new one if only
   the newline that ends it was not written. *)
EncodeFails(r) ==
    /\ up
    /\ pc[r] = "encode"
    /\ Writes(r) \/ UNCHANGED <<content, stood>>
    /\ lock' = Released
    /\ Goto(r, "failed")
    /\ UNCHANGED <<linked, creator, memory, op, known, seen, up>>

(* devices.Store of the object written. *)
Store(r) ==
    /\ up
    /\ pc[r] = "store"
    /\ memory' = seen[r]
    /\ Goto(r, "done")
    /\ UNCHANGED <<linked, content, lock, creator, op, known, seen, up, stood>>

(* os.Remove.  When it fails the name stays; DeleteDevice logs that and goes
   on to forget the device. *)
Remove(r) ==
    /\ up
    /\ pc[r] = "remove"
    /\ linked' \in {FALSE, linked}
    /\ Goto(r, "unmap")
    /\ UNCHANGED <<content, lock, creator, memory, op, known, seen, up, stood>>

(* devices.Delete *)
Unmap(r) ==
    /\ up
    /\ pc[r] = "unmap"
    /\ memory' = Empty
    /\ Goto(r, "done")
    /\ UNCHANGED <<linked, content, lock, creator, op, known, seen, up, stood>>

-----------------------------------------------------------------------------
(* The gateway goes down, whatever its requests are at: the file stays as it
   is, its lock ends with the process. *)
Crash ==
    /\ up
    /\ up' = FALSE
    /\ lock' = None
    /\ memory' = Empty
    /\ creator' = IF creator = "opened" THEN "dead" ELSE creator
    /\ pc' = [r \in Requests |->
                 IF pc[r] \in {"new", "failed"} THEN pc[r] ELSE "done"]
    /\ UNCHANGED <<linked, content, op, known, seen, stood>>

(* LoadResource: a file that cannot be decoded is logged and skipped. *)
Loaded == IF linked THEN content ELSE Empty

LoadResource ==
    /\ ~up
    /\ up' = TRUE
    /\ memory' = Loaded
    /\ UNCHANGED <<linked, content, lock, creator, pc, op, known, seen, stood>>

-----------------------------------------------------------------------------
Next ==
    \/ CreateOpens \/ CreateEncodes \/ CreateFails
    \/ \E r \in Requests :
          \/ Request(r) \/ OpenFile(r) \/ NewLock(r) \/ Check(r)
          \/ Encode(r) \/ EncodeFails(r) \/ Store(r)
          \/ Remove(r) \/ Unmap(r)
    \/ Crash \/ LoadResource

Spec == Init /\ [][Next]_vars

-----------------------------------------------------------------------------
TypeOK ==
    /\ linked \in BOOLEAN
    /\ content \in Objects \cup {Empty}
    /\ lock \in Requests \cup {None}
    /\ creator \in {"new", "opened", "done", "failed", "dead"}
    /\ memory \in Objects \cup {Empty}
    /\ pc \in [Requests -> Places]
    /\ op \in [Requests -> {"update", "delete"}]
    /\ known \in [Requests -> Objects \cup {Empty}]
    /\ seen \in [Requests -> Objects \cup {Empty}]
    /\ up \in BOOLEAN
    /\ stood \in BOOLEAN

Quiet == \A r \in Requests : pc[r] \in {"new", "done", "failed"}

(* The file is never left locked by a call that has returned, on any of its
   error paths: every later update and delete would be refused. *)
LockIsInUse ==
    lock # None => pc[lock] \in {"check", "encode"}

(* A write of the store failed with the file already open to it. *)
WriteFailed == creator = "failed" \/ \E r \in Requests : pc[r] = "failed"

(* Versions keep memory and disk together, however updates overlap, whatever
   crash interrupts them and whatever call fails: when no request is under
   way, memory has what a restart would load.  A write that failed after the
   truncation is the one exception, and then the file has nothing to load, or
   what that write left, never an older object than memory.  It takes that no
   delete was ever made (it leaves memory without the device even when the
   store refused, and an update it overtakes puts the device back), and that
   no update kept its version. *)
VersionsKeepMemory ==
    /\ up
    /\ Quiet
    /\ ~stood
    /\ creator # "opened"
    /\ \A r \in Requests : op[r] = "update"
    => \/ memory = Loaded
       \/ WriteFailed /\ (Loaded = Empty \/ memory.version < Loaded.version)

(* What If-Match is for: an update or a delete that has passed the check
   changes the very object its client knew, through overlaps, failures and
   restarts.  It takes that every update so far made a new version; one that
   kept its version, as rand.Intn(100) allows, is not noticed. *)
ChangesWhatItKnew ==
    ~stood => \A r \in Requests :
                 pc[r] \in {"encode", "remove"} => seen[r] = known[r]

(* The object a request or a restart can count on: while an update is between
   its truncation and its write, the one it read. *)
Writing == lock # None /\ pc[lock] = "encode"

State ==
    IF creator = "new" THEN "unmade"
    ELSE IF creator = "opened" THEN "making"
    ELSE IF ~linked THEN "removed"
    ELSE IF Writing THEN "replacing"
    ELSE IF content # Empty THEN "whole"
    ELSE "lost"

Object ==
    IF State = "replacing" THEN seen[lock]
    ELSE IF State = "whole" THEN content
    ELSE Empty

(* What the API says of If-Match: a delete removes the version it names. *)
DeletesItsVersion ==
    [][ State = "whole" /\ State' = "removed" =>
          \E r \in Requests :
              /\ pc[r] = "remove" /\ pc'[r] = "unmap"
              /\ Object.version = known[r].version ]_vars

(* The store implements the versioned file: for every other call an update is
   one compare-and-swap, what a delete removed no update brings back, and only
   a creation or an update that was begun, and that a crash or a failed write
   broke off, loses the object. *)
File == INSTANCE VersionedFile
            WITH state <- State, object <- Object, Objects <- Objects

ImplementsFile == File!Spec
=============================================================================
