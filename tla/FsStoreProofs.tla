---------------------------- MODULE FsStoreProofs ----------------------------
(***************************************************************************)
(* Proofs about FsStore for any number of updates and deletes, with calls  *)
(* of the file system failing and a crash at any time: the file is never   *)
(* left locked, a call changes the object its client knew, memory agrees   *)
(* with the file, and the store implements VersionedFile.                  *)
(***************************************************************************)
EXTENDS FsStore, TLAPS

(* A call in its critical section holds the lock, and one between Truncate
   and Encode has kept the object it read, whose version is its own. *)
HolderInv ==
    \A r \in Requests :
        /\ pc[r] \in {"check", "encode"} => lock = r
        /\ pc[r] = "encode" =>
              /\ content = Empty
              /\ seen[r] \in Objects
              /\ seen[r].version = known[r].version

(* Until the creation is over nobody else has to do with the file. *)
CreatorInv ==
    /\ creator \in {"new", "opened"} =>
          /\ content = Empty /\ lock = None /\ memory = Empty
          /\ \A r \in Requests : pc[r] = "new" /\ known[r] = Empty
    /\ creator = "opened" => linked

IInv == TypeOK /\ LockIsInUse /\ HolderInv /\ CreatorInv

-----------------------------------------------------------------------------
LEMMA Constants ==
    /\ None \notin Requests
    /\ MaxBump \in Nat
    /\ Empty \notin Objects
    /\ Created \in Objects
BY FsStoreAssumption DEF FsStoreAssumption, Empty, Objects, Created

LEMMA InitEstablishes == Init => IInv
<1> SUFFICES ASSUME Init PROVE IInv
  OBVIOUS
<1>1. TypeOK
  BY DEF Init, TypeOK, Places
<1>2. LockIsInUse /\ HolderInv /\ CreatorInv
  BY DEF Init, LockIsInUse, HolderInv, CreatorInv
<1>3. QED BY <1>1, <1>2 DEF IInv

LEMMA CreateKeeps == IInv /\ (CreateOpens \/ CreateEncodes \/ CreateFails) => IInv'
<1> SUFFICES ASSUME IInv, CreateOpens \/ CreateEncodes \/ CreateFails PROVE IInv'
  OBVIOUS
<1>1. CASE CreateOpens
  BY <1>1 DEF CreateOpens, IInv, TypeOK, LockIsInUse, HolderInv, CreatorInv
<1>2. CASE CreateEncodes \/ CreateFails
  <2>1. /\ creator' \in {"done", "failed"}
        /\ content' \in Objects \cup {Empty} /\ memory' \in Objects \cup {Empty}
        /\ UNCHANGED <<linked, lock, pc, op, known, seen, up, stood>>
    BY <1>2, Constants DEF CreateEncodes, CreateFails, IInv, TypeOK
  <2>2. \A r \in Requests : pc[r] = "new"
    BY <1>2 DEF CreateEncodes, CreateFails, IInv, CreatorInv
  <2>3. QED BY <2>1, <2>2 DEF IInv, TypeOK, LockIsInUse, HolderInv, CreatorInv
<1>3. QED BY <1>1, <1>2

(* A request is made only of a device that was created. *)
LEMMA UnderWay ==
    ASSUME IInv, NEW r \in Requests, pc[r] # "new" \/ memory # Empty
    PROVE  creator \notin {"new", "opened"}
BY DEF IInv, CreatorInv

(* A step of a request outside the critical section. *)
LEMMA OutsideKeeps ==
    ASSUME IInv, NEW r \in Requests,
           Request(r) \/ OpenFile(r) \/ Store(r) \/ Remove(r) \/ Unmap(r)
    PROVE  IInv'
<1>1. /\ pc[r] \notin {"check", "encode"}
      /\ creator \notin {"new", "opened"}
  BY UnderWay DEF Request, OpenFile, Store, Remove, Unmap
<1>2. /\ UNCHANGED <<content, lock, creator>>
      /\ seen' = seen
      /\ \A s \in Requests : s # r => pc'[s] = pc[s] /\ known'[s] = known[s]
      /\ pc'[r] \notin {"check", "encode"}
      /\ pc' \in [Requests -> Places]
      /\ known' \in [Requests -> Objects \cup {Empty}]
      /\ op' \in [Requests -> {"update", "delete"}]
      /\ linked' = linked \/ linked' = FALSE
      /\ memory' \in Objects \cup {Empty}
      /\ up' = up /\ stood' = stood
  <2>1. TypeOK
    BY DEF IInv
  <2>2. CASE Request(r)
    BY <2>1, <2>2 DEF Request, Goto, TypeOK, Places
  <2>3. CASE OpenFile(r)
    BY <2>1, <2>3 DEF OpenFile, Goto, Fail, TypeOK, Places
  <2>4. CASE Store(r)
    BY <2>1, <2>4 DEF Store, Goto, TypeOK, Places
  <2>5. CASE Remove(r)
    BY <2>1, <2>5 DEF Remove, Goto, TypeOK, Places
  <2>6. CASE Unmap(r)
    BY <2>1, <2>6 DEF Unmap, Goto, TypeOK, Places
  <2>7. QED BY <2>2, <2>3, <2>4, <2>5, <2>6
<1>3. lock # r
  BY <1>1, Constants DEF IInv, LockIsInUse
<1>4. TypeOK'
  BY <1>2 DEF IInv, TypeOK
<1>5. LockIsInUse'
  BY <1>2, <1>3 DEF IInv, TypeOK, LockIsInUse
<1>6. HolderInv'
  BY <1>2 DEF IInv, HolderInv
<1>7. CreatorInv'
  BY <1>1, <1>2 DEF CreatorInv
<1>8. QED BY <1>4, <1>5, <1>6, <1>7 DEF IInv

LEMMA NewLockKeeps ==
    ASSUME IInv, NEW r \in Requests, NewLock(r)
    PROVE  IInv'
<1>1. pc[r] = "lock" /\ creator \notin {"new", "opened"}
  BY UnderWay DEF NewLock
<1>2. CASE lock' = lock
  <2>1. /\ UNCHANGED <<linked, content, lock, creator, memory, op, known, seen, up, stood>>
        /\ \E place \in {"unmap", "done"} : pc' = [pc EXCEPT ![r] = place]
    BY <1>2, Constants DEF NewLock, Fail, Goto, Locked
  <2>2. lock # r
    BY <1>1, Constants DEF IInv, LockIsInUse
  <2>3. QED BY <1>1, <2>1, <2>2, Constants
            DEF IInv, TypeOK, LockIsInUse, HolderInv, CreatorInv, Places
<1>3. CASE lock' # lock
  <2>1. /\ UNCHANGED <<linked, content, creator, memory, op, known, seen, up, stood>>
        /\ pc' = [pc EXCEPT ![r] = "check"]
        /\ lock = None /\ lock' = r
    BY <1>3 DEF NewLock, Goto, Locked
  <2>2. \A s \in Requests : pc[s] \notin {"check", "encode"}
    BY <2>1, Constants DEF IInv, HolderInv
  <2>3. QED BY <1>1, <2>1, <2>2
            DEF IInv, TypeOK, LockIsInUse, HolderInv, CreatorInv, Places
<1>4. QED BY <1>2, <1>3

(* The three ways out of Check. *)
LEMMA CheckIs ==
    ASSUME IInv, NEW r \in Requests, Check(r)
    PROVE  /\ pc[r] = "check" /\ lock = r /\ creator \notin {"new", "opened"}
           /\ UNCHANGED <<linked, creator, memory, op, known, up, stood>> /\ up
           /\ \/ /\ pc' = [pc EXCEPT ![r] = IF op[r] = "delete" THEN "unmap" ELSE "done"]
                 /\ lock' = None /\ UNCHANGED <<content, seen>>
              \/ /\ pc' = [pc EXCEPT ![r] = "encode"] /\ op[r] = "update"
                 /\ content' = Empty /\ lock' = lock
                 /\ seen' = [seen EXCEPT ![r] = content]
                 /\ content \in Objects /\ content.version = known[r].version
              \/ /\ pc' = [pc EXCEPT ![r] = "remove"] /\ op[r] = "delete"
                 /\ content' = content /\ lock' = None
                 /\ seen' = [seen EXCEPT ![r] = content]
                 /\ content \in Objects /\ content.version = known[r].version
<1>1. pc[r] = "check" /\ lock = r /\ creator \notin {"new", "opened"}
  BY UnderWay DEF Check, IInv, HolderInv
<1>2. op[r] \in {"update", "delete"} /\ content \in Objects \cup {Empty}
  BY DEF IInv, TypeOK
<1>3. QED BY <1>1, <1>2 DEF Check, Fail, Goto, Released, Truncated, Matches

LEMMA CheckKeeps ==
    ASSUME IInv, NEW r \in Requests, Check(r)
    PROVE  IInv'
<1>1. /\ pc[r] = "check" /\ lock = r /\ creator \notin {"new", "opened"}
      /\ UNCHANGED <<linked, creator, memory, op, known, up, stood>>
  BY CheckIs
<1>2. \A s \in Requests : s # r => pc[s] \notin {"check", "encode"}
  BY <1>1 DEF IInv, HolderInv
<1>3. CASE /\ \E place \in {"unmap", "done", "remove"} : pc' = [pc EXCEPT ![r] = place]
           /\ lock' = None /\ content' = content
           /\ seen' = seen \/ seen' = [seen EXCEPT ![r] = content]
  <2>1. seen' \in [Requests -> Objects \cup {Empty}]
    BY <1>3 DEF IInv, TypeOK
  <2>2. QED BY <1>1, <1>2, <1>3, <2>1
            DEF IInv, TypeOK, LockIsInUse, HolderInv, CreatorInv, Places
<1>4. CASE /\ pc' = [pc EXCEPT ![r] = "encode"]
           /\ content' = Empty /\ lock' = lock
           /\ seen' = [seen EXCEPT ![r] = content]
           /\ content \in Objects /\ content.version = known[r].version
  BY <1>1, <1>2, <1>4
     DEF IInv, TypeOK, LockIsInUse, HolderInv, CreatorInv, Places
<1>5. QED BY CheckIs, <1>3, <1>4

(* What an update writes. *)
LEMMA WritesIs ==
    ASSUME IInv, NEW r \in Requests, pc[r] = "encode", Writes(r)
    PROVE  /\ content' \in Objects
           /\ content'.from = known[r].version
           /\ stood' \in BOOLEAN /\ (~stood' => ~stood)
           /\ known[r].version <= content'.version
           /\ ~stood' => known[r].version < content'.version
<1>1. PICK bump \in 0..MaxBump :
         /\ content' = [version |-> known[r].version + bump,
                        from |-> known[r].version, by |-> r]
         /\ stood' = (stood \/ bump = 0)
  BY DEF Writes
<1>2. known[r].version \in Nat \ {0}
  BY DEF IInv, HolderInv, Objects
<1>3. bump \in Nat
  BY Constants
<1>4. known[r].version + bump \in Nat \ {0}
  BY <1>2, <1>3
<1>5. content' \in Objects /\ content'.from = known[r].version
      /\ content'.version = known[r].version + bump
  BY <1>1, <1>2, <1>4 DEF Objects
<1>6. stood' \in BOOLEAN /\ (~stood' => ~stood) /\ (~stood' => bump # 0)
  BY <1>1 DEF IInv, TypeOK
<1>7. QED BY <1>2, <1>3, <1>5, <1>6

LEMMA EncodeKeeps ==
    ASSUME IInv, NEW r \in Requests, Encode(r) \/ EncodeFails(r)
    PROVE  IInv'
<1>1. pc[r] = "encode" /\ lock = r /\ creator \notin {"new", "opened"}
  BY UnderWay DEF Encode, EncodeFails, IInv, HolderInv
<1>2. \A s \in Requests : s # r => pc[s] \notin {"check", "encode"}
  BY <1>1 DEF IInv, HolderInv
<1>3. content' \in Objects \cup {Empty} /\ stood' \in BOOLEAN
  BY <1>1, WritesIs DEF Encode, EncodeFails, IInv, TypeOK
<1>4. /\ UNCHANGED <<linked, creator, memory, op, known, up>>
      /\ lock' = None
      /\ \E place \in {"store", "failed"} : pc' = [pc EXCEPT ![r] = place]
      /\ seen' \in [Requests -> Objects \cup {Empty}]
  BY <1>3 DEF Encode, EncodeFails, Goto, Released, IInv, TypeOK
<1>5. QED BY <1>1, <1>2, <1>3, <1>4
          DEF IInv, TypeOK, LockIsInUse, HolderInv, CreatorInv, Places

LEMMA CrashKeeps == IInv /\ (Crash \/ LoadResource) => IInv'
<1> SUFFICES ASSUME IInv, Crash \/ LoadResource PROVE IInv'
  OBVIOUS
<1>1. CASE Crash
  <2>1. \A r \in Requests :
           /\ pc'[r] \in {"new", "done", "failed"}
           /\ pc[r] = "new" => pc'[r] = "new"
    BY <1>1 DEF Crash
  <2>2. pc' \in [Requests -> Places]
    BY <1>1, <2>1 DEF Crash, Places
  <2>3. QED BY <1>1, <2>1, <2>2
            DEF Crash, IInv, TypeOK, LockIsInUse, HolderInv, CreatorInv
<1>2. CASE LoadResource
  BY <1>2 DEF LoadResource, Loaded, IInv, TypeOK, LockIsInUse, HolderInv, CreatorInv
<1>3. QED BY <1>1, <1>2

LEMMA NextKeeps == IInv /\ [Next]_vars => IInv'
<1> SUFFICES ASSUME IInv, [Next]_vars PROVE IInv'
  OBVIOUS
<1>1. CASE UNCHANGED vars
  BY <1>1 DEF vars, IInv, TypeOK, LockIsInUse, HolderInv, CreatorInv
<1>2. CASE Next
  BY <1>2, CreateKeeps, OutsideKeeps, NewLockKeeps, CheckKeeps, EncodeKeeps, CrashKeeps
     DEF Next
<1>3. QED BY <1>1, <1>2

LEMMA SpecInvariant == Spec => []IInv
<1>1. QED BY InitEstablishes, NextKeeps, PTL DEF Spec

-----------------------------------------------------------------------------
(* The object in the file, or the one that is being replaced in it. *)
Current == IF Writing THEN seen[lock] ELSE content

(* No call outlives the process, and a call has an operation once it is made. *)
NewInv ==
    /\ \A r \in Requests : pc[r] = "new" => op[r] = "update"
    /\ ~up => Quiet

AnyRequest(r) ==
    \/ Request(r) \/ OpenFile(r) \/ NewLock(r) \/ Check(r)
    \/ Encode(r) \/ EncodeFails(r) \/ Store(r) \/ Remove(r) \/ Unmap(r)

LEMMA NewKeeps == IInv /\ NewInv /\ [Next]_vars => NewInv'
<1> SUFFICES ASSUME IInv, NewInv, [Next]_vars PROVE NewInv'
  OBVIOUS
<1>1. CASE UNCHANGED vars
  BY <1>1 DEF vars, NewInv, Quiet
<1>2. CASE CreateOpens \/ CreateEncodes \/ CreateFails \/ LoadResource
  BY <1>2 DEF CreateOpens, CreateEncodes, CreateFails, LoadResource, NewInv, Quiet
<1>3. CASE Crash
  BY <1>3 DEF Crash, NewInv, Quiet
<1>4. ASSUME NEW r \in Requests, AnyRequest(r)
      PROVE  NewInv'
  <2>1. /\ \E place \in Places \ {"new"} : pc' = [pc EXCEPT ![r] = place]
        /\ \A s \in Requests : s # r => op'[s] = op[s]
    BY <1>4 DEF AnyRequest, Request, OpenFile, NewLock, Check, Encode, EncodeFails, Store,
                Remove, Unmap, Goto, Fail, Places, IInv, TypeOK
  <2>2. up /\ up' = up
    BY <1>4 DEF AnyRequest, Request, OpenFile, NewLock, Check, Encode, EncodeFails, Store,
                Remove, Unmap
  <2>3. QED BY <2>1, <2>2 DEF NewInv, IInv, TypeOK
<1>5. QED BY <1>1, <1>2, <1>3, <1>4 DEF Next, AnyRequest

LEMMA SpecNew == Spec => []NewInv
<1>1. Init => NewInv
  BY DEF Init, NewInv, Quiet
<1>2. QED BY <1>1, NewKeeps, SpecInvariant, PTL DEF Spec

(* Steps that leave the file, its lock and whoever writes it as they are. *)
LEMMA CurrentStays ==
    ASSUME IInv, NEW r \in Requests,
           Request(r) \/ OpenFile(r) \/ NewLock(r) \/ Store(r) \/ Remove(r) \/ Unmap(r)
    PROVE  /\ UNCHANGED <<content, creator, seen, up, stood>> /\ up
           /\ Writing' <=> Writing
           /\ Writing => lock' = lock
           /\ Current' = Current
<1>1. UNCHANGED <<content, creator, seen, up, stood>> /\ up
  BY DEF Request, OpenFile, NewLock, Store, Remove, Unmap
<1>2. pc[r] \notin {"check", "encode"} /\ lock # r
  BY Constants DEF Request, OpenFile, NewLock, Store, Remove, Unmap, IInv, LockIsInUse
<1>3. /\ pc'[r] # "encode"
      /\ \A s \in Requests : s # r => pc'[s] = pc[s]
  BY DEF Request, OpenFile, NewLock, Store, Remove, Unmap, Goto, Fail, IInv, TypeOK
<1>4. lock' = lock \/ (lock = None /\ lock' = r)
  BY DEF Request, OpenFile, NewLock, Store, Remove, Unmap, Locked
<1>5. (Writing' <=> Writing) /\ (Writing => lock' = lock)
  BY <1>2, <1>3, <1>4 DEF Writing, IInv, TypeOK
<1>6. Current' = Current
  BY <1>1, <1>5 DEF Current
<1>7. QED BY <1>1, <1>5, <1>6

(* At a check nobody writes, and where it lets an update in, the object that
   was current still is. *)
LEMMA CheckCurrent ==
    ASSUME IInv, NEW r \in Requests, Check(r)
    PROVE  /\ ~Writing /\ Current = content /\ Current' = content
           /\ \/ ~Writing' /\ content' = content
              \/ Writing' /\ lock' = r /\ seen'[r] = content
<1>1. pc[r] = "check" /\ lock = r /\ r # None
  BY CheckIs, Constants
<1>2. ~Writing /\ Current = content
  BY <1>1 DEF Writing, Current
<1>3. \/ lock' = None /\ content' = content
      \/ /\ lock' = r /\ pc' = [pc EXCEPT ![r] = "encode"]
         /\ seen' = [seen EXCEPT ![r] = content]
  BY CheckIs, <1>1
<1>4. CASE lock' = None /\ content' = content
  BY <1>2, <1>4 DEF Writing, Current
<1>5. CASE lock' = r /\ pc' = [pc EXCEPT ![r] = "encode"] /\ seen' = [seen EXCEPT ![r] = content]
  <2>1. pc'[r] = "encode" /\ seen'[r] = content
    BY <1>5 DEF IInv, TypeOK
  <2>2. QED BY <1>1, <1>2, <1>5, <2>1 DEF Writing, Current
<1>6. QED BY <1>3, <1>4, <1>5

(* Where an update is to write. *)
LEMMA EncodeCurrent ==
    ASSUME IInv, NEW r \in Requests, Encode(r) \/ EncodeFails(r)
    PROVE  /\ pc[r] = "encode" /\ lock = r /\ Writing /\ content = Empty
           /\ Current = seen[r] /\ seen[r] \in Objects
           /\ seen[r].version = known[r].version
           /\ ~Writing' /\ Current' = content'
           /\ UNCHANGED <<linked, creator, memory, op, known, up>> /\ up
           /\ creator \notin {"new", "opened"}
<1>1. pc[r] = "encode" /\ lock = r /\ r # None /\ creator \notin {"new", "opened"}
  BY UnderWay, Constants DEF Encode, EncodeFails, IInv, HolderInv
<1>2. content = Empty /\ seen[r] \in Objects /\ seen[r].version = known[r].version
  BY <1>1 DEF IInv, HolderInv
<1>3. Writing /\ Current = seen[r]
  BY <1>1 DEF Writing, Current
<1>4. /\ lock' = None
      /\ UNCHANGED <<linked, creator, memory, op, known, up>> /\ up
  BY DEF Encode, EncodeFails, Released
<1>5. ~Writing' /\ Current' = content'
  BY <1>4 DEF Writing, Current
<1>6. QED BY <1>1, <1>2, <1>3, <1>4, <1>5

-----------------------------------------------------------------------------
(* What a client knows, as long as every update made a new version: the
   current object, or one of an older version. *)

Follows(o) ==
    Current # Empty => /\ o.version <= Current.version
                       /\ o.version = Current.version => o = Current

KnownInv ==
    /\ Follows(memory)
    /\ \A r \in Requests :
          /\ Follows(known[r])
          /\ pc[r] = "store" => Follows(seen[r])
          /\ pc[r] \in {"encode", "remove"} => seen[r] = known[r]

LEMMA VersionIsNat ==
    IInv => /\ memory.version \in Nat /\ content.version \in Nat /\ Current.version \in Nat
            /\ \A r \in Requests : known[r].version \in Nat /\ seen[r].version \in Nat
BY Constants DEF IInv, TypeOK, Objects, Empty, Current, Writing

LEMMA StoodBefore ==
    ASSUME IInv, [Next]_vars, ~stood'
    PROVE  ~stood
<1>1. ASSUME NEW r \in Requests, Encode(r) \/ EncodeFails(r) PROVE ~stood
  BY <1>1, WritesIs DEF Encode, EncodeFails
<1>2. QED BY <1>1 DEF Next, vars, CreateOpens, CreateEncodes, CreateFails, Request, OpenFile,
                      NewLock, Check, Store, Remove, Unmap, Crash, LoadResource

LEMMA CreateKnown ==
    ASSUME IInv, KnownInv, CreateOpens \/ CreateEncodes \/ CreateFails
    PROVE  KnownInv'
<1>1. /\ creator \in {"new", "opened"} /\ content = Empty /\ lock = None /\ memory = Empty
      /\ \A r \in Requests : pc[r] = "new" /\ known[r] = Empty
  BY DEF CreateOpens, CreateEncodes, CreateFails, IInv, CreatorInv
<1>2. /\ content' \in {Empty, Created} /\ memory' \in {Empty, content'}
      /\ UNCHANGED <<lock, pc, known, seen>>
  BY <1>1 DEF CreateOpens, CreateEncodes, CreateFails
<1>3. Current' = content'
  BY <1>1, <1>2 DEF Current, Writing
<1>4. Empty.version = 0 /\ Created.version = 1
  BY DEF Empty, Created
<1>5. QED BY <1>1, <1>2, <1>3, <1>4 DEF KnownInv, Follows

LEMMA OutsideKnown ==
    ASSUME IInv, KnownInv, NEW r \in Requests,
           Request(r) \/ OpenFile(r) \/ NewLock(r) \/ Store(r) \/ Remove(r) \/ Unmap(r)
    PROVE  KnownInv'
<1>1. Current' = Current /\ seen' = seen
  BY CurrentStays
<1>2. Follows(Empty)
  BY VersionIsNat, Constants DEF Follows, Empty, IInv, TypeOK, Current, Writing, Objects
<1>3. memory' \in {memory, Empty} \/ (pc[r] = "store" /\ memory' = seen[r])
  BY DEF Request, OpenFile, NewLock, Store, Remove, Unmap
<1>4. \A s \in Requests : known'[s] = known[s] \/ known'[s] = memory
  BY DEF Request, OpenFile, NewLock, Store, Remove, Unmap, IInv, TypeOK
<1>5. \A s \in Requests : pc'[s] \in {"store", "encode", "remove"} =>
         pc'[s] = pc[s] /\ known'[s] = known[s]
  BY DEF Request, OpenFile, NewLock, Store, Remove, Unmap, Goto, Fail, IInv, TypeOK
<1>6. QED BY <1>1, <1>2, <1>3, <1>4, <1>5 DEF KnownInv, Follows

LEMMA CheckKnown ==
    ASSUME IInv, KnownInv, NEW r \in Requests, Check(r)
    PROVE  KnownInv'
<1>1. Current = content /\ Current' = Current
  BY CheckCurrent
<1>2. UNCHANGED <<memory, known>>
  BY CheckIs
<1>3. \A s \in Requests : s # r => pc'[s] = pc[s] /\ seen'[s] = seen[s]
  BY CheckIs DEF IInv, TypeOK
<1>4. pc'[r] # "store"
  BY CheckIs DEF IInv, TypeOK
<1>5. pc'[r] \in {"encode", "remove"} => seen'[r] = known[r]
  <2>1. pc'[r] \in {"encode", "remove"} =>
           seen'[r] = content /\ content \in Objects /\ content.version = known[r].version
    BY CheckIs DEF IInv, TypeOK
  <2>2. QED BY <1>1, <2>1, Constants DEF KnownInv, Follows
<1>6. QED BY <1>1, <1>2, <1>3, <1>4, <1>5 DEF KnownInv, Follows

(* The version that is written is newer than any that was given out. *)
LEMMA EncodeKnown ==
    ASSUME IInv, KnownInv, ~stood', NEW r \in Requests, Encode(r) \/ EncodeFails(r)
    PROVE  KnownInv'
<1>1. /\ Current = seen[r] /\ Current # Empty /\ Current.version = known[r].version
      /\ Current' = content'
      /\ UNCHANGED <<memory, known>> /\ pc[r] = "encode" /\ content = Empty
  BY EncodeCurrent, Constants
<1>2. \A s \in Requests : s # r => pc'[s] = pc[s] /\ seen'[s] = seen[s]
  BY DEF Encode, EncodeFails, Goto, IInv, TypeOK
<1>3. (pc'[r] = "store" /\ seen'[r] = content') \/ pc'[r] = "failed"
  BY DEF Encode, EncodeFails, Goto, IInv, TypeOK
<1>4. CASE content' = Empty
  BY <1>1, <1>2, <1>3, <1>4 DEF KnownInv, Follows
<1>5. CASE content' # Empty
  <2>1. Current.version < content'.version /\ content'.version \in Nat
    BY <1>1, <1>5, WritesIs DEF Encode, EncodeFails, Objects
  <2>2. ASSUME NEW o, Follows(o), o.version \in Nat
        PROVE  o.version < content'.version
    BY <1>1, <2>1, <2>2, VersionIsNat DEF Follows
  <2>3. memory.version < content'.version
    BY <2>2, VersionIsNat DEF KnownInv
  <2>4. \A s \in Requests : known[s].version < content'.version
    BY <2>2, VersionIsNat DEF KnownInv
  <2>5. \A s \in Requests : pc[s] = "store" => seen[s].version < content'.version
    BY <2>2, VersionIsNat DEF KnownInv
  <2>6. Follows(memory)' /\ \A s \in Requests : Follows(known[s])'
    BY <1>1, <2>1, <2>3, <2>4, VersionIsNat DEF Follows
  <2>7. \A s \in Requests : pc'[s] = "store" => Follows(seen[s])'
    BY <1>1, <1>2, <1>3, <2>1, <2>5, VersionIsNat DEF Follows
  <2>8. \A s \in Requests : pc'[s] \in {"encode", "remove"} => seen'[s] = known'[s]
    BY <1>1, <1>2, <1>3 DEF KnownInv
  <2>9. QED BY <2>6, <2>7, <2>8 DEF KnownInv
<1>6. QED BY <1>4, <1>5

LEMMA CrashKnown ==
    ASSUME IInv, NewInv, KnownInv, Crash \/ LoadResource
    PROVE  KnownInv'
<1>1. /\ UNCHANGED <<content, known, seen>>
      /\ memory' \in {Empty, content}
      /\ \A r \in Requests : pc'[r] \notin {"encode", "remove", "store"}
  BY DEF Crash, LoadResource, Loaded, NewInv, Quiet
<1>2. Current' = content /\ (Writing => content = Empty)
  BY <1>1, Constants DEF Current, Writing, IInv, TypeOK, HolderInv, Crash, LoadResource,
     LockIsInUse
<1>3. content # Empty => Current = content
  BY <1>2 DEF Current
<1>4. Empty.version = 0 /\ (content # Empty => content.version \in Nat \ {0})
  BY DEF IInv, TypeOK, Objects, Empty
<1>5. QED BY <1>1, <1>2, <1>3, <1>4 DEF KnownInv, Follows

LEMMA KnownKeeps ==
    IInv /\ NewInv /\ (~stood => KnownInv) /\ [Next]_vars => (~stood => KnownInv)'
<1> SUFFICES ASSUME IInv, NewInv, ~stood => KnownInv, [Next]_vars, ~stood'
             PROVE  KnownInv'
  OBVIOUS
<1>1. KnownInv
  BY StoodBefore
<1>2. CASE UNCHANGED vars
  BY <1>1, <1>2 DEF vars, KnownInv, Follows, Current, Writing
<1>3. CASE Next
  BY <1>1, <1>3, CreateKnown, OutsideKnown, CheckKnown, EncodeKnown, CrashKnown DEF Next
<1>4. QED BY <1>2, <1>3

LEMMA SpecKnown == Spec => [](~stood => KnownInv)
<1>1. Init => KnownInv
  BY DEF Init, KnownInv, Follows, Current, Writing, Empty
<1>2. QED BY <1>1, KnownKeeps, SpecInvariant, SpecNew, PTL DEF Spec

-----------------------------------------------------------------------------
(* Memory and file, as long as nothing was deleted and every update made a
   new version. *)

Kept == ~stood /\ \A r \in Requests : op[r] = "update"

(* A request that was let in knows no later version than memory has.  So
   behind an update that is written and not yet in memory no other can be:
   the file has a version that nobody was given. *)
LetInInv ==
    \A r \in Requests :
        /\ pc[r] \notin {"remove", "unmap"}
        /\ pc[r] \notin {"new", "done", "failed"} => known[r].version <= memory.version

BehindInv ==
    \A r \in Requests :
        pc[r] = "store" =>
            /\ seen[r] = content /\ memory.version < content.version
            /\ ~Writing
            /\ \A s \in Requests : pc[s] = "store" => s = r

(* Memory has the current object.  After a failed write there is none, or it
   is one that memory never got. *)
CaughtUp ==
    \/ memory = Current
    \/ WriteFailed /\ (Current = Empty \/ memory.version < Current.version)

KeptFile ==
    /\ linked <=> creator # "new"
    /\ up => /\ LetInInv /\ BehindInv
             /\ (\A r \in Requests : pc[r] # "store") => CaughtUp

LEMMA CaughtUpMeans ==
    ASSUME IInv, CaughtUp, Current # Empty, Current.version <= memory.version
    PROVE  memory = Current
BY VersionIsNat DEF CaughtUp

(* What was kept after a step was kept before. *)
LEMMA KeptBefore ==
    ASSUME IInv, NewInv, [Next]_vars, Kept'
    PROVE  Kept
<1>1. ~stood
  BY StoodBefore DEF Kept
<1>2. op' = op \/ \E r \in Requests : Request(r)
  BY DEF Next, vars, CreateOpens, CreateEncodes, CreateFails, Encode, EncodeFails, OpenFile,
         NewLock, Check, Store, Remove, Unmap, Crash, LoadResource
<1>3. ASSUME NEW r \in Requests, Request(r)
      PROVE  \A s \in Requests : op[s] = "update"
  BY <1>3 DEF Request, NewInv, Kept, IInv, TypeOK
<1>4. QED BY <1>1, <1>2, <1>3 DEF Kept

LEMMA CreateVersions ==
    ASSUME IInv, KeptFile, CreateOpens \/ CreateEncodes \/ CreateFails
    PROVE  KeptFile'
<1>1. /\ creator \in {"new", "opened"} /\ content = Empty /\ lock = None /\ memory = Empty
      /\ \A r \in Requests : pc[r] = "new"
  BY DEF CreateOpens, CreateEncodes, CreateFails, IInv, CreatorInv
<1>2. UNCHANGED <<lock, pc>> /\ linked' /\ creator' # "new"
  BY DEF CreateOpens, CreateEncodes, CreateFails, KeptFile
<1>3. Current' = content'
  BY <1>1, <1>2 DEF Current, Writing
<1>4. CaughtUp'
  <2>1. CASE memory' = content'
    BY <1>3, <2>1 DEF CaughtUp
  <2>2. CASE memory' # content'
    <3>1. creator' = "failed" /\ content' = Created /\ memory' = Empty
      BY <1>1, <2>2 DEF CreateOpens, CreateEncodes, CreateFails
    <3>2. QED BY <1>3, <3>1 DEF CaughtUp, WriteFailed, Created, Empty
  <2>3. QED BY <2>1, <2>2
<1>5. QED BY <1>1, <1>2, <1>4 DEF KeptFile, LetInInv, BehindInv

LEMMA CrashVersions ==
    ASSUME IInv, NewInv, KeptFile, Crash \/ LoadResource
    PROVE  KeptFile'
<1>1. CASE Crash
  BY <1>1 DEF Crash, KeptFile
<1>2. CASE LoadResource
  <2>1. /\ \A r \in Requests : pc'[r] \in {"new", "done", "failed"}
        /\ UNCHANGED <<linked, content, creator>>
    BY <1>2 DEF LoadResource, NewInv, Quiet
  <2>2. Current' = content
    BY <1>2, <2>1 DEF Current, Writing, LoadResource, IInv, TypeOK
  <2>3. memory' = content
    BY <1>2, Constants DEF LoadResource, Loaded, KeptFile, IInv, CreatorInv
  <2>4. QED BY <2>1, <2>2, <2>3 DEF KeptFile, LetInInv, BehindInv, CaughtUp
<1>3. QED BY <1>1, <1>2

(* A step that lets a request go on or end, and nothing else. *)
LEMMA AsideVersions ==
    ASSUME IInv, KeptFile, NEW r \in Requests, up, up',
           UNCHANGED <<linked, content, creator, memory>>, Current' = Current,
           ~Writing \/ Writing', Writing' => Writing,
           NEW place \in {"open", "lock", "check", "done"},
           pc' = [pc EXCEPT ![r] = place], pc[r] \notin {"store", "failed"},
           seen' = seen,
           \A s \in Requests : s # r => known'[s] = known[s],
           place # "done" => known'[r].version <= memory.version
    PROVE  KeptFile'
<1>1. \A s \in Requests : pc'[s] = IF s = r THEN place ELSE pc[s]
  BY DEF IInv, TypeOK
<1>2. LetInInv /\ BehindInv /\ ((\A s \in Requests : pc[s] # "store") => CaughtUp)
  BY DEF KeptFile
<1>3. WriteFailed => WriteFailed'
  BY <1>1 DEF WriteFailed
<1>4. LetInInv'
  BY <1>1, <1>2 DEF LetInInv
<1>5. BehindInv'
  BY <1>1, <1>2 DEF BehindInv
<1>6. CaughtUp => CaughtUp'
  BY <1>3 DEF CaughtUp
<1>7. QED BY <1>1, <1>2, <1>4, <1>5, <1>6 DEF KeptFile

LEMMA OutsideVersions ==
    ASSUME IInv, Kept', KeptFile, NEW r \in Requests, Request(r) \/ OpenFile(r) \/ NewLock(r)
    PROVE  KeptFile'
<1>1. UNCHANGED <<linked, content, creator, memory, seen, up>> /\ up
  BY DEF Request, OpenFile, NewLock
<1>2. op'[r] # "delete" /\ pc[r] \notin {"store", "failed"}
  BY DEF Kept, Request, OpenFile, NewLock
<1>3. PICK place \in {"open", "lock", "check", "done"} :
         /\ pc' = [pc EXCEPT ![r] = place]
         /\ place # "done" => known'[r].version <= memory.version
  <2>1. CASE Request(r)
    BY <2>1, VersionIsNat DEF Request, Goto, IInv, TypeOK
  <2>2. CASE OpenFile(r) \/ NewLock(r)
    <3>1. known' = known /\ op' = op /\ known[r].version <= memory.version
      BY <1>1, <2>2 DEF OpenFile, NewLock, KeptFile, LetInInv
    <3>2. QED BY <1>2, <2>2, <3>1 DEF OpenFile, NewLock, Goto, Fail
  <2>3. QED BY <2>1, <2>2
<1>4. \A s \in Requests : s # r => known'[s] = known[s]
  BY DEF Request, OpenFile, NewLock, IInv, TypeOK
<1>5. (Writing' <=> Writing) /\ Current' = Current
  BY CurrentStays
<1>6. QED BY <1>1, <1>2, <1>3, <1>4, <1>5, AsideVersions

LEMMA CheckVersions ==
    ASSUME IInv, Kept, KeptFile, NEW r \in Requests, Check(r)
    PROVE  KeptFile'
<1>1. /\ pc[r] = "check" /\ op[r] = "update"
      /\ UNCHANGED <<linked, creator, memory, known, up>> /\ up
      /\ known[r].version <= memory.version
      /\ LetInInv /\ BehindInv /\ ((\A s \in Requests : pc[s] # "store") => CaughtUp)
  BY CheckIs DEF Kept, KeptFile, LetInInv
<1>2. ~Writing /\ Current = content /\ Current' = content
  BY CheckCurrent
<1>3. CASE /\ pc' = [pc EXCEPT ![r] = "done"] /\ lock' = None
           /\ UNCHANGED <<content, seen>>
  <2>1. ~Writing'
    BY <1>3 DEF Writing
  <2>2. QED BY <1>1, <1>2, <1>3, <2>1, AsideVersions
<1>4. CASE /\ pc' = [pc EXCEPT ![r] = "encode"]
           /\ seen' = [seen EXCEPT ![r] = content]
           /\ content \in Objects /\ content.version = known[r].version
  <2>1. \A s \in Requests : pc[s] # "store"
    BY <1>1, <1>4, VersionIsNat DEF BehindInv
  <2>2. memory = content
    BY <1>1, <1>2, <1>4, <2>1, CaughtUpMeans, Constants
  <2>3. \A s \in Requests : pc'[s] = IF s = r THEN "encode" ELSE pc[s]
    BY <1>4 DEF IInv, TypeOK
  <2>4. CaughtUp'
    BY <1>1, <1>2, <2>2 DEF CaughtUp
  <2>5. LetInInv' /\ BehindInv'
    BY <1>1, <2>1, <2>3 DEF LetInInv, BehindInv
  <2>6. QED BY <1>1, <2>4, <2>5 DEF KeptFile
<1>5. QED BY <1>1, <1>3, <1>4, CheckIs

LEMMA EncodeVersions ==
    ASSUME IInv, Kept', KeptFile, NEW r \in Requests, Encode(r) \/ EncodeFails(r)
    PROVE  KeptFile'
<1>1. /\ pc[r] = "encode" /\ Writing /\ ~Writing' /\ content = Empty
      /\ Current = seen[r] /\ Current # Empty /\ Current' = content'
      /\ Current.version = known[r].version
      /\ UNCHANGED <<linked, creator, memory, known, up>> /\ up
  BY EncodeCurrent, Constants
<1>2. /\ LetInInv /\ BehindInv /\ ((\A s \in Requests : pc[s] # "store") => CaughtUp)
      /\ known[r].version <= memory.version
  BY <1>1 DEF KeptFile, LetInInv
<1>3. \A s \in Requests : pc[s] # "store"
  BY <1>1, <1>2 DEF BehindInv
<1>4. memory.version = known[r].version
  BY <1>1, <1>2, <1>3, CaughtUpMeans
<1>5. content' = Empty \/ memory.version < content'.version
  BY <1>1, <1>4, WritesIs DEF Encode, EncodeFails, Kept
<1>6. PICK place \in {"store", "failed"} :
        /\ \A s \in Requests : pc'[s] = IF s = r THEN place ELSE pc[s]
        /\ place = "store" => /\ seen'[r] = content'
                              /\ memory.version < content'.version
  <2>1. CASE Encode(r)
    BY <1>1, <1>4, <2>1, WritesIs DEF Encode, Goto, Kept, IInv, TypeOK
  <2>2. CASE EncodeFails(r)
    BY <2>2 DEF EncodeFails, Goto, IInv, TypeOK
  <2>3. QED BY <2>1, <2>2
<1>7. LetInInv'
  BY <1>1, <1>2, <1>6 DEF LetInInv
<1>8. BehindInv'
  BY <1>1, <1>3, <1>6 DEF BehindInv
<1>9. (\A s \in Requests : pc'[s] # "store") => CaughtUp'
  BY <1>1, <1>5, <1>6 DEF CaughtUp, WriteFailed
<1>10. QED BY <1>1, <1>7, <1>8, <1>9 DEF KeptFile

LEMMA StoreVersions ==
    ASSUME IInv, KeptFile, NEW r \in Requests, Store(r)
    PROVE  KeptFile'
<1>1. /\ pc[r] = "store" /\ up /\ up' /\ memory' = seen[r]
      /\ \A s \in Requests : pc'[s] = IF s = r THEN "done" ELSE pc[s]
      /\ UNCHANGED <<linked, content, creator, known, seen>>
  BY DEF Store, Goto, IInv, TypeOK
<1>2. /\ seen[r] = content /\ memory.version < content.version /\ ~Writing
      /\ \A s \in Requests : pc[s] = "store" => s = r
      /\ LetInInv
  BY <1>1 DEF KeptFile, BehindInv
<1>3. Current' = content /\ ~Writing'
  BY <1>2, CurrentStays DEF Current
<1>4. LetInInv'
  BY <1>1, <1>2, VersionIsNat DEF LetInInv
<1>5. BehindInv' /\ CaughtUp'
  BY <1>1, <1>2, <1>3 DEF BehindInv, CaughtUp
<1>6. QED BY <1>1, <1>4, <1>5 DEF KeptFile

LEMMA VersionKeeps ==
    IInv /\ NewInv /\ (Kept => KeptFile) /\ [Next]_vars => (Kept => KeptFile)'
<1> SUFFICES ASSUME IInv, NewInv, Kept => KeptFile, [Next]_vars, Kept'
             PROVE  KeptFile'
  OBVIOUS
<1>1. Kept /\ KeptFile
  BY KeptBefore
<1>2. CASE UNCHANGED vars
  BY <1>1, <1>2
     DEF vars, KeptFile, LetInInv, BehindInv, CaughtUp, WriteFailed, Current, Writing
<1>3. ASSUME NEW r \in Requests
      PROVE  ~Remove(r) /\ ~Unmap(r)
  BY <1>1 DEF Remove, Unmap, KeptFile, LetInInv
<1>4. CASE Next
  BY <1>1, <1>3, <1>4, CreateVersions, OutsideVersions, CheckVersions, EncodeVersions,
     StoreVersions, CrashVersions
     DEF Next
<1>5. QED BY <1>2, <1>4

LEMMA SpecVersions == Spec => [](Kept => KeptFile)
<1>1. Init => KeptFile
  BY DEF Init, KeptFile, LetInInv, BehindInv, CaughtUp, Current, Writing
<1>2. QED BY <1>1, VersionKeeps, SpecInvariant, SpecNew, PTL DEF Spec

-----------------------------------------------------------------------------
(* The refinement: what a step does to the abstract file. *)

LEMMA InitImplements == Init => File!Init
BY DEF Init, File!Init, File!NoObject, State, Object, Empty

(* Once the file is made, its state follows from its name, the update in it
   and what it holds. *)
LEMMA StateIs ==
    ASSUME creator \notin {"new", "opened"}
    PROVE  /\ ~linked => State = "removed" /\ Object = Empty
           /\ linked /\ Writing => State = "replacing" /\ Object = seen[lock]
           /\ linked /\ ~Writing /\ content # Empty => State = "whole" /\ Object = content
           /\ linked /\ ~Writing /\ content = Empty => State = "lost" /\ Object = Empty
BY DEF State, Object

LEMMA OutsideImplements ==
    ASSUME IInv, NEW r \in Requests,
           Request(r) \/ OpenFile(r) \/ NewLock(r) \/ Store(r) \/ Remove(r) \/ Unmap(r)
    PROVE  [File!Next]_<<State, Object>>
<1>1. /\ UNCHANGED <<content, creator, seen>>
      /\ Writing' <=> Writing
      /\ Writing => lock' = lock
  BY CurrentStays
<1>2. CASE linked' = linked
  BY <1>1, <1>2 DEF State, Object
<1>3. CASE linked' # linked
  <2>1. linked /\ ~linked' /\ pc[r] = "remove"
    BY <1>3 DEF Request, OpenFile, NewLock, Store, Remove, Unmap, IInv, TypeOK
  <2>2. creator \notin {"new", "opened"}
    BY <2>1, UnderWay
  <2>3. State' = "removed" /\ Object' = Empty
    BY <1>1, <2>1, <2>2 DEF State, Object
  <2>4. State \in {"whole", "replacing", "lost"}
    BY <2>1, <2>2, StateIs
  <2>5. QED BY <2>3, <2>4 DEF File!Next, File!Remove, File!NoObject, Empty
<1>4. QED BY <1>2, <1>3

(* An update that passes the check takes the object out of the file. *)
LEMMA CheckImplements ==
    ASSUME IInv, NEW r \in Requests, Check(r)
    PROVE  [File!Next]_<<State, Object>>
<1>1. UNCHANGED <<linked, creator>> /\ creator \notin {"new", "opened"}
  BY CheckIs
<1>2. ~Writing
  BY CheckCurrent
<1>3. CASE ~Writing' /\ content' = content
  BY <1>1, <1>2, <1>3 DEF State, Object
<1>4. CASE Writing' /\ lock' = r /\ seen'[r] = content
  <2>1. content # Empty
    BY <1>4, CheckIs, Constants DEF Writing
  <2>2. CASE linked
    <3>1. State = "whole" /\ Object = content
      BY <1>1, <1>2, <2>1, <2>2, StateIs
    <3>2. State' = "replacing" /\ Object' = content
      BY <1>1, <1>4, <2>2 DEF State, Object
    <3>3. QED BY <3>1, <3>2 DEF File!Next, File!Begin
  <2>3. CASE ~linked
    BY <1>1, <2>3 DEF State, Object
  <2>4. QED BY <2>2, <2>3
<1>5. QED BY <1>3, <1>4, CheckCurrent

(* The write is the swap of the compare-and-swap, when the name still exists;
   a failed one loses the object. *)
LEMMA EncodeImplements ==
    ASSUME IInv, NEW r \in Requests, Encode(r) \/ EncodeFails(r)
    PROVE  [File!Next]_<<State, Object>>
<1>1. /\ Writing /\ lock = r /\ seen[r].version = known[r].version /\ content = Empty
      /\ ~Writing' /\ UNCHANGED <<linked, creator>>
      /\ creator \notin {"new", "opened"}
  BY EncodeCurrent
<1>2. CASE ~linked
  BY <1>1, <1>2 DEF State, Object
<1>3. CASE linked /\ content' = Empty
  <2>1. State = "replacing" /\ State' = "lost" /\ Object' = Empty
    BY <1>1, <1>3 DEF State, Object
  <2>2. QED BY <2>1 DEF File!Next, File!Lose, File!NoObject, Empty
<1>4. CASE linked /\ content' # Empty
  <2>1. content' \in Objects /\ content'.from = known[r].version
    BY <1>1, <1>4, EncodeCurrent, WritesIs DEF Encode, EncodeFails
  <2>2. State = "replacing" /\ Object = seen[r]
    BY <1>1, <1>4, StateIs
  <2>3. State' = "whole" /\ Object' = content'
    BY <1>1, <1>4 DEF State, Object
  <2>4. QED BY <1>1, <2>1, <2>2, <2>3 DEF File!Next, File!Replace
<1>5. QED BY <1>2, <1>3, <1>4

LEMMA CreateImplements ==
    ASSUME IInv, CreateOpens \/ CreateEncodes \/ CreateFails
    PROVE  [File!Next]_<<State, Object>>
<1>1. content = Empty /\ lock = None
  BY DEF CreateOpens, CreateEncodes, CreateFails, IInv, CreatorInv
<1>2. CASE CreateOpens
  <2>1. State = "unmade" /\ State' = "making" /\ Object = Empty /\ Object' = Empty
    BY <1>2 DEF CreateOpens, State, Object
  <2>2. QED BY <2>1 DEF File!Next, File!Begin
<1>3. CASE CreateEncodes \/ CreateFails
  <2>1. /\ State = "making" /\ linked' /\ creator' \in {"done", "failed"}
        /\ content' \in {Empty, Created} /\ ~Writing'
    BY <1>1, <1>3 DEF CreateEncodes, CreateFails, State, Writing, IInv, CreatorInv
  <2>2. CASE content' = Empty
    <3>1. State' = "lost" /\ Object' = Empty
      BY <2>1, <2>2 DEF State, Object
    <3>2. QED BY <2>1, <3>1 DEF File!Next, File!Lose, File!NoObject, Empty
  <2>3. CASE content' = Created
    <3>1. State' = "whole" /\ Object' = Created /\ Created \in Objects
      BY <2>1, <2>3, Constants DEF State, Object
    <3>2. QED BY <2>1, <3>1 DEF File!Next, File!Create
  <2>4. QED BY <2>1, <2>2, <2>3
<1>4. QED BY <1>2, <1>3

LEMMA CrashImplements ==
    ASSUME IInv, Crash
    PROVE  [File!Next]_<<State, Object>>
<1>1. UNCHANGED <<linked, content>> /\ ~Writing'
  BY DEF Crash, Writing
<1>2. CASE creator = "opened"
  <2>1. State = "making" /\ State' = "lost" /\ Object' = Empty
    BY <1>1, <1>2 DEF Crash, State, Object, IInv, CreatorInv
  <2>2. QED BY <2>1 DEF File!Next, File!Lose, File!NoObject, Empty
<1>3. CASE creator # "opened" /\ ~(linked /\ Writing)
  <2>1. creator' = creator
    BY <1>3 DEF Crash
  <2>2. QED BY <1>1, <1>3, <2>1 DEF State, Object
<1>4. CASE creator # "opened" /\ linked /\ Writing
  <2>1. lock \in Requests /\ pc[lock] = "encode"
    BY <1>4 DEF Writing, IInv, TypeOK
  <2>2. creator # "new" /\ creator' = creator /\ content = Empty
    BY <1>4, <2>1, UnderWay DEF Crash, IInv, HolderInv
  <2>3. State = "replacing" /\ State' = "lost" /\ Object' = Empty
    BY <1>1, <1>4, <2>2 DEF State, Object
  <2>4. QED BY <2>3 DEF File!Next, File!Lose, File!NoObject, Empty
<1>5. QED BY <1>2, <1>3, <1>4

LEMMA NextImplements == IInv /\ [Next]_vars => [File!Next]_<<State, Object>>
<1> SUFFICES ASSUME IInv, [Next]_vars PROVE [File!Next]_<<State, Object>>
  OBVIOUS
<1>1. CASE UNCHANGED vars
  BY <1>1 DEF vars, State, Object, Writing
<1>2. CASE LoadResource
  BY <1>2 DEF LoadResource, State, Object, Writing
<1>3. CASE Next /\ ~LoadResource
  BY <1>3, CreateImplements, OutsideImplements, CheckImplements, EncodeImplements,
     CrashImplements
     DEF Next
<1>4. QED BY <1>1, <1>2, <1>3

-----------------------------------------------------------------------------
(* The store keeps its types; a version never falls to zero. *)
THEOREM FsStoreTypeOK == Spec => []TypeOK
BY SpecInvariant, PTL DEF IInv

(* No return of Update or Delete, with whatever error, leaves the file locked,
   for any number of them: the lock is always held by a call inside. *)
THEOREM FsStoreLockIsInUse == Spec => []LockIsInUse
BY SpecInvariant, PTL DEF IInv

(* However updates of Manager.UpdateDeviceById overlap, whatever crash
   interrupts them and whichever call of the file system fails, memory has
   what a restart would load, for any number of them; only after a write that
   failed behind its truncation may the file have nothing, or a newer object
   than memory, and never an older one.  Each update must make a new version
   and nothing be deleted. *)
THEOREM FsStoreVersionsKeepMemory == Spec => []VersionsKeepMemory
<1>1. IInv /\ (Kept => KeptFile) => VersionsKeepMemory
  <2> SUFFICES ASSUME IInv, KeptFile, up, Quiet, creator # "opened"
               PROVE  \/ memory = Loaded
                      \/ /\ WriteFailed
                         /\ Loaded = Empty \/ memory.version < Loaded.version
    BY DEF VersionsKeepMemory, Kept
  <2>1. CaughtUp /\ (linked <=> creator # "new")
    BY DEF KeptFile, Quiet
  <2>2. ~Writing
    BY DEF Quiet, Writing, IInv, TypeOK
  <2>3. Loaded = Current
    BY <2>1, <2>2 DEF Loaded, Current, IInv, CreatorInv
  <2>4. QED BY <2>1, <2>3 DEF CaughtUp
<1>2. QED BY <1>1, SpecInvariant, SpecVersions, PTL

(* An update or a delete that has passed the check under the lock changes the
   object its client knew and no other, for any number of overlapping
   requests, failed writes, crashes and restarts, as long as each update has
   made a new version. *)
THEOREM FsStoreChangesWhatItKnew == Spec => []ChangesWhatItKnew
<1>1. (~stood => KnownInv) => ChangesWhatItKnew
  BY DEF KnownInv, ChangesWhatItKnew
<1>2. QED BY <1>1, SpecKnown, PTL

(* For any number of requests, failures of the file system and a crash at any
   point, the file behaves as the versioned file: no update is lost under
   another, none is made from a version that had been replaced, nothing brings
   back a removed file, and the object is lost only while the file is being
   made or replaced. *)
THEOREM FsStoreImplementsFile == Spec => ImplementsFile
<1>1. QED BY InitImplements, NextImplements, SpecInvariant, PTL
          DEF Spec, ImplementsFile, File!Spec
=================================================================================
