------------------------------ MODULE KvServer ------------------------------
(***************************************************************************)
(* The key-value half of the server: the handlers of                       *)
(* src/cache/handler/kv_handler.cc and init_handler.cc, KvManager,         *)
(* LocaldbManager with its loader, the fibers they start with Async, and   *)
(* the process being killed and started again.                             *)
(*                                                                         *)
(* The map behind KvManager is a function: HashKv shows that each of its   *)
(* calls is one indivisible step.  What HashKv does not hide is the        *)
(* pointer that Query returns.  A handler reads through it later, so a     *)
(* pointer whose node has been assigned to or erased in between is         *)
(* "raced": reading it is a data race or a use after free, and may yield   *)
(* any value.  LevelDB (external) is a function that survives the process; *)
(* an iterator is a snapshot of it.                                        *)
(***************************************************************************)
EXTENDS Integers, Sequences, FiniteSetsExt

CONSTANTS
  Requests,     \* the HTTP requests, each handled by a fiber of its own
  Keys,
  Values,
  Empty,        \* the empty string
  Menu,         \* the requests a client may send, as [kind, items]
  InitialDisk,  \* what LevelDB holds at the first start
  Null,
  Garbage,      \* what a raced pointer may yield besides values
  MaxRestarts,  \* bound on starts after the first
  MaxIOErrors   \* bound on the errors LevelDB returns

Items == [key : Keys \cup {Null}, value : Values \cup {Null}]
Pairs == [key : Keys, value : Values]

Kinds == {"query", "add", "del", "list", "batch", "init"}

\* A URI has one key or none, a JSON body its pairs or its keys.
ASSUME MenuAssumption ==
  \A m \in Menu :
    /\ m.kind \in Kinds /\ m.items \in Seq(Items)
    /\ m.kind \in {"query", "add", "del"} => Len(m.items) = 1
    /\ m.kind \in {"add", "batch"} => m.items \in Seq(Pairs)
    /\ m.kind = "list" => \A i \in DOMAIN m.items : m.items[i].key \in Keys

\* What the history has for a key after a delete.
Gone == "gone"

ASSUME SentinelAssumption ==
  /\ Null \notin Keys \cup Values
  /\ Gone \notin Values
  /\ Garbage \notin Values \cup {Null}
  /\ InitialDisk \in [Keys -> Values \cup {Null}]

ASSUME BoundAssumption == MaxRestarts \in Nat /\ MaxIOErrors \in Nat

VARIABLES
  alive,     \* the process is running
  memdb,     \* KvManager::_memdb
  disk,      \* the LevelDB database: survives the process
  db,        \* LocaldbManager::_db: "null" or "open"
  inited,    \* LocaldbManager::_inited
  loader,    \* where LocaldbManager::Init is
  snap,      \* what the loader's iterator has not yet yielded
  req,       \* the state of each request's handler
  tasks,     \* the requests whose Async persistence has not run yet
  restarts, ioErrors,
  last,      \* history: the last client write of each key, Gone after a delete
  unsaved    \* history: the keys whose write LevelDB has refused

vars == <<alive, memdb, disk, db, inited, loader, snap, req, tasks,
          restarts, ioErrors, last, unsaved>>

NoRequest ==
  [pc |-> "none", kind |-> "init", items |-> <<>>, todo |-> {}, found |-> {},
   raced |-> {}, index |-> 1, body |-> <<>>, status |-> 0]

KeysOf(r) == {req[r].items[i].key : i \in DOMAIN req[r].items}

Init ==
  /\ alive = TRUE
  /\ memdb = [k \in Keys |-> Null]
  /\ disk = InitialDisk
  /\ db = "null"
  /\ inited = FALSE
  /\ loader = "open"
  /\ snap = [k \in Keys |-> Null]
  /\ req = [r \in Requests |-> NoRequest]
  /\ tasks = {}
  /\ restarts = 0
  /\ ioErrors = 0
  /\ last = [k \in Keys |-> Null]
  /\ unsaved = {}

-----------------------------------------------------------------------------
(* Steps shared by the handlers.                                            *)

At(r, kind, pc) == alive /\ req[r].kind = kind /\ req[r].pc = pc

Replied(q, status) ==
  [q EXCEPT !.pc = "replied", !.status = status,
            !.todo = {}, !.found = {}, !.raced = {}]

\* The handler's state after the node of key k was assigned to or erased.
WithRaces(k) ==
  [q \in Requests |->
     [req[q] EXCEPT !.raced =
        @ \cup {i \in req[q].found : req[q].items[i].key = k}]]

MemAdd(k, v) == memdb' = [memdb EXCEPT ![k] = v]

\* A client's KvManager::Add.
ClientAdd(k, v) == MemAdd(k, v) /\ last' = [last EXCEPT ![k] = v]

\* The values a read through the i-th pointer of r may yield.
Deref(r, i) ==
  IF i \in req[r].raced THEN Values \cup {Garbage}
                        ELSE {memdb[req[r].items[i].key]}

\* Mutant: index counts the keys that were found.
EntryShifted(r, i, v) ==
  [key |-> req[r].items[Len(req[r].body) + 1].key, value |-> v,
   raced |-> i \in req[r].raced]

Entry(r, i, v) ==
  [key |-> req[r].items[i].key, value |-> v, raced |-> i \in req[r].raced]

database == <<disk, db, inited, loader, snap, restarts, ioErrors, unsaved>>

\* A client sends a request and a fiber starts to handle it.
Send(r) ==
  /\ alive
  /\ req[r].pc = "none"
  /\ \E m \in Menu :
       req' = [req EXCEPT ![r] = [NoRequest EXCEPT !.pc = "start",
                                    !.kind = m.kind, !.items = m.items]]
  /\ UNCHANGED <<alive, memdb, tasks, last, database>>

-----------------------------------------------------------------------------
(* QueryKeyHandler: KvManager::Query, then a read through the pointer.      *)

QueryKey(r) ==
  LET k == req[r].items[1].key
  IN  /\ At(r, "query", "start")
      /\ \/ /\ k = Null
            /\ req' = [req EXCEPT ![r] = Replied(@, 400)]
         \/ /\ k # Null
            /\ memdb[k] = Null
            /\ req' = [req EXCEPT ![r] = Replied(@, 404)]
         \/ /\ k # Null
            /\ memdb[k] # Null
            /\ req' = [req EXCEPT ![r].pc = "held", ![r].found = {1}]
      /\ UNCHANGED <<alive, memdb, tasks, last, database>>

QueryReply(r) ==
  /\ At(r, "query", "held")
  /\ \E v \in Deref(r, 1) :
       req' = [req EXCEPT ![r] =
                 Replied([@ EXCEPT !.body = <<Entry(r, 1, v)>>], 200)]
  /\ UNCHANGED <<alive, memdb, tasks, last, database>>

(* AddKeyHandler: KvManager::Add, then the answer and the Async fiber that  *)
(* saves the pair.                                                          *)

AddKey(r) ==
  LET item == req[r].items[1]
  IN  /\ At(r, "add", "start")
      /\ \/ /\ Empty \in {item.key, item.value}
            /\ req' = [req EXCEPT ![r] = Replied(@, 400)]
            /\ UNCHANGED <<memdb, last>>
         \/ /\ Empty \notin {item.key, item.value}
            /\ ClientAdd(item.key, item.value)
            /\ req' = [WithRaces(item.key) EXCEPT ![r].pc = "added"]
      /\ UNCHANGED <<alive, tasks, database>>

\* Mutant: the pair is not saved.
AddReplyUnsaved(r) ==
  /\ At(r, "add", "added")
  /\ req' = [req EXCEPT ![r] = Replied(@, 200)]
  /\ UNCHANGED <<alive, memdb, tasks, last, database>>

AddReply(r) ==
  /\ At(r, "add", "added")
  /\ req' = [req EXCEPT ![r] = Replied(@, 200)]
  /\ tasks' = tasks \cup {r}
  /\ UNCHANGED <<alive, memdb, last, database>>

(* DelKeyHandler: KvManager::Del and the answer; nothing is saved.          *)

DelKey(r) ==
  LET k == req[r].items[1].key
  IN  /\ At(r, "del", "start")
      /\ \/ /\ k = Null
            /\ req' = [req EXCEPT ![r] = Replied(@, 400)]
            /\ UNCHANGED <<memdb, last>>
         \/ /\ k # Null
            /\ memdb' = [memdb EXCEPT ![k] = Null]
            /\ last' = [last EXCEPT ![k] = Gone]
            /\ req' = [WithRaces(k) EXCEPT ![r] = Replied(@, 200)]
      /\ UNCHANGED <<alive, tasks, database>>

-----------------------------------------------------------------------------
(* BatchQueryKeyHandler: one Async fiber per key, whose pointers the        *)
(* handler awaits and reads in the order of the keys.                       *)

ListStart(r) ==
  /\ At(r, "list", "start")
  /\ \/ /\ req[r].items = <<>>
        /\ req' = [req EXCEPT ![r] = Replied(@, 400)]
     \/ /\ req[r].items # <<>>
        /\ req' = [req EXCEPT ![r].pc = "collect",
                              ![r].todo = DOMAIN req[r].items]
  /\ UNCHANGED <<alive, memdb, tasks, last, database>>

\* Mutant: the pointer is not compared with nullptr.
ListQueryUnchecked(r, i) ==
  /\ At(r, "list", "collect")
  /\ i \in req[r].todo
  /\ req' = [req EXCEPT ![r].todo = @ \ {i}, ![r].found = @ \cup {i}]
  /\ UNCHANGED <<alive, memdb, tasks, last, database>>

ListQuery(r, i) ==
  /\ At(r, "list", "collect")
  /\ i \in req[r].todo
  /\ req' = [req EXCEPT ![r].todo = @ \ {i},
                        ![r].found = IF memdb[req[r].items[i].key] = Null
                                     THEN @ ELSE @ \cup {i}]
  /\ UNCHANGED <<alive, memdb, tasks, last, database>>

\* Mutant: index stays where it is at a key that was not found.
NextIndexStuck(r) ==
  IF req[r].index \in req[r].found THEN req[r].index + 1 ELSE req[r].index

NextIndex(r) == req[r].index + 1

\* BlockingGet returns once the fiber of the future has run.
Ready(r) == req[r].index \notin req[r].todo

\* The handler takes the next future's pointer, reads through it and pairs the
\* value with the key of the same index.
ListCollect(r) ==
  LET i == req[r].index
  IN  /\ At(r, "list", "collect")
      /\ i <= Len(req[r].items)
      /\ Ready(r)
      /\ \/ /\ i \in req[r].found
            /\ \E v \in Deref(r, i) :
                 req' = [req EXCEPT ![r].body = Append(@, Entry(r, i, v)),
                                    ![r].index = NextIndex(r)]
         \/ /\ i \notin req[r].found
            /\ req' = [req EXCEPT ![r].index = NextIndex(r)]
      /\ UNCHANGED <<alive, memdb, tasks, last, database>>

ListReply(r) ==
  /\ At(r, "list", "collect")
  /\ req[r].index > Len(req[r].items)
  /\ req' = [req EXCEPT ![r] =
               Replied(@, IF req[r].body = <<>> THEN 404 ELSE 200)]
  /\ UNCHANGED <<alive, memdb, tasks, last, database>>

(* BatchAddKeyHandler: one Async fiber per pair, WhenAll, the answer and    *)
(* the Async fiber that saves the batch.                                    *)

BatchStart(r) ==
  /\ At(r, "batch", "start")
  /\ req' = [req EXCEPT ![r].pc = "adding", ![r].todo = DOMAIN req[r].items]
  /\ UNCHANGED <<alive, memdb, tasks, last, database>>

BatchAdd(r, i) ==
  LET item == req[r].items[i]
  IN  /\ At(r, "batch", "adding")
      /\ i \in req[r].todo
      /\ ClientAdd(item.key, item.value)
      /\ req' = [WithRaces(item.key) EXCEPT ![r].todo = @ \ {i}]
      /\ UNCHANGED <<alive, tasks, database>>

\* Mutant: the handler answers when the first fiber is done (WhenAny).
AnyAdded(r) == req[r].todo # DOMAIN req[r].items

AllAdded(r) == req[r].todo = {}

BatchReply(r) ==
  /\ At(r, "batch", "adding")
  /\ AllAdded(r)
  /\ req' = [req EXCEPT ![r] = Replied(@, 200)]
  /\ tasks' = tasks \cup {r}
  /\ UNCHANGED <<alive, memdb, last, database>>

(* InitQueryHandler.                                                        *)

InitQuery(r) ==
  /\ At(r, "init", "start")
  /\ req' = [req EXCEPT ![r] = Replied(@, IF inited THEN 200 ELSE 400)]
  /\ UNCHANGED <<alive, memdb, tasks, last, database>>

-----------------------------------------------------------------------------
(* LocaldbManager.                                                          *)

IOError == ioErrors < MaxIOErrors /\ ioErrors' = ioErrors + 1

\* DB::Open; when it fails Init returns and _db stays null.
OpenDb ==
  /\ alive
  /\ loader = "open"
  /\ \/ /\ db' = "open"
        /\ loader' = "iterate"
        /\ UNCHANGED ioErrors
     \/ /\ IOError
        /\ loader' = "failed"
        /\ UNCHANGED db
  /\ UNCHANGED <<alive, memdb, disk, inited, snap, req, tasks, restarts, last,
                 unsaved>>

\* Mutant: the server is declared inited before the data is read.
NewIteratorInited ==
  /\ alive
  /\ loader = "iterate"
  /\ snap' = disk
  /\ loader' = "load"
  /\ inited' = TRUE
  /\ UNCHANGED <<alive, memdb, disk, db, req, tasks, restarts, ioErrors, last,
                 unsaved>>

NewIterator ==
  /\ alive
  /\ loader = "iterate"
  /\ snap' = disk
  /\ loader' = "load"
  /\ UNCHANGED <<alive, memdb, disk, db, inited, req, tasks, restarts,
                 ioErrors, last, unsaved>>

\* Mutant: it->Next() is forgotten.
LoadOneForever ==
  /\ alive
  /\ loader = "load"
  /\ \E k \in Keys : snap[k] # Null /\ MemAdd(k, snap[k]) /\ req' = WithRaces(k)
  /\ UNCHANGED <<alive, disk, db, inited, loader, snap, tasks, restarts, ioErrors,
                 last, unsaved>>

\* it->key(), it->value() into the map and it->Next().  The order of the keys
\* is left open.
LoadOne ==
  /\ alive
  /\ loader = "load"
  /\ \E k \in Keys :
       /\ snap[k] # Null
       /\ MemAdd(k, snap[k])
       /\ snap' = [snap EXCEPT ![k] = Null]
       /\ req' = WithRaces(k)
  /\ UNCHANGED <<alive, disk, db, inited, loader, tasks, restarts, ioErrors,
                 last, unsaved>>

\* Mutant: the loop's end is not awaited.
ExhaustedAlways == TRUE

Exhausted == \A k \in Keys : snap[k] = Null

\* it->Valid() is false at the end of the data, and also when reading fails:
\* Init does not ask for it->status().
LoadEnd ==
  /\ alive
  /\ loader = "load"
  /\ \/ Exhausted /\ UNCHANGED ioErrors
     \/ IOError
  /\ inited' = TRUE
  /\ loader' = "done"
  /\ snap' = [k \in Keys |-> Null]
  /\ UNCHANGED <<alive, memdb, disk, db, req, tasks, restarts, last, unsaved>>

\* The database d after the pairs have been written in their order: the last
\* pair of a key wins.
Put(d, items) ==
  [k \in Keys |->
     LET at == {i \in DOMAIN items : items[i].key = k}
     IN  IF at = {} THEN d[k] ELSE items[Max(at)].value]

\* Mutant: only the first pair is written.
WrittenFirst(r) ==
  IF req[r].items = <<>> THEN disk ELSE Put(disk, <<req[r].items[1]>>)

\* Put, or the WriteBatch: all the pairs of the request as one write of LevelDB.
Written(r) == Put(disk, req[r].items)

\* LocaldbManager::Add and Batch, whose status nobody looks at.
Persist(r) ==
  /\ alive
  /\ r \in tasks
  /\ db = "open"
  /\ \/ /\ disk' = Written(r)
        /\ UNCHANGED <<ioErrors, unsaved>>
     \/ /\ IOError
        /\ unsaved' = unsaved \cup KeysOf(r)
        /\ UNCHANGED disk
  /\ tasks' = tasks \ {r}
  /\ UNCHANGED <<alive, memdb, db, inited, loader, snap, req, restarts, last>>

-----------------------------------------------------------------------------
(* The process.                                                             *)

\* All of its memory is lost; clients still waiting get no answer.
Die ==
  /\ alive' = FALSE
  /\ memdb' = [k \in Keys |-> Null]
  /\ db' = "null"
  /\ inited' = FALSE
  /\ loader' = "open"
  /\ snap' = [k \in Keys |-> Null]
  /\ req' = [r \in Requests |->
               IF req[r].pc = "none" THEN req[r]
               ELSE [Replied(req[r], req[r].status) EXCEPT !.pc = "past"]]
  /\ tasks' = {}
  /\ unsaved' = {}
  /\ UNCHANGED <<disk, restarts, ioErrors, last>>

\* The process is killed, or quits while fibers are still to run.
Kill == alive /\ Die

\* A fiber saves a pair while _db is null: a call through a null pointer.
PersistNull(r) == alive /\ r \in tasks /\ db = "null" /\ Die

Restart ==
  /\ ~alive
  /\ restarts < MaxRestarts
  /\ restarts' = restarts + 1
  /\ alive' = TRUE
  /\ UNCHANGED <<memdb, disk, db, inited, loader, snap, req, tasks, ioErrors,
                 last, unsaved>>

-----------------------------------------------------------------------------
Handle(r) ==
  \/ QueryKey(r) \/ QueryReply(r)
  \/ AddKey(r) \/ AddReply(r)
  \/ DelKey(r)
  \/ ListStart(r) \/ ListCollect(r) \/ ListReply(r)
  \/ BatchStart(r) \/ BatchReply(r)
  \/ InitQuery(r)
  \/ \E i \in req[r].todo : ListQuery(r, i) \/ BatchAdd(r, i)

Save(r) == Persist(r) \/ PersistNull(r)

Load == OpenDb \/ NewIterator \/ LoadOne \/ LoadEnd

Next ==
  \/ \E r \in Requests : Send(r) \/ Handle(r) \/ Save(r)
  \/ Load
  \/ Kill
  \/ Restart

Spec == Init /\ [][Next]_vars

\* A fiber that can run is run: flare's workers take the ready fibers in turn.
FairSpec ==
  /\ Spec
  /\ \A r \in Requests : WF_vars(Handle(r)) /\ WF_vars(Save(r))
  /\ WF_vars(Load)

-----------------------------------------------------------------------------
Body ==
  [key : Keys, value : Values \cup {Garbage}, raced : BOOLEAN]

Labels ==
  {"none", "start", "held", "added", "collect", "adding", "replied", "past"}

Handlers ==
  [pc : Labels,
   kind : Kinds, items : Seq(Items), todo : SUBSET Nat, found : SUBSET Nat,
   raced : SUBSET Nat, index : Nat, body : Seq(Body), status : {0, 200, 400, 404}]

\* Every variable has its type; a value read through a pointer that was not
\* raced is a value, so the awaited futures have their results when they are
\* read.
TypeOK ==
  /\ alive \in BOOLEAN /\ inited \in BOOLEAN
  /\ memdb \in [Keys -> Values \cup {Null}]
  /\ disk \in [Keys -> Values \cup {Null}]
  /\ snap \in [Keys -> Values \cup {Null}]
  /\ db \in {"null", "open"}
  /\ loader \in {"open", "iterate", "load", "done", "failed"}
  /\ req \in [Requests -> Handlers]
  /\ \A r \in Requests :
       /\ req[r].todo \cup req[r].found \cup req[r].raced
            \subseteq DOMAIN req[r].items
       /\ req[r].index \in 1 .. Len(req[r].items) + 1
  /\ tasks \subseteq Requests
  /\ restarts \in 0 .. MaxRestarts /\ ioErrors \in 0 .. MaxIOErrors
  /\ last \in [Keys -> Values \cup {Null, Gone}]
  /\ unsaved \subseteq Keys

Acked(r) == req[r].status = 200 /\ req[r].kind \in {"add", "batch"}

\* The values that clients have sent for a key.
ClientSent(k) ==
  UNION {{req[r].items[i].value :
            i \in {j \in DOMAIN req[r].items : req[r].items[j].key = k}} :
         r \in {q \in Requests : req[q].kind \in {"add", "batch"}}}

\* A value that can be queried is the one in the database, or the database has
\* another client's write of the key, or a fiber is on its way that will save
\* it, or LevelDB has refused it: no interleaving of handlers, loader and
\* crashes leaves a write in memory that nobody will save.
NothingOnlyInMemory ==
  \A k \in Keys :
    \/ memdb[k] \in {Null, disk[k]}
    \/ disk[k] \in ClientSent(k)
    \/ k \in unsaved
    \/ \E r \in Requests :
         k \in KeysOf(r) /\ (r \in tasks \/ req[r].pc \in {"added", "adding"})

\* Once /add or /batch has answered 200, all the keys of the request are in the
\* map until a delete of the key, or until the process dies.
AckedVisible ==
  \A r \in Requests :
    Acked(r) /\ req[r].pc = "replied" =>
      \A k \in KeysOf(r) : memdb[k] # Null \/ last[k] = Gone

\* "ok" from /init means that all the data is loaded, as long as LevelDB returns
\* no error: also after a crash and while clients write, a key that is on disk
\* can be queried once the server is inited, unless a client has deleted it.
LoadedUnlessFailed ==
  inited /\ ioErrors = 0 =>
    \A k \in Keys : disk[k] # Null => memdb[k] # Null \/ last[k] = Gone

\* Once /init answers "ok", only clients change what is served: the loader, which
\* stores over whatever is there, cannot undo a write or a delete any more.
ClientsOwnLoadedData ==
  [][inited /\ alive' =>
       \A k \in Keys :
         memdb'[k] # memdb[k] =>
           last'[k] = IF memdb'[k] = Null THEN Gone ELSE memdb'[k]]_vars

\* A key answered by /query or /list comes with a value stored under that same
\* key, not under another key of the list, unless its pointer was raced.
AnswersAligned ==
  \A r \in Requests : \A n \in DOMAIN req[r].body :
    LET e == req[r].body[n]
    IN  ~e.raced => e.value \in ClientSent(e.key) \cup {InitialDisk[e.key]}

\* The keys that only request r writes, with a value other than the first.
OwnKeys(r) ==
  {k \in KeysOf(r) :
     /\ Put(InitialDisk, req[r].items)[k] # InitialDisk[k]
     /\ \A q \in Requests \ {r} :
          req[q].kind \in {"add", "batch"} => k \notin KeysOf(q)}

\* A batch is on disk as a whole or not at all, whenever the process dies.
BatchAllOrNothing ==
  \A r \in Requests :
    req[r].kind = "batch" =>
      \/ \A k \in OwnKeys(r) : disk[k] # InitialDisk[k]
      \/ \A k \in OwnKeys(r) : disk[k] = InitialDisk[k]

\* A client of /add or /batch that has got its 200 will find its keys saved,
\* with its own value or another client's, unless LevelDB refuses the write or
\* the process dies first.
AckedEventuallySaved ==
  \A r \in Requests :
    Acked(r) /\ req[r].pc = "replied" ~>
      \/ req[r].pc = "past"
      \/ \A k \in KeysOf(r) \cap Keys : disk[k] \in ClientSent(k) \/ k \in unsaved

\* Every request is answered: the handlers that wait for the fibers they have
\* started do not wait forever.
EveryRequestAnswered ==
  \A r \in Requests : req[r].pc = "start" ~> req[r].pc \in {"replied", "past"}

\* The loading ends, unless the database cannot be opened or the process dies,
\* even while clients keep writing.
LoadingEnds == loader = "iterate" ~> (inited \/ ~alive)

\* A key whose delete was answered before the process ended stays deleted after
\* the next start, until a client adds it again.
DeletedStaysDeleted ==
  \A r \in Requests :
    req[r].kind = "del" /\ req[r].status = 200 /\ req[r].pc = "past" =>
      \A k \in KeysOf(r) : last[k] = Gone => memdb[k] = Null
=============================================================================
