------------------------------ MODULE Database ------------------------------
(***************************************************************************)
(* api/connection.go and api/table.go: the tables of a database directory, *)
(* the handles a Database gives out for them, and the clients that use,    *)
(* close and drop them.                                                    *)
(*                                                                         *)
(* The calls of Database hold db.mu from beginning to end.  Of the calls   *)
(* of a Table, Close holds t.mu throughout, InsertAsync and                *)
(* StartAsyncWriter do all they do under it, but Insert and Flush only     *)
(* look whether the table is closed and release it before they act.        *)
(*                                                                         *)
(* A table directory is the rows of each version (the rest is in the       *)
(* modules Table and AsyncWriter); a handle is the table.Table it wraps,   *)
(* that is the next version and the rows of the newest manifest it has in  *)
(* its cache, and its AsyncWriter.                                         *)
(***************************************************************************)
EXTENDS Integers, Sequences, FiniteSets

CONSTANTS
  Clients, NoClient,
  Names,         \* table names
  Batches,       \* row batches, each inserted once
  ConnectKinds,  \* of "path" (Connect) and "config" (ConnectWithConfig)
  MayFail,       \* store calls may fail, without an effect
  MaxFaults,     \* bound: failures of a behaviour
  MaxHandles,    \* bound: Table objects made in one process
  MaxMade,       \* bound: tables created
  MaxConnects    \* bound: processes that connect, one after another

ASSUME DatabaseAssumption ==
  /\ NoClient \notin Clients
  /\ ConnectKinds \subseteq {"path", "config"}
  /\ MayFail \in BOOLEAN /\ MaxFaults \in Nat /\ MaxHandles \in Nat
  /\ MaxMade \in Nat /\ MaxConnects \in Nat

VARIABLES
  disk,          \* table directory: version -> the rows of that snapshot
  db,            \* the Database: "none", "open" or "closed"
  tables,        \* db.tables: name -> a handle, or Unopened
  dbmu,          \* who holds db.mu
  handles,       \* the Table objects, in the order they were made
  tmu,           \* tmu[h]: who is in Close of h, holding t.mu
  pc, arg,       \* per client: where it is, and with what
  quiet,         \* the application is quiet (see Quiet)
  faults, connects,
  made,          \* history: tables created so far
  latestMade,    \* history: name -> number of the last table created there
  owner,         \* history: batch -> number of the table it was inserted to
  acked,         \* history: batches reported to be in the table
  configured     \* history: ConnectWithConfig was used

process == <<db, tables, dbmu, handles, tmu>>
client  == <<pc, arg>>
hist    == <<made, latestMade, owner, acked, configured>>
vars    == <<disk, process, client, quiet, faults, connects, hist>>

Unopened == 0
NoArg == [h |-> 0]

Failing == MayFail /\ faults < MaxFaults /\ faults' = faults + 1

-----------------------------------------------------------------------------
(* Table directories *)

Newest(dir) == CHOOSE v \in DOMAIN dir : \A w \in DOMAIN dir : w <= v

\* What a reader of the table sees.
Visible(n) == IF DOMAIN disk[n] = {} THEN {} ELSE disk[n][Newest(disk[n])]

NoVersions == [v \in {} |-> {}]

\* A blind write of a manifest; the store makes missing directories.
WriteVersion(n, v, rows) ==
  LET dir == IF n \in DOMAIN disk THEN disk[n] ELSE NoVersions IN
  disk' = [k \in DOMAIN disk \cup {n} |->
             IF k # n THEN disk[k]
             ELSE [w \in DOMAIN dir \cup {v} |-> IF w = v THEN rows ELSE dir[w]]]

-----------------------------------------------------------------------------
(* Connecting *)

\* Connect lists the directories of the path.  ConnectWithConfig lists the
\* path with Store.List, which leaves directories out (local_fs.go:100-102).
Found(kind) == IF kind = "path" THEN DOMAIN disk ELSE {}

Connect(kind) ==
  /\ db # "open" /\ connects < MaxConnects /\ connects' = connects + 1
  /\ \A c \in Clients : pc[c] = "idle"
  /\ db' = "open"
  /\ tables' = [n \in Found(kind) |-> Unopened]
  /\ handles' = <<>> /\ tmu' = <<>>
  /\ configured' = (configured \/ kind = "config")
  /\ UNCHANGED <<disk, dbmu, client, quiet, faults, made, latestMade, owner, acked>>

\* The calls of Database start by taking db.mu; on a closed database they
\* return an error.
DBFree == db = "open" /\ dbmu = NoClient

\* wrapTable: a new api.Table around a table.Table.
NewHandle(n, v, rows, id) ==
  /\ handles' = Append(handles,
       [name |-> n, made |-> id, closed |-> FALSE, nextVersion |-> v, rows |-> rows,
        writer |-> "off", wver |-> 0, pending |-> {}])
  /\ tmu' = Append(tmu, NoClient)
  /\ tables' = [k \in DOMAIN tables \cup {n} |->
                  IF k = n THEN Len(handles) + 1 ELSE tables[k]]

Creatable(n) == n \notin DOMAIN tables

\* CreateTable.  When writing the first manifest fails the directories may
\* have been made.
CreateTable(c, n) ==
  /\ DBFree /\ pc[c] = "idle" /\ Creatable(n)
  /\ made < MaxMade /\ Len(handles) < MaxHandles
  /\ \/ /\ WriteVersion(n, 1, {})
        /\ NewHandle(n, 2, {}, made + 1)
        /\ made' = made + 1
        /\ latestMade' = [k \in DOMAIN latestMade \cup {n} |->
                            IF k = n THEN made + 1 ELSE latestMade[k]]
        /\ UNCHANGED faults
     \/ /\ Failing
        /\ \/ UNCHANGED disk
           \/ /\ n \notin DOMAIN disk
              /\ disk' = [k \in DOMAIN disk \cup {n} |->
                            IF k = n THEN NoVersions ELSE disk[k]]
        /\ UNCHANGED <<handles, tmu, tables, made, latestMade>>
  /\ UNCHANGED <<db, dbmu, client, quiet, connects, owner, acked, configured>>

\* Mutant: every OpenTable makes a new handle.
Cached_Never(n) == FALSE

\* A table that was opened once stays cached, closed or not.
Cached(n) == tables[n] # Unopened

\* OpenTable, when it makes a new handle: a cached one it just returns.
OpenTable(c, n) ==
  /\ DBFree /\ pc[c] = "idle" /\ n \in DOMAIN tables /\ ~Cached(n)
  /\ Len(handles) < MaxHandles
  /\ n \in DOMAIN disk /\ DOMAIN disk[n] # {}
  /\ NewHandle(n, Newest(disk[n]) + 1, Visible(n),
               IF n \in DOMAIN latestMade THEN latestMade[n] ELSE 0)
  /\ UNCHANGED <<disk, db, dbmu, client, quiet, faults, connects, hist>>

-----------------------------------------------------------------------------
(* Using a table *)

\* No call but c's own is under way on handle h.
Unused(h, c) == \A d \in Clients \ {c} : pc[d] = "idle" \/ arg[d].h # h

\* A quiet application closes and drops a table when no other call on it is
\* under way, calls nothing on it while it does, and does not call Insert on a
\* table while its async writer runs, nor start one beside an Insert.  The code
\* enforces none of this; an application that is not quiet does all of it.
Quiet(h, c) == quiet => Unused(h, c)

Closing(d, h) ==
  /\ pc[d] \in {"close", "closing", "closed", "failed"}
  /\ h = arg[d].h \/ (arg[d].for = "db" /\ h \in arg[d].left)

Calm(h, c) == quiet => \A d \in Clients \ {c} : ~Closing(d, h)

\* What a call sees under RLock: nobody is in Close, and the table is open.
Usable(h) == tmu[h] = NoClient /\ ~handles[h].closed

Goto(c, label, a) == pc' = [pc EXCEPT ![c] = label] /\ arg' = [arg EXCEPT ![c] = a]
ReturnOf(c) == Goto(c, "idle", NoArg)

\* Insert: closed is checked, and the lock released.
InsertCall(c, h, b) ==
  /\ db # "none" /\ pc[c] = "idle" /\ Usable(h) /\ Calm(h, c)
  /\ (quiet => handles[h].writer = "off") /\ b \notin DOMAIN owner
  /\ owner' = [k \in DOMAIN owner \cup {b} |-> IF k = b THEN handles[h].made ELSE owner[k]]
  /\ Goto(c, "insert", [h |-> h, batch |-> b])
  /\ UNCHANGED <<disk, process, quiet, faults, connects, made, latestMade, acked, configured>>

\* Insert: table.BatchInsert on whatever the directory is now.
Insert(c) ==
  LET h == arg[c].h
      rows == handles[h].rows \cup {arg[c].batch} IN
  /\ pc[c] = "insert"
  /\ \/ /\ WriteVersion(handles[h].name, handles[h].nextVersion, rows)
        /\ handles' = [handles EXCEPT ![h].nextVersion = @ + 1, ![h].rows = rows]
        /\ acked' = acked \cup {arg[c].batch}
        /\ UNCHANGED faults
     \/ /\ Failing
        /\ \E used \in {0, 1} : handles' = [handles EXCEPT ![h].nextVersion = @ + used]
        /\ UNCHANGED <<disk, acked>>
  /\ ReturnOf(c)
  /\ UNCHANGED <<db, tables, dbmu, tmu, quiet, connects, made, latestMade, owner, configured>>

\* StartAsyncWriter: the writer reads the newest version of the directory.
StartAsyncWriter(c, h) ==
  /\ db # "none" /\ pc[c] = "idle" /\ Usable(h)
  /\ handles[h].writer = "off"
  /\ (quiet => \A d \in Clients : pc[d] = "insert" => arg[d].h # h)
  /\ LET n == handles[h].name IN
     handles' = [handles EXCEPT ![h].writer = "on",
       ![h].wver = IF n \in DOMAIN disk /\ DOMAIN disk[n] # {}
                   THEN Newest(disk[n]) + 1 ELSE 1]
  /\ UNCHANGED <<disk, db, tables, dbmu, tmu, client, quiet, faults, connects, hist>>

\* InsertAsync: under the lock, into the writer's channel.
InsertAsync(c, h, b) ==
  /\ db # "none" /\ pc[c] = "idle" /\ Usable(h)
  /\ handles[h].writer = "on" /\ b \notin DOMAIN owner
  /\ handles' = [handles EXCEPT ![h].pending = @ \cup {b}]
  /\ owner' = [k \in DOMAIN owner \cup {b} |-> IF k = b THEN handles[h].made ELSE owner[k]]
  /\ UNCHANGED <<disk, db, tables, dbmu, tmu, client, quiet, faults, connects, made,
                 latestMade, acked, configured>>

\* The writer's flush: the pending batches on top of the newest version.
Flushed(h) ==
  LET t == handles[h]
      base == IF t.name \in DOMAIN disk THEN Visible(t.name) ELSE {} IN
  /\ WriteVersion(t.name, t.wver, base \cup t.pending)
  /\ acked' = acked \cup t.pending

\* Flush: closed is checked, and the lock released.
FlushCall(c, h) ==
  /\ db # "none" /\ pc[c] = "idle" /\ Usable(h) /\ handles[h].writer = "on"
  /\ Calm(h, c) /\ Goto(c, "flush", [h |-> h])
  /\ UNCHANGED <<disk, process, quiet, faults, connects, hist>>

\* Flush: the writer answers, or it has stopped in between.
Flush(c) ==
  LET h == arg[c].h IN
  /\ pc[c] = "flush"
  /\ \/ /\ handles[h].writer = "on" /\ handles[h].pending # {}
        /\ Flushed(h)
        /\ handles' = [handles EXCEPT ![h].pending = {}, ![h].wver = @ + 1]
        /\ UNCHANGED faults
     \/ /\ handles[h].writer = "on" /\ handles[h].pending # {} /\ Failing
        /\ UNCHANGED <<disk, handles, acked>>
     \/ /\ handles[h].writer = "stopped" \/ handles[h].pending = {}
        /\ UNCHANGED <<disk, handles, acked, faults>>
  /\ ReturnOf(c)
  /\ UNCHANGED <<db, tables, dbmu, tmu, quiet, connects, made, latestMade, owner, configured>>

-----------------------------------------------------------------------------
(* Table.Close, and its callers *)

\* Close of a table by its user.
CloseCall(c, h) ==
  /\ db # "none" /\ pc[c] = "idle" /\ Quiet(h, c)
  /\ Goto(c, "close", [h |-> h, for |-> "user"])
  /\ UNCHANGED <<disk, process, quiet, faults, connects, hist>>

\* Close: t.mu.Lock; a second Close returns nil.
CloseLock(c) ==
  LET h == arg[c].h IN
  /\ pc[c] = "close" /\ tmu[h] = NoClient
  /\ IF handles[h].closed
     THEN /\ pc' = [pc EXCEPT ![c] = "closed"]
          /\ UNCHANGED <<handles, tmu>>
     ELSE /\ handles' = [handles EXCEPT ![h].closed = TRUE]
          /\ tmu' = [tmu EXCEPT ![h] = c]
          /\ pc' = [pc EXCEPT ![c] = "closing"]
  /\ UNCHANGED <<disk, db, tables, dbmu, arg, quiet, faults, connects, hist>>

\* Mutant: the writer stops without a flush.
FinalFlush_Skipped(h) == acked' = acked \cup handles[h].pending /\ UNCHANGED disk

\* What writer.Close flushes before the writer stops.
FinalFlush(h) ==
  IF handles[h].writer = "on" /\ handles[h].pending # {} THEN Flushed(h)
  ELSE UNCHANGED <<disk, acked>>

\* Mutant: an early return without the Unlock.
Unlock_OnSuccess(c) ==
  tmu' = IF pc'[c] = "closed" THEN [tmu EXCEPT ![arg[c].h] = NoClient] ELSE tmu

\* The deferred t.mu.Unlock of Close.
Unlock(c) == tmu' = [tmu EXCEPT ![arg[c].h] = NoClient]

\* Close: the writer stops.  An error of its last flush is Close's error.
CloseWriter(c) ==
  LET h == arg[c].h
      stopped == [handles EXCEPT ![h].writer = IF @ = "on" THEN "stopped" ELSE @,
                                 ![h].pending = {}] IN
  /\ pc[c] = "closing"
  /\ \/ FinalFlush(h) /\ pc' = [pc EXCEPT ![c] = "closed"] /\ UNCHANGED faults
     \/ /\ handles[h].writer = "on" /\ handles[h].pending # {} /\ Failing
        /\ pc' = [pc EXCEPT ![c] = "failed"] /\ UNCHANGED <<disk, acked>>
  /\ handles' = stopped
  /\ Unlock(c)
  /\ UNCHANGED <<db, tables, dbmu, arg, quiet, connects, made, latestMade, owner, configured>>

\* Close has returned to the user.
CloseDone(c) ==
  /\ pc[c] \in {"closed", "failed"} /\ arg[c].for = "user"
  /\ ReturnOf(c)
  /\ UNCHANGED <<disk, process, quiet, faults, connects, hist>>

\* DropTable: db.mu, then Close of the table when it is open.
DropCall(c, n) ==
  /\ DBFree /\ pc[c] = "idle" /\ n \in DOMAIN tables
  /\ tables[n] # Unopened => Quiet(tables[n], c)
  /\ dbmu' = c
  /\ Goto(c, IF tables[n] = Unopened THEN "closed" ELSE "close",
          [h |-> tables[n], for |-> "drop", name |-> n])
  /\ UNCHANGED <<disk, db, tables, handles, tmu, quiet, faults, connects, hist>>

Forget(n) == tables' = [k \in DOMAIN tables \ {n} |-> tables[k]]

\* Mutant: the files of the directory are not removed.
Removed_Nothing(n) == disk

Removed(n) == [k \in DOMAIN disk \ {n} |-> disk[k]]

\* DropTable: the directory is removed, wholly or, when that fails, in part.
DropRemove(c) ==
  LET n == arg[c].name IN
  /\ pc[c] = "closed" /\ arg[c].for = "drop"
  /\ \/ /\ disk' = Removed(n)
        /\ Forget(n) /\ UNCHANGED faults
     \/ /\ n \in DOMAIN disk /\ Failing
        /\ \/ disk' = Removed(n)
           \/ \E left \in SUBSET DOMAIN disk[n] :
                disk' = [disk EXCEPT ![n] = [v \in left |-> disk[n][v]]]
        /\ UNCHANGED tables
  /\ acked' = {b \in acked : n \notin DOMAIN latestMade \/ owner[b] # latestMade[n]}
  /\ dbmu' = NoClient /\ ReturnOf(c)
  /\ UNCHANGED <<db, handles, tmu, quiet, connects, made, latestMade, owner, configured>>

\* DropTable returns the error of Close.
DropFails(c) ==
  /\ pc[c] = "failed" /\ arg[c].for = "drop"
  /\ dbmu' = NoClient /\ ReturnOf(c)
  /\ UNCHANGED <<disk, db, tables, handles, tmu, quiet, faults, connects, hist>>

\* Database.Close: db.mu, then Close of every table, whose errors are dropped.
DBClose(c) ==
  /\ DBFree /\ pc[c] = "idle"
  /\ \A n \in DOMAIN tables : tables[n] # Unopened => Quiet(tables[n], c)
  /\ dbmu' = c /\ db' = "closed"
  /\ Goto(c, "closed", [h |-> 0, for |-> "db",
                        left |-> {tables[n] : n \in DOMAIN tables} \ {Unopened}])
  /\ UNCHANGED <<disk, tables, handles, tmu, quiet, faults, connects, hist>>

DBCloseNext(c) ==
  /\ pc[c] \in {"closed", "failed"} /\ arg[c].for = "db"
  /\ \/ \E h \in arg[c].left :
          /\ Goto(c, "close", [h |-> h, for |-> "db", left |-> arg[c].left \ {h}])
          /\ UNCHANGED <<tables, dbmu>>
     \/ /\ arg[c].left = {}
        /\ tables' = [n \in {} |-> Unopened]
        /\ dbmu' = NoClient /\ ReturnOf(c)
  /\ UNCHANGED <<disk, db, handles, tmu, quiet, faults, connects, hist>>

-----------------------------------------------------------------------------
(* The specification *)

Init ==
  /\ disk = [n \in {} |-> NoVersions]
  /\ db = "none" /\ tables = [n \in {} |-> Unopened] /\ dbmu = NoClient
  /\ handles = <<>> /\ tmu = <<>>
  /\ pc = [c \in Clients |-> "idle"] /\ arg = [c \in Clients |-> NoArg]
  /\ quiet \in BOOLEAN
  /\ faults = 0 /\ connects = 0
  /\ made = 0 /\ latestMade = [n \in {} |-> 0] /\ owner = [b \in {} |-> 0]
  /\ acked = {} /\ configured = FALSE

\* What a client does of itself in a call.
Step(c) ==
  \/ Insert(c) \/ Flush(c) \/ CloseWriter(c) \/ CloseDone(c)
  \/ DropRemove(c) \/ DropFails(c) \/ DBCloseNext(c)

Call(c) ==
  \/ \E n \in Names : CreateTable(c, n) \/ OpenTable(c, n) \/ DropCall(c, n)
  \/ \E h \in DOMAIN handles :
       \/ StartAsyncWriter(c, h) \/ FlushCall(c, h) \/ CloseCall(c, h)
       \/ \E b \in Batches : InsertCall(c, h, b) \/ InsertAsync(c, h, b)
  \/ DBClose(c)

Next ==
  \/ \E kind \in ConnectKinds : Connect(kind)
  \/ \E c \in Clients : Call(c) \/ Step(c) \/ CloseLock(c)

Spec == Init /\ [][Next]_vars

-----------------------------------------------------------------------------
(* Properties *)

\* connection.go:181-203, 221-236.  Two open handles of one table would be two
\* mutexes, two caches and two sets of counters for one directory: whatever was
\* opened, closed, dropped and created again, there is one.
OneOpenHandle ==
  \A g, h \in DOMAIN handles :
    ~handles[g].closed /\ ~handles[h].closed /\ handles[g].name = handles[h].name => g = h

InTable(b) ==
  \E n \in DOMAIN disk : n \in DOMAIN latestMade /\ latestMade[n] = owner[b] /\ b \in Visible(n)

\* api/table.go:107-129, 205-219, 279-298; connection.go:206-239.  A batch that
\* Insert, Flush or Close reported is in its table until DropTable of that
\* table, as long as the application is quiet (see Quiet: among other things it
\* keeps Insert and the async writer of a table apart, which Insert does not
\* check) and connects by path.
AckedDurable == quiet /\ ~configured => \A b \in acked : InTable(b)

\* The same for applications that connect by configuration, too.  It relies on
\* CreateTable: "Returns ErrConflict if a table with that name already exists."
\* (connection.go:157)
AckedDurableConfig == quiet => \A b \in acked : InTable(b)

\* connection.go:206-239.  A table created after DropTable starts empty, and
\* never shows a row of the one that was dropped.
NoGhostRows ==
  quiet /\ ~configured => \A n \in DOMAIN disk \cap DOMAIN latestMade :
    \A b \in Visible(n) : owner[b] = latestMade[n]

\* api/table.go:280-298, connection.go:144-150, 221-225.  No deadlock: while a
\* call is under way some call can go on, although Close waits for the writer
\* with t.mu held, and DropTable and Database.Close wait for Close with db.mu
\* held.
NeverStuck ==
  (\E c \in Clients : pc[c] # "idle") =>
    \E c \in Clients : ENABLED (Step(c) \/ CloseLock(c))
=============================================================================
