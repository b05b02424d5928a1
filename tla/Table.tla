------------------------------- MODULE Table -------------------------------
(***************************************************************************)
(* table/table.go: one Table object on a table directory, its readers, and *)
(* an AsyncWriter on the same directory.                                   *)
(*                                                                         *)
(* BatchInsert, AddColumn and DropColumn hold t.mu from beginning to end,  *)
(* so there is one mutation under way at most (pc, op).  LatestManifest    *)
(* and CheckoutVersion take t.mu only to look into the cache.  The         *)
(* AsyncWriter takes no lock of the table and has counters of its own; of  *)
(* it only the start and a successful flush are here, the rest is in the   *)
(* module AsyncWriter.  A manifest write is two steps, as os.WriteFile     *)
(* truncates the file before it fills it.  Store calls may fail, the       *)
(* process may crash, and the table can be opened again.                   *)
(*                                                                         *)
(* A field is its id, which is all the program has to tell fields by: the  *)
(* id of a dropped column that was the highest is given again.             *)
(***************************************************************************)
EXTENDS Manifests, FiniteSets, SequencesExt

CONSTANTS
  InitialColumns, \* the column names the table is created with, a sequence
  Addable,        \* the column names AddColumn is called with
  Droppable,      \* the column names DropColumn is called with
  Batches,        \* the row batches inserted, each at most once
  Readers,
  CacheLimit,     \* NewVersionManager(10)
  WithWriter,     \* an AsyncWriter may be started
  Disciplined,    \* the application keeps its two writers apart, see Apart
  Faults,         \* kinds of failure considered
  MaxFaults,      \* bound: failures and crashes of a behaviour
  MaxVersion,     \* bound: no new mutation or flush beyond this version
  MaxAdds,        \* bound: AddColumn calls that change the table
  MaxOpens        \* bound: times the table is opened

FaultKinds == {"fail",    \* a store call fails and has no effect
               "torn",    \* a Write leaves the file truncated and errs
               "ack",     \* a Write takes effect and still errs
               "crash"}   \* the process dies

ASSUME NamesAssumption == InitialColumns \in Seq(STRING) /\ InitialColumns # <<>>
ASSUME LimitsAssumption ==
  /\ CacheLimit \in Nat \ {0} /\ MaxFaults \in Nat /\ MaxVersion \in Nat
  /\ MaxAdds \in Nat /\ MaxOpens \in Nat
  /\ WithWriter \in BOOLEAN /\ Disciplined \in BOOLEAN
ASSUME TableFaultsAssumption == Faults \subseteq FaultKinds

VARIABLES
  manifests,     \* version -> manifest file
  files,         \* <<fragment id, column id>> -> batch, or "torn"
  open,          \* there is a Table object
  schema,        \* t.schema: column name -> its id
  nextVersion, nextFragmentID,
  cached,        \* t.versionMgr: version -> manifest
  pc, op,        \* the mutation under way
  rpc, rver,     \* per reader: where it is, the version it is after
  rres,          \* rres[r]: the manifest its call returned, or why not
  wpc, wschema, wver, wfrag, wbase, wfragment,  \* the AsyncWriter
  faults, adds, opens,
  inserted,      \* history: batches BatchInsert or flush was called with
  committed,     \* history: versions whose mutation reported success
  floor          \* history: floor[r], the newest of them when r called

disk   == <<manifests, files>>
object == <<open, schema, nextVersion, nextFragmentID, cached>>
reads  == <<rpc, rver, rres, floor>>
writer == <<wpc, wschema, wver, wfrag, wbase, wfragment>>
bounds == <<faults, adds, opens>>
vars   == <<disk, object, pc, op, reads, writer, bounds, inserted, committed>>

Fault(kind) == kind \in Faults /\ faults < MaxFaults /\ faults' = faults + 1

-----------------------------------------------------------------------------
(* Schemas and manifests *)

Ids(s) == {s[n] : n \in DOMAIN s}

\* NewSchema assigns sequential ids from 0.
NewSchema ==
  [n \in ToSet(InitialColumns) |->
     (CHOOSE i \in DOMAIN InitialColumns : InitialColumns[i] = n) - 1]

\* AddColumn: one more than the largest id, which is at least 0.
NextFieldID ==
  (CHOOSE m \in Ids(schema) \cup {0} :
     \A id \in Ids(schema) : id <= m) + 1

TableManifest(s, frags, max) ==
  [whole |-> TRUE, frags |-> frags, max |-> max, schema |-> s]

\* versionMgr.Latest: the highest cached version.
CachedLatest == cached[LatestVersion(cached)]

\* versionMgr.Publish: insert, then evict the oldest down to the limit.
Publish(v, m) ==
  LET all == Put(cached, v, m)
      newer(w) == {x \in DOMAIN all : x > w}
  IN [w \in {x \in DOMAIN all : Cardinality(newer(x)) < CacheLimit} |-> all[w]]

-----------------------------------------------------------------------------
(* Opening and closing *)

NoOp == [kind |-> "none"]
NoManifest == [why |-> "none"]
ErrManifest == [why |-> "err"]

\* A Table object as NewTable or Open leave it.
Opened(s, version, frag, v, m) ==
  /\ open' = TRUE /\ schema' = s
  /\ nextVersion' = version /\ nextFragmentID' = frag
  /\ cached' = [w \in {v} |-> m]

\* Nothing of the process is left.
Gone ==
  /\ open' = FALSE /\ schema' = [n \in {} |-> 0]
  /\ nextVersion' = 1 /\ nextFragmentID' = 0
  /\ cached' = [w \in {} |-> 0]
  /\ pc' = "idle" /\ op' = NoOp
  /\ rpc' = [r \in Readers |-> "idle"] /\ rver' = [r \in Readers |-> 0]
  /\ rres' = [r \in Readers |-> NoManifest] /\ floor' = [r \in Readers |-> 0]
  /\ wpc' = "off" /\ wschema' = [n \in {} |-> 0] /\ wver' = 0 /\ wfrag' = 0
  /\ wbase' = TornManifest /\ wfragment' = [id |-> 0, cols |-> {}]

\* Create, on a directory without a table: the manifest of version 1.
Create ==
  /\ ~open /\ DOMAIN manifests = {}
  /\ LET m == TableManifest(NewSchema, <<>>, 0) IN
     \/ /\ manifests' = Put(manifests, 1, m)
        /\ Opened(NewSchema, 2, 0, 1, m)
        /\ committed' = {1}
        /\ UNCHANGED faults
     \/ /\ \/ Fault("fail") /\ UNCHANGED manifests
           \/ Fault("torn") /\ manifests' = Put(manifests, 1, TornManifest)
           \/ Fault("ack") /\ manifests' = Put(manifests, 1, m)
        /\ UNCHANGED <<object, committed>>
  /\ UNCHANGED <<files, pc, op, reads, writer, adds, opens, inserted>>

\* Mutant: the next fragment id is the number of fragments.
FirstFreeFragment_Count(m) == Len(m.frags)

\* Open: nextFragmentID.
FirstFreeFragment(m) == m.max + 1

\* Open, of the newest manifest, which has to be whole.
Open ==
  /\ ~open /\ DOMAIN manifests # {}
  /\ opens < MaxOpens /\ opens' = opens + 1
  /\ LET latest == LatestVersion(manifests)
         m == manifests[latest] IN
     /\ Readable(manifests, latest)
     /\ Opened(m.schema, latest + 1, FirstFreeFragment(m), latest, m)
  /\ UNCHANGED <<disk, pc, op, reads, writer, faults, adds, inserted, committed>>

\* The process closes the table when nothing is under way, or dies.  A
\* manifest being written stays truncated.
Stop ==
  /\ open
  /\ \/ /\ pc = "idle" /\ wpc \in {"off", "idle"} /\ \A r \in Readers : rpc[r] = "idle"
        /\ UNCHANGED faults
     \/ Fault("crash")
  /\ Gone
  /\ UNCHANGED <<disk, adds, opens, inserted, committed>>

-----------------------------------------------------------------------------
(* BatchInsert, AddColumn, DropColumn *)

\* t.mu is free.
Mutable ==
  /\ open /\ pc = "idle" /\ nextVersion <= MaxVersion
  /\ Disciplined => wpc = "off"

\* The deferred Unlock.
Return == pc' = "idle" /\ op' = NoOp

\* The batch was made for a schema the table has, or has had.
InsertCall(b) ==
  /\ Mutable /\ b \notin inserted
  /\ \E v \in {w \in DOMAIN manifests : manifests[w].whole} :
       op' = [kind |-> "insert", batch |-> b, left |-> Ids(manifests[v].schema),
              cols |-> {}]
  /\ pc' = "column" /\ inserted' = inserted \cup {b}
  /\ UNCHANGED <<disk, object, reads, writer, bounds, committed>>

\* WriteBatch writes the columns in map order; the file is overwritten blindly.
InsertColumn(id) ==
  /\ pc = "column" /\ id \in op.left /\ id \in Ids(schema)
  /\ files' = Put(files, <<nextFragmentID, id>>, op.batch)
  /\ op' = [op EXCEPT !.left = @ \ {id}, !.cols = @ \cup {id}]
  /\ UNCHANGED <<manifests, object, pc, reads, writer, bounds, inserted, committed>>

\* WriteColumn fails: the schema has no such id, or the store fails before or
\* in the middle of the write, or in the Size call after it.
InsertColumnFails(id) ==
  /\ pc = "column" /\ id \in op.left
  /\ \/ id \notin Ids(schema) /\ UNCHANGED <<files, faults>>
     \/ /\ id \in Ids(schema)
        /\ \/ Fault("fail") /\ UNCHANGED files
           \/ /\ Fault("torn")
              /\ files' = Put(files, <<nextFragmentID, id>>, "torn")
           \/ /\ Fault("fail")
              /\ files' = Put(files, <<nextFragmentID, id>>, op.batch)
  /\ Return
  /\ UNCHANGED <<manifests, object, reads, writer, adds, opens, inserted, committed>>

\* The mutation's manifest is ready: the counters move before it is written.
Prepare(kind, version, m, s) ==
  /\ pc' = "write"
  /\ op' = [kind |-> kind, version |-> version, manifest |-> m, schema |-> s]
  /\ nextVersion' = version + 1

\* Mutant: the fragment is appended to nothing.
InsertPrepare_NoBase ==
  /\ pc = "column" /\ op.left = {}
  /\ Prepare("insert", nextVersion,
             TableManifest(schema, <<[id |-> nextFragmentID, cols |-> op.cols]>>,
                           nextFragmentID), schema)
  /\ nextFragmentID' = nextFragmentID + 1
  /\ UNCHANGED <<disk, open, schema, cached, reads, writer, bounds, inserted, committed>>

\* Every column is written: the fragment is appended to those of the newest
\* manifest in the cache.
InsertPrepare ==
  /\ pc = "column" /\ op.left = {}
  /\ Prepare("insert", nextVersion,
             TableManifest(schema,
                           Append(CachedLatest.frags,
                                  [id |-> nextFragmentID, cols |-> op.cols]),
                           nextFragmentID), schema)
  /\ nextFragmentID' = nextFragmentID + 1
  /\ UNCHANGED <<disk, open, schema, cached, reads, writer, bounds, inserted, committed>>

\* AddColumn and DropColumn keep the fragments.
Evolve(kind, s) ==
  /\ Prepare(kind, nextVersion,
             TableManifest(s, CachedLatest.frags, CachedLatest.max), s)
  /\ UNCHANGED <<disk, open, schema, nextFragmentID, cached, reads, writer,
                 faults, opens, inserted, committed>>

AddColumn(n) ==
  /\ Mutable /\ n \notin DOMAIN schema /\ adds < MaxAdds
  /\ adds' = adds + 1
  /\ Evolve("add", Put(schema, n, NextFieldID))

DropColumn(n) ==
  /\ Mutable /\ n \in DOMAIN schema
  /\ Evolve("drop", [k \in DOMAIN schema \ {n} |-> schema[k]])
  /\ UNCHANGED adds

\* Mutant: the cache is updated before the file is written.
WriteManifest_CacheFirst ==
  /\ pc = "write" /\ pc' = "fill"
  /\ manifests' = Put(manifests, op.version, TornManifest)
  /\ cached' = Publish(op.version, op.manifest)
  /\ UNCHANGED <<files, open, schema, nextVersion, nextFragmentID, op, reads, writer,
                 bounds, inserted, committed>>

\* manifestStore.Write, of a version that is never checked to be free.
WriteManifest ==
  /\ pc = "write" /\ pc' = "fill"
  /\ manifests' = Put(manifests, op.version, TornManifest)
  /\ UNCHANGED <<files, object, op, reads, writer, bounds, inserted, committed>>

FillManifest ==
  /\ pc = "fill" /\ pc' = "publish"
  /\ manifests' = Put(manifests, op.version, op.manifest)
  /\ UNCHANGED <<files, object, op, reads, writer, bounds, inserted, committed>>

\* The write fails; the counters stay advanced, schema and cache are as before.
WriteManifestFails ==
  /\ \/ pc = "write" /\ Fault("fail") /\ UNCHANGED manifests
     \/ pc = "fill" /\ Fault("torn") /\ UNCHANGED manifests
     \/ /\ pc = "fill" /\ Fault("ack")
        /\ manifests' = Put(manifests, op.version, op.manifest)
  /\ Return
  /\ UNCHANGED <<files, object, reads, writer, adds, opens, inserted, committed>>

\* The schema and the cache follow, and the call returns nil.
Publishing ==
  /\ pc = "publish"
  /\ schema' = op.schema
  /\ cached' = Publish(op.version, op.manifest)
  /\ committed' = committed \cup {op.version}
  /\ Return
  /\ UNCHANGED <<disk, open, nextVersion, nextFragmentID, reads, writer, bounds, inserted>>

-----------------------------------------------------------------------------
(* LatestManifest, CheckoutVersion *)

NewestCommitted ==
  IF committed = {} THEN 0 ELSE CHOOSE v \in committed : \A w \in committed : w <= v

LatestCall(r) ==
  /\ open /\ rpc[r] = "idle"
  /\ rpc' = [rpc EXCEPT ![r] = "list"] /\ rres' = [rres EXCEPT ![r] = NoManifest]
  /\ rver' = [rver EXCEPT ![r] = 0]
  /\ floor' = [floor EXCEPT ![r] = NewestCommitted]
  /\ UNCHANGED <<disk, object, pc, op, writer, bounds, inserted, committed>>

CheckoutCall(r, v) ==
  /\ open /\ rpc[r] = "idle"
  /\ rpc' = [rpc EXCEPT ![r] = "cache"] /\ rres' = [rres EXCEPT ![r] = NoManifest]
  /\ rver' = [rver EXCEPT ![r] = v]
  /\ floor' = [floor EXCEPT ![r] = v]
  /\ UNCHANGED <<disk, object, pc, op, writer, bounds, inserted, committed>>

\* Mutant: the cache is trusted to know the newest version.
ReadList_FromCache(r) ==
  /\ rpc[r] = "list" /\ rpc' = [rpc EXCEPT ![r] = "cache"]
  /\ rver' = [rver EXCEPT ![r] = LatestVersion(cached)]
  /\ UNCHANGED <<disk, object, pc, op, rres, floor, writer, bounds, inserted, committed>>

\* manifestStore.LatestVersion
ReadList(r) ==
  /\ rpc[r] = "list" /\ rpc' = [rpc EXCEPT ![r] = "cache"]
  /\ rver' = [rver EXCEPT ![r] = LatestVersion(manifests)]
  /\ UNCHANGED <<disk, object, pc, op, rres, floor, writer, bounds, inserted, committed>>

Got(r, m) ==
  /\ rpc' = [rpc EXCEPT ![r] = "idle"]
  /\ rres' = [rres EXCEPT ![r] = m]
  /\ UNCHANGED <<disk, object, pc, op, rver, floor, writer, bounds, inserted, committed>>

\* Mutant: the cache, which has a lock of its own, is read without t.mu.
ReadCache_NoLock(r) ==
  /\ rpc[r] = "cache"
  /\ \/ rver[r] \in DOMAIN cached /\ Got(r, cached[rver[r]])
     \/ /\ rver[r] \notin DOMAIN cached
        /\ rpc' = [rpc EXCEPT ![r] = "read"]
        /\ UNCHANGED <<disk, object, pc, op, rver, rres, floor, writer, bounds,
                       inserted, committed>>

\* versionMgr.Get under t.mu.RLock: not while a mutation is under way.
ReadCache(r) ==
  /\ rpc[r] = "cache" /\ pc = "idle"
  /\ \/ rver[r] \in DOMAIN cached /\ Got(r, cached[rver[r]])
     \/ /\ rver[r] \notin DOMAIN cached
        /\ rpc' = [rpc EXCEPT ![r] = "read"]
        /\ UNCHANGED <<disk, object, pc, op, rver, rres, floor, writer, bounds,
                       inserted, committed>>

\* manifestStore.Read, of whatever the file is at this moment.
ReadDisk(r) ==
  /\ rpc[r] = "read"
  /\ Got(r, IF Readable(manifests, rver[r]) THEN manifests[rver[r]] ELSE ErrManifest)

-----------------------------------------------------------------------------
(* An AsyncWriter on the directory *)

\* The code lets a writer and the table's own mutations run at any time.  A
\* disciplined application does not: it starts a writer when no mutation is
\* under way and the newest manifest is whole, and mutates the table no more
\* until it has closed it and opened it again.
Apart == pc = "idle" /\ Readable(manifests, LatestVersion(manifests))

\* StartAsyncWriter: the writer takes the schema of this moment for good, and
\* its counters from the newest manifest.
StartWriter ==
  /\ WithWriter /\ open /\ wpc = "off" /\ (Disciplined => Apart)
  /\ LET latest == LatestVersion(manifests) IN
     /\ wver' = latest + 1
     /\ wfrag' = IF Readable(manifests, latest) THEN manifests[latest].max + 1 ELSE 0
  /\ wschema' = schema /\ wpc' = "idle"
  /\ UNCHANGED <<disk, object, pc, op, reads, wbase, wfragment, bounds, inserted, committed>>

\* flush of one batch: its columns, and the version to build on.
FlushFiles(b) ==
  /\ wpc = "idle" /\ b \notin inserted /\ wver <= MaxVersion
  /\ files' = [p \in DOMAIN files \cup {<<wfrag, id>> : id \in Ids(wschema)} |->
                 IF p[1] = wfrag /\ p[2] \in Ids(wschema)
                 THEN b ELSE files[p]]
  /\ wfragment' = [id |-> wfrag, cols |-> Ids(wschema)]
  /\ wfrag' = wfrag + 1 /\ inserted' = inserted \cup {b} /\ wpc' = "read"
  /\ UNCHANGED <<manifests, object, pc, op, reads, wschema, wver, wbase, bounds, committed>>

\* LatestVersion and Read; an error ends the flush.
FlushRead ==
  /\ wpc = "read"
  /\ LET latest == LatestVersion(manifests) IN
     IF Readable(manifests, latest)
     THEN wbase' = manifests[latest] /\ wpc' = "write"
     ELSE wpc' = "idle" /\ UNCHANGED wbase
  /\ UNCHANGED <<disk, object, pc, op, reads, wschema, wver, wfrag, wfragment, bounds,
                 inserted, committed>>

FlushWrite ==
  /\ wpc = "write" /\ wpc' = "fill"
  /\ manifests' = Put(manifests, wver, TornManifest)
  /\ UNCHANGED <<files, object, pc, op, reads, wschema, wver, wfrag, wbase, wfragment,
                 bounds, inserted, committed>>

FlushFill ==
  /\ wpc = "fill" /\ wpc' = "idle"
  /\ manifests' = Put(manifests, wver,
       TableManifest(wschema, AppendFragment(wbase, wfragment).frags,
                     AppendFragment(wbase, wfragment).max))
  /\ wver' = wver + 1 /\ committed' = committed \cup {wver}
  /\ UNCHANGED <<files, object, pc, op, reads, wschema, wfrag, wbase, wfragment,
                 bounds, inserted>>

-----------------------------------------------------------------------------
(* The specification *)

Init ==
  /\ manifests = [v \in {} |-> TornManifest] /\ files = [p \in {} |-> 0]
  /\ open = FALSE /\ schema = [n \in {} |-> 0]
  /\ nextVersion = 1 /\ nextFragmentID = 0 /\ cached = [v \in {} |-> 0]
  /\ pc = "idle" /\ op = NoOp
  /\ rpc = [r \in Readers |-> "idle"] /\ rver = [r \in Readers |-> 0]
  /\ rres = [r \in Readers |-> NoManifest] /\ floor = [r \in Readers |-> 0]
  /\ wpc = "off" /\ wschema = [n \in {} |-> 0] /\ wver = 0 /\ wfrag = 0
  /\ wbase = TornManifest /\ wfragment = [id |-> 0, cols |-> {}]
  /\ faults = 0 /\ adds = 0 /\ opens = 0
  /\ inserted = {} /\ committed = {}

Mutate ==
  \/ \E b \in Batches : InsertCall(b)
  \/ \E id \in (IF pc = "column" THEN op.left ELSE {}) : InsertColumn(id) \/ InsertColumnFails(id)
  \/ InsertPrepare
  \/ \E n \in Addable : AddColumn(n)
  \/ \E n \in Droppable : DropColumn(n)
  \/ WriteManifest \/ FillManifest \/ WriteManifestFails \/ Publishing

Read(r) ==
  \/ LatestCall(r) \/ ReadList(r) \/ ReadCache(r) \/ ReadDisk(r)
  \/ \E v \in DOMAIN manifests : CheckoutCall(r, v)

Write ==
  \/ StartWriter \/ FlushRead \/ FlushWrite \/ FlushFill
  \/ \E b \in Batches : FlushFiles(b)

Next == Create \/ Open \/ Stop \/ Mutate \/ Write \/ \E r \in Readers : Read(r)

Spec == Init /\ [][Next]_vars

-----------------------------------------------------------------------------
(* Properties *)

Whole == {v \in DOMAIN manifests : manifests[v].whole}

\* table.go:183-331, async_writer.go:234-284.  The versions whose mutation
\* reported success are a history of snapshots: failures, crashes and restarts
\* leave neither a fragment out nor a version rewritten.
History == [v \in committed |-> manifests[v].frags]

Abstract == INSTANCE Snapshots WITH history <- History

ImplementsSnapshots == Abstract!Spec

\* table.go:201-210, 87.  The column files of a committed version are
\* never written again: a fragment id that a failed insert or an older process
\* has used up and nobody refers to may be used again, any other may not.
CommittedFilesImmutable ==
  [][\A v \in committed : \A i \in DOMAIN manifests[v].frags :
       \A c \in manifests[v].frags[i].cols :
         LET p == <<manifests[v].frags[i].id, c>> IN
         p \in DOMAIN files' /\ files'[p] = files[p]]_vars

\* table.go:53-57, 88, 229-232, 280-284.  What the cache has of a version is what its file has:
\* the cache never runs ahead of a write that failed.
CacheMatchesDisk == \A v \in DOMAIN cached : v \in Whole /\ manifests[v] = cached[v]

\* "This ensures data written by AsyncWriter (which bypasses the cache) is
\* visible" (table.go:107-110).  LatestManifest returns a version's manifest
\* that has every fragment committed before it was called; CheckoutVersion
\* the manifest of that version.
ReadsFresh ==
  \A r \in Readers : rres[r] \notin {NoManifest, ErrManifest} /\ rver[r] > 0 =>
    /\ rver[r] >= floor[r] /\ rres[r] = manifests[rver[r]]
    /\ floor[r] > 0 => IsPrefix(manifests[floor[r]].frags, rres[r].frags)

\* table_test.go:358-392.  LatestManifest does not fail beside mutations of the
\* table, although they truncate the file it is about to read: the lock it
\* takes for the cache makes it wait until the version is in the cache.  Beside
\* an AsyncWriter it may fail.
ReadersNeverFail ==
  faults = 0 /\ wpc = "off" => \A r \in Readers : rres[r] # ErrManifest
=============================================================================
