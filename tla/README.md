# GolanceDB: TLA+ specifications and proofs

GolanceDB (`src/`) is an embedded, versioned, columnar store for vectors, written
in Go. This directory holds TLA+ models of its core, the TLC configurations
that check them on small instances, and theorems about them that TLAPS proves for
every value of the constants.

    tlc -workers 2 -config AsyncWriter.cfg MCAsyncWriter.tla     # one run
    tlapm AsyncWriterProofs.tla                                  # one proof module

`PROJECT.json` lists the runs, the theorems, the hazards they are aimed at, for
every definition the source lines it models, and for every property a plausible
slip in the code that would break it (the definitions marked *Mutant*).

## 1. The system

A database is a directory, a table a directory in it. A table directory holds

    _versions/<v>.manifest     one immutable description of the table per version:
                               the schema, the list of fragments, MaxFragmentID
    _versions/_latest          the number of the current version (Commit only)
    data/f<id>/col_<c>.lance   the values of column c in fragment id

Nobody locks the directory. Every writer reads the newest manifest, writes new
column files, and then a manifest with the next version number. `Store.Write`
creates or overwrites blindly and truncates first (`storage/local_fs.go:57`), so
everything rests on each writer choosing versions and fragment ids that nobody has
used, and on the data being there before the manifest that names it.

| part (src/) | state | operations | correct when |
|---|---|---|---|
| `table/async_writer.go` AsyncWriter | `batchCh`, `flushCh`, `closeCh`, `done`, `resultCh`; owned by goroutine `run`: accumulated batch, row count, `fragmentID`, `nextVersion` | Start, Write, Flush, Close, Results; run: select over five cases, drainPending, accumulate, flush | each accepted batch is committed once or its loss is reported; Flush and Close tell the truth and return; committed files and manifests are never rewritten |
| `table/manifest_store.go` ManifestStore | directory `_versions`, a mutex | Write, Read, ReadLatest, ListVersions, LatestVersion, DeleteVersion, Commit | Commit is a compare-and-swap; ReadLatest returns a committed version |
| `table/version_manager.go` VersionManager | cached manifests, the latest pointer, a mutex | Publish (with evict), Get, Latest, Remove, Clear, ListVersions, Count | the latest is the highest cached version; the limit holds; the cache is the newest of what was published |
| `table/table.go` Table | schema, `nextVersion`, `nextFragmentID`, a VersionManager | Create, Open, BatchInsert, AddColumn, DropColumn, LatestManifest, CheckoutVersion, NumRows | versions extend each other; the cache says what the disk says; a reader misses nothing that was committed before its call |
| `table/manifest.go`, `fragment.go`, `schema.go` | records | constructors, JSON | what is read is what was written |
| `table/fragment_writer.go`, `fragment_reader.go` | the columns written so far | WriteColumn, WriteBatch, Finish; ReadColumn | a fragment lists exactly the files it has; mistyped data is refused |
| `storage/` LocalFS, ObjectStore, footer | files, or objects in memory | Write, Read, Size, Exists, List, Delete | a read returns what the last write wrote |
| `storage/buffer_pool.go` BufferPool | a map, an LRU list, bytes used, a mutex | Put (with evict), Get, Remove, Stats | used is the sum of the entries and stays within the capacity; what is evicted is the least recently used |
| `api/connection.go` Database | map of tables, closed | Connect, CreateTable, OpenTable, DropTable, ListTables, Close | one open handle per table; a handle it hands out works |
| `api/table.go` api.Table | table, writer, search, closed, writerOn, an RWMutex | Insert, StartAsyncWriter, InsertAsync, Flush, Search, AddColumn, DropColumn, Close | nothing happens to a closed table; search uses the current schema |
| `query/` | none kept | brute-force top k, scan filter, hybrid plans, merge | both plans return the k nearest matching rows of the whole table, or an error |
| `index/` Flat, IVF-Flat | vectors, centroids, partitions, number of probes; the saved file | Build (k-means), Search, SetNProbes, Save, Load | the partitions belong to the centroids; probing all of them equals the exact search |
| `encode/` | none kept | Encode and Decode of MiniBlockEncoder and ConstantEncoder, compression | decode after encode is the identity; a page that lost its end is not taken for a shorter column |
| `distance/`, `config/`, `api` builders, errors, logger, `examples/` | none | pure functions, configuration | by unit tests |

**Interactions.** `api.Table` owns a `table.Table` and at most one `AsyncWriter`
on the same directory. They share the files and the `ManifestStore` object, but
not the counters: each picks versions and fragment ids from counters it read at
its own start. Client goroutines talk to `run` over channels; `sendResult`
drops a result when nobody receives. `Table` keeps manifests in a
`VersionManager`; `api.Table.Search` reads the newest manifest through it and hands it
to the search components built for the schema of the last refresh.

**What is hard.** Clients race the select of `run`, its shutdown and the
cancellation of its context. A flush is a sequence of store calls any of which
can fail, with a retry by the timer, the next Flush or the final flush. A crash can fall
between any two store calls or truncate the file being written, and the next writer
resumes on what is left. Two writers share one directory. The pointer file is read
in two calls while it is rewritten in two steps. The list of hazards, each at its
line, is in `PROJECT.json`.

## 2. The modules

| module | what it is |
|---|---|
| `Manifests` | the files of a table directory: manifests by version, the blind write, the newest version, building a manifest on another |
| `AsyncWriter` | the background writer with its clients, its context, the store's failures, crashes and restarts |
| `IngestLog` | abstract: batches are accepted, and groups of them appended to a log, in order and once |
| `ManifestStore` | Commit and ReadLatest of several processes through one or more ManifestStore objects |
| `VersionRegister` | abstract: a register moved by compare-and-swap, with an owner per version |
| `VersionManager` | the cache of manifests, eviction step by step |
| `Table` | a Table with its readers, schema evolution, and an AsyncWriter on the same directory; extends `Manifests` |
| `Snapshots` | abstract: a history of snapshots, each one extending the one before |
| `Database` | the tables of a Database, the handles it gives out, the locks and the clients |
| `Search` | Search of a table: filter, vector scan, and the two plans that combine them |
| `BufferPool` | the buffer cache: map, list and byte counter, eviction entry by entry |
| `LRUCache` | abstract: the most recently used entries that fit |
| `ColumnEncoding` | encoding a column into blocks of bytes and decoding it again, with the page cut anywhere |
| `VectorIndex` | the two indexes: k-means round by round, search, save and load |
| `MC*` | model values and bounds |
| `AsyncWriterProofs` | the writer: versions, files and fragment ids; data, log and acknowledgements; the step simulation of `IngestLog` |
| `ManifestStoreProofs`, `VersionManagerProofs`, `TableProofs`, `DatabaseProofs`, `BufferPoolProofs`, `SearchProofs`, `VectorIndexProofs` | theorems and proofs about these modules |

### AsyncWriter

`pc` is where the goroutine `run` is:

| pc | code |
|---|---|
| `off` | before Start, or after a crash |
| `select` | blocked in the select (`async_writer.go:166`) |
| `drain` | in the loop of drainPending, entered from the flush and stop cases |
| `flush` | at the start of flush |
| `column` | in WriteBatch, between two columns (`frag.cols` are written) |
| `read` | LatestVersion has answered, Read of that manifest is next |
| `commit` | the new manifest is built and written next |
| `exited` | run has returned and closed `done` |

One action is one store call, one channel operation, or one iteration of drainPending.
`cause` remembers which case of the select called flush, because the case
decides what becomes of an error: the size case sends it to `resultCh`, the timer
case drops it, the Flush case answers the client (`caller`), the stop case keeps it in
`closeErr` and exits. `Return` is that code. A client (`cpc`) is idle,
offering its channel on `flushCh`, waiting for the answer, or waiting for `done`.
`flushCh` is unbuffered: the rendezvous is `SelectFlush(c)`. `closeCh` and
`done` are the flags `closed` and `done`. `Write` is one action: its select may
choose the buffered send whenever there is room, also when `closeCh` or `done` is
closed, since Go picks among ready cases at random. The choices that return an error change
nothing and are stuttering.

Rows are abstracted to the batches they come with: a column, of a file or of the accumulated
batch, is the sequence of batches whose values it holds. This keeps order,
duplication, loss and the alignment of columns, which is what the properties are
about, and leaves out the values. Which columns a batch has, and the type of each, is kept
(`Kind`), as mergeColumn and WriteColumn fail on a type. Columns are merged and written in Go's
map order, that is in any order.

Failures (`Faults`): a Write or Size call fails (`write`); a write leaves a
truncated file (`torn`); a manifest write takes effect and still errs (`ack`);
LatestVersion fails (`list`); reading a manifest fails (`read`); the process dies
(`crash`), which with `torn` may truncate the file being written. After a crash or an
exit a new writer is started on the directory (`Start`), reading the newest
manifest for its two counters and ignoring an error of that read, as the code does.

The variables `accepted`, `kept` and `due` are history: what Write returned nil
for, the part of it that was sent before Close and cancellation, and what a
client's Flush has to cover. Nothing of the program reads them.

### ManifestStore

Processes call Commit and ReadLatest; `Handle[p]` says which `ManifestStore` object, and
so which mutex, a process uses. A write is two steps, truncation and fill.
`NumDigits` is the length of the decimal number in the pointer file,
because `readAll` asks for the size first and reads that many bytes later
(`manifest_store.go:50-71`): `Leading(v, n)` is the number that the first n digits
of v say. The versions of the run, 8, 9 and 10, have one digit and two, so that what a reader
makes of 10 after it has asked for the size of 9 happens in it, and `ReadsFresh` says what that is. Exists and Size are one step, as nothing deletes the pointer file, and
DeleteVersion is called for superseded versions only. In the repository Commit,
ReadLatest and DeleteVersion are called by tests alone; Table and AsyncWriter use
the blind Write.

### VersionManager

Every operation holds the lock, so each is one action, except that Publish is the
insertion followed by one action per iteration of evict's loop (`evicting`). The
cached manifests themselves do not influence the cache and are left out. `published` is history:
what the cache had at the last removal and what was published since. `KeepsNewest` compares it
with the cache, and so speaks of whole sequences of publications, of versions older than
all cached ones and of versions published twice among them.

### Table

`pc` is where the one mutation is that holds `t.mu`: `column` (in WriteBatch),
`write` (the manifest is ready and the counters have moved), `fill` (the file is
truncated), `publish` (the file is there, schema and cache are not yet). A
reader is in `list` (before LatestVersion), `cache` (before the lookup
under `t.mu`) or `read` (before the file is read). The cache is `VersionManager` without
its loop: `Publish` inserts and keeps the newest `CacheLimit`.

The AsyncWriter is here with what the table can notice of it: the schema and the counters
it takes at its start (`StartWriter`) and a flush that succeeds (`FlushFiles`, `FlushRead`,
`FlushWrite`, `FlushFill`). Failures of flush and the writer's clients are in `AsyncWriter`.
`Disciplined` is a constant: with TRUE the application starts a writer only when the
table is at rest and does not mutate the table again before it has been closed and opened.
Nothing in the code asks for this; section 4 says what happens without it.

A schema is the ids of its fields by name. NextFieldID gives the id of a dropped column again
when that was the highest, and the run makes it do so (`Droppable` has the column `vec`). A version is
`committed` when its mutation reported success; a version whose write failed
may still be on disk, whole, and later versions build on it only after a reopening.

### Database

The calls of Database hold `db.mu` from beginning to end, those of a table hold `t.mu` in
different ways, and that is what the module is about: Close holds it while the
writer flushes, InsertAsync and StartAsyncWriter do all they do under it,
Insert and Flush look at `closed`, let it go, and act (`InsertCall`, then `Insert`). DropTable
and Database.Close are Close with `db.mu` held, and what follows. A table
directory is only the rows of each version; a handle is the counter and the rows its
cache has, and its writer.

`quiet` is a parameter of a behaviour, chosen at the start. A quiet application closes and
drops a table when no other call on it is under way, and does not call Insert on a table while its
async writer runs, nor start the writer beside an Insert. The code enforces neither
(`api/table.go:109-129`). In the other behaviours an Insert that has passed its check may come after
DropTable and bring the directory and its rows back, and an Insert and the writer may write
one version; `OneOpenHandle` and `NeverStuck` hold there, too, the properties about rows do not.
`configured` says that ConnectWithConfig was used (section 4).

### Search

The components, that is a schema, are taken first and the manifest is loaded after it, with
inserts, AddColumn and DropColumn in between. Each loop over the fragments is one action per fragment;
`rowOffset` is the program's variable of that name. filterFirst is filter, then a scan of the
matching rows; searchFirst is the scan, a sort, then the filter. `sort.Slice` is not stable, so rows
at equal distance come in any order. A vector is its distance from the query's vector. A
fragment's columns may be shorter than its rows or missing, as FragmentWriter takes
the longest column for the row count and AddColumn writes no files.

A search fails in the model wherever it does in the code: at a column that the schema or a
fragment lacks, at the manifest or a column file that cannot be read or decoded and at a cancelled context
(`ReadFails`), for a query whose vector is not as long as the column's or that names no vector column
(`fits`, `BeginScan`), at a vector that has no distance from the query's under the metric, that
is, one of the two is zero and the metric is the cosine's, the default (`undefined`; filterFirst only
meets it among the rows that match), and for a filter on a column of a type that evaluateColumn
refuses (like one on an unknown name). `WholeOrError` says that these are all the
reasons and that none of them is passed over, as the tests expect (`api/api_e2e_test.go:29-30`, `97`,
`447-518`). A column that is dropped and added again has the same type; with another one the old files
would be decoded as the new type, as section 4 says of field ids.

### BufferPool

`entries` is the map, `lru` the list, `used` the counter. Each operation holds the mutex and
is one action, except that Put is the insertion (`Put`) followed by one `Evict` per
iteration of evict's loop and `EvictDone`. `ImplementsLRU` maps the pool to `LRUCache` by
leaving out the entries that evict is about to drop. A capacity of 0 turns the pool off, and
one below 0 lets nothing stay, as in the code. Stats and a Get that misses change nothing.

### ColumnEncoding

A behaviour encodes one column and decodes the page, whole or after `Cut`. Encode is one
action; Decode is one action per loop iteration: `DecodeHeader`, a `DecodeBlock` per block,
`DeserializeValue` per string. Bytes are numbers and are kept, because blocks end
anywhere in a value and in the length of a string; the compressed form of a block is the
block behind a magic byte, which is what Decompress fails on. Both encoders and their
conversions are translated byte by byte for numbers that are not negative; a float
is its bit pattern.

### VectorIndex

`index` is the object's fields, `file` what was saved. Build is `BuildCall` (the first centroids),
`Round` for each round of k-means, and `BuildDone` or `BuildFails`; the steps are apart because an
error can end Build in any of them, and no one else sees the object in between.
A centroid without vectors is moved to one chosen at random: any of them. `Search` is one action.
sort.Slice is not stable: `Orders` is every order it may leave, of hits and of centroids.
Vectors have one coordinate, so that every metric is an integer and the means are exact;
cosine is then the sign, with its error for a zero vector. Save overwrites in place and may be
cut short, after which Load refuses the file and leaves the index alone.

## 3. The runs

| run | what it shows |
|---|---|
| `async_writer` | two clients, two batches, two columns, a channel of two, size and timer triggers, cancellation, one failure or crash, one restart: every safety property of the writer, and that it implements `IngestLog` |
| `async_writer_faults` | one client, three batches, of which one lacks a column and one has a mistyped one, and all six kinds of failure: a committed column file holds values of its type, those of each batch once and in the order of acceptance |
| `async_writer_live` | two clients and all six kinds of failure, with fairness: Flush and Close return whatever fails; with a flush interval accepted batches are committed without any further call, unless the newest manifest cannot be read or the writer is gone |
| `version_manager` | seven versions published, evicted and removed in every order under a limit of three: the pointer is at the newest, the limit holds, and the cache is the newest of what was published |
| `manifest_store` | two processes on one object, all four kinds of failure: no lost update, the pointer names a whole manifest, results are truthful, reads are fresh although the version gains a digit, calls return, and the store implements `VersionRegister` |
| `table` | two columns, one dropped and one added, two batches by the table or the writer, a reader, a cache of two, one failure or crash, a second open: fresh reads, cache and disk agree, committed files are not written again although a field id is, and the table implements `Snapshots` |
| `database` | two clients on one name, created twice, two handles, one failing store call, two connections: one open handle, acknowledged rows stay and dropped ones do not return, nobody is stuck |
| `database_config` | the finding of section 4: TLC finds the property violated |
| `search` | twenty queries with every operator, both plans and limits, some that do not fit or meet a zero vector, with a read that fails anywhere, on every table of up to two fragments and three rows: the answer is the nearest of the matching rows of the whole table, or an error |
| `buffer_pool` | pools of capacity -1, 0, 2 and 4, three keys, buffers of length 0 to 3: the counter is the sum, the budget holds, and the pool implements `LRUCache` |
| `column_encoding` | columns of up to three values of four types, two compressions, three block sizes, whole or cut at every byte: what was encoded comes back, and a cut is noticed |
| `vector_index` | both indexes built, rebuilt, saved, loaded and searched under three metrics: partitions belong to centroids, all probes are exact, one probe finds a stored vector |

**Bounds.** `MaxStarts` counts writers on the directory: two are needed for a writer
to resume on what another left. `MaxFaults` is one: a failure followed
by a retry or a restart is where all but double failures are, and the proofs below hold for
any number. `MaxFragID` stops clients from asking for flushes, and the timer from
firing, beyond that fragment id; a failed flush uses up an id, so three leave
room for a failure, a retry and a further flush. Two batches in a channel of two
fill it, and reach the size trigger (2 rows) or stay under it; two columns are
needed for a column to fail after another was written. The run with fairness
has one batch and one column, because what it asks is whether each path of the goroutine
ends: one batch is pending or not, and one failure in any step delays it; `MaxFragID` 3 leaves
room for the failed flush and the retry. In `VersionManager.cfg` the
limit of three is passed by more than one; in `ManifestStore.cfg` the requests
contend for the first version, 8 or 9, and continue to 10, which has a digit more. In `Table.cfg`, `MaxVersion` 4 lets
three mutations or flushes follow Create, and so passes the cache's limit of two,
`MaxOpens` 1 is one reopening, `MaxAdds` 1 one AddColumn. `Droppable` is the columns with
the lowest id and with the highest, which AddColumn then gives again. In `Database.cfg`, `MaxMade` 2 creates
the name again, `MaxHandles` counts Table objects per process, `MaxConnects` 2 is one
restart; the names are independent of each other, so there is one. In `Search.cfg`, two fragments
are needed for an offset, two rows for a short column, and two distances and tags for an
order; `MaxTotal` 3 makes one fragment the longer one. In `BufferPool.cfg` the capacity of 4
holds two buffers or three, and the buffer of 3 does not fit a pool of 2. In `ColumnEncoding.cfg` a
block of 3 bytes ends inside every value and every length, one of 8 on the border of an int64, and the default of
12 stands for the code's, which is larger than the column here too for a few values; the numbers
need one byte or two, the strings have none, one or two. In `VectorIndex.cfg` there are up to four vectors, in
as many partitions as asked for or fewer, among them equal, opposite and zero ones and a group
whose mean is zero, and three rounds of k-means end before, with or after convergence.

`CHECK_DEADLOCK FALSE` is set where the system may rightly stop: the writer after Close and
the last permitted Start; a table whose newest manifest was truncated by a
crash, which Open refuses for ever, or that has used up its versions;
a database that was closed and may not connect again; a buffer pool whose capacity is 0; a column that was decoded.

**Fairness.** For the writer: weak fairness of the steps `run` takes
between two selects and of a client's return, because a goroutine that can run does;
strong fairness of each case of the select, because Go chooses uniformly among ready
cases, so a case that is ready again and again is not passed over for ever. For
ManifestStore: weak fairness of a process's steps, and strong fairness of Lock, because a
waiter on Go's mutex is handed it after it has starved for a millisecond. No call, cancellation,
tick without rows, failure, crash or restart is ever forced.

## 4. Finding, and what else the models show

*A database connected by configuration is empty* (`database_config`). ConnectWithConfig lists
the directory with Store.List, which leaves directories out (`local_fs.go:100`). No table is found,
CreateTable does not return ErrConflict (`connection.go:157`) but
overwrites version 1 of the existing table; its later versions stay, under a
handle whose next inserts overwrite them.

Other behaviour, with the change to a run that shows it:

- *One mistyped batch hides others from the final flush.* drainPending stops at
  the first batch it cannot merge; Close then flushes, returns nil and leaves accepted
  batches in the channel, although the doc (`async_writer.go:136`) says that pending data
  is flushed: `CloseDurable` fails with `Batches <- MCBatches`, `Kind <- MCMistyped` and
  `Faults = {}` in `AsyncWriter.cfg`, first for the mistyped batch itself, whose error goes to
  the results channel only, and also for the batches behind it.
- *A batch that fails to merge in its second column stays merged in its first*, and later rows of
  the two columns no longer belong together (`async_writer.go:224`): `ColumnsAligned`
  fails with `Kind <- MCMistyped`. A batch that lacks a column does the same to the rows after
  it (`Kind <- MCUneven`).
- *A field id is given out again.* AddColumn takes the highest id in the schema plus
  one (`table.go:260`). After DropColumn of the column with that id the new
  column gets it, and the older fragments' files of the dropped column are read as the
  new column's, although the doc (`table.go:237-238`) says they lack it. The run `table` does
  this; no property and no theorem claims that a file is only read under the field it was written
  for, because it is not so. A writer that was started before AddColumn or DropColumn has the
  old schema and brings it back with its next manifest (`api/table.go:176`); it is outside
  the discipline of the run.
- *A table and its writer do not see each other.* Both number versions and
  fragments on their own. When both have written version v, LatestManifest
  returns the cached one of the table, not the file (`table.go:118`), so the writer's
  data is not visible, as the doc (`table.go:109`) promises; inserts build on the cache, and
  lose the writer's fragments from then on: `ReadsFresh` fails with `Disciplined = FALSE`.
- *A stopped writer still accepts batches.* Write's select has the buffered send
  beside the closed `closeCh` and `done`: the action `Write` is enabled after
  `Exit`, and that batch is lost, although the doc (`async_writer.go:97`) promises an error.
- *An unreadable newest manifest restarts fragment ids at 0*, as Start ignores the error
  (`async_writer.go:87`), and the next flush overwrites column files that published versions
  refer to: `CommittedFilesImmutable` fails with `Faults = {"read"}` in `AsyncWriter.cfg`.
- *A failing LatestVersion is taken for an empty table* (`async_writer.go:256`): the next manifest
  has none of the earlier fragments, and `ImplementsIngest` fails with `Faults = {"list"}`.
- *Commit is a compare-and-swap within one object only*: `NoLostUpdate` fails with
  `Handles = {h1, h2}` and `Handle <- OwnHandle` in `ManifestStore.cfg`.
- *ReadLatest can return a version that never was.* When the pointer grows from `9` to
  `10` between Size and Read, the reader gets one byte, `1`, although the doc promises the
  "current latest version" (`manifest_store.go:132`). The run does this. `ReadsFresh` is as strong as
  the code: a reader returns the first digits, as many as one version had, of that version or a
  later one, which is that version itself unless a digit was gained in between.
- *Commit is not atomic* (`manifest_store.go:154`). If the pointer's write fails, the
  manifest stays and ListVersions and LatestVersion show it.
- *LatestManifest may fail beside a writer*, which truncates the file it is about to read:
  `ReadersNeverFail` needs its condition that no writer was started.
- *OpenTable returns a handle that its user has closed*, and a DropTable that failed
  leaves the table listed with such a handle (`connection.go:195`, `222`).
- *An index may be lost for cosine.* The mean of opposite vectors is zero and has no
  cosine distance: IVF's Build then fails although no vector is zero (`ivf_flat.go:111`), and
  with such a centroid, or a zero one left by another metric, Search fails where FlatIndex answers.
- *A Build with few vectors lowers `numPartitions` for good* (`ivf_flat.go:165`), and with
  centroids at equal distance one probe may look into the other partition: `FindsSelf` leaves ties out.
- *ConstantEncoder drops what differs.* Encode keeps the first value and does not compare the
  others (`constant.go:20`): `RoundTrip` needs its condition `Encodable`. Decode takes the number
  of rows from its caller, not from the page.
- *An empty file is an empty column* for both decoders; `CutDetected` excepts it.
- *An entry larger than the pool evicts everything*, itself at last (`buffer_pool.go:98`).
- *A filter without conditions matches no row* (`scan_filter.go:25`).
- *The default vector column is not set.* The doc (`api/query.go:68`) says "embedding"; Vector
  leaves the name empty, and such a query fails. Not modelled.

A manifest write that takes effect and reports an error (`ack`) is retried under
the same version with the batch a second time: `PublishedImmutable` fails then. LocalFS
can only do so when the machine fails at the wrong moment, an object store over a network can; the theorem
`PublishedForever` assumes it away and the hazard list names it.

## 5. What is proved

The theorems hold for every value of the constants that satisfies the assumptions of the
modules: any set of clients, batches, columns, any capacity, any number of failures,
crashes and restarts. What a theorem assumes beyond them is a named hypothesis in its
statement. Each hypothesis is one that the runs satisfy and the code needs: section 4 has, or a
run with the hypothesis dropped shows, the behaviour that it excludes. Every inductive
invariant was checked by TLC before it was proved.

| hypothesis | of | says | without it |
|---|---|---|---|
| `"ack" \notin Faults` | AsyncWriter | no manifest write takes effect and errs | the version is written a second time |
| `Benign` | AsyncWriter | besides, no torn write and no unreadable manifest | Start takes fragment ids from 0 |
| `Steady` | AsyncWriter | store calls fail without an effect, or the process dies; LatestVersion works | flush takes an error of LatestVersion for an empty table, and drops the fragments that were acknowledged |
| `WellTyped` | AsyncWriter | columns of batches have the type of the schema | a batch is merged in part, and hides others from the final flush |
| `Even` | AsyncWriter | all batches have the same columns | rows behind a batch that lacks a column shift |
| `EveryColumn` | AsyncWriter | all batches have all columns | `Log` shows one column, which not all fragments need have |
| `OneHandle` | ManifestStore | all processes share one object | the mutex excludes nobody |
| `KeptApart` | Table | the application starts no writer, or keeps to the discipline | both write the same version |
| `quiet`, `~configured` | Database | part of the properties themselves (section 2) | late Inserts, an Insert beside the async writer, and the finding |

### The writer

**AsyncWriterProofs** begins with the counters. `VersionsFresh`, and from it `PublishedForever`
(`"ack" \notin Faults`): no step rewrites a published manifest. That nothing is
overwritten is not inductive. The invariant says more: the manifest files are
exactly the versions 1..k, and a running writer's `nextVersion` is k+1, or k when the
last file is the truncated one it is about to retry. `FragmentsFresh`, and from it
`CommittedForever` (`Benign`): the counter `fragmentID` and the fragment being
written are related to every id in every manifest and to MaxFragmentID
of the newest one, which is all that a later Start reads. `NeverDangling` needs no hypothesis:
whatever fails, manifests refer only to files that exist, because files never disappear and a
column counts as written when its file is there; that ids may be used again does not matter for it.

Its second part is about the data. They are the sequence of accepted batches, the channel, the
accumulating batch and the contents of the newest version's fragments, and its lemmas are about these as
parameters, so that each says what one change of the data (Write, a merge, a commit, a reset) keeps,
in whatever step it happens.

- `CommittedSound`, without hypothesis. Invariant `DataInv`: accepted
  batches are distinct; the channel and every accumulated column follow their order, and what is in the channel
  comes after what is accumulated; accumulated columns have one type; *every file*, those
  nobody refers to included, is in order and of its type. The last is what makes
  it inductive where fragment ids are used again: it does not matter which file a manifest hits.
- `CommittedOnce` (`Benign`, `WellTyped`). Invariant `LogInv`: fragments hold whole
  batches, each fragment's come before those of the next, and what the writer holds comes
  after all of them. Order is stronger than being disjoint and is what is inductive: a retry
  writes the same batch to another fragment, but only one of these is ever listed.
  `FragWritten` ties the fragment being written to the accumulating batch.
- `CommittedAligned` (also `Even`): all columns of the accumulating batch are the same sequence.
- `KeptStays`, `FlushMeansDurable`, `CloseMeansDurable` (`Steady`, `WellTyped`). `ControlInv` is who
  waits for whom; `AckInv` follows a batch from the channel (`kept`), over the drain, which
  makes all that the caller waits for *safe* (accumulated, or settled), to the commit, which settles what is
  safe; `BaseInv` says that flush goes without a base only when there is none, without which a
  commit could take back what was acknowledged; `RowsInv`, that a flush with no rows has
  nothing to lose.
- `Refines` (`Steady`, `WellTyped`, `EveryColumn`): a FlushCommit is a
  `Commit` of `IngestLog`, a Write an `Accept`, every other step a stutter. It rests on `LogInv` and on
  `ShownInv`: flush never commits a fragment without rows.

### The other components

**VersionManagerProofs.** `TypeCorrect`, `LatestCorrect`, `LimitRespected` and
`NewestKept` for every set of versions and every limit. The limit
needs an invariant: evict gives up when the oldest cached version is the latest, and
only because the latest is the highest does this mean that nothing else is left. `NewestKept` needs that
what eviction has taken is older than all that is cached, and that the cache is full as soon as
anything was taken, also in the middle of evict and when a version below all cached ones is published.

**ManifestStoreProofs.** Under `OneHandle`: `NoUpdateLost`, `PointerNamesWhole`, and
`CommitImplementsRegister`, a step
simulation of `VersionRegister`. The invariant `CommitInv` has five parts: types; only
the holder of the mutex is between Lock and its return (`Guarded`); the pointer file is
`current` or torn by a committing process that saw it (`PointerInv`);
published commits form a chain below `current` (`Chain`); published manifests
are whole and their author's (`WholeInv`). `SuccessIsPublished` needs no hypothesis:
what one process returns does not depend on the others. `ReadsAreFresh` adds
`ReadInv`: between Size and Read a reader has the length of a version that the pointer had when it asked,
and what it will find is that version or a later one. Nothing is assumed about the lengths of versions.

**TableProofs** (`KeptApart`). The invariant `TableInv` has four parts: the directory
(`DiskInv`: manifests parse or are torn, their files are there, a later version extends
every committed one), the object and the mutation under way (`ObjectInv`: the cache is what the disk
says, the counters are beyond everything used, the version being written is nobody's),
the writer (`WriterInv`, the same for its counters, which are beyond the table's), and the readers (what a reader
found was on disk). From it `CacheIsDisk`, `ReadersSeeCommitted`, `FilesImmutable`, and
`TableImplementsSnapshots`, a step simulation of `Snapshots`. `ReadersAlwaysSucceed` adds that, before
any failure, a truncated manifest is the one being written now, and that a reader who missed the cache
under the lock is past that.

**DatabaseProofs.** `OneHandlePerTable` without hypothesis, `AcknowledgedStays` and
`DroppedStaysDropped`. The idea of the invariant is a *live* handle: open, or in Close
with its mutex held. A live handle is the one `db.tables` has for its name (`LiveInv`), a
DropTable or Database.Close forgets a handle only when it is dead (`DropInv`, `DBInv`),
and `LockInv` is who holds `db.mu` and `t.mu`. For a quiet application a live handle knows the
versions and the rows of its directory and is the only one to write there (`WritersInv`), a directory's rows
are those of the table created last under its name (`DirectoryInv`), and what was
acknowledged is there (`AckedInv`). That no Close runs beside an Insert or a Flush (`QuietInv`) and no async
writer beside an Insert (`ApartInv`) is what being quiet gives, and is carried from step to step.

**BufferPoolProofs.** `BudgetKept`, without hypothesis beyond `BufferPoolAssumption`: buffers have lengths,
capacities are integers, 0 and less included. A quarter of the module is about sums. The library has no
theorem about `MapThenSumSet`, and its induction theorems take a predicate, so the induction is
written with a set of numbers and the least number outside it (`SetInduction`). With that, a
sum over a finite set exists (`SumsExist`), does not depend on the order (`SumsAny`) and grows by the
weight of an element added (`SumAdd`). The list is treated once for all callers (`Unlist`, `Enlist`);
the invariant `PoolInv` is that map, list and counter agree (`InStep`) also in the middle of evict, and the
budget outside it. That no key is twice in the list is the part that makes it inductive: otherwise removing
one element would leave the key in the list and not in the map.

`ImplementsCache` is the step simulation of `LRUCache`. What the cache shows is the longest prefix of the list's
entries that is within the capacity (`Shown`). Such a prefix exists, as the lengths that fit have a
greatest one (`GreatestThere`). The bytes of the listing, a fold over a sequence, are the counter (`BytesUsed`), so
that between calls everything is shown (`AllShown`) and Get and Remove do to the listing what the cache does to
its contents (`ListingWithout`, `ListingFront`). The insertion in Put is the cache's Put at once, as the cache cuts what
does not fit when the pool has not begun to; each round of evict drops an element that no longer fitted, and changes
nothing that is shown (`FitCut`).

**SearchProofs**, without hypothesis beyond `SearchAssumption`: any values, distances, queries, fragments,
limits and both plans, with inserts and schema changes between the steps. `SearchSafety` is the
invariant `SearchInv`: a loop that is at fragment k has `rowOffset` at the number of rows before it
(`Before`), and what it has found are exactly the rows before it that it looks for, each under its own row id,
which is the number of rows that precede it. Ids are therefore distinct (`IdInjective`), so that there are as many hits as rows
asked for (`HitsCount`) and cutting them to the limit returns the right number of different rows (`CutFacts`). The sort between
the loops is a permutation in order (`Sorted`), of which the filter of searchFirst keeps a
subsequence in the same order (`KeptSorted`). Together they give `NearestMatching` for both plans (`SearchFindsNearest`,
with `AnswerRight` for the cut: none left out is nearer than one returned). What a query asks is written as operators of the
query, the schema taken and the fragments loaded, which stay as they are whatever the table does.
`SearchAnswersWholeOrFails` is `WholeOrError`: what a loop has passed lacks nothing that the query reads and
has no vector without a distance among those it measured, so that a loop at its end has read all; and a loop that
stops does so at a reason that the query, the schema taken and the fragments loaded show, whatever the table does meanwhile.

**VectorIndexProofs**, without hypothesis beyond `VectorIndexAssumption`: any inputs with distinct row ids, any
numbers of partitions, probes and rounds. `IndexOfOnePiece`: the invariant `IndexInv` says that the
partitions of a built index, and of the saved one, are those of its centroids in the order of the vectors
(`Shaped`), and that Build, while it runs, has a non-empty sequence of numbers for centroids. Such a sequence
exists in each round because a mean of vectors is a number (`MeanTyped`, with sums as in BufferPool) and because
a non-empty sequence of distances has a least place (`SomeLeast`); a failed Build has touched nothing.
`AllProbedIsExact` and `StoredVectorFound` are one induction, `AnswersSafety`. The places a search looks at are each a
partition and an element of it. No vector is at two of them, as a vector has one nearest centroid, all
are there if all partitions are, and those of the first partition of the ranking are there in any case
(`PlacesFacts`). The first k of the sorted hits are then what the properties ask for
(`ExactScan`, `FirstScan`).

### Only model-checked

- Liveness and deadlock: `CallsReturn` of the writer and of ManifestStore, `EventuallyDurable`, `NeverStuck` of
  Database (which says ENABLED): beyond the prover.
- `RoundTrip` and `CutDetected` of ColumnEncoding: what recursive functions over bytes compute for every column.

## 6. What is not modelled

Footers and checksums, which no file of a table has: a file is whole or torn.
Aliasing of the slices that mergeColumn appends to. Batches whose columns have
other lengths than NumRows, in the writer (they are in Search).
Merging several batches in BatchInsert. Deletion files, which nothing writes. Cancellation before
Start. Torn and lost-acknowledgement writes in Database (they are in Table).
Vectors of more than one coordinate, and rounding in distances and means; the batch form of
Distance. The layout of the saved index (a failing Load leaves the index alone). The algorithms of
the compression libraries. Negative numbers in encoded columns, whose bytes are
those of the two's complement. Reranker, which nothing calls. Formatting, logging,
configuration, error types and the query builders.

## 7. Plan

Done: the models of all components above, and the proofs of section 5. Next:

- `ColumnEncoding`: that a block of numbers comes back, for blocks of any size.
