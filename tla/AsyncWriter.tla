---------------------------- MODULE AsyncWriter ----------------------------
(***************************************************************************)
(* table/async_writer.go: the background writer of one table directory.    *)
(*                                                                         *)
(* Client goroutines call Write (a non-blocking send on batchCh), Flush    *)
(* (a rendezvous on flushCh, then a wait for the answer) and Close (close  *)
(* closeCh, wait for done).  One goroutine, run, owns the accumulating     *)
(* batch and the two private counters fragmentID and nextVersion, and is   *)
(* the only one that touches the store, one store call per step.  The      *)
(* context given to Start may be cancelled, store calls may fail, and the  *)
(* process may crash between any two steps and be started again.           *)
(*                                                                         *)
(* A row batch is a member of Batches; a column of the accumulating batch  *)
(* or of a file is the sequence of the batches whose values it holds.      *)
(***************************************************************************)
EXTENDS Manifests, FiniteSets, SequencesExt

CONSTANTS
  Clients,       \* goroutines that call Flush and Close
  NoClient,      \* "no client is waiting for this flush"
  Batches,       \* the RecordBatches clients write, each at most once
  Columns,       \* column ids of the schema
  Rows,          \* Rows[b]: the NumRows of batch b
  Kind,          \* Kind[b]: the columns of b and the type of each
  FieldType,     \* the type the schema gives to every column
  ChanCap,       \* capacity of batchCh  (defaultBatchChanCap)
  ResultCap,     \* capacity of resultCh (defaultResultChanCap)
  MaxBatchSize,  \* rows that trigger a flush; 0: no trigger
  TimerOn,       \* flushInterval > 0
  Faults,        \* kinds of store failure considered
  MaxFaults,     \* bound: store failures and crashes of a behaviour
  MaxStarts,     \* bound: writers started on the directory, one after another
  MaxFragID      \* bound: no new flush request beyond this fragment id

FaultKinds == {"write",   \* a Write or Size call fails
               "torn",    \* a failed or interrupted Write truncates the file
               "ack",     \* a manifest Write takes effect and still errs
               "list",    \* LatestVersion or ListVersions fails
               "read",    \* reading a manifest fails
               "crash"}   \* the process dies

ASSUME ClientsAssumption == NoClient \notin Clients
ASSUME BatchesAssumption ==
  \A b \in Batches : /\ Rows[b] \in Nat
                     /\ DOMAIN Kind[b] \subseteq Columns
                     /\ DOMAIN Kind[b] # {}
ASSUME SizesAssumption ==
  /\ ChanCap \in Nat \ {0} /\ ResultCap \in Nat \ {0}
  /\ MaxBatchSize \in Nat /\ TimerOn \in BOOLEAN
  /\ MaxFaults \in Nat /\ MaxStarts \in Nat /\ MaxFragID \in Nat
ASSUME FaultsAssumption == Faults \subseteq FaultKinds

VARIABLES
  manifests,     \* version -> manifest file
  files,         \* <<fragment id, column>> -> contents of the column file
  batchCh, resultCh,
  closed,        \* closeCh is closed
  done,          \* done is closed: run has returned
  ctxDone,       \* the context given to Start is cancelled
  resp,          \* resp[c]: the answer buffered in c's respCh
  pc,            \* where run is
  cause,         \* which case of run's select called flush
  caller,        \* whose Flush is being served
  currentBatch, currentRows, fragmentID, nextVersion, closeErr,
  frag,          \* the FragmentWriter's id and the columns written so far
  base,          \* the manifest flush builds on (TornManifest: none)
  cpc,           \* cpc[c]: where client c is
  faults,        \* failures so far
  starts,        \* writers started so far
  accepted,      \* history: batches Write returned nil for, in order
  kept,          \* history: those sent before Close and cancellation
  due            \* history: due[c], what was kept when c called Flush

disk   == <<manifests, files>>
chans  == <<batchCh, resultCh, closed, done, resp>>
writer == <<currentBatch, currentRows, fragmentID, nextVersion, closeErr>>
local  == <<pc, cause, caller, frag, base>>
env    == <<ctxDone, faults, starts>>
hist   == <<accepted, kept, due>>
vars   == <<disk, chans, writer, local, cpc, env, hist>>

NoFrag == [id |-> 0, cols |-> {}]
Running == pc \notin {"off", "exited"}

\* nil and a batch without columns behave alike: flush skips both.
EmptyBatch == [c \in {} |-> <<>>]

-----------------------------------------------------------------------------
(* Row data *)

\* The concrete type of an accumulated column is that of its first part.
ColumnType(col, c) == Kind[Head(col)][c]

\* Mutant: mergeColumn without its type assertions.
Mergeable_Unchecked(cols, b, c) == TRUE

\* mergeColumn fails unless the incoming column has the type of the existing.
Mergeable(cols, b, c) ==
  c \in DOMAIN cols => ColumnType(cols[c], c) = Kind[b][c]

\* Mutant: the arguments of mergeColumn swapped.
MergeColumns_Swapped(cols, b, cs) ==
  [c \in DOMAIN cols \cup cs |->
     IF c \notin cs THEN cols[c]
     ELSE IF c \in DOMAIN cols THEN <<b>> \o cols[c] ELSE <<b>>]

\* The accumulated columns after the columns cs of b were merged into them.
MergeColumns(cols, b, cs) ==
  [c \in DOMAIN cols \cup cs |->
     IF c \notin cs THEN cols[c]
     ELSE IF c \in DOMAIN cols THEN Append(cols[c], b) ELSE <<b>>]

\* A WriteColumn call whose data has not the type of the schema field fails.
Encodable(cols, c) == ColumnType(cols[c], c) = FieldType

\* sendResult: a result is dropped when nobody has drained the channel.
SendResult(ch, r) == IF Len(ch) < ResultCap THEN Append(ch, r) ELSE ch
Failure == 0   \* a FlushResult with Error; otherwise its manifest version

Fault(kind) == kind \in Faults /\ faults < MaxFaults /\ faults' = faults + 1

-----------------------------------------------------------------------------
(* Clients *)

\* Write.  The select has up to three ready cases and Go picks any of them:
\* a send succeeds whenever the channel has room, whether or not closeCh or
\* done is closed.  Every other case returns an error and changes nothing.
Write(b) ==
  /\ pc # "off" /\ b \notin ToSet(accepted)
  /\ Len(batchCh) < ChanCap
  /\ batchCh' = Append(batchCh, b)
  /\ accepted' = Append(accepted, b)
  /\ kept' = IF closed \/ ctxDone THEN kept ELSE kept \cup {b}
  /\ UNCHANGED <<disk, resultCh, closed, done, resp, writer, local, cpc, env, due>>

\* Flush: the client is about to offer its respCh on flushCh.
FlushCall(c) ==
  /\ pc # "off" /\ cpc[c] = "idle" /\ fragmentID < MaxFragID
  /\ cpc' = [cpc EXCEPT ![c] = "flush_send"]
  /\ due' = [due EXCEPT ![c] = kept]
  /\ UNCHANGED <<disk, chans, writer, local, env, accepted, kept>>

\* Flush returns: because the writer stopped, or with the answer.  Before the
\* rendezvous only the first is possible, after it Go picks any ready case.
FlushDone(c) ==
  /\ \/ cpc[c] = "flush_send" /\ (closed \/ done)
     \/ cpc[c] = "flush_wait" /\ (closed \/ done \/ resp[c] # "none")
  /\ cpc' = [cpc EXCEPT ![c] = "idle"]
  /\ resp' = [resp EXCEPT ![c] = "none"]
  /\ due' = [due EXCEPT ![c] = {}]
  /\ UNCHANGED <<disk, batchCh, resultCh, closed, done, writer, local, env,
                 accepted, kept>>

\* Close: closeOnce closes closeCh, then the caller waits for done.
CloseCall(c) ==
  /\ pc # "off" /\ cpc[c] = "idle"
  /\ cpc' = [cpc EXCEPT ![c] = "close_wait"]
  /\ closed' = TRUE
  /\ UNCHANGED <<disk, batchCh, resultCh, done, resp, writer, local, env, hist>>

CloseDone(c) ==
  /\ cpc[c] = "close_wait" /\ done
  /\ cpc' = [cpc EXCEPT ![c] = "idle"]
  /\ UNCHANGED <<disk, chans, writer, local, env, hist>>

\* A consumer of Results() receives one result.
Receive ==
  /\ resultCh # <<>>
  /\ resultCh' = Tail(resultCh)
  /\ UNCHANGED <<disk, batchCh, closed, done, resp, writer, local, cpc, env, hist>>

\* The owner of the context cancels it.
Cancel ==
  /\ Running /\ ~ctxDone
  /\ ctxDone' = TRUE
  /\ UNCHANGED <<disk, chans, writer, local, cpc, faults, starts, hist>>

-----------------------------------------------------------------------------
(* run: the select *)

\* accumulate.  Columns are merged in map order; when one cannot be merged
\* the ones merged before it stay, and the row count is not updated.
Accumulate(b, ok) ==
  LET bad == {c \in DOMAIN Kind[b] : ~Mergeable(currentBatch, b, c)} IN
  IF ok
  THEN /\ bad = {}
       /\ currentBatch' = MergeColumns(currentBatch, b, DOMAIN Kind[b])
       /\ currentRows' = currentRows + Rows[b]
  ELSE /\ bad # {}
       /\ \E cs \in SUBSET (DOMAIN Kind[b] \ bad) :
            currentBatch' = MergeColumns(currentBatch, b, cs)
       /\ UNCHANGED currentRows

SizeReached(rows) == MaxBatchSize > 0 /\ rows >= MaxBatchSize

\* case batch := <-batchCh
SelectBatch ==
  /\ pc = "select" /\ batchCh # <<>>
  /\ batchCh' = Tail(batchCh)
  /\ \/ /\ Accumulate(Head(batchCh), TRUE)
        /\ IF SizeReached(currentRows')
           THEN pc' = "flush" /\ cause' = "size"
           ELSE UNCHANGED <<pc, cause>>
        /\ UNCHANGED resultCh
     \/ /\ Accumulate(Head(batchCh), FALSE)
        /\ resultCh' = SendResult(resultCh, Failure)
        /\ UNCHANGED <<pc, cause>>
  /\ UNCHANGED <<disk, closed, done, resp, fragmentID, nextVersion, closeErr,
                 caller, frag, base, cpc, env, hist>>

\* Mutant: Flush does not look into batchCh first.
SelectFlush_NoDrain(c) ==
  /\ pc = "select" /\ cpc[c] = "flush_send"
  /\ cpc' = [cpc EXCEPT ![c] = "flush_wait"]
  /\ pc' = "flush" /\ cause' = "flush" /\ caller' = c
  /\ UNCHANGED <<disk, chans, writer, frag, base, env, hist>>

\* case respCh := <-flushCh: the rendezvous with a client in Flush.
SelectFlush(c) ==
  /\ pc = "select" /\ cpc[c] = "flush_send"
  /\ cpc' = [cpc EXCEPT ![c] = "flush_wait"]
  /\ pc' = "drain" /\ cause' = "flush" /\ caller' = c
  /\ UNCHANGED <<disk, chans, writer, frag, base, env, hist>>

\* Mutant: closing does not look into batchCh first.
SelectStop_NoDrain ==
  /\ pc = "select" /\ (closed \/ ctxDone)
  /\ pc' = "flush" /\ cause' = "stop"
  /\ UNCHANGED <<disk, chans, writer, caller, frag, base, cpc, env, hist>>

\* case <-closeCh and case <-ctx.Done() do the same.
SelectStop ==
  /\ pc = "select" /\ (closed \/ ctxDone)
  /\ pc' = "drain" /\ cause' = "stop"
  /\ UNCHANGED <<disk, chans, writer, caller, frag, base, cpc, env, hist>>

\* case <-timerC
SelectTimer ==
  /\ TimerOn /\ pc = "select" /\ currentRows > 0 /\ fragmentID < MaxFragID
  /\ pc' = "flush" /\ cause' = "timer"
  /\ UNCHANGED <<disk, chans, writer, caller, frag, base, cpc, env, hist>>

\* drainPending takes what waits in batchCh, and gives up at the first batch
\* that cannot be accumulated.
Drain ==
  /\ pc = "drain"
  /\ \/ /\ batchCh = <<>>
        /\ pc' = "flush"
        /\ UNCHANGED <<batchCh, resultCh, currentBatch, currentRows>>
     \/ /\ batchCh # <<>> /\ batchCh' = Tail(batchCh)
        /\ \/ Accumulate(Head(batchCh), TRUE) /\ UNCHANGED <<pc, resultCh>>
           \/ /\ Accumulate(Head(batchCh), FALSE)
              /\ resultCh' = SendResult(resultCh, Failure)
              /\ pc' = "flush"
  /\ UNCHANGED <<disk, closed, done, resp, fragmentID, nextVersion, closeErr,
                 cause, caller, frag, base, cpc, env, hist>>

-----------------------------------------------------------------------------
(* run: flush *)

\* Mutant: a path of the flush case that does not send on respCh.
Answer_Forgotten(err) == UNCHANGED resp

\* respCh <- err: nobody listens if the client has left.
Answer(err) ==
  resp' = IF cpc[caller] = "flush_wait" THEN [resp EXCEPT ![caller] = err] ELSE resp

\* closeErr = err; return, which closes done.
Exit(err) == closeErr' = err /\ done' = TRUE /\ pc' = "exited"

\* What run does with the result of flush, by the case that called it: the
\* size case sends an error to resultCh, the timer case ignores it.
Return(err, results) ==
  /\ \/ /\ cause = "size"
        /\ resultCh' = IF err = "nil" THEN results ELSE SendResult(results, Failure)
        /\ pc' = "select" /\ UNCHANGED <<resp, closeErr, done>>
     \/ /\ cause = "timer" /\ resultCh' = results
        /\ pc' = "select" /\ UNCHANGED <<resp, closeErr, done>>
     \/ /\ cause = "flush" /\ resultCh' = results /\ Answer(err)
        /\ pc' = "select" /\ UNCHANGED <<closeErr, done>>
     \/ /\ cause = "stop" /\ resultCh' = results
        /\ Exit(err) /\ UNCHANGED resp
  /\ cause' = "none" /\ caller' = NoClient /\ frag' = NoFrag /\ base' = TornManifest
  /\ UNCHANGED <<batchCh, closed, ctxDone, starts, cpc, hist>>

\* Mutant: a failed flush lets go of the batch.
ReturnError_DropsBatch ==
  /\ Return("err", resultCh)
  /\ currentBatch' = EmptyBatch /\ currentRows' = 0
  /\ UNCHANGED nextVersion

ReturnError ==
  /\ Return("err", resultCh)
  /\ UNCHANGED <<currentBatch, currentRows, nextVersion>>

\* Nothing accumulated: flush returns nil at once.
FlushEmpty ==
  /\ pc = "flush" /\ currentRows = 0
  /\ Return("nil", resultCh)
  /\ UNCHANGED <<disk, currentBatch, currentRows, fragmentID, nextVersion, faults>>

\* Mutant: the columns count as written from the start.
FlushStart_FilesLater ==
  /\ pc = "flush" /\ currentRows > 0
  /\ pc' = "column" /\ frag' = [id |-> fragmentID, cols |-> DOMAIN currentBatch]
  /\ UNCHANGED <<disk, chans, writer, cause, caller, base, cpc, env, hist>>

FlushStart ==
  /\ pc = "flush" /\ currentRows > 0
  /\ pc' = "column" /\ frag' = [id |-> fragmentID, cols |-> {}]
  /\ UNCHANGED <<disk, chans, writer, cause, caller, base, cpc, env, hist>>

\* Mutant: a column file that exists is taken for written.
FlushColumn_SkipExisting(c) ==
  /\ pc = "column" /\ c \in DOMAIN currentBatch \ frag.cols
  /\ ~ctxDone /\ Encodable(currentBatch, c)
  /\ files' = IF <<frag.id, c>> \in DOMAIN files THEN files
              ELSE Put(files, <<frag.id, c>>, currentBatch[c])
  /\ frag' = [frag EXCEPT !.cols = @ \cup {c}]
  /\ UNCHANGED <<manifests, chans, writer, pc, cause, caller, base, cpc, env, hist>>

\* WriteBatch writes the columns in map order; the file is overwritten blindly.
FlushColumn(c) ==
  /\ pc = "column" /\ c \in DOMAIN currentBatch \ frag.cols
  /\ ~ctxDone /\ Encodable(currentBatch, c)
  /\ files' = Put(files, <<frag.id, c>>, currentBatch[c])
  /\ frag' = [frag EXCEPT !.cols = @ \cup {c}]
  /\ UNCHANGED <<manifests, chans, writer, pc, cause, caller, base, cpc, env, hist>>

\* WriteBatch fails: the column has the wrong type or the context is
\* cancelled (before the write, or between it and the Size call), or the store
\* fails before the write, while writing (the file is left truncated) or in
\* the Size call.
FlushColumnFails(c) ==
  /\ pc = "column" /\ c \in DOMAIN currentBatch \ frag.cols
  /\ \/ /\ ctxDone \/ ~Encodable(currentBatch, c)
        /\ UNCHANGED <<files, faults>>
     \/ /\ ctxDone /\ Encodable(currentBatch, c)
        /\ files' = Put(files, <<frag.id, c>>, currentBatch[c])
        /\ UNCHANGED faults
     \/ /\ ~ctxDone /\ Encodable(currentBatch, c)
        /\ \/ Fault("write") /\ UNCHANGED files
           \/ Fault("torn") /\ files' = Put(files, <<frag.id, c>>, <<>>)
           \/ Fault("write") /\ files' = Put(files, <<frag.id, c>>, currentBatch[c])
  /\ ReturnError
  /\ UNCHANGED <<manifests, fragmentID>>

\* Every column is written: the id is used up, whatever happens next, and
\* LatestVersion is asked for the base.  Any error of it, and not only the
\* absence of a version, makes this the first fragment of the table.
FlushLatest ==
  /\ pc = "column" /\ frag.cols = DOMAIN currentBatch
  /\ fragmentID' = fragmentID + 1
  /\ base' = TornManifest
  /\ \/ /\ ~ctxDone /\ DOMAIN manifests # {}
        /\ pc' = "read"
        /\ UNCHANGED faults
     \/ /\ pc' = "commit"
        /\ \/ (ctxDone \/ DOMAIN manifests = {}) /\ UNCHANGED faults
           \/ Fault("list")
  /\ UNCHANGED <<disk, chans, currentBatch, currentRows, nextVersion, closeErr,
                 cause, caller, frag, cpc, ctxDone, starts, hist>>

\* Read of the latest manifest.
FlushRead ==
  /\ pc = "read" /\ ~ctxDone /\ Readable(manifests, LatestVersion(manifests))
  /\ base' = manifests[LatestVersion(manifests)]
  /\ pc' = "commit"
  /\ UNCHANGED <<disk, chans, writer, cause, caller, frag, cpc, env, hist>>

FlushReadFails ==
  /\ pc = "read"
  /\ \/ /\ ctxDone \/ ~Readable(manifests, LatestVersion(manifests))
        /\ UNCHANGED faults
     \/ Fault("read")
  /\ ReturnError
  /\ UNCHANGED <<disk, fragmentID>>

Successor == IF base.whole THEN AppendFragment(base, frag) ELSE FirstFragment(frag)

\* Mutant: the batch is not let go of.
FlushCommit_KeepsBatch ==
  /\ pc = "commit" /\ ~ctxDone
  /\ manifests' = Put(manifests, nextVersion, Successor)
  /\ nextVersion' = nextVersion + 1
  /\ Return("nil", SendResult(resultCh, nextVersion))
  /\ UNCHANGED <<files, fragmentID, currentBatch, currentRows, faults>>

\* manifestStore.Write of version nextVersion; then the batch is let go of.
FlushCommit ==
  /\ pc = "commit" /\ ~ctxDone
  /\ manifests' = Put(manifests, nextVersion, Successor)
  /\ nextVersion' = nextVersion + 1
  /\ currentBatch' = EmptyBatch /\ currentRows' = 0
  /\ Return("nil", SendResult(resultCh, nextVersion))
  /\ UNCHANGED <<files, fragmentID, faults>>

\* The write fails: the batch and nextVersion are kept for the next flush,
\* which will write another fragment.
FlushCommitFails ==
  /\ pc = "commit"
  /\ \/ ctxDone /\ UNCHANGED <<manifests, faults>>
     \/ ~ctxDone /\ Fault("write") /\ UNCHANGED manifests
     \/ ~ctxDone /\ Fault("torn") /\ manifests' = Put(manifests, nextVersion, TornManifest)
     \/ ~ctxDone /\ Fault("ack") /\ manifests' = Put(manifests, nextVersion, Successor)
  /\ ReturnError
  /\ UNCHANGED <<files, fragmentID>>

-----------------------------------------------------------------------------
(* Start, crash *)

Fresh ==   \* NewAsyncWriter: new channels, nothing accumulated
  /\ batchCh' = <<>> /\ resultCh' = <<>>
  /\ closed' = FALSE /\ done' = FALSE /\ ctxDone' = FALSE
  /\ resp' = [c \in Clients |-> "none"]
  /\ cpc' = [c \in Clients |-> "idle"]
  /\ due' = [c \in Clients |-> {}]
  /\ currentBatch' = EmptyBatch /\ currentRows' = 0 /\ closeErr' = "nil"
  /\ cause' = "none" /\ caller' = NoClient /\ frag' = NoFrag /\ base' = TornManifest

\* Mutants: the counters resume at what is already used.
FirstFreeVersion_OffByOne(latest) == latest
FirstFreeFragment_OffByOne(m) == m.max

FirstFreeVersion(latest) == latest + 1
FirstFreeFragment(m) == m.max + 1

\* NewAsyncWriter and a Start that succeeds, on a directory no writer of this
\* process uses.  A failure to read the latest manifest is ignored: the
\* fragment counter then keeps its zero value.
Start ==
  /\ pc \in {"off", "exited"} /\ \A c \in Clients : cpc[c] = "idle"
  /\ starts < MaxStarts /\ starts' = starts + 1
  /\ IF DOMAIN manifests = {}
     THEN /\ nextVersion' = 1 /\ fragmentID' = 0
          /\ UNCHANGED faults
     ELSE LET latest == LatestVersion(manifests) IN
          /\ nextVersion' = FirstFreeVersion(latest)
          /\ \/ /\ Readable(manifests, latest)
                /\ fragmentID' = FirstFreeFragment(manifests[latest])
                /\ UNCHANGED faults
             \/ /\ fragmentID' = 0
                /\ \/ ~Readable(manifests, latest) /\ UNCHANGED faults
                   \/ Fault("read")
  /\ pc' = "select"
  /\ Fresh
  /\ kept' = {}
  /\ UNCHANGED <<disk, accepted>>

\* The process dies; what was not on disk is gone, and a file being written
\* may be left truncated.
Crash ==
  /\ Running /\ Fault("crash")
  /\ \/ UNCHANGED disk
     \/ /\ "torn" \in Faults /\ pc = "commit" /\ ~ctxDone
        /\ manifests' = Put(manifests, nextVersion, TornManifest)
        /\ UNCHANGED files
     \/ /\ "torn" \in Faults /\ pc = "column" /\ ~ctxDone
        /\ \E c \in DOMAIN currentBatch \ frag.cols :
             files' = Put(files, <<frag.id, c>>, <<>>)
        /\ UNCHANGED manifests
  /\ pc' = "off"
  /\ Fresh
  /\ nextVersion' = 0 /\ fragmentID' = 0
  /\ kept' = {}
  /\ UNCHANGED <<accepted, starts>>

-----------------------------------------------------------------------------
(* The specification *)

Init ==
  /\ manifests \in {[v \in {} |-> EmptyManifest], [v \in {1} |-> EmptyManifest]}
  /\ files = [f \in {} |-> <<>>]
  /\ batchCh = <<>> /\ resultCh = <<>>
  /\ closed = FALSE /\ done = FALSE /\ ctxDone = FALSE
  /\ resp = [c \in Clients |-> "none"]
  /\ pc = "off" /\ cause = "none" /\ caller = NoClient
  /\ currentBatch = EmptyBatch /\ currentRows = 0
  /\ fragmentID = 0 /\ nextVersion = 0 /\ closeErr = "nil"
  /\ frag = NoFrag /\ base = TornManifest
  /\ cpc = [c \in Clients |-> "idle"]
  /\ faults = 0 /\ starts = 0
  /\ accepted = <<>> /\ kept = {} /\ due = [c \in Clients |-> {}]

FlushStep ==
  \/ FlushEmpty \/ FlushStart \/ FlushLatest
  \/ FlushRead \/ FlushReadFails \/ FlushCommit \/ FlushCommitFails
  \/ \E c \in Columns : FlushColumn(c) \/ FlushColumnFails(c)

Next ==
  \/ \E b \in Batches : Write(b)
  \/ \E c \in Clients : FlushCall(c) \/ FlushDone(c) \/ CloseCall(c) \/ CloseDone(c)
  \/ Receive \/ Cancel
  \/ SelectBatch \/ SelectStop \/ SelectTimer \/ Drain
  \/ \E c \in Clients : SelectFlush(c)
  \/ FlushStep
  \/ Start \/ Crash

Spec == Init /\ [][Next]_vars

\* run never stops between two select statements, a client that can return
\* does, and no case of a select that is ready again and again is ignored for
\* ever: Go chooses among the ready cases at random.  Nothing forces a client
\* to call, the context to be cancelled, or the store to fail.
Fairness ==
  /\ WF_vars(Drain) /\ WF_vars(FlushStep)
  /\ \A c \in Clients : WF_vars(FlushDone(c)) /\ WF_vars(CloseDone(c))
  /\ SF_vars(SelectBatch) /\ SF_vars(SelectStop) /\ SF_vars(SelectTimer)
  /\ \A c \in Clients : SF_vars(SelectFlush(c))

FairSpec == Spec /\ Fairness

-----------------------------------------------------------------------------
(* Properties *)

WholeVersions == {v \in DOMAIN manifests : manifests[v].whole}

\* The fragments of the newest version, the ones every reader sees; none when
\* that manifest cannot be read.
LatestFragments ==
  IF DOMAIN manifests = {} THEN <<>> ELSE manifests[LatestVersion(manifests)].frags

Holds(f, c, b) == c \in f.cols /\ b \in ToSet(files[<<f.id, c>>])

\* Column c of the i-th fragment.
Column(i, c) == files[<<LatestFragments[i].id, c>>]

\* A batch is durable when the newest version has all of it.
Durable == {b \in ToSet(accepted) :
  \E i \in DOMAIN LatestFragments :
     \A c \in DOMAIN Kind[b] : Holds(LatestFragments[i], c, b)}

\* Write accepted a before b.
Earlier(a, b) ==
  \E k, l \in DOMAIN accepted : k < l /\ accepted[k] = a /\ accepted[l] = b

\* Accepted batches, each once and in the order in which Write accepted them.
InOrder(col) ==
  /\ ToSet(col) \subseteq ToSet(accepted)
  /\ \A k, l \in DOMAIN col : k < l => Earlier(col[k], col[l])

\* Batches that have something to lose.
NonEmpty == {b \in Batches : Rows[b] > 0}

\* What the writer still holds.
Buffered(b) ==
  \/ b \in ToSet(batchCh)
  \/ \E c \in DOMAIN currentBatch : b \in ToSet(currentBatch[c])

\* What a manifest lists.
FragRecord == [id : Nat, cols : SUBSET Columns]

\* async_writer.go:234-284.  The rows of a batch are in at most one place:
\* once in one fragment of the newest version, which then has all of them, or
\* still with the writer.  A flush that failed half way and is retried must not
\* commit a batch twice.
ExactlyOnce ==
  \A i, j \in DOMAIN LatestFragments :
    \A c \in LatestFragments[i].cols, d \in LatestFragments[j].cols :
      \A k \in DOMAIN Column(i, c) :
        /\ \A l \in DOMAIN Column(j, d) :
             Column(i, c)[k] = Column(j, d)[l] => i = j /\ (c = d => k = l)
        /\ Column(i, c)[k] \in Durable /\ ~Buffered(Column(i, c)[k])

\* async_writer.go:196-232.  While the writer runs, a batch that was accepted
\* before Close and before cancellation is in the channel, in the accumulating
\* batch or committed: no path, failing ones included, drops it.
NothingDropped == Running => \A b \in kept \cap NonEmpty : Buffered(b) \/ b \in Durable

\* async_writer.go:115-134, 176-178.  Flush answers nil only when everything
\* accepted before the call is in the newest version.
FlushDurable == \A c \in Clients : resp[c] = "nil" => due[c] \cap NonEmpty \subseteq Durable

\* async_writer.go:136-145, 179-186.  Close returns nil only when everything
\* accepted before the writer was told to stop is in the newest version.
CloseDurable == done /\ closeErr = "nil" => kept \cap NonEmpty \subseteq Durable

\* async_writer.go:212-232.  Row i of a fragment is the same batch's row in
\* every column: the columns of a committed fragment line up.
ColumnsAligned ==
  \A i \in DOMAIN LatestFragments :
    \A c, d \in LatestFragments[i].cols : Column(i, c) = Column(i, d)

\* What a file of column c may hold.
Sound(c, col) ==
  /\ \A b \in ToSet(col) : c \in DOMAIN Kind[b] /\ Kind[b][c] = FieldType
  /\ InOrder(col)

\* async_writer.go:212-232, fragment_writer.go:128-165.  Batches may lack columns
\* or have some of the wrong type, and a batch may be merged in part.
\* A committed column file still holds values of the column's type only, those
\* of each batch once, in the order in which Write accepted them.
CommittedColumnsSound ==
  \A i \in DOMAIN LatestFragments :
    \A c \in LatestFragments[i].cols : Sound(c, Column(i, c))

\* async_writer.go:241-274.  Data before metadata: a manifest never refers to a
\* column file that is not there, at whatever step the process died.
Present(f) == \A c \in f.cols : <<f.id, c>> \in DOMAIN files

NoDanglingFragment ==
  \A v \in DOMAIN manifests : \A i \in DOMAIN manifests[v].frags :
    Present(manifests[v].frags[i])

\* async_writer.go:274.  The blind write of a manifest never hits a version
\* that was published: a reader of a version sees one manifest, for ever.
PublishedImmutable ==
  [][\A v \in WholeVersions : v \in DOMAIN manifests' /\ manifests'[v] = manifests[v]]_vars

\* async_writer.go:241-251.  The column files of a published fragment are never
\* written again, by a retry or by the writer of a later process.
CommittedFilesImmutable ==
  [][\A v \in WholeVersions : \A i \in DOMAIN manifests[v].frags :
       \A c \in manifests[v].frags[i].cols :
         LET f == <<manifests[v].frags[i].id, c>> IN files'[f] = files[f]]_vars

\* async_writer.go:117-145.  Every Flush and every Close returns, whatever
\* fails, whoever else flushes or closes at the same time.
CallsReturn == \A c \in Clients : cpc[c] # "idle" ~> cpc[c] = "idle"

\* Nothing gets past a truncated newest manifest.
NewestUnreadable ==
  DOMAIN manifests # {} /\ ~Readable(manifests, LatestVersion(manifests))

\* async_writer.go:136-145, 187-191.  With a flush interval, a batch accepted
\* before Close and cancellation is committed without any further call, or
\* else Close reports an error; a flush that failed is retried by the timer.
\* (A crash or a new writer empties kept.)
EventuallyDurable ==
  \A b \in NonEmpty :
    b \in kept ~>
      \/ b \in Durable \/ b \notin kept \/ (done /\ closeErr = "err")
      \/ NewestUnreadable

\* The rows of the newest version, fragment by fragment, behave as the log of
\* IngestLog: in order, once, never rewritten.
Log == [i \in DOMAIN LatestFragments |-> Column(i, CHOOSE c \in Columns : TRUE)]

Ingest == INSTANCE IngestLog WITH log <- Log

\* async_writer.go:212-284.  The writer of a table whose batches all have
\* every column implements IngestLog.
ImplementsIngest == Ingest!Spec
=============================================================================
