------------------------- MODULE AsyncWriterProofs -------------------------
(***************************************************************************)
(* What the AsyncWriter guarantees, for any number of clients, batches,    *)
(* columns, flushes, failures, crashes and restarts.                       *)
(*                                                                         *)
(* First its private counters: versions and fragments are fresh, and no    *)
(* manifest names a fragment that is not there.  Then what it commits and  *)
(* acknowledges.  The data of a writer are the sequence s of accepted      *)
(* batches, the channel ch, the accumulating batch cur and the log of what *)
(* the newest version has.  A part of its own says what these have to do   *)
(* with each other and how each change of them keeps it; the rest shows    *)
(* that the steps of the writer are such changes, and that the writer      *)
(* implements IngestLog.                                                   *)
(***************************************************************************)
EXTENDS AsyncWriter, SequenceTheorems, TLAPS

-----------------------------------------------------------------------------
(* The version counter *)

\* The versions on disk are 1..k, and a running writer's nextVersion is the
\* next one, or the last one when a failed write left that file truncated.
VersionsUpTo(k) ==
  /\ DOMAIN manifests = 1..k
  /\ Running => \/ nextVersion = k + 1
                \/ nextVersion = k /\ k > 0 /\ ~manifests[k].whole

VersionInv == nextVersion \in Nat /\ \E k \in Nat : VersionsUpTo(k)

\* LatestVersion (manifest_store.go:74-83) of a dense directory is its size.
LEMMA LatestOfDense ==
  ASSUME NEW m, NEW k \in Nat \ {0}, DOMAIN m = 1..k
  PROVE  LatestVersion(m) = k
<1> DEFINE P(v) == v \in 1..k /\ \A w \in 1..k : w <= v
<1>1. P(k)
  OBVIOUS
<1>2. \A v : P(v) => v = k
  OBVIOUS
<1>3. LatestVersion(m) = CHOOSE v \in 1..k : \A w \in 1..k : w <= v
  BY DEF LatestVersion, ListVersions
<1> QED
  BY <1>1, <1>2, <1>3

\* Put (manifest_store.go:38-48) adds or replaces one version.
LEMMA PutDomain ==
  ASSUME NEW m, NEW v, NEW x
  PROVE  /\ DOMAIN Put(m, v, x) = DOMAIN m \cup {v}
         /\ Put(m, v, x)[v] = x
         /\ \A w \in DOMAIN m : w # v => Put(m, v, x)[w] = m[w]
  BY DEF Put

\* Every step leaves the directory and the counter alone, or starts a writer,
\* commits nextVersion and moves past it, or truncates the file nextVersion.
StepKinds ==
  \/ UNCHANGED <<manifests, nextVersion>> /\ (Running' => Running)
  \/ UNCHANGED manifests /\ nextVersion' = 0 /\ ~Running'
  \/ /\ UNCHANGED manifests
     /\ nextVersion' = IF DOMAIN manifests = {} THEN 1
                       ELSE LatestVersion(manifests) + 1
  \/ /\ Running /\ nextVersion' = nextVersion + 1
     /\ manifests' = Put(manifests, nextVersion, Successor)
  \/ /\ Running /\ manifests' = Put(manifests, nextVersion, TornManifest)
     /\ \/ UNCHANGED nextVersion
        \/ nextVersion' = 0 /\ ~Running'

\* What a step may do to the manifests and the version counter.
LEMMA NextStepKinds == ASSUME "ack" \notin Faults, [Next]_vars PROVE StepKinds
<1> USE DEF StepKinds, Running, Fault
<1>1. CASE UNCHANGED vars
  BY <1>1 DEF vars, disk, writer, local
<1>2. ASSUME NEW b \in Batches, Write(b) PROVE StepKinds
  BY <1>2 DEF Write, disk, writer, local
<1>3. ASSUME NEW c \in Clients, FlushCall(c) \/ FlushDone(c) \/ CloseCall(c) \/ CloseDone(c)
      PROVE StepKinds
  BY <1>3 DEF FlushCall, FlushDone, CloseCall, CloseDone, disk, writer, local
<1>4. CASE Receive \/ Cancel
  BY <1>4 DEF Receive, Cancel, disk, writer, local
<1>5. CASE SelectBatch
  BY <1>5 DEF SelectBatch, disk
<1>6. CASE SelectStop \/ SelectTimer
  BY <1>6 DEF SelectStop, SelectTimer, disk, writer
<1>7. CASE Drain
  BY <1>7 DEF Drain, disk
<1>8. ASSUME NEW c \in Clients, SelectFlush(c) PROVE StepKinds
  BY <1>8 DEF SelectFlush, disk, writer
<1>9. CASE FlushEmpty
  BY <1>9 DEF FlushEmpty, disk
<1>10. CASE FlushStart \/ FlushLatest \/ FlushRead
  BY <1>10 DEF FlushStart, FlushLatest, FlushRead, disk, writer
<1>11. CASE FlushReadFails
  BY <1>11 DEF FlushReadFails, ReturnError, disk
<1>12. CASE FlushCommit
  BY <1>12 DEF FlushCommit
<1>13. CASE FlushCommitFails
  BY <1>13 DEF FlushCommitFails, ReturnError
<1>14. ASSUME NEW c \in Columns, FlushColumn(c) \/ FlushColumnFails(c) PROVE StepKinds
  BY <1>14 DEF FlushColumn, FlushColumnFails, ReturnError, writer
<1>15. CASE Start
  BY <1>15 DEF Start, FirstFreeVersion, disk
<1>16. CASE Crash
  BY <1>16 DEF Crash, disk
<1> QED
  BY <1>1, <1>2, <1>3, <1>4, <1>5, <1>6, <1>7, <1>8, <1>9, <1>10, <1>11, <1>12,
     <1>13, <1>14, <1>15, <1>16 DEF Next, FlushStep

\* A writer that was never started has written nothing: version 1 exists, or none.
LEMMA VersionInvInit == Init => VersionInv
<1> SUFFICES ASSUME Init PROVE VersionInv
  OBVIOUS
<1>1. nextVersion = 0 /\ ~Running
  BY DEF Init, Running
<1>2. CASE manifests = [v \in {} |-> EmptyManifest]
  <2>1. DOMAIN manifests = 1..0
    BY <1>2
  <2> QED
    BY <2>1, <1>1 DEF VersionInv, VersionsUpTo
<1>3. CASE manifests = [v \in {1} |-> EmptyManifest]
  <2>1. DOMAIN manifests = 1..1
    BY <1>3
  <2> QED
    BY <2>1, <1>1 DEF VersionInv, VersionsUpTo
<1> QED
  BY <1>2, <1>3 DEF Init

\* Each of those steps keeps the versions dense and the counter beyond them.
LEMMA VersionInvStep == ASSUME VersionInv, StepKinds PROVE VersionInv'
<1>1. PICK k \in Nat : VersionsUpTo(k)
  BY DEF VersionInv
<1>2. nextVersion \in Nat
  BY DEF VersionInv
<1>3. CASE UNCHANGED <<manifests, nextVersion>> /\ (Running' => Running)
  <2>1. VersionsUpTo(k)'
    BY <1>1, <1>3 DEF VersionsUpTo
  <2> QED
    BY <2>1, <1>2, <1>3 DEF VersionInv
<1>4. CASE UNCHANGED manifests /\ nextVersion' = 0 /\ ~Running'
  <2>1. VersionsUpTo(k)'
    BY <1>1, <1>4 DEF VersionsUpTo
  <2> QED
    BY <2>1, <1>4 DEF VersionInv
<1>5. CASE /\ UNCHANGED manifests
           /\ nextVersion' = IF DOMAIN manifests = {} THEN 1
                             ELSE LatestVersion(manifests) + 1
  <2>1. nextVersion' = k + 1
    <3>1. CASE k = 0
      BY <1>1, <1>5, <3>1 DEF VersionsUpTo
    <3>2. CASE k # 0
      <4>1. LatestVersion(manifests) = k
        BY <1>1, <3>2, LatestOfDense DEF VersionsUpTo
      <4> QED
        BY <1>1, <1>5, <3>2, <4>1 DEF VersionsUpTo
    <3> QED
      BY <3>1, <3>2
  <2>2. VersionsUpTo(k)'
    BY <1>1, <1>5, <2>1 DEF VersionsUpTo
  <2> QED
    BY <2>1, <2>2 DEF VersionInv
<1>6. ASSUME NEW m, Running, manifests' = Put(manifests, nextVersion, m)
      PROVE  DOMAIN manifests' = 1..nextVersion /\ nextVersion > 0
  <2>1. DOMAIN Put(manifests, nextVersion, m) = DOMAIN manifests \cup {nextVersion}
    BY DEF Put
  <2>2. nextVersion = k + 1 \/ (nextVersion = k /\ k > 0)
    BY <1>1, <1>6 DEF VersionsUpTo
  <2>3. 1..k \cup {nextVersion} = 1..nextVersion
    BY <2>2
  <2> QED
    BY <1>1, <1>6, <2>1, <2>2, <2>3 DEF VersionsUpTo
<1>7. CASE /\ Running /\ nextVersion' = nextVersion + 1
           /\ manifests' = Put(manifests, nextVersion, Successor)
  <2>2. nextVersion' \in Nat
    BY <1>2, <1>7
  <2>3. \E j \in Nat : VersionsUpTo(j)'
    BY <1>2, <1>6, <1>7 DEF VersionsUpTo
  <2> QED
    BY <2>2, <2>3 DEF VersionInv
<1>8. CASE /\ Running /\ manifests' = Put(manifests, nextVersion, TornManifest)
           /\ \/ UNCHANGED nextVersion
              \/ nextVersion' = 0 /\ ~Running'
  <2>1. ~manifests'[nextVersion].whole
    BY <1>8 DEF Put, TornManifest
  <2>2. \E j \in Nat : VersionsUpTo(j)'
    BY <1>2, <1>6, <1>8, <2>1 DEF VersionsUpTo
  <2>3. nextVersion' \in Nat
    BY <1>2, <1>8
  <2> QED
    BY <2>2, <2>3 DEF VersionInv
<1> QED
  BY <1>3, <1>4, <1>5, <1>7, <1>8 DEF StepKinds

\* The invariant of the version counter, whatever fails except an acknowledgement.
THEOREM VersionsFresh == ASSUME "ack" \notin Faults PROVE Spec => []VersionInv
<1>1. ASSUME VersionInv, [Next]_vars PROVE VersionInv'
  BY <1>1, NextStepKinds, VersionInvStep
<1> QED
  BY <1>1, VersionInvInit, PTL DEF Spec

\* async_writer.go:254-277.  A published manifest is never overwritten: readers
\* of a version see one manifest for ever, across failed flushes, truncated
\* files, crashes and restarts, provided a failed write has no effect that the
\* writer does not know of.
THEOREM PublishedForever == ASSUME "ack" \notin Faults PROVE Spec => PublishedImmutable
<1> DEFINE Same == \A v \in WholeVersions : v \in DOMAIN manifests' /\ manifests'[v] = manifests[v]
<1>1. ASSUME VersionInv, [Next]_vars PROVE Same
  <2>1. PICK k \in Nat : VersionsUpTo(k)
    BY <1>1 DEF VersionInv
  <2>2. StepKinds
    BY <1>1, NextStepKinds
  <2>3. CASE UNCHANGED manifests
    BY <2>3 DEF WholeVersions
  <2>4. ASSUME NEW m, Running, manifests' = Put(manifests, nextVersion, m) PROVE Same
    <3>1. nextVersion \notin WholeVersions
      BY <2>1, <2>4 DEF VersionsUpTo, WholeVersions
    <3>2. \A v \in WholeVersions : v \in DOMAIN manifests /\ v # nextVersion
      BY <3>1 DEF WholeVersions
    <3> QED
      BY <2>4, <3>2 DEF Put
  <2> QED
    BY <2>2, <2>3, <2>4 DEF StepKinds
<1>2. VersionInv /\ [Next]_vars => [Same]_vars
  BY <1>1
<1> QED
  BY <1>2, VersionsFresh, PTL DEF Spec, PublishedImmutable

-----------------------------------------------------------------------------
(* The fragment counter *)

\* Fragments referred to by some version on disk.
Published ==
  UNION {ToSet(manifests[v].frags) : v \in DOMAIN manifests}

\* Ids from n on are free.
FreeFrom(n) == \A f \in Published : f.id < n

\* Every manifest parses and is well formed.
ManifestsTyped ==
  \A v \in DOMAIN manifests :
    /\ manifests[v].whole /\ manifests[v].max \in Nat
    /\ manifests[v].frags \in Seq(FragRecord)

\* The fragment being written has an id no published fragment has; the counter
\* has moved past it once its columns are written.
CounterFresh ==
  /\ fragmentID \in Nat /\ frag \in FragRecord
  /\ Running /\ pc \notin {"read", "commit"} => FreeFrom(fragmentID)
  /\ pc = "column" => frag.id = fragmentID
  /\ pc \in {"read", "commit"} => FreeFrom(frag.id) /\ fragmentID = frag.id + 1

\* What the fragment being written refers to, and what the base does, is there.
InFlight ==
  /\ pc \in {"column", "read", "commit"} => Present(frag)
  /\ pc = "commit" =>
       /\ base.max \in Nat /\ base.frags \in Seq(FragRecord)
       /\ ToSet(base.frags) \subseteq Published

\* MaxFragmentID of the newest version covers every fragment ever published.
MaxCovers ==
  DOMAIN manifests # {} =>
    \A f \in Published : f.id <= manifests[LatestVersion(manifests)].max

FileInv ==
  /\ ManifestsTyped /\ CounterFresh /\ InFlight /\ MaxCovers
  /\ \A f \in Published : Present(f)

\* Store failures under which the fragment counter can be trusted: every
\* manifest on disk parses, and Start reads the newest one.
Benign == Faults \cap {"ack", "torn", "read"} = {}

\* Elements of a sequence that grows by one.
LEMMA ToSetOfAppend ==
  ASSUME NEW S, NEW s \in Seq(S), NEW e \in S
  PROVE  /\ Append(s, e) \in Seq(S)
         /\ ToSet(Append(s, e)) = ToSet(s) \cup {e}
<1>1. Append(s, e) \in Seq(S) /\ DOMAIN Append(s, e) = 1..(Len(s) + 1)
  OBVIOUS
<1>2. \A i \in 1..(Len(s) + 1) : Append(s, e)[i] = IF i = Len(s) + 1 THEN e ELSE s[i]
  OBVIOUS
<1>3. DOMAIN s = 1..Len(s) /\ Len(s) \in Nat
  OBVIOUS
<1> QED
  BY <1>1, <1>2, <1>3 DEF ToSet

\* Elements of a typed sequence.
LEMMA ToSetTyped == ASSUME NEW S, NEW s \in Seq(S) PROVE ToSet(s) \subseteq S
  BY DEF ToSet

\* What the manifests list are fragment records.
LEMMA PublishedTyped == ManifestsTyped => Published \subseteq FragRecord
<1> SUFFICES ASSUME ManifestsTyped, NEW f \in Published PROVE f \in FragRecord
  OBVIOUS
<1>1. PICK v \in DOMAIN manifests : f \in ToSet(manifests[v].frags)
  BY DEF Published
<1>2. manifests[v].frags \in Seq(FragRecord)
  BY DEF ManifestsTyped
<1> QED
  BY <1>1, <1>2, ToSetTyped

\* Steps that touch neither manifests nor the fragment being written, and
\* steps that abandon it.
QuietStep ==
  /\ UNCHANGED manifests
  /\ DOMAIN files \subseteq DOMAIN files'
  /\ frag' \in FragRecord
  /\ \/ UNCHANGED <<fragmentID, pc, frag, base>>
     \/ /\ UNCHANGED fragmentID
        /\ pc' \notin {"column", "read", "commit"} /\ (Running' => Running)
     \/ fragmentID' = 0 /\ pc' = "off"

\* A step that leaves manifests and files alone keeps the invariant.
LEMMA QuietPreserves == ASSUME FileInv, QuietStep PROVE FileInv'
<1>1. Published' = Published /\ ManifestsTyped' /\ MaxCovers'
  BY DEF QuietStep, FileInv, Published, ManifestsTyped, MaxCovers
<1>2. \A f : Present(f) => Present(f)'
  BY DEF QuietStep, Present
<1>3. \A f \in Published' : Present(f)'
  BY <1>1, <1>2 DEF FileInv
<1>4. CounterFresh'
  <2>1. \A n : FreeFrom(n)' <=> FreeFrom(n)
    BY <1>1 DEF FreeFrom
  <2>2. CASE UNCHANGED <<fragmentID, pc, frag, base>>
    BY <2>1, <2>2 DEF FileInv, CounterFresh, Running
  <2>3. CASE fragmentID' = 0 /\ pc' = "off"
    BY <2>3 DEF QuietStep, CounterFresh, Running
  <2>4. CASE /\ UNCHANGED fragmentID
             /\ pc' \notin {"column", "read", "commit"} /\ (Running' => Running)
    <3>1. Running => FreeFrom(fragmentID)
      <4>1. CASE pc \in {"read", "commit"}
        <5>1. \A f \in Published : f.id < frag.id /\ f.id \in Nat
          BY <4>1, PublishedTyped DEF FileInv, CounterFresh, FreeFrom, FragRecord
        <5> QED
          BY <4>1, <5>1 DEF FileInv, CounterFresh, FreeFrom, FragRecord
      <4>2. CASE pc \notin {"read", "commit"}
        BY <4>2 DEF FileInv, CounterFresh
      <4> QED
        BY <4>1, <4>2
    <3> QED
      BY <2>1, <2>4, <3>1 DEF QuietStep, FileInv, CounterFresh
  <2> QED
    BY <2>2, <2>3, <2>4 DEF QuietStep
<1>5. InFlight'
  <2>1. CASE UNCHANGED <<fragmentID, pc, frag, base>>
    BY <1>1, <1>2, <2>1 DEF FileInv, InFlight
  <2>2. CASE pc' \notin {"column", "read", "commit"}
    BY <2>2 DEF InFlight
  <2> QED
    BY <2>1, <2>2 DEF QuietStep
<1> QED
  BY <1>1, <1>3, <1>4, <1>5 DEF FileInv

\* Every step is quiet, or one of those that concern files, fragments and counters.
LEMMA QuietSteps ==
  ASSUME Benign, FileInv, [Next]_vars
  PROVE  \/ QuietStep \/ FlushStart \/ FlushLatest \/ FlushRead \/ FlushCommit \/ Start
         \/ \E c \in Columns : FlushColumn(c)
<1>1. frag \in FragRecord /\ NoFrag \in FragRecord
  BY DEF FileInv, CounterFresh, NoFrag, FragRecord
<1> USE <1>1 DEF QuietStep, Running, Benign, Fault, Fresh
<1>2. CASE UNCHANGED vars
  BY <1>2 DEF vars, disk, writer, local
<1>3. ASSUME NEW b \in Batches, Write(b) PROVE QuietStep
  BY <1>3 DEF Write, disk, writer, local
<1>4. ASSUME NEW c \in Clients, FlushCall(c) \/ FlushDone(c) \/ CloseCall(c) \/ CloseDone(c)
      PROVE QuietStep
  BY <1>4 DEF FlushCall, FlushDone, CloseCall, CloseDone, disk, writer, local
<1>5. CASE Receive \/ Cancel
  BY <1>5 DEF Receive, Cancel, disk, writer, local
<1>6. CASE SelectBatch
  BY <1>6 DEF SelectBatch, disk
<1>7. CASE SelectStop \/ SelectTimer
  BY <1>7 DEF SelectStop, SelectTimer, disk, writer
<1>8. CASE Drain
  BY <1>8 DEF Drain, disk
<1>9. ASSUME NEW c \in Clients, SelectFlush(c) PROVE QuietStep
  BY <1>9 DEF SelectFlush, disk, writer
<1>10. ASSUME NEW err, NEW results, Return(err, results)
       PROVE  frag' = NoFrag /\ pc' \in {"select", "exited"}
  BY <1>10 DEF Return, Exit
<1>11. CASE FlushEmpty
  BY <1>10, <1>11 DEF FlushEmpty, disk
<1>12. CASE FlushReadFails
  BY <1>10, <1>12 DEF FlushReadFails, ReturnError, disk
<1>13. CASE FlushCommitFails
  BY <1>10, <1>13 DEF FlushCommitFails, ReturnError
<1>14. ASSUME NEW c \in Columns, FlushColumnFails(c) PROVE QuietStep
  BY <1>10, <1>14 DEF FlushColumnFails, ReturnError, Put
<1>15. CASE Crash
  BY <1>15 DEF Crash, disk
<1> QED
  BY <1>2, <1>3, <1>4, <1>5, <1>6, <1>7, <1>8, <1>9, <1>11, <1>12, <1>13, <1>14,
     <1>15 DEF Next, FlushStep

\* A step that leaves the disk alone leaves everything said of it alone.
LEMMA DiskUnchanged ==
  ASSUME FileInv, UNCHANGED manifests, DOMAIN files \subseteq DOMAIN files'
  PROVE  /\ Published' = Published /\ ManifestsTyped' /\ MaxCovers'
         /\ \A f : Present(f) => Present(f)'
         /\ \A f \in Published' : Present(f)'
         /\ \A n : FreeFrom(n)' <=> FreeFrom(n)
<1>1. Published' = Published /\ ManifestsTyped' /\ MaxCovers'
  BY DEF FileInv, Published, ManifestsTyped, MaxCovers
<1>2. \A f : Present(f) => Present(f)'
  BY DEF Present
<1>3. \A n : FreeFrom(n)' <=> FreeFrom(n)
  BY <1>1 DEF FreeFrom
<1> QED
  BY <1>1, <1>2, <1>3 DEF FileInv

\* The five steps of flush that start, fill and look for the place of a fragment.
LEMMA FlushStepsPreserve ==
  ASSUME FileInv,
         \/ FlushStart \/ FlushLatest \/ FlushRead
         \/ \E c \in Columns : FlushColumn(c)
  PROVE  FileInv'
<1>1. /\ UNCHANGED manifests /\ DOMAIN files \subseteq DOMAIN files'
  BY DEF FlushStart, FlushLatest, FlushRead, FlushColumn, disk, Put
<1>2. /\ Published' = Published /\ ManifestsTyped' /\ MaxCovers'
      /\ \A f : Present(f) => Present(f)'
      /\ \A f \in Published' : Present(f)'
      /\ \A n : FreeFrom(n)' <=> FreeFrom(n)
  BY <1>1, DiskUnchanged
<1>3. CASE FlushStart
  <2>1. frag' = [id |-> fragmentID, cols |-> {}] /\ pc = "flush" /\ pc' = "column"
        /\ fragmentID' = fragmentID
    BY <1>3 DEF FlushStart, writer
  <2>2. CounterFresh'
    BY <1>2, <2>1 DEF FileInv, CounterFresh, FragRecord, Running
  <2>3. InFlight'
    BY <2>1 DEF InFlight, Present
  <2> QED
    BY <1>2, <2>2, <2>3 DEF FileInv
<1>4. ASSUME NEW c \in Columns, FlushColumn(c) PROVE FileInv'
  <2>1. pc = "column" /\ UNCHANGED <<pc, fragmentID>>
    BY <1>4 DEF FlushColumn, writer
  <2>2. frag' = [frag EXCEPT !.cols = @ \cup {c}] /\ frag \in FragRecord
    BY <1>4 DEF FlushColumn, FileInv, CounterFresh
  <2>3. frag' \in FragRecord /\ frag'.id = frag.id /\ frag'.cols = frag.cols \cup {c}
    BY <2>2 DEF FragRecord
  <2>4. CounterFresh'
    BY <1>2, <2>1, <2>3 DEF FileInv, CounterFresh, Running
  <2>5. DOMAIN files' = DOMAIN files \cup {<<frag.id, c>>}
    BY <1>4 DEF FlushColumn, Put
  <2>6. InFlight'
    BY <2>1, <2>3, <2>5 DEF FileInv, InFlight, Present
  <2> QED
    BY <1>2, <2>4, <2>6 DEF FileInv
<1>5. CASE FlushLatest
  <2>1. /\ pc = "column" /\ pc' \in {"read", "commit"} /\ fragmentID' = fragmentID + 1
        /\ UNCHANGED frag /\ base' = TornManifest
    BY <1>5 DEF FlushLatest
  <2>2. CounterFresh'
    BY <1>2, <2>1 DEF FileInv, CounterFresh, Running
  <2>3. base'.max \in Nat /\ base'.frags \in Seq(FragRecord) /\ ToSet(base'.frags) = {}
    BY <2>1 DEF TornManifest, ToSet
  <2>4. InFlight'
    BY <1>2, <2>1, <2>3 DEF FileInv, InFlight
  <2> QED
    BY <1>2, <2>2, <2>4 DEF FileInv
<1>6. CASE FlushRead
  <2>1. /\ pc = "read" /\ pc' = "commit"
        /\ UNCHANGED <<frag, fragmentID>>
    BY <1>6 DEF FlushRead, writer
  <2>2. PICK v \in DOMAIN manifests : base' = manifests[v]
    BY <1>6 DEF FlushRead, Readable
  <2>3. CounterFresh'
    BY <1>2, <2>1 DEF FileInv, CounterFresh
  <2>4. /\ base'.max \in Nat /\ base'.frags \in Seq(FragRecord)
        /\ ToSet(base'.frags) \subseteq Published
    BY <2>2 DEF FileInv, ManifestsTyped, Published
  <2>5. InFlight'
    BY <1>2, <2>1, <2>4 DEF FileInv, InFlight
  <2> QED
    BY <1>2, <2>3, <2>5 DEF FileInv
<1> QED
  BY <1>3, <1>4, <1>5, <1>6

\* Start resumes behind everything that was published.
LEMMA StartPreserves ==
  ASSUME Benign, FileInv, VersionInv, Start PROVE FileInv'
<1>1. /\ UNCHANGED <<manifests, files>> /\ pc' = "select" /\ frag' = NoFrag
  BY DEF Start, disk, Fresh
<1>2. /\ Published' = Published /\ ManifestsTyped' /\ MaxCovers'
      /\ \A f \in Published' : Present(f)'
      /\ \A n : FreeFrom(n)' <=> FreeFrom(n)
  BY <1>1, DiskUnchanged
<1>3. NoFrag \in FragRecord
  BY DEF NoFrag, FragRecord
<1>4. fragmentID' \in Nat /\ FreeFrom(fragmentID')
  <2>1. CASE DOMAIN manifests = {}
    <3>1. Published = {} /\ fragmentID' = 0
      BY <2>1 DEF Start, Published
    <3> QED
      BY <3>1 DEF FreeFrom
  <2>2. CASE DOMAIN manifests # {}
    <3> DEFINE latest == LatestVersion(manifests)
    <3>1. PICK k \in Nat : DOMAIN manifests = 1..k
      BY DEF VersionInv, VersionsUpTo
    <3>2. k \in Nat \ {0}
      BY <2>2, <3>1
    <3>3. latest = k
      BY <3>1, <3>2, LatestOfDense
    <3>4. latest \in DOMAIN manifests
      BY <3>1, <3>2, <3>3
    <3>5. manifests[latest].whole /\ manifests[latest].max \in Nat
      BY <3>4 DEF FileInv, ManifestsTyped
    <3>6. fragmentID' = manifests[latest].max + 1
      BY <2>2, <3>4, <3>5 DEF Start, Readable, FirstFreeFragment, Benign, Fault
    <3>7. \A f \in Published : f.id \in Nat /\ f.id <= manifests[latest].max
      BY <2>2, PublishedTyped DEF FileInv, MaxCovers, FragRecord
    <3> QED
      BY <3>5, <3>6, <3>7 DEF FreeFrom
  <2> QED
    BY <2>1, <2>2
<1>5. CounterFresh'
  BY <1>1, <1>2, <1>3, <1>4 DEF CounterFresh
<1>6. InFlight'
  BY <1>1 DEF InFlight
<1> QED
  BY <1>2, <1>5, <1>6 DEF FileInv

\* The manifest flush builds: well formed, nothing but old fragments and the
\* new one, and MaxFragmentID no smaller than the new id.
LEMMA SuccessorFacts ==
  ASSUME FileInv, pc = "commit"
  PROVE  /\ Successor.whole /\ Successor.max \in Nat /\ frag.id <= Successor.max
         /\ Successor.frags \in Seq(FragRecord)
         /\ ToSet(Successor.frags) \subseteq Published \cup {frag}
<1>1. frag \in FragRecord /\ frag.id \in Nat
  BY DEF FileInv, CounterFresh, FragRecord
<1>2. CASE base.whole
  <2>1. base.max \in Nat /\ base.frags \in Seq(FragRecord) /\ ToSet(base.frags) \subseteq Published
    BY DEF FileInv, InFlight
  <2>2. Successor = [whole |-> TRUE, frags |-> Append(base.frags, frag),
                     max |-> IF frag.id > base.max THEN frag.id ELSE base.max]
    BY <1>2 DEF Successor, AppendFragment, NewManifest
  <2>3. /\ Append(base.frags, frag) \in Seq(FragRecord)
        /\ ToSet(Append(base.frags, frag)) = ToSet(base.frags) \cup {frag}
    BY <1>1, <2>1, ToSetOfAppend
  <2> QED
    BY <1>1, <2>1, <2>2, <2>3
<1>3. CASE ~base.whole
  <2>1. Successor = [whole |-> TRUE, frags |-> <<frag>>, max |-> frag.id]
    BY <1>3 DEF Successor, FirstFragment, NewManifest
  <2>2. <<frag>> \in Seq(FragRecord) /\ ToSet(<<frag>>) = {frag}
    BY <1>1 DEF ToSet
  <2> QED
    BY <1>1, <2>1, <2>2
<1> QED
  BY <1>2, <1>3

\* The successor lists the fragments of the base and the one just written.
LEMMA CommitPreserves ==
  ASSUME FileInv, VersionInv, FlushCommit PROVE FileInv'
<1>1. /\ pc = "commit" /\ Running /\ manifests' = Put(manifests, nextVersion, Successor)
      /\ UNCHANGED <<files, fragmentID>>
  BY DEF FlushCommit, Running
<1>2. frag' = NoFrag /\ pc' \in {"select", "exited"}
  BY DEF FlushCommit, Return, Exit
<1>3. PICK k \in Nat : DOMAIN manifests = 1..k /\ nextVersion = k + 1
  <2>1. PICK k \in Nat : VersionsUpTo(k)
    BY DEF VersionInv
  <2>2. ~(k > 0 /\ ~manifests[k].whole)
    BY <2>1 DEF VersionsUpTo, FileInv, ManifestsTyped
  <2> QED
    BY <1>1, <2>1, <2>2 DEF VersionsUpTo
<1> DEFINE m == Successor
<1>4. /\ m.whole /\ m.max \in Nat /\ frag.id <= m.max /\ m.frags \in Seq(FragRecord)
      /\ ToSet(m.frags) \subseteq Published \cup {frag}
  BY <1>1, SuccessorFacts
<1> HIDE DEF m
<1>5. /\ DOMAIN manifests' = 1..(k + 1) /\ manifests'[k + 1] = m
      /\ \A v \in DOMAIN manifests : manifests'[v] = manifests[v]
  BY <1>1, <1>3 DEF Put, m
<1>6. ManifestsTyped'
  <2>1. ASSUME NEW v \in DOMAIN manifests'
        PROVE  /\ manifests'[v].whole /\ manifests'[v].max \in Nat
               /\ manifests'[v].frags \in Seq(FragRecord)
    <3>1. CASE v = k + 1
      BY <1>4, <1>5, <3>1
    <3>2. CASE v # k + 1
      BY <1>3, <1>5, <3>2 DEF FileInv, ManifestsTyped
    <3> QED
      BY <3>1, <3>2
  <2> QED
    BY <2>1 DEF ManifestsTyped
<1>7. Published' \subseteq Published \cup {frag}
  <2> SUFFICES ASSUME NEW f \in Published' PROVE f \in Published \cup {frag}
    OBVIOUS
  <2>1. PICK v \in DOMAIN manifests' : f \in ToSet(manifests'[v].frags)
    BY DEF Published
  <2>2. CASE v = k + 1
    BY <1>4, <1>5, <2>1, <2>2
  <2>3. CASE v # k + 1
    <3>1. v \in DOMAIN manifests /\ manifests'[v] = manifests[v]
      BY <1>3, <1>5, <2>3
    <3> QED
      BY <2>1, <3>1 DEF Published
  <2> QED
    BY <2>2, <2>3
<1>8. /\ frag \in FragRecord /\ frag.id \in Nat /\ fragmentID = frag.id + 1
      /\ \A f \in Published : f.id \in Nat /\ f.id < frag.id
  BY <1>1, PublishedTyped DEF FileInv, CounterFresh, FreeFrom, FragRecord
<1>9. CounterFresh'
  <2>1. NoFrag \in FragRecord
    BY DEF NoFrag, FragRecord
  <2>2. \A f \in Published' : f.id < fragmentID
    BY <1>7, <1>8
  <2> QED
    BY <1>1, <1>2, <1>8, <2>1, <2>2 DEF CounterFresh, FreeFrom
<1>10. InFlight'
  BY <1>2 DEF InFlight
<1>11. MaxCovers'
  <2>1. LatestVersion(manifests') = k + 1
    BY <1>3, <1>5, LatestOfDense
  <2>2. LatestVersion(manifests)' = k + 1
    BY <2>1
  <2>3. \A f \in Published' : f.id <= m.max
    BY <1>4, <1>7, <1>8
  <2> QED
    BY <1>5, <2>2, <2>3 DEF MaxCovers
<1>12. \A f \in Published' : Present(f)'
  <2>1. \A f : Present(f)' <=> Present(f)
    BY <1>1 DEF Present
  <2>2. Present(frag)
    BY <1>1 DEF FileInv, InFlight
  <2> QED
    BY <1>7, <2>1, <2>2 DEF FileInv
<1> QED
  BY <1>6, <1>9, <1>10, <1>11, <1>12 DEF FileInv

\* An empty directory, or one with the empty manifest that Create wrote.
LEMMA FileInvInit == Init => FileInv
<1> SUFFICES ASSUME Init PROVE FileInv
  OBVIOUS
<1>1. \A v \in DOMAIN manifests : manifests[v] = [whole |-> TRUE, frags |-> <<>>, max |-> 0]
  BY DEF Init, EmptyManifest, NewManifest
<1>2. ManifestsTyped
  <2>1. <<>> \in Seq(FragRecord)
    OBVIOUS
  <2>2. ASSUME NEW v \in DOMAIN manifests
        PROVE  /\ manifests[v].whole /\ manifests[v].max \in Nat
               /\ manifests[v].frags \in Seq(FragRecord)
    <3>1. manifests[v] = [whole |-> TRUE, frags |-> <<>>, max |-> 0]
      BY <1>1
    <3>2. manifests[v].frags = <<>> /\ manifests[v].whole = TRUE /\ manifests[v].max = 0
      BY <3>1
    <3> QED
      BY <2>1, <3>2
  <2> QED
    BY <2>2 DEF ManifestsTyped
<1>3. Published = {}
  <2>1. \A v \in DOMAIN manifests : ToSet(manifests[v].frags) = {}
    BY <1>1 DEF ToSet
  <2> QED
    BY <2>1 DEF Published
<1>4. fragmentID = 0 /\ frag = NoFrag /\ pc = "off"
  BY DEF Init
<1> QED
  BY <1>2, <1>3, <1>4 DEF FileInv, CounterFresh, InFlight, MaxCovers, Running, NoFrag, FragRecord

\* The invariant of the fragment counter.
THEOREM FragmentsFresh == ASSUME Benign PROVE Spec => []FileInv
<1>1. "ack" \notin Faults
  BY DEF Benign
<1>2. ASSUME FileInv, VersionInv, [Next]_vars PROVE FileInv'
  BY <1>2, QuietSteps, QuietPreserves, FlushStepsPreserve, StartPreserves, CommitPreserves
<1> QED
  BY <1>1, <1>2, FileInvInit, VersionsFresh, PTL DEF Spec

\* A step writes no column file of a fragment that some version lists.
LEMMA PublishedFilesStay ==
  ASSUME Benign, FileInv, [Next]_vars
  PROVE  \A g \in Published : \A d \in g.cols : files'[<<g.id, d>>] = files[<<g.id, d>>]
<1>1. UNCHANGED files \/ \E c \in Columns : FlushColumn(c) \/ FlushColumnFails(c)
  <2> USE DEF Benign, Fault
  <2> QED
    BY DEF Next, FlushStep, vars, disk, Write, FlushCall, FlushDone, CloseCall, CloseDone,
           Receive, Cancel, SelectBatch, SelectStop, SelectTimer, Drain, SelectFlush,
           FlushEmpty, FlushStart, FlushLatest, FlushRead, FlushReadFails, FlushCommit,
           FlushCommitFails, Start, Crash
<1>2. ASSUME NEW c \in Columns, FlushColumn(c) \/ FlushColumnFails(c),
             NEW g \in Published, NEW d \in g.cols
      PROVE  files'[<<g.id, d>>] = files[<<g.id, d>>]
  <2>1. pc = "column" /\ frag.id = fragmentID /\ FreeFrom(fragmentID)
    BY <1>2 DEF FlushColumn, FlushColumnFails, FileInv, CounterFresh, Running
  <2>2. \/ UNCHANGED files
        \/ files' = Put(files, <<frag.id, c>>, currentBatch[c])
    BY <1>2 DEF FlushColumn, FlushColumnFails, Benign, Fault
  <2>3. g.id < frag.id /\ g.id \in Nat /\ Present(g)
    BY <2>1, PublishedTyped DEF FreeFrom, FileInv, FragRecord
  <2>4. <<g.id, d>> \in DOMAIN files /\ <<g.id, d>> # <<frag.id, c>>
    BY <2>1, <2>3 DEF Present
  <2> QED
    BY <2>2, <2>4 DEF Put
<1> QED
  BY <1>1, <1>2

\* async_writer.go:84-93, 241-251.  Column files of a published fragment are never
\* written again: not by a flush that is retried after a failure, not by the
\* writer of a later process, provided Start can read the newest manifest.
THEOREM CommittedForever == ASSUME Benign PROVE Spec => CommittedFilesImmutable
<1> DEFINE Same ==
      \A v \in WholeVersions : \A i \in DOMAIN manifests[v].frags :
        \A c \in manifests[v].frags[i].cols :
          LET f == <<manifests[v].frags[i].id, c>> IN files'[f] = files[f]
<1>1. ASSUME FileInv, [Next]_vars PROVE Same
  <2>1. \A v \in WholeVersions : \A i \in DOMAIN manifests[v].frags :
          manifests[v].frags[i] \in Published
    BY DEF Published, ToSet, WholeVersions
  <2> QED
    BY <1>1, <2>1, PublishedFilesStay
<1>2. FileInv /\ [Next]_vars => [Same]_vars
  BY <1>1
<1> QED
  BY <1>2, FragmentsFresh, PTL DEF Spec, CommittedFilesImmutable

-----------------------------------------------------------------------------
(* Data before metadata, whatever fails *)

\* What a manifest lists is there.
Complete(m) ==
  /\ m.max \in Nat /\ m.frags \in Seq(FragRecord)
  /\ \A f \in ToSet(m.frags) : Present(f)

\* So it is for every manifest, for the one that flush builds on, and for the
\* columns of the fragment that it writes.
FragmentsThere ==
  /\ frag \in FragRecord /\ fragmentID \in Nat
  /\ pc \in {"column", "read", "commit"} => Present(frag)
  /\ Complete(base)
  /\ \A v \in DOMAIN manifests : Complete(manifests[v])

\* What a step does to the manifests.
ManifestKinds ==
  \/ UNCHANGED manifests
  \/ /\ pc = "commit" /\ UNCHANGED files
     /\ \/ manifests' = Put(manifests, nextVersion, Successor)
        \/ manifests' = Put(manifests, nextVersion, TornManifest)

\* What it does to the fragment being written.
FragKinds ==
  \/ UNCHANGED <<pc, frag, base, fragmentID>>
  \/ /\ pc' \notin {"column", "read", "commit"} /\ fragmentID' \in {0, fragmentID}
     /\ frag' \in {frag, NoFrag} /\ base' \in {base, TornManifest}
  \/ FlushStart \/ FlushLatest \/ FlushRead \/ Start
  \/ \E c \in Columns : FlushColumn(c)

\* Files never disappear, and a step does to manifests and fragment one of the things above,
\* whatever fails.
LEMMA AnyStep ==
  ASSUME [Next]_vars
  PROVE  DOMAIN files \subseteq DOMAIN files' /\ ManifestKinds /\ FragKinds
<1> DEFINE Kinds == DOMAIN files \subseteq DOMAIN files' /\ ManifestKinds /\ FragKinds
<1> USE DEF ManifestKinds, FragKinds
<1>1. CASE UNCHANGED vars
  BY <1>1 DEF vars, disk, writer, local
<1>2. ASSUME NEW b \in Batches, Write(b) PROVE Kinds
  BY <1>2 DEF Write, disk, writer, local
<1>3. ASSUME NEW c \in Clients, FlushCall(c) \/ FlushDone(c) \/ CloseCall(c) \/ CloseDone(c)
      PROVE Kinds
  BY <1>3 DEF FlushCall, FlushDone, CloseCall, CloseDone, disk, writer, local
<1>4. CASE Receive \/ Cancel
  BY <1>4 DEF Receive, Cancel, disk, writer, local
<1>5. CASE SelectBatch \/ Drain
  BY <1>5 DEF SelectBatch, Drain, disk
<1>6. CASE SelectStop \/ SelectTimer
  BY <1>6 DEF SelectStop, SelectTimer, disk, writer
<1>7. ASSUME NEW c \in Clients, SelectFlush(c) PROVE Kinds
  BY <1>7 DEF SelectFlush, disk, writer
<1>8. ASSUME NEW err, NEW results, Return(err, results)
      PROVE  frag' = NoFrag /\ base' = TornManifest /\ pc' \in {"select", "exited"}
  BY <1>8 DEF Return, Exit
<1>9. CASE FlushEmpty
  BY <1>8, <1>9 DEF FlushEmpty, disk
<1>10. CASE FlushStart \/ FlushLatest \/ FlushRead
  BY <1>10 DEF FlushStart, FlushLatest, FlushRead, disk
<1>11. CASE FlushReadFails
  BY <1>8, <1>11 DEF FlushReadFails, ReturnError, disk
<1>12. CASE FlushCommit
  BY <1>8, <1>12 DEF FlushCommit
<1>13. CASE FlushCommitFails
  BY <1>8, <1>13 DEF FlushCommitFails, ReturnError
<1>14. ASSUME NEW c \in Columns, FlushColumn(c) PROVE Kinds
  BY <1>14 DEF FlushColumn, Put
<1>15. ASSUME NEW c \in Columns, FlushColumnFails(c) PROVE Kinds
  BY <1>8, <1>15 DEF FlushColumnFails, ReturnError, Put
<1>16. CASE Start
  BY <1>16 DEF Start, disk
<1>17. CASE Crash
  BY <1>17 DEF Crash, Fresh, disk, Put
<1> QED
  BY <1>1, <1>2, <1>3, <1>4, <1>5, <1>6, <1>7, <1>9, <1>10, <1>11, <1>12, <1>13, <1>14,
     <1>15, <1>16, <1>17 DEF Next, FlushStep

\* The manifest flush builds on a complete one lists the new fragment.
LEMMA SuccessorComplete ==
  ASSUME FragmentsThere, pc = "commit"
  PROVE  Complete(Successor)
<1>1. frag \in FragRecord /\ frag.id \in Nat /\ Present(frag)
  BY DEF FragmentsThere, FragRecord
<1>2. CASE base.whole
  <2>1. base.max \in Nat /\ base.frags \in Seq(FragRecord)
        /\ \A f \in ToSet(base.frags) : Present(f)
    BY DEF FragmentsThere, Complete
  <2>2. Successor = [whole |-> TRUE, frags |-> Append(base.frags, frag),
                     max |-> IF frag.id > base.max THEN frag.id ELSE base.max]
    BY <1>2 DEF Successor, AppendFragment, NewManifest
  <2>3. /\ Append(base.frags, frag) \in Seq(FragRecord)
        /\ ToSet(Append(base.frags, frag)) = ToSet(base.frags) \cup {frag}
    BY <1>1, <2>1, ToSetOfAppend
  <2>4. /\ Successor.frags = Append(base.frags, frag) /\ Successor.max \in Nat
    BY <1>1, <2>1, <2>2
  <2> QED
    BY <1>1, <2>1, <2>3, <2>4 DEF Complete
<1>3. CASE ~base.whole
  <2>1. Successor = [whole |-> TRUE, frags |-> <<frag>>, max |-> frag.id]
    BY <1>3 DEF Successor, FirstFragment, NewManifest
  <2>2. <<frag>> \in Seq(FragRecord) /\ ToSet(<<frag>>) = {frag}
    BY <1>1 DEF ToSet
  <2> QED
    BY <1>1, <2>1, <2>2 DEF Complete
<1> QED
  BY <1>2, <1>3

\* A truncated manifest lists nothing that could be missing.
LEMMA TornComplete == Complete(TornManifest)
<1>1. TornManifest.max = 0 /\ TornManifest.frags = <<>>
  BY DEF TornManifest
<1>2. <<>> \in Seq(FragRecord) /\ ToSet(<<>>) = {}
  BY DEF ToSet
<1> QED
  BY <1>1, <1>2 DEF Complete

\* No manifest lists anything yet.
LEMMA FragmentsThereInit == Init => FragmentsThere
<1> SUFFICES ASSUME Init PROVE FragmentsThere
  OBVIOUS
<1>1. EmptyManifest.max = 0 /\ EmptyManifest.frags = <<>>
  BY DEF EmptyManifest, NewManifest
<1>2. <<>> \in Seq(FragRecord) /\ ToSet(<<>>) = {}
  BY DEF ToSet
<1>3. Complete(EmptyManifest)
  BY <1>1, <1>2 DEF Complete
<1>4. \A v \in DOMAIN manifests : manifests[v] = EmptyManifest
  BY DEF Init
<1> QED
  BY <1>3, <1>4, TornComplete DEF Init, FragmentsThere, NoFrag, FragRecord

\* A column file is written before the fragment that has it is put in a manifest.
LEMMA FragmentsThereStep == FragmentsThere /\ [Next]_vars => FragmentsThere'
<1> SUFFICES ASSUME FragmentsThere, [Next]_vars PROVE FragmentsThere'
  OBVIOUS
<1>1. DOMAIN files \subseteq DOMAIN files' /\ ManifestKinds /\ FragKinds
  BY AnyStep
<1>2. ASSUME NEW m, Complete(m) PROVE \A x : x = m => Complete(x)'
  BY <1>1, <1>2 DEF Complete, Present
<1>3. \A f : Present(f) => Present(f)'
  BY <1>1 DEF Present
<1>4. ASSUME NEW v \in DOMAIN manifests' PROVE Complete(manifests[v])'
  <2>1. CASE UNCHANGED manifests
    <3>1. Complete(manifests[v]) /\ manifests'[v] = manifests[v]
      BY <2>1 DEF FragmentsThere
    <3> QED BY <1>1, <3>1 DEF Complete, Present
  <2>2. ASSUME NEW m, Complete(m), manifests' = Put(manifests, nextVersion, m)
        PROVE  Complete(manifests[v])'
    <3>1. \/ manifests'[v] = m
          \/ v \in DOMAIN manifests /\ manifests'[v] = manifests[v]
      BY <2>2 DEF Put
    <3>2. Complete(manifests'[v])
      BY <2>2, <3>1 DEF FragmentsThere
    <3> QED BY <1>1, <3>2 DEF Complete, Present
  <2>3. pc = "commit" => Complete(Successor)
    BY SuccessorComplete
  <2> QED BY <1>1, <2>1, <2>2, <2>3, TornComplete DEF ManifestKinds
<1>5. ASSUME base' \in {base, TornManifest} PROVE Complete(base)'
  <2>1. Complete(base')
    BY <1>5, TornComplete DEF FragmentsThere
  <2> QED BY <1>1, <2>1 DEF Complete, Present
<1>6. NoFrag \in FragRecord
  BY DEF NoFrag, FragRecord
<1> DEFINE Rest == /\ frag' \in FragRecord /\ fragmentID' \in Nat
                   /\ pc' \in {"column", "read", "commit"} => Present(frag)'
                   /\ Complete(base)'
<1>7. CASE UNCHANGED <<pc, frag, base, fragmentID>>
  <2>1. pc' \in {"column", "read", "commit"} => Present(frag)'
    BY <1>1, <1>7 DEF FragmentsThere, Present
  <2>2. Rest
    BY <1>5, <1>7, <2>1 DEF FragmentsThere
  <2> QED BY <1>4, <2>2 DEF FragmentsThere
<1>8. CASE /\ pc' \notin {"column", "read", "commit"} /\ fragmentID' \in {0, fragmentID}
           /\ frag' \in {frag, NoFrag} /\ base' \in {base, TornManifest}
  <2>1. Rest
    BY <1>5, <1>6, <1>8 DEF FragmentsThere
  <2> QED BY <1>4, <2>1 DEF FragmentsThere
<1>9. CASE FlushStart
  <2>1. frag' = [id |-> fragmentID, cols |-> {}] /\ UNCHANGED <<fragmentID, base>>
    BY <1>9 DEF FlushStart, writer
  <2>2. frag' \in FragRecord /\ Present(frag)'
    BY <2>1 DEF FragmentsThere, FragRecord, Present
  <2>3. Rest
    BY <1>5, <2>1, <2>2 DEF FragmentsThere
  <2> QED BY <1>4, <2>3 DEF FragmentsThere
<1>10. CASE FlushLatest
  <2>1. /\ pc = "column" /\ fragmentID' = fragmentID + 1 /\ UNCHANGED <<frag, files>>
        /\ base' = TornManifest
    BY <1>10 DEF FlushLatest, disk
  <2>2. Present(frag)'
    BY <2>1 DEF FragmentsThere, Present
  <2>3. Rest
    BY <1>5, <2>1, <2>2 DEF FragmentsThere
  <2> QED BY <1>4, <2>3 DEF FragmentsThere
<1>11. CASE FlushRead
  <2>1. /\ pc = "read" /\ UNCHANGED <<frag, fragmentID, files>>
    BY <1>11 DEF FlushRead, disk, writer
  <2>2. PICK v \in DOMAIN manifests : base' = manifests[v]
    BY <1>11 DEF FlushRead, Readable
  <2>3. Complete(manifests[v])
    BY DEF FragmentsThere
  <2>4. Complete(base)'
    BY <1>1, <2>2, <2>3 DEF Complete, Present
  <2>5. Present(frag)'
    BY <2>1 DEF FragmentsThere, Present
  <2>6. Rest
    BY <2>1, <2>4, <2>5 DEF FragmentsThere
  <2> QED BY <1>4, <2>6 DEF FragmentsThere
<1>12. ASSUME NEW c \in Columns, FlushColumn(c) PROVE FragmentsThere'
  <2>1. /\ pc = "column" /\ UNCHANGED <<fragmentID, base>>
        /\ frag' = [frag EXCEPT !.cols = @ \cup {c}] /\ frag \in FragRecord
    BY <1>12 DEF FlushColumn, FragmentsThere, writer
  <2>2. frag' \in FragRecord /\ frag'.id = frag.id /\ frag'.cols = frag.cols \cup {c}
    BY <2>1 DEF FragRecord
  <2>3. DOMAIN files' = DOMAIN files \cup {<<frag.id, c>>}
    BY <1>12 DEF FlushColumn, Put
  <2>4. Present(frag)'
    BY <2>1, <2>2, <2>3 DEF FragmentsThere, Present
  <2>5. Rest
    BY <1>5, <2>1, <2>2, <2>4 DEF FragmentsThere
  <2> QED BY <1>4, <2>5 DEF FragmentsThere
<1>13. CASE Start
  <2>1. pc' = "select" /\ frag' = NoFrag /\ base' = TornManifest
    BY <1>13 DEF Start, Fresh
  <2>2. fragmentID' \in Nat
    BY <1>13 DEF Start, Readable, FirstFreeFragment, FragmentsThere, Complete
  <2>3. Rest
    BY <1>5, <1>6, <2>1, <2>2
  <2> QED BY <1>4, <2>3 DEF FragmentsThere
<1> QED
  BY <1>1, <1>7, <1>8, <1>9, <1>10, <1>11, <1>12, <1>13 DEF FragKinds

\* The files that the manifests refer to are there, whatever fails.
THEOREM FilesThere == Spec => []FragmentsThere
BY FragmentsThereInit, FragmentsThereStep, PTL DEF Spec

\* async_writer.go:241-274.  In every state, crashes included, each fragment of
\* each version has all its column files: whichever store calls fail, and also
\* where a fragment id is used again.
THEOREM NeverDangling == Spec => []NoDanglingFragment
<1>1. FragmentsThere => NoDanglingFragment
  BY DEF FragmentsThere, Complete, NoDanglingFragment, ToSet
<1> QED
  BY <1>1, FilesThere, PTL

-----------------------------------------------------------------------------
(* Sequences of batches in the order of another *)

\* Earlier and InOrder of AsyncWriter, for any sequence of accepted batches.
Before(s, a, b) == \E k, l \in DOMAIN s : k < l /\ s[k] = a /\ s[l] = b

Ordered(s, col) ==
  /\ ToSet(col) \subseteq ToSet(s)
  /\ \A k, l \in DOMAIN col : k < l => Before(s, col[k], col[l])

Distinct(s) == \A k, l \in DOMAIN s : s[k] = s[l] => k = l

\* What Append does, place by place.
LEMMA AppendFacts ==
  ASSUME NEW S, NEW s \in Seq(S), NEW e \in S
  PROVE  /\ Append(s, e) \in Seq(S)
         /\ DOMAIN s = 1..Len(s) /\ DOMAIN Append(s, e) = 1..(Len(s) + 1) /\ Len(s) \in Nat
         /\ \A i \in DOMAIN s : Append(s, e)[i] = s[i]
         /\ Append(s, e)[Len(s) + 1] = e
         /\ ToSet(Append(s, e)) = ToSet(s) \cup {e}
<1>1. /\ Append(s, e) \in Seq(S)
      /\ DOMAIN s = 1..Len(s) /\ DOMAIN Append(s, e) = 1..(Len(s) + 1) /\ Len(s) \in Nat
      /\ \A i \in DOMAIN s : Append(s, e)[i] = s[i]
      /\ Append(s, e)[Len(s) + 1] = e
  OBVIOUS
<1> QED
  BY <1>1, ToSetOfAppend

\* What Head and Tail do, place by place.
LEMMA TailFacts ==
  ASSUME NEW S, NEW s \in Seq(S), s # <<>>
  PROVE  /\ Tail(s) \in Seq(S) /\ Head(s) \in S /\ Head(s) = s[1] /\ 1 \in DOMAIN s
         /\ \A i \in DOMAIN Tail(s) : i \in Nat /\ i + 1 \in DOMAIN s /\ Tail(s)[i] = s[i + 1]
         /\ ToSet(s) = ToSet(Tail(s)) \cup {Head(s)}
<1>1. /\ Tail(s) \in Seq(S) /\ Head(s) \in S /\ Head(s) = s[1]
      /\ DOMAIN s = 1..Len(s) /\ Len(s) \in Nat \ {0} /\ DOMAIN Tail(s) = 1..(Len(s) - 1)
      /\ \A i \in DOMAIN Tail(s) : i + 1 \in DOMAIN s /\ Tail(s)[i] = s[i + 1]
  OBVIOUS
<1>2. \A i \in DOMAIN s : i = 1 \/ (i - 1 \in DOMAIN Tail(s) /\ s[i] = Tail(s)[i - 1])
  <2> SUFFICES ASSUME NEW i \in DOMAIN s, i # 1
               PROVE  i - 1 \in DOMAIN Tail(s) /\ s[i] = Tail(s)[i - 1]
    OBVIOUS
  <2>1. i - 1 \in DOMAIN Tail(s) /\ (i - 1) + 1 = i
    BY <1>1
  <2> QED
    BY <1>1, <2>1
<1>3. ASSUME NEW x \in ToSet(s) PROVE x \in ToSet(Tail(s)) \cup {Head(s)}
  <2>1. PICK i \in DOMAIN s : x = s[i]
    BY DEF ToSet
  <2>2. CASE i = 1
    BY <1>1, <2>1, <2>2
  <2>3. CASE i # 1
    <3>1. i - 1 \in DOMAIN Tail(s) /\ x = Tail(s)[i - 1]
      BY <1>2, <2>1, <2>3
    <3> QED
      BY <3>1 DEF ToSet
  <2> QED
    BY <2>2, <2>3
<1>4. ToSet(Tail(s)) \cup {Head(s)} \subseteq ToSet(s)
  BY <1>1 DEF ToSet
<1> QED
  BY <1>1, <1>3, <1>4

\* A batch that was accepted stays in its place when another one is.
LEMMA BeforeGrows ==
  ASSUME NEW S, NEW s \in Seq(S), NEW e \in S
  PROVE  /\ \A a, b : Before(s, a, b) => Before(Append(s, e), a, b)
         /\ \A col : Ordered(s, col) => Ordered(Append(s, e), col)
         /\ \A a \in ToSet(s) : Before(Append(s, e), a, e)
<1>1. /\ DOMAIN s = 1..Len(s) /\ DOMAIN Append(s, e) = 1..(Len(s) + 1) /\ Len(s) \in Nat
      /\ \A i \in DOMAIN s : Append(s, e)[i] = s[i]
      /\ Append(s, e)[Len(s) + 1] = e
      /\ ToSet(Append(s, e)) = ToSet(s) \cup {e}
  BY AppendFacts
<1>2. \A a, b : Before(s, a, b) => Before(Append(s, e), a, b)
  BY <1>1 DEF Before
<1>3. \A col : Ordered(s, col) => Ordered(Append(s, e), col)
  BY <1>1, <1>2 DEF Ordered
<1>4. ASSUME NEW a \in ToSet(s) PROVE Before(Append(s, e), a, e)
  <2>1. PICK k \in DOMAIN s : s[k] = a
    BY DEF ToSet
  <2>2. k < Len(s) + 1 /\ k \in DOMAIN Append(s, e) /\ Len(s) + 1 \in DOMAIN Append(s, e)
    BY <1>1, <2>1
  <2> QED
    BY <1>1, <2>1, <2>2 DEF Before
<1> QED
  BY <1>2, <1>3, <1>4

\* No batch is before itself, and none is before and after another.
LEMMA BeforeStrict ==
  ASSUME NEW S, NEW s \in Seq(S), Distinct(s), NEW a PROVE ~Before(s, a, a)
<1>1. DOMAIN s = 1..Len(s) /\ Len(s) \in Nat
  OBVIOUS
<1> QED
  BY <1>1 DEF Before, Distinct

\* A column may be followed by a batch that is after all it has.
LEMMA OrderedAppend ==
  ASSUME NEW S, NEW s, NEW col \in Seq(S), NEW e \in S, Ordered(s, col), e \in ToSet(s),
         \A a \in ToSet(col) : Before(s, a, e)
  PROVE  Ordered(s, Append(col, e))
<1>1. /\ DOMAIN col = 1..Len(col) /\ DOMAIN Append(col, e) = 1..(Len(col) + 1) /\ Len(col) \in Nat
      /\ \A i \in DOMAIN col : Append(col, e)[i] = col[i]
      /\ Append(col, e)[Len(col) + 1] = e
      /\ ToSet(Append(col, e)) = ToSet(col) \cup {e}
  BY AppendFacts
<1>2. ASSUME NEW k \in DOMAIN Append(col, e), NEW l \in DOMAIN Append(col, e), k < l
      PROVE  Before(s, Append(col, e)[k], Append(col, e)[l])
  <2>1. k \in DOMAIN col
    BY <1>1, <1>2
  <2>2. CASE l \in DOMAIN col
    BY <1>1, <1>2, <2>1, <2>2 DEF Ordered
  <2>3. CASE l = Len(col) + 1
    <3>1. col[k] \in ToSet(col)
      BY <2>1 DEF ToSet
    <3> QED
      BY <1>1, <2>1, <2>3, <3>1
  <2> QED
    BY <1>1, <2>2, <2>3
<1> QED
  BY <1>1, <1>2 DEF Ordered

\* No batch, or one, is in order.
LEMMA OrderedFew ==
  ASSUME NEW s
  PROVE  Ordered(s, <<>>) /\ \A e \in ToSet(s) : Ordered(s, <<e>>) /\ ToSet(<<e>>) = {e}
<1>1. ToSet(<<>>) = {} /\ DOMAIN <<>> = {}
  BY DEF ToSet
<1>2. \A e : ToSet(<<e>>) = {e} /\ DOMAIN <<e>> = {1}
  BY DEF ToSet
<1> QED
  BY <1>1, <1>2 DEF Ordered

\* What waits behind the first batch of a channel is after it.
LEMMA OrderedTail ==
  ASSUME NEW S, NEW s, NEW ch \in Seq(S), ch # <<>>, Ordered(s, ch)
  PROVE  /\ Ordered(s, Tail(ch)) /\ Head(ch) \in ToSet(s)
         /\ \A a \in ToSet(Tail(ch)) : Before(s, Head(ch), a)
<1>1. /\ Head(ch) = ch[1] /\ 1 \in DOMAIN ch
      /\ \A i \in DOMAIN Tail(ch) : i \in Nat /\ i + 1 \in DOMAIN ch /\ Tail(ch)[i] = ch[i + 1]
      /\ ToSet(ch) = ToSet(Tail(ch)) \cup {Head(ch)}
  BY TailFacts
<1>2. ASSUME NEW a \in ToSet(Tail(ch)) PROVE Before(s, Head(ch), a)
  <2>1. PICK i \in DOMAIN Tail(ch) : a = Tail(ch)[i]
    BY DEF ToSet
  <2>2. 1 < i + 1
    <3>1. DOMAIN Tail(ch) = 1..Len(Tail(ch))
      OBVIOUS
    <3> QED
      BY <2>1, <3>1
  <2> QED
    BY <1>1, <2>1, <2>2 DEF Ordered
<1>3. ASSUME NEW k \in DOMAIN Tail(ch), NEW l \in DOMAIN Tail(ch), k < l
      PROVE  Before(s, Tail(ch)[k], Tail(ch)[l])
  <2>1. k + 1 < l + 1
    BY <1>1, <1>3
  <2> QED
    BY <1>1, <2>1 DEF Ordered
<1> QED
  BY <1>1, <1>2, <1>3 DEF Ordered

-----------------------------------------------------------------------------
(* What the writer holds *)

\* The accumulating batch, and a fragment of the log: columns of the schema,
\* each with values.
IsGroup(g) ==
  /\ g = [c \in DOMAIN g |-> g[c]] /\ DOMAIN g \subseteq Columns
  /\ \A c \in DOMAIN g : g[c] \in Seq(Batches) /\ g[c] # <<>>

\* The values of an accumulated column have one type.
SameType(c, col) ==
  \A b \in ToSet(col) : c \in DOMAIN Kind[b] /\ Kind[b][c] = ColumnType(col, c)

\* The accumulated columns are in order, and what waits in the channel comes
\* after them, in order.
Held(s, cur, ch) ==
  /\ s \in Seq(Batches) /\ Distinct(s)
  /\ ch \in Seq(Batches) /\ Ordered(s, ch)
  /\ IsGroup(cur)
  /\ \A c \in DOMAIN cur :
       /\ SameType(c, cur[c]) /\ Ordered(s, cur[c])
       /\ \A a \in ToSet(cur[c]), b \in ToSet(ch) : Before(s, a, b)

\* Write.
LEMMA HeldWrite ==
  ASSUME NEW s, NEW cur, NEW ch, NEW b \in Batches, Held(s, cur, ch), b \notin ToSet(s)
  PROVE  Held(Append(s, b), cur, Append(ch, b))
<1> DEFINE t == Append(s, b)
           w == Append(ch, b)
<1>1. s \in Seq(Batches) /\ ch \in Seq(Batches) /\ IsGroup(cur)
  BY DEF Held
<1>2. /\ t \in Seq(Batches) /\ DOMAIN s = 1..Len(s) /\ DOMAIN t = 1..(Len(s) + 1)
      /\ Len(s) \in Nat /\ (\A i \in DOMAIN s : t[i] = s[i]) /\ t[Len(s) + 1] = b
      /\ ToSet(t) = ToSet(s) \cup {b}
  BY <1>1, AppendFacts
<1>3. w \in Seq(Batches) /\ ToSet(w) = ToSet(ch) \cup {b}
  BY <1>1, AppendFacts
<1>4. /\ \A x, y : Before(s, x, y) => Before(t, x, y)
      /\ \A col : Ordered(s, col) => Ordered(t, col)
      /\ \A x \in ToSet(s) : Before(t, x, b)
  BY <1>1, BeforeGrows
<1> HIDE DEF t, w
<1>5. Distinct(t)
  <2>1. \A i \in DOMAIN s : s[i] # b
    BY DEF ToSet, Held
  <2> QED
    BY <1>2, <2>1 DEF Distinct, Held
<1>6. Ordered(t, w)
  <2>1. Ordered(t, ch) /\ b \in ToSet(t) /\ \A a \in ToSet(ch) : Before(t, a, b)
    BY <1>2, <1>4 DEF Held, Ordered
  <2> QED
    BY <1>1, <2>1, OrderedAppend DEF w
<1>7. ASSUME NEW c \in DOMAIN cur
      PROVE  /\ SameType(c, cur[c]) /\ Ordered(t, cur[c])
             /\ \A x \in ToSet(cur[c]), y \in ToSet(w) : Before(t, x, y)
  <2>1. /\ SameType(c, cur[c]) /\ Ordered(s, cur[c])
        /\ \A x \in ToSet(cur[c]), y \in ToSet(ch) : Before(s, x, y)
    BY DEF Held
  <2>2. ToSet(cur[c]) \subseteq ToSet(s)
    BY <2>1 DEF Ordered
  <2> QED
    BY <1>3, <1>4, <2>1, <2>2
<1>8. Held(t, cur, w)
  BY <1>1, <1>2, <1>3, <1>5, <1>6, <1>7 DEF Held
<1> QED
  BY <1>8 DEF t, w

\* The batch is let go of after a commit, the channel, too, by a new writer.
LEMMA HeldReset ==
  ASSUME NEW s, NEW cur, NEW ch, Held(s, cur, ch)
  PROVE  Held(s, EmptyBatch, ch) /\ Held(s, EmptyBatch, <<>>)
<1>1. DOMAIN EmptyBatch = {} /\ IsGroup(EmptyBatch)
  BY DEF EmptyBatch, IsGroup
<1>2. <<>> \in Seq(Batches) /\ Ordered(s, <<>>)
  BY OrderedFew
<1> QED
  BY <1>1, <1>2 DEF Held

\* The type and the place of a column's values when one more batch is merged.
LEMMA SameTypeAppend ==
  ASSUME NEW c, NEW col \in Seq(Batches), NEW b \in Batches, col # <<>>,
         SameType(c, col), c \in DOMAIN Kind[b], ColumnType(col, c) = Kind[b][c]
  PROVE  SameType(c, Append(col, b)) /\ Append(col, b) # <<>>
<1>1. ToSet(Append(col, b)) = ToSet(col) \cup {b}
  BY AppendFacts
<1>2. Head(Append(col, b)) = Head(col) /\ Append(col, b) # <<>>
  OBVIOUS
<1> QED
  BY <1>1, <1>2 DEF SameType, ColumnType

\* One batch has one type.
LEMMA SameTypeFirst ==
  ASSUME NEW c, NEW b, c \in DOMAIN Kind[b] PROVE SameType(c, <<b>>) /\ <<b>> # <<>>
<1>1. ToSet(<<b>>) = {b} /\ Head(<<b>>) = b /\ <<b>> # <<>>
  BY DEF ToSet
<1> QED
  BY <1>1 DEF SameType, ColumnType

\* accumulate, all or some of the columns of the first batch of the channel.
LEMMA HeldMerge ==
  ASSUME NEW s, NEW cur, NEW ch, Held(s, cur, ch), ch # <<>>,
         NEW cs \in SUBSET DOMAIN Kind[Head(ch)],
         \A c \in cs : Mergeable(cur, Head(ch), c)
  PROVE  Held(s, MergeColumns(cur, Head(ch), cs), Tail(ch))
<1> DEFINE new == MergeColumns(cur, Head(ch), cs)
<1>1. s \in Seq(Batches) /\ Distinct(s) /\ ch \in Seq(Batches) /\ Ordered(s, ch) /\ IsGroup(cur)
  BY DEF Held
<1>2. PICK b : b = Head(ch)
  OBVIOUS
<1>3. PICK rest : rest = Tail(ch)
  OBVIOUS
<1>4. /\ b \in Batches /\ rest \in Seq(Batches) /\ ToSet(ch) = ToSet(rest) \cup {b}
  BY <1>1, <1>2, <1>3, TailFacts
<1>5. /\ Ordered(s, rest) /\ b \in ToSet(s) /\ \A a \in ToSet(rest) : Before(s, b, a)
  BY <1>1, <1>2, <1>3, OrderedTail
<1>6. /\ DOMAIN new = DOMAIN cur \cup cs /\ new = [c \in DOMAIN new |-> new[c]]
      /\ \A c \in DOMAIN cur \ cs : new[c] = cur[c]
      /\ \A c \in cs \cap DOMAIN cur : new[c] = Append(cur[c], b)
      /\ \A c \in cs \ DOMAIN cur : new[c] = <<b>>
  <2>1. new = MergeColumns(cur, b, cs)
    BY <1>2
  <2> HIDE DEF new
  <2> QED
    BY <2>1 DEF MergeColumns
<1>7. cs \subseteq DOMAIN Kind[b] /\ cs \subseteq Columns
  <2>1. DOMAIN Kind[b] \subseteq Columns
    BY <1>4, BatchesAssumption
  <2> QED
    BY <1>2, <2>1
<1> HIDE DEF new
<1> DEFINE Good(c) ==
      /\ new[c] \in Seq(Batches) /\ new[c] # <<>>
      /\ SameType(c, new[c]) /\ Ordered(s, new[c])
      /\ \A a \in ToSet(new[c]), w \in ToSet(rest) : Before(s, a, w)
<1>8. ASSUME NEW c \in DOMAIN cur
      PROVE  /\ cur[c] \in Seq(Batches) /\ cur[c] # <<>>
             /\ SameType(c, cur[c]) /\ Ordered(s, cur[c])
             /\ \A a \in ToSet(cur[c]), w \in ToSet(rest) : Before(s, a, w)
             /\ \A a \in ToSet(cur[c]) : Before(s, a, b)
  BY <1>1, <1>4 DEF Held, IsGroup
<1>9. ASSUME NEW c \in DOMAIN cur \ cs PROVE Good(c)
  BY <1>6, <1>8
<1>10. ASSUME NEW c \in cs \cap DOMAIN cur PROVE Good(c)
  <2>1. PICK col : col = cur[c]
    OBVIOUS
  <2>2. /\ col \in Seq(Batches) /\ col # <<>> /\ SameType(c, col) /\ Ordered(s, col)
        /\ \A a \in ToSet(col), w \in ToSet(rest) : Before(s, a, w)
        /\ \A a \in ToSet(col) : Before(s, a, b)
    BY <1>8, <2>1
  <2>3. ColumnType(col, c) = Kind[b][c] /\ c \in DOMAIN Kind[b]
    BY <1>2, <1>7, <2>1 DEF Mergeable
  <2>4. SameType(c, Append(col, b)) /\ Append(col, b) # <<>>
    BY <1>4, <2>2, <2>3, SameTypeAppend
  <2>5. Ordered(s, Append(col, b))
    BY <1>4, <1>5, <2>2, OrderedAppend
  <2>6. Append(col, b) \in Seq(Batches) /\ ToSet(Append(col, b)) = ToSet(col) \cup {b}
    BY <1>4, <2>2, AppendFacts
  <2>7. new[c] = Append(col, b)
    BY <1>6, <2>1
  <2> QED
    BY <1>5, <2>2, <2>4, <2>5, <2>6, <2>7
<1>11. ASSUME NEW c \in cs \ DOMAIN cur PROVE Good(c)
  <2>1. SameType(c, <<b>>) /\ <<b>> # <<>> /\ <<b>> \in Seq(Batches)
    BY <1>4, <1>7, SameTypeFirst
  <2>2. Ordered(s, <<b>>) /\ ToSet(<<b>>) = {b}
    BY <1>5, OrderedFew
  <2>3. new[c] = <<b>>
    BY <1>6
  <2> QED
    BY <1>5, <2>1, <2>2, <2>3
<1>12. \A c \in DOMAIN new : Good(c)
  BY <1>6, <1>9, <1>10, <1>11
<1>13. IsGroup(new)
  <2>1. DOMAIN new \subseteq Columns
    BY <1>1, <1>6, <1>7 DEF IsGroup
  <2> QED
    BY <1>6, <1>12, <2>1 DEF IsGroup
<1>14. Held(s, new, rest)
  <2>1. \A c \in DOMAIN new :
          /\ SameType(c, new[c]) /\ Ordered(s, new[c])
          /\ \A a \in ToSet(new[c]), w \in ToSet(rest) : Before(s, a, w)
    BY <1>12
  <2> QED
    BY <1>1, <1>4, <1>5, <1>13, <2>1 DEF Held
<1> QED
  BY <1>3, <1>14 DEF new

-----------------------------------------------------------------------------
(* What a step does to the data, whatever fails *)

\* Nothing; Write; accumulate, as a whole or in part; or the batch is let go of.
DataKinds ==
  \/ UNCHANGED <<accepted, batchCh, currentBatch, currentRows>>
  \/ \E b \in Batches :
       /\ b \notin ToSet(accepted) /\ accepted' = Append(accepted, b)
       /\ batchCh' = Append(batchCh, b) /\ UNCHANGED <<currentBatch, currentRows>>
  \/ /\ UNCHANGED accepted /\ batchCh # <<>> /\ batchCh' = Tail(batchCh)
     /\ \E ok \in BOOLEAN : Accumulate(Head(batchCh), ok)
  \/ /\ UNCHANGED accepted /\ currentBatch' = EmptyBatch /\ currentRows' = 0
     /\ \/ UNCHANGED batchCh /\ FlushCommit
        \/ batchCh' = <<>> /\ (Start \/ Crash)

\* A file is written with a column of the accumulating batch, or truncated.
FilesKinds ==
  \/ UNCHANGED files
  \/ /\ UNCHANGED accepted
     /\ \E i \in {frag.id}, c \in Columns :
          \/ files' = Put(files, <<i, c>>, <<>>)
          \/ /\ c \in DOMAIN currentBatch /\ Encodable(currentBatch, c)
             /\ files' = Put(files, <<i, c>>, currentBatch[c])

\* The version counter stays, is forgotten, or moves past a version just written.
CounterKinds ==
  \/ UNCHANGED nextVersion /\ (Running' => Running)
  \/ nextVersion' = 0 /\ ~Running'
  \/ Start
  \/ nextVersion' = nextVersion + 1 /\ manifests' = Put(manifests, nextVersion, Successor)

\* accumulate merges some columns of the batch, which pass mergeColumn's assertions.
LEMMA AccumulateKinds ==
  ASSUME NEW ok, Accumulate(Head(batchCh), ok)
  PROVE  \E cs \in SUBSET DOMAIN Kind[Head(batchCh)] :
           /\ \A c \in cs : Mergeable(currentBatch, Head(batchCh), c)
           /\ currentBatch' = MergeColumns(currentBatch, Head(batchCh), cs)
<1> DEFINE b == Head(batchCh)
           bad == {c \in DOMAIN Kind[b] : ~Mergeable(currentBatch, b, c)}
<1>1. CASE ok
  <2>1. bad = {} /\ currentBatch' = MergeColumns(currentBatch, b, DOMAIN Kind[b])
    BY <1>1 DEF Accumulate
  <2> QED
    BY <2>1
<1>2. CASE ~ok
  <2>1. PICK cs \in SUBSET (DOMAIN Kind[b] \ bad) : currentBatch' = MergeColumns(currentBatch, b, cs)
    BY <1>2 DEF Accumulate
  <2>2. cs \in SUBSET DOMAIN Kind[b] /\ \A c \in cs : Mergeable(currentBatch, b, c)
    BY <2>1
  <2> QED
    BY <2>1, <2>2
<1> QED
  BY <1>1, <1>2

\* Every step of the writer does one of these things to data, files and counter.
LEMMA NextDataKinds ==
  ASSUME IsGroup(currentBatch), [Next]_vars PROVE DataKinds /\ FilesKinds /\ CounterKinds
<1> DEFINE Kinds == DataKinds /\ FilesKinds /\ CounterKinds
<1> USE DEF FilesKinds, CounterKinds, Running
<1>1. CASE UNCHANGED vars
  BY <1>1 DEF vars, disk, writer, local, chans, hist, DataKinds
<1>2. ASSUME NEW b \in Batches, Write(b) PROVE Kinds
  BY <1>2 DEF Write, disk, writer, local, DataKinds
<1>3. ASSUME NEW c \in Clients, FlushCall(c) \/ FlushDone(c) \/ CloseCall(c) \/ CloseDone(c)
      PROVE Kinds
  BY <1>3 DEF FlushCall, FlushDone, CloseCall, CloseDone, disk, writer, local, chans, hist, DataKinds
<1>4. CASE Receive \/ Cancel
  BY <1>4 DEF Receive, Cancel, disk, writer, local, chans, hist, DataKinds
<1>5. CASE SelectBatch
  <2>1. /\ batchCh # <<>> /\ batchCh' = Tail(batchCh)
        /\ Accumulate(Head(batchCh), TRUE) \/ Accumulate(Head(batchCh), FALSE)
        /\ UNCHANGED <<files, nextVersion, accepted>> /\ Running
    BY <1>5 DEF SelectBatch, disk, hist
  <2>2. DataKinds
    BY <2>1 DEF DataKinds
  <2> QED
    BY <2>1, <2>2
<1>6. CASE Drain
  <2>1. /\ UNCHANGED <<files, nextVersion, accepted>> /\ Running
        /\ \/ UNCHANGED <<batchCh, currentBatch, currentRows>>
           \/ /\ batchCh # <<>> /\ batchCh' = Tail(batchCh)
              /\ Accumulate(Head(batchCh), TRUE) \/ Accumulate(Head(batchCh), FALSE)
    BY <1>6 DEF Drain, disk, hist
  <2>2. DataKinds
    BY <2>1 DEF DataKinds
  <2> QED
    BY <2>1, <2>2
<1>7. CASE SelectStop \/ SelectTimer
  BY <1>7 DEF SelectStop, SelectTimer, disk, writer, chans, hist, DataKinds
<1>8. ASSUME NEW c \in Clients, SelectFlush(c) PROVE Kinds
  BY <1>8 DEF SelectFlush, disk, writer, chans, hist, DataKinds
<1>9. ASSUME NEW err, NEW results, Return(err, results)
      PROVE  UNCHANGED <<batchCh, accepted>>
  BY <1>9 DEF Return, hist
<1>10. CASE FlushEmpty
  BY <1>9, <1>10 DEF FlushEmpty, disk, DataKinds
<1>11. CASE FlushStart \/ FlushLatest \/ FlushRead
  BY <1>11 DEF FlushStart, FlushLatest, FlushRead, disk, writer, chans, hist, DataKinds
<1>12. CASE FlushReadFails
  BY <1>9, <1>12 DEF FlushReadFails, ReturnError, disk, DataKinds
<1>13. CASE FlushCommit
  BY <1>9, <1>13 DEF FlushCommit, DataKinds
<1>14. CASE FlushCommitFails
  BY <1>9, <1>14 DEF FlushCommitFails, ReturnError, DataKinds
<1>15. ASSUME NEW c \in Columns, FlushColumn(c) PROVE Kinds
  BY <1>15 DEF FlushColumn, chans, writer, hist, DataKinds
<1>16. ASSUME NEW c \in Columns, FlushColumnFails(c) PROVE Kinds
  BY <1>9, <1>16 DEF FlushColumnFails, ReturnError, DataKinds
<1>17. CASE Start
  BY <1>17 DEF Start, Fresh, disk, DataKinds
<1>18. CASE Crash
  <2>1. DataKinds /\ CounterKinds
    BY <1>18 DEF Crash, Fresh, DataKinds
  <2>2. DOMAIN currentBatch \subseteq Columns
    BY DEF IsGroup
  <2>3. FilesKinds
    BY <1>18, <2>2 DEF Crash, disk
  <2> QED
    BY <2>1, <2>3
<1> QED
  BY <1>1, <1>2, <1>3, <1>4, <1>5, <1>6, <1>7, <1>8, <1>10, <1>11, <1>12, <1>13, <1>14,
     <1>15, <1>16, <1>17, <1>18 DEF Next, FlushStep

-----------------------------------------------------------------------------
(* Committed columns are sound, whatever fails *)

\* What a file of column c holds, those nobody refers to included.
SoundFile(s, c, col) ==
  /\ \A b \in ToSet(col) : c \in DOMAIN Kind[b] /\ Kind[b][c] = FieldType
  /\ Ordered(s, col)

FilesSound(s, fs) == \A i, c : <<i, c>> \in DOMAIN fs => SoundFile(s, c, fs[<<i, c>>])

\* The versions on disk are 1..k, and a running writer writes one of them or
\* the next.
DenseTo(k) == DOMAIN manifests = 1..k /\ (Running => nextVersion \in 1..(k + 1))

Dense == nextVersion \in Nat /\ \E k \in Nat : DenseTo(k)

DataInv == Held(accepted, currentBatch, batchCh) /\ FilesSound(accepted, files) /\ Dense

\* Nothing accepted, no file, at most the version that Create wrote.
LEMMA DataInvInit == Init => DataInv
<1> SUFFICES ASSUME Init PROVE DataInv
  OBVIOUS
<1>1. accepted = <<>> /\ batchCh = <<>> /\ currentBatch = EmptyBatch
  BY DEF Init
<1>2. DOMAIN EmptyBatch = {} /\ IsGroup(EmptyBatch)
  BY DEF EmptyBatch, IsGroup
<1>3. <<>> \in Seq(Batches) /\ Ordered(<<>>, <<>>) /\ Distinct(<<>>)
  BY OrderedFew DEF Distinct
<1>4. Held(accepted, currentBatch, batchCh)
  BY <1>1, <1>2, <1>3 DEF Held
<1>5. FilesSound(accepted, files)
  BY DEF Init, FilesSound
<1>6. DOMAIN manifests = 1..0 \/ DOMAIN manifests = 1..1
  BY DEF Init
<1>7. Dense
  BY <1>6 DEF Init, Dense, DenseTo, Running
<1> QED
  BY <1>4, <1>5, <1>7 DEF DataInv

\* Held is kept by whatever a step does to the data.
LEMMA HeldStep ==
  ASSUME Held(accepted, currentBatch, batchCh), DataKinds
  PROVE  Held(accepted, currentBatch, batchCh)'
<1>1. CASE UNCHANGED <<accepted, batchCh, currentBatch>>
  BY <1>1
<1>2. ASSUME NEW b \in Batches, b \notin ToSet(accepted), accepted' = Append(accepted, b),
             batchCh' = Append(batchCh, b), UNCHANGED currentBatch
      PROVE  Held(accepted, currentBatch, batchCh)'
  BY <1>2, HeldWrite
<1>3. ASSUME UNCHANGED accepted, batchCh # <<>>, batchCh' = Tail(batchCh),
             NEW ok, Accumulate(Head(batchCh), ok)
      PROVE  Held(accepted, currentBatch, batchCh)'
  <2>1. PICK cs \in SUBSET DOMAIN Kind[Head(batchCh)] :
          /\ \A c \in cs : Mergeable(currentBatch, Head(batchCh), c)
          /\ currentBatch' = MergeColumns(currentBatch, Head(batchCh), cs)
    BY <1>3, AccumulateKinds
  <2>2. Held(accepted, MergeColumns(currentBatch, Head(batchCh), cs), Tail(batchCh))
    BY <1>3, <2>1, HeldMerge
  <2> QED
    BY <1>3, <2>1, <2>2
<1>4. ASSUME UNCHANGED accepted, currentBatch' = EmptyBatch, batchCh' \in {batchCh, <<>>}
      PROVE  Held(accepted, currentBatch, batchCh)'
  BY <1>4, HeldReset
<1> QED
  BY <1>1, <1>2, <1>3, <1>4 DEF DataKinds

\* An accumulated column that passes WriteColumn's type check is sound.
LEMMA EncodableSound ==
  ASSUME NEW s, NEW cur, NEW ch, Held(s, cur, ch), NEW c \in DOMAIN cur, Encodable(cur, c)
  PROVE  SoundFile(s, c, cur[c])
  BY DEF Held, SameType, Encodable, SoundFile

\* What is written passed the type check and is in order; a truncated file is empty.
LEMMA FilesSoundStep ==
  ASSUME Held(accepted, currentBatch, batchCh), FilesSound(accepted, files), DataKinds, FilesKinds
  PROVE  FilesSound(accepted, files)'
<1>1. CASE UNCHANGED accepted /\ UNCHANGED files
  BY <1>1
<1>2. ASSUME NEW b \in Batches, accepted' = Append(accepted, b), UNCHANGED files
      PROVE  FilesSound(accepted, files)'
  <2>1. \A col : Ordered(accepted, col) => Ordered(accepted', col)
    BY <1>2, BeforeGrows DEF Held
  <2> QED
    BY <1>2, <2>1 DEF FilesSound, SoundFile
<1>3. ASSUME UNCHANGED accepted, NEW i, NEW c \in Columns, NEW x,
             files' = Put(files, <<i, c>>, x), SoundFile(accepted, c, x)
      PROVE  FilesSound(accepted, files)'
  <2> SUFFICES ASSUME NEW j, NEW d, <<j, d>> \in DOMAIN files'
               PROVE  SoundFile(accepted, d, files'[<<j, d>>])
    BY <1>3 DEF FilesSound
  <2>1. CASE <<j, d>> = <<i, c>>
    <3>1. d = c /\ files'[<<j, d>>] = x
      BY <1>3, <2>1 DEF Put
    <3> QED
      BY <1>3, <3>1
  <2>2. CASE <<j, d>> # <<i, c>>
    <3>1. <<j, d>> \in DOMAIN files /\ files'[<<j, d>>] = files[<<j, d>>]
      BY <1>3, <2>2 DEF Put
    <3> QED
      BY <3>1 DEF FilesSound
  <2> QED
    BY <2>1, <2>2
<1>4. \A c : SoundFile(accepted, c, <<>>)
  <2>1. ToSet(<<>>) = {}
    BY DEF ToSet
  <2> QED
    BY <2>1, OrderedFew DEF SoundFile
<1>5. \A c \in DOMAIN currentBatch :
        Encodable(currentBatch, c) => SoundFile(accepted, c, currentBatch[c])
  BY EncodableSound
<1>6. CASE UNCHANGED files
  BY <1>1, <1>2, <1>6 DEF DataKinds
<1>7. CASE ~UNCHANGED files
  BY <1>3, <1>4, <1>5, <1>7 DEF FilesKinds
<1> QED
  BY <1>6, <1>7

\* A version is written at the counter or below, never beyond a gap.
LEMMA DenseStep ==
  ASSUME Dense, ManifestKinds, CounterKinds
  PROVE  Dense'
<1>1. PICK k \in Nat : DenseTo(k)
  BY DEF Dense
<1>2. nextVersion \in Nat /\ DOMAIN manifests = 1..k
  BY <1>1 DEF Dense, DenseTo
<1>3. ASSUME NEW m, pc = "commit", manifests' = Put(manifests, nextVersion, m)
      PROVE  \E j \in {k, k + 1} : DOMAIN manifests' = 1..j /\ nextVersion \in 1..j
  <2>1. Running
    BY <1>3 DEF Running
  <2>2. nextVersion \in 1..(k + 1)
    BY <1>1, <2>1 DEF DenseTo
  <2>3. DOMAIN manifests' = 1..k \cup {nextVersion}
    BY <1>2, <1>3 DEF Put
  <2>4. CASE nextVersion = k + 1
    <3>1. 1..k \cup {nextVersion} = 1..(k + 1)
      BY <2>4
    <3> QED
      BY <2>2, <2>3, <3>1
  <2>5. CASE nextVersion \in 1..k
    <3>1. 1..k \cup {nextVersion} = 1..k
      BY <2>5
    <3> QED
      BY <2>3, <2>5, <3>1
  <2> QED
    BY <2>2, <2>4, <2>5
<1>4. PICK j \in {k, k + 1} :
        DOMAIN manifests' = 1..j /\ (UNCHANGED manifests \/ nextVersion \in 1..j)
  BY <1>2, <1>3 DEF ManifestKinds
<1>5. j \in Nat
  OBVIOUS
<1>6. CASE UNCHANGED nextVersion /\ (Running' => Running)
  <2>1. Running => nextVersion \in 1..(j + 1)
    BY <1>1, <1>4, <1>5 DEF DenseTo
  <2> QED
    BY <1>2, <1>4, <1>5, <1>6, <2>1 DEF Dense, DenseTo
<1>7. CASE nextVersion' = 0 /\ ~Running'
  BY <1>4, <1>5, <1>7 DEF Dense, DenseTo
<1>8. CASE Start
  <2>1. UNCHANGED manifests
    BY <1>8 DEF Start, disk
  <2>2. nextVersion' = k + 1
    <3>1. CASE k = 0
      BY <1>2, <1>8, <3>1 DEF Start
    <3>2. CASE k # 0
      <4>1. k \in Nat \ {0}
        BY <3>2
      <4>2. LatestVersion(manifests) = k
        BY <1>2, <4>1, LatestOfDense
      <4>3. 1 \in DOMAIN manifests
        BY <1>2, <4>1
      <4>4. nextVersion' = FirstFreeVersion(LatestVersion(manifests))
        BY <1>8, <4>3 DEF Start
      <4> QED
        BY <4>2, <4>4 DEF FirstFreeVersion
    <3> QED
      BY <3>1, <3>2
  <2> QED
    BY <1>2, <2>1, <2>2 DEF Dense, DenseTo
<1>9. CASE nextVersion' = nextVersion + 1 /\ manifests' = Put(manifests, nextVersion, Successor)
  <2>1. nextVersion \in DOMAIN manifests'
    BY <1>9 DEF Put
  <2>2. nextVersion + 1 \in 1..(j + 1)
    BY <1>2, <1>4, <1>5, <2>1
  <2> QED
    BY <1>2, <1>4, <1>5, <1>9, <2>2 DEF Dense, DenseTo
<1> QED
  BY <1>6, <1>7, <1>8, <1>9 DEF CounterKinds

\* The three parts together.
LEMMA DataInvStep == DataInv /\ [Next]_vars => DataInv'
<1> SUFFICES ASSUME DataInv, [Next]_vars PROVE DataInv'
  OBVIOUS
<1>1. IsGroup(currentBatch)
  BY DEF DataInv, Held
<1>2. DataKinds /\ FilesKinds /\ CounterKinds /\ ManifestKinds
  BY <1>1, NextDataKinds, AnyStep
<1>3. Held(accepted, currentBatch, batchCh)'
  BY <1>2, HeldStep DEF DataInv
<1>4. FilesSound(accepted, files)'
  BY <1>2, FilesSoundStep DEF DataInv
<1>5. Dense'
  BY <1>2, DenseStep DEF DataInv
<1> QED
  BY <1>3, <1>4, <1>5 DEF DataInv

\* What the writer holds and what every column file holds is in the order of
\* Write and of one type, whatever fails.
THEOREM DataSound == Spec => []DataInv
BY DataInvInit, DataInvStep, PTL DEF Spec

\* The newest version is one of those on disk.
LEMMA LatestThere ==
  ASSUME Dense, DOMAIN manifests # {} PROVE LatestVersion(manifests) \in DOMAIN manifests
<1>1. PICK k \in Nat : DOMAIN manifests = 1..k
  BY DEF Dense, DenseTo
<1>2. k # 0
  BY <1>1
<1>3. LatestVersion(manifests) = k
  BY <1>1, <1>2, LatestOfDense
<1> QED
  BY <1>1, <1>2, <1>3

\* The newest version lists fragments whose files are there.
LEMMA LatestComplete ==
  ASSUME Dense, FragmentsThere
  PROVE  LatestFragments \in Seq(FragRecord) /\ \A f \in ToSet(LatestFragments) : Present(f)
<1>1. CASE DOMAIN manifests = {}
  <2>1. LatestFragments = <<>> /\ <<>> \in Seq(FragRecord) /\ ToSet(<<>>) = {}
    BY <1>1 DEF LatestFragments, ToSet
  <2> QED
    BY <2>1
<1>2. CASE DOMAIN manifests # {}
  BY <1>2, LatestThere DEF LatestFragments, FragmentsThere, Complete
<1> QED
  BY <1>1, <1>2

\* async_writer.go:212-232, fragment_writer.go:128-165.  A committed column file
\* holds values of the column's type only, those of each batch once and in the
\* order in which Write accepted them, whatever fails and whatever the batches
\* look like: batches merged in part and fragment ids used again included.
THEOREM CommittedSound == Spec => []CommittedColumnsSound
<1>1. ASSUME DataInv, FragmentsThere PROVE CommittedColumnsSound
  <2> SUFFICES ASSUME NEW i \in DOMAIN LatestFragments, NEW c \in LatestFragments[i].cols
               PROVE  Sound(c, Column(i, c))
    BY DEF CommittedColumnsSound
  <2>1. PICK f : f = LatestFragments[i]
    OBVIOUS
  <2>2. Present(f)
    BY <1>1, <2>1, LatestComplete DEF DataInv, ToSet
  <2>3. <<f.id, c>> \in DOMAIN files /\ Column(i, c) = files[<<f.id, c>>]
    BY <2>1, <2>2 DEF Present, Column
  <2>4. SoundFile(accepted, c, Column(i, c))
    BY <1>1, <2>3 DEF DataInv, FilesSound
  <2> QED
    BY <2>4 DEF SoundFile, Sound, InOrder, Earlier, Ordered, Before
<1> QED
  BY <1>1, DataSound, FilesThere, PTL

-----------------------------------------------------------------------------
(* The log of the newest version *)

\* Every column of every batch has the type of the schema.
WellTyped == \A b \in Batches : \A c \in DOMAIN Kind[b] : Kind[b][c] = FieldType

\* What the fragments of a manifest hold, column by column.
ContentsOf(fs, frags) ==
  [i \in DOMAIN frags |-> [c \in frags[i].cols |-> fs[<<frags[i].id, c>>]]]

Contents == ContentsOf(files, LatestFragments)

\* All of batch b is in group g, and every batch of g is.
WholeIn(b, g) == \A c \in DOMAIN Kind[b] : c \in DOMAIN g /\ b \in ToSet(g[c])

WholeGroup(g) == \A c \in DOMAIN g : \A b \in ToSet(g[c]) : WholeIn(b, g)

\* Everything in group g was accepted before everything in h, or in T.
GroupBefore(s, g, T) == \A c \in DOMAIN g : \A a \in ToSet(g[c]) : \A b \in T : Before(s, a, b)

GroupsInOrder(s, g, h) == \A d \in DOMAIN h : GroupBefore(s, g, ToSet(h[d]))

\* Fragments hold whole batches, in order, and come one after the other; what
\* the writer holds comes after all of them.
LogOK(s, log, cur, ch) ==
  /\ WholeGroup(cur)
  /\ \A i \in DOMAIN log :
       /\ IsGroup(log[i]) /\ WholeGroup(log[i])
       /\ \A c \in DOMAIN log[i] : Ordered(s, log[i][c])
       /\ \A j \in DOMAIN log : i < j => GroupsInOrder(s, log[i], log[j])
       /\ GroupsInOrder(s, log[i], cur)
       /\ GroupBefore(s, log[i], ToSet(ch))

\* Write.
LEMMA LogWrite ==
  ASSUME NEW s, NEW log, NEW cur, NEW ch, NEW b \in Batches,
         Held(s, cur, ch), LogOK(s, log, cur, ch)
  PROVE  LogOK(Append(s, b), log, cur, Append(ch, b))
<1> DEFINE t == Append(s, b)
<1>1. s \in Seq(Batches) /\ ch \in Seq(Batches)
  BY DEF Held
<1>2. /\ \A x, y : Before(s, x, y) => Before(t, x, y)
      /\ \A col : Ordered(s, col) => Ordered(t, col)
      /\ \A x \in ToSet(s) : Before(t, x, b)
  BY <1>1, BeforeGrows
<1>3. ToSet(Append(ch, b)) = ToSet(ch) \cup {b}
  BY <1>1, AppendFacts
<1> HIDE DEF t
<1>4. \A g, T : GroupBefore(s, g, T) => GroupBefore(t, g, T)
  BY <1>2 DEF GroupBefore
<1>5. \A g, h : GroupsInOrder(s, g, h) => GroupsInOrder(t, g, h)
  BY <1>4 DEF GroupsInOrder
<1>6. ASSUME NEW i \in DOMAIN log PROVE GroupBefore(t, log[i], ToSet(ch) \cup {b})
  <2>1. GroupBefore(t, log[i], ToSet(ch))
    BY <1>4 DEF LogOK
  <2>2. \A c \in DOMAIN log[i] : ToSet(log[i][c]) \subseteq ToSet(s)
    BY DEF LogOK, Ordered
  <2>3. \A c \in DOMAIN log[i] : \A a \in ToSet(log[i][c]) : Before(t, a, b)
    BY <1>2, <2>2
  <2> QED
    BY <2>1, <2>3 DEF GroupBefore
<1>7. LogOK(t, log, cur, Append(ch, b))
  BY <1>2, <1>3, <1>5, <1>6 DEF LogOK
<1> QED
  BY <1>7 DEF t

\* Letting go of the batch, or of all there is.
LEMMA LogReset ==
  ASSUME NEW s, NEW log, NEW cur, NEW ch, NEW rest \in {ch, <<>>}, LogOK(s, log, cur, ch)
  PROVE  LogOK(s, log, EmptyBatch, rest)
<1>1. DOMAIN EmptyBatch = {} /\ WholeGroup(EmptyBatch)
  BY DEF EmptyBatch, WholeGroup
<1>2. \A g : GroupsInOrder(s, g, EmptyBatch)
  BY <1>1 DEF GroupsInOrder
<1>3. ToSet(<<>>) = {}
  BY DEF ToSet
<1>4. \A g : GroupBefore(s, g, ToSet(ch)) => GroupBefore(s, g, ToSet(rest))
  BY <1>3 DEF GroupBefore
<1> QED
  BY <1>1, <1>2, <1>4 DEF LogOK

\* accumulate of a whole batch.
LEMMA LogMerge ==
  ASSUME NEW s, NEW log, NEW cur, NEW ch, Held(s, cur, ch), ch # <<>>, LogOK(s, log, cur, ch)
  PROVE  LogOK(s, log, MergeColumns(cur, Head(ch), DOMAIN Kind[Head(ch)]), Tail(ch))
<1>1. PICK b : b = Head(ch)
  OBVIOUS
<1>2. PICK rest : rest = Tail(ch)
  OBVIOUS
<1>3. PICK new : new = MergeColumns(cur, b, DOMAIN Kind[b])
  OBVIOUS
<1>4. ToSet(ch) = ToSet(rest) \cup {b} /\ b \in Batches
  BY <1>1, <1>2, TailFacts DEF Held
<1>5. /\ DOMAIN new = DOMAIN cur \cup DOMAIN Kind[b]
      /\ \A c \in DOMAIN cur \ DOMAIN Kind[b] : new[c] = cur[c]
      /\ \A c \in DOMAIN Kind[b] \cap DOMAIN cur : new[c] = Append(cur[c], b)
      /\ \A c \in DOMAIN Kind[b] \ DOMAIN cur : new[c] = <<b>>
  BY <1>3 DEF MergeColumns
<1>6. \A c \in DOMAIN new :
        /\ ToSet(new[c]) \subseteq (IF c \in DOMAIN cur THEN ToSet(cur[c]) ELSE {}) \cup {b}
        /\ c \in DOMAIN cur => ToSet(cur[c]) \subseteq ToSet(new[c])
        /\ c \in DOMAIN Kind[b] => b \in ToSet(new[c])
        /\ b \in ToSet(new[c]) => c \in DOMAIN Kind[b] \/ (c \in DOMAIN cur /\ b \in ToSet(cur[c]))
  <2> SUFFICES ASSUME NEW c \in DOMAIN new
               PROVE
        /\ ToSet(new[c]) \subseteq (IF c \in DOMAIN cur THEN ToSet(cur[c]) ELSE {}) \cup {b}
        /\ c \in DOMAIN cur => ToSet(cur[c]) \subseteq ToSet(new[c])
        /\ c \in DOMAIN Kind[b] => b \in ToSet(new[c])
        /\ b \in ToSet(new[c]) => c \in DOMAIN Kind[b] \/ (c \in DOMAIN cur /\ b \in ToSet(cur[c]))
    OBVIOUS
  <2>1. CASE c \in DOMAIN cur \ DOMAIN Kind[b]
    BY <1>5, <2>1
  <2>2. CASE c \in DOMAIN Kind[b] \cap DOMAIN cur
    <3>1. cur[c] \in Seq(Batches)
      BY <2>2 DEF Held, IsGroup
    <3>2. PICK col : col = cur[c]
      OBVIOUS
    <3>3. ToSet(Append(col, b)) = ToSet(col) \cup {b}
      BY <1>4, <3>1, <3>2, AppendFacts
    <3> QED
      BY <1>5, <2>2, <3>2, <3>3
  <2>3. CASE c \in DOMAIN Kind[b] \ DOMAIN cur
    <3>1. ToSet(<<b>>) = {b}
      BY DEF ToSet
    <3> QED
      BY <1>5, <2>3, <3>1
  <2> QED
    BY <1>5, <2>1, <2>2, <2>3
<1>7. \A x : WholeIn(x, cur) => WholeIn(x, new)
  BY <1>5, <1>6 DEF WholeIn
<1>8. WholeIn(b, new)
  BY <1>5, <1>6 DEF WholeIn
<1>9. WholeGroup(new)
  <2> SUFFICES ASSUME NEW c \in DOMAIN new, NEW x \in ToSet(new[c]) PROVE WholeIn(x, new)
    BY DEF WholeGroup
  <2>1. x = b \/ (c \in DOMAIN cur /\ x \in ToSet(cur[c]))
    BY <1>6
  <2> QED
    BY <1>7, <1>8, <2>1 DEF LogOK, WholeGroup
<1>10. \A g : GroupBefore(s, g, ToSet(ch)) => GroupBefore(s, g, ToSet(rest)) /\ GroupBefore(s, g, {b})
  BY <1>4 DEF GroupBefore
<1>11. ASSUME NEW g, GroupBefore(s, g, {b}), GroupsInOrder(s, g, cur)
       PROVE  GroupsInOrder(s, g, new)
  <2> SUFFICES ASSUME NEW d \in DOMAIN new, NEW c \in DOMAIN g, NEW a \in ToSet(g[c]),
                      NEW x \in ToSet(new[d])
               PROVE  Before(s, a, x)
    BY DEF GroupsInOrder, GroupBefore
  <2>1. x = b \/ (d \in DOMAIN cur /\ x \in ToSet(cur[d]))
    BY <1>6
  <2> QED
    BY <1>11, <2>1 DEF GroupsInOrder, GroupBefore
<1>12. LogOK(s, log, new, rest)
  BY <1>9, <1>10, <1>11 DEF LogOK
<1> QED
  BY <1>1, <1>2, <1>3, <1>12

\* A fragment is appended to the log, or replaces it.
LEMMA LogCommit ==
  ASSUME NEW s, NEW log, NEW n \in Nat, DOMAIN log = 1..n, NEW cur, NEW ch,
         Held(s, cur, ch), LogOK(s, log, cur, ch),
         NEW new, \/ /\ DOMAIN new = 1..(n + 1) /\ new[n + 1] = cur
                     /\ \A i \in 1..n : new[i] = log[i]
                  \/ DOMAIN new = {1} /\ new[1] = cur
  PROVE  LogOK(s, new, EmptyBatch, ch)
<1>1. DOMAIN EmptyBatch = {} /\ WholeGroup(EmptyBatch)
  BY DEF EmptyBatch, WholeGroup
<1>2. \A g : GroupsInOrder(s, g, EmptyBatch)
  BY <1>1 DEF GroupsInOrder
<1> DEFINE Good(i) == /\ IsGroup(new[i]) /\ WholeGroup(new[i])
                      /\ \A c \in DOMAIN new[i] : Ordered(s, new[i][c])
                      /\ GroupBefore(s, new[i], ToSet(ch))
<1>3. IsGroup(cur) /\ WholeGroup(cur) /\ (\A c \in DOMAIN cur : Ordered(s, cur[c]))
      /\ GroupBefore(s, cur, ToSet(ch))
  BY DEF Held, LogOK, GroupBefore
<1>4. CASE DOMAIN new = {1} /\ new[1] = cur
  <2>1. \A i \in DOMAIN new : new[i] = cur /\ ~\E j \in DOMAIN new : i < j
    BY <1>4
  <2> QED
    BY <1>1, <1>2, <1>3, <2>1 DEF LogOK
<1>5. CASE /\ DOMAIN new = 1..(n + 1) /\ new[n + 1] = cur
           /\ \A i \in 1..n : new[i] = log[i]
  <2>1. ASSUME NEW i \in DOMAIN new PROVE Good(i)
    <3>1. CASE i = n + 1
      BY <1>3, <1>5, <3>1
    <3>2. CASE i \in 1..n
      BY <1>5, <3>2 DEF LogOK
    <3> QED
      BY <1>5, <3>1, <3>2
  <2>2. ASSUME NEW i \in DOMAIN new, NEW j \in DOMAIN new, i < j
        PROVE  GroupsInOrder(s, new[i], new[j])
    <3>1. i \in 1..n
      BY <1>5, <2>2
    <3>2. CASE j = n + 1
      BY <1>5, <3>1, <3>2 DEF LogOK
    <3>3. CASE j \in 1..n
      BY <1>5, <2>2, <3>1, <3>3 DEF LogOK
    <3> QED
      BY <1>5, <3>2, <3>3
  <2> QED
    BY <1>1, <1>2, <2>1, <2>2 DEF LogOK
<1> QED
  BY <1>4, <1>5

-----------------------------------------------------------------------------
(* Steps of the log *)

\* The columns written are those of the accumulating batch, all of them when
\* flush looks for its base; the base, if there is one, is the newest version.
FragWritten ==
  /\ pc \in {"column", "read", "commit"} =>
       /\ frag.cols \subseteq DOMAIN currentBatch
       /\ \A c \in frag.cols : files[<<frag.id, c>>] = currentBatch[c]
  /\ pc \in {"read", "commit"} => frag.cols = DOMAIN currentBatch
  /\ pc = "commit" =>
       ~base.whole \/ (DOMAIN manifests # {} /\ base = manifests[LatestVersion(manifests)])

LogInv == LogOK(accepted, Contents, currentBatch, batchCh)

\* Store failures that flush cannot mistake for a table without a version.
Steady == Faults \subseteq {"write", "crash"}

\* Flush goes without a base only when there is none.
BaseInv == pc = "commit" => ctxDone \/ DOMAIN manifests = {} \/ base.whole

\* While flush has the fragment open, nothing but the flush touches the data.
LEMMA StillWriting ==
  ASSUME [Next]_vars, pc \in {"column", "read", "commit"}, UNCHANGED pc
  PROVE  \/ UNCHANGED <<files, manifests, currentBatch, frag, base>> /\ (ctxDone => ctxDone')
         \/ \E c \in Columns : FlushColumn(c)
<1> DEFINE Still == UNCHANGED <<files, manifests, currentBatch, frag, base>> /\ (ctxDone => ctxDone')
<1>1. CASE UNCHANGED vars
  BY <1>1 DEF vars, disk, writer, local, env
<1>2. ASSUME NEW b \in Batches, Write(b) PROVE Still
  BY <1>2 DEF Write, disk, writer, local, env
<1>3. ASSUME NEW c \in Clients, FlushCall(c) \/ FlushDone(c) \/ CloseCall(c) \/ CloseDone(c)
      PROVE Still
  BY <1>3 DEF FlushCall, FlushDone, CloseCall, CloseDone, disk, writer, local, env
<1>4. CASE Receive \/ Cancel
  BY <1>4 DEF Receive, Cancel, disk, writer, local, env
<1>5. ASSUME NEW c \in Clients, SelectFlush(c) PROVE FALSE
  BY <1>5 DEF SelectFlush
<1>6. ASSUME SelectBatch \/ SelectStop \/ SelectTimer \/ Drain PROVE FALSE
  BY <1>6 DEF SelectBatch, SelectStop, SelectTimer, Drain
<1>7. ASSUME NEW err, NEW results, Return(err, results) PROVE FALSE
  BY <1>7 DEF Return, Exit
<1>8. ASSUME FlushEmpty \/ FlushStart \/ FlushLatest \/ FlushRead PROVE FALSE
  BY <1>7, <1>8 DEF FlushEmpty, FlushStart, FlushLatest, FlushRead
<1>9. ASSUME FlushReadFails \/ FlushCommit \/ FlushCommitFails PROVE FALSE
  BY <1>7, <1>9 DEF FlushReadFails, FlushCommit, FlushCommitFails, ReturnError
<1>10. ASSUME NEW c \in Columns, FlushColumnFails(c) PROVE FALSE
  BY <1>7, <1>10 DEF FlushColumnFails, ReturnError
<1>11. ASSUME Start \/ Crash PROVE FALSE
  BY <1>11 DEF Start, Crash
<1> QED
  BY <1>1, <1>2, <1>3, <1>4, <1>5, <1>6, <1>8, <1>9, <1>10, <1>11 DEF Next, FlushStep

\* A column counts as written when its file has the accumulated values, which stay until
\* flush ends; the base is read last.
LEMMA FragWrittenStep ==
  ASSUME FragWritten, FragmentsThere, [Next]_vars PROVE FragWritten'
<1>1. FragKinds
  BY AnyStep
<1>2. CASE pc' \notin {"column", "read", "commit"}
  BY <1>2 DEF FragWritten
<1>3. CASE pc \in {"column", "read", "commit"} /\ UNCHANGED <<pc, frag, base>>
  <2>1. UNCHANGED <<files, manifests, currentBatch, frag, base>>
        \/ \E c \in Columns : FlushColumn(c)
    BY <1>3, StillWriting
  <2>2. ASSUME NEW c \in Columns, FlushColumn(c) PROVE FALSE
    <3>1. frag' = [frag EXCEPT !.cols = @ \cup {c}] /\ frag \in FragRecord /\ c \notin frag.cols
      BY <2>2 DEF FlushColumn, FragmentsThere
    <3>2. c \in frag'.cols
      BY <3>1 DEF FragRecord
    <3> QED
      BY <1>3, <3>1, <3>2
  <2>3. UNCHANGED <<files, manifests, currentBatch, frag, base, pc>>
    BY <1>3, <2>1, <2>2
  <2> QED
    BY <2>3 DEF FragWritten
<1>4. CASE FlushStart
  <2>1. frag' = [id |-> fragmentID, cols |-> {}] /\ pc' = "column"
    BY <1>4 DEF FlushStart
  <2> QED
    BY <2>1 DEF FragWritten
<1>5. ASSUME NEW c \in Columns, FlushColumn(c) PROVE FragWritten'
  <2>1. /\ pc = "column" /\ UNCHANGED <<pc, currentBatch>> /\ c \in DOMAIN currentBatch
        /\ frag' = [frag EXCEPT !.cols = @ \cup {c}] /\ frag \in FragRecord
        /\ files' = Put(files, <<frag.id, c>>, currentBatch[c])
    BY <1>5 DEF FlushColumn, FragmentsThere, writer
  <2>2. frag'.id = frag.id /\ frag'.cols = frag.cols \cup {c}
    BY <2>1 DEF FragRecord
  <2>3. ASSUME NEW d \in frag'.cols
        PROVE  d \in DOMAIN currentBatch /\ files'[<<frag.id, d>>] = currentBatch[d]
    <3>1. CASE d = c
      BY <2>1, <3>1 DEF Put
    <3>2. CASE d # c
      <4>1. d \in frag.cols /\ <<frag.id, d>> # <<frag.id, c>>
        BY <2>2, <2>3, <3>2
      <4>2. <<frag.id, d>> \in DOMAIN files
        BY <2>1, <4>1 DEF FragmentsThere, Present
      <4>3. d \in DOMAIN currentBatch /\ files[<<frag.id, d>>] = currentBatch[d]
        BY <2>1, <4>1 DEF FragWritten
      <4> QED
        BY <2>1, <4>1, <4>2, <4>3 DEF Put
    <3> QED
      BY <3>1, <3>2
  <2> QED
    BY <2>1, <2>2, <2>3 DEF FragWritten
<1>6. CASE FlushLatest
  <2>1. /\ pc = "column" /\ pc' \in {"read", "commit"} /\ frag.cols = DOMAIN currentBatch
        /\ base' = TornManifest /\ UNCHANGED <<files, currentBatch, frag>>
    BY <1>6 DEF FlushLatest, disk
  <2> QED
    BY <2>1 DEF FragWritten, TornManifest
<1>7. CASE FlushRead
  <2>1. /\ pc = "read" /\ pc' = "commit" /\ LatestVersion(manifests) \in DOMAIN manifests
        /\ base' = manifests[LatestVersion(manifests)]
        /\ UNCHANGED <<files, manifests, currentBatch, frag>>
    BY <1>7 DEF FlushRead, disk, writer, Readable
  <2> QED
    BY <2>1 DEF FragWritten
<1>8. CASE Start
  BY <1>8 DEF Start, FragWritten
<1> QED
  BY <1>1, <1>2, <1>3, <1>4, <1>5, <1>6, <1>7, <1>8 DEF FragKinds

\* LatestVersion has answered, or there is no version: flush does not guess.
LEMMA BaseInvStep ==
  ASSUME Steady, BaseInv, [Next]_vars PROVE BaseInv'
<1>1. CASE pc' # "commit"
  BY <1>1 DEF BaseInv
<1>2. CASE pc' = "commit" /\ pc = "commit"
  <2>1. ASSUME NEW c \in Columns, FlushColumn(c) PROVE FALSE
    BY <1>2, <2>1 DEF FlushColumn
  <2>2. UNCHANGED <<manifests, base>> /\ (ctxDone => ctxDone')
    BY <1>2, <2>1, StillWriting
  <2> QED
    BY <1>2, <2>2 DEF BaseInv
<1>3. CASE pc' = "commit" /\ pc # "commit"
  <2>1. FlushLatest \/ FlushRead
    <3>1. FragKinds
      BY AnyStep
    <3>2. ASSUME FlushStart \/ Start \/ \E c \in Columns : FlushColumn(c) PROVE FALSE
      BY <1>3, <3>2 DEF FlushStart, Start, FlushColumn
    <3> QED
      BY <1>3, <3>1, <3>2 DEF FragKinds
  <2>2. CASE FlushLatest
    BY <1>3, <2>2 DEF FlushLatest, BaseInv, Steady, Fault, disk
  <2>3. CASE FlushRead
    BY <2>3 DEF FlushRead, BaseInv, Readable
  <2> QED
    BY <2>1, <2>2, <2>3
<1> QED
  BY <1>1, <1>2, <1>3

-----------------------------------------------------------------------------
(* What a step does to the log *)

\* The fragments of a base and one more hold what they held and the new one's columns.
LEMMA ContentsAppend ==
  ASSUME NEW fs, NEW frags \in Seq(FragRecord), NEW f \in FragRecord, NEW n, n = Len(frags)
  PROVE  /\ n \in Nat /\ DOMAIN ContentsOf(fs, frags) = 1..n
         /\ DOMAIN ContentsOf(fs, Append(frags, f)) = 1..(n + 1)
         /\ \A i \in 1..n : ContentsOf(fs, Append(frags, f))[i] = ContentsOf(fs, frags)[i]
         /\ ContentsOf(fs, Append(frags, f))[n + 1] = [c \in f.cols |-> fs[<<f.id, c>>]]
<1>1. /\ n \in Nat /\ DOMAIN frags = 1..n /\ DOMAIN Append(frags, f) = 1..(n + 1)
      /\ \A i \in 1..n : Append(frags, f)[i] = frags[i]
      /\ Append(frags, f)[n + 1] = f
  BY AppendFacts
<1>2. PICK frags1 : frags1 = Append(frags, f)
  OBVIOUS
<1>3. /\ DOMAIN frags1 = 1..(n + 1) /\ frags1[n + 1] = f
      /\ \A i \in 1..n : frags1[i] = frags[i]
  BY <1>1, <1>2
<1>4. /\ DOMAIN ContentsOf(fs, frags1) = 1..(n + 1)
      /\ DOMAIN ContentsOf(fs, frags) = 1..n
      /\ \A i \in 1..n : ContentsOf(fs, frags1)[i] = ContentsOf(fs, frags)[i]
      /\ ContentsOf(fs, frags1)[n + 1] = [c \in f.cols |-> fs[<<f.id, c>>]]
  <2>1. n + 1 \in 1..(n + 1) /\ \A i \in 1..n : i \in 1..(n + 1)
    BY <1>1
  <2> QED
    BY <1>1, <1>3, <2>1 DEF ContentsOf
<1> QED
  BY <1>1, <1>2, <1>4

\* The fragments of the newest version stay, or flush appends one to its base.
LEMMA LatestKinds ==
  ASSUME Benign, FileInv, VersionInv, [Next]_vars
  PROVE  \/ LatestFragments' = LatestFragments /\ ~FlushCommit /\ UNCHANGED manifests
         \/ FlushCommit /\ LatestFragments' = Successor.frags /\ UNCHANGED files
<1>1. CASE FlushCommit
  <2>1. PICK k \in Nat : VersionsUpTo(k)
    BY DEF VersionInv
  <2>2. Running /\ manifests' = Put(manifests, nextVersion, Successor) /\ UNCHANGED files
    BY <1>1 DEF FlushCommit, Running
  <2>3. nextVersion = k + 1
    BY <2>1, <2>2 DEF VersionsUpTo, FileInv, ManifestsTyped
  <2>4. DOMAIN manifests' = 1..(k + 1) /\ manifests'[k + 1] = Successor
    BY <2>1, <2>2, <2>3 DEF Put, VersionsUpTo
  <2>5. k + 1 \in Nat \ {0} /\ 1 \in DOMAIN manifests'
    BY <2>4
  <2>6. LatestVersion(manifests') = k + 1
    BY <2>4, <2>5, LatestOfDense
  <2>7. LatestFragments' = manifests'[LatestVersion(manifests')].frags
    BY <2>5 DEF LatestFragments
  <2> QED
    BY <1>1, <2>2, <2>4, <2>6, <2>7
<1>2. CASE ~FlushCommit
  <2>1. UNCHANGED manifests
    <3>1. ASSUME QuietStep PROVE UNCHANGED manifests
      BY <3>1 DEF QuietStep
    <3>2. ASSUME FlushStart \/ FlushLatest \/ FlushRead \/ Start PROVE UNCHANGED manifests
      BY <3>2 DEF FlushStart, FlushLatest, FlushRead, Start, disk
    <3>3. ASSUME NEW c \in Columns, FlushColumn(c) PROVE UNCHANGED manifests
      BY <3>3 DEF FlushColumn
    <3> QED
      BY <1>2, <3>1, <3>2, <3>3, QuietSteps
  <2>2. LatestFragments' = LatestFragments
    BY <2>1 DEF LatestFragments
  <2> QED
    BY <1>2, <2>1, <2>2
<1> QED
  BY <1>1, <1>2

\* The newest version's fragments are published.
LEMMA LatestPublished ==
  ASSUME FileInv, VersionInv
  PROVE  /\ LatestFragments \in Seq(FragRecord)
         /\ \A i \in DOMAIN LatestFragments : LatestFragments[i] \in Published
<1>1. CASE DOMAIN manifests = {}
  <2>1. LatestFragments = <<>> /\ <<>> \in Seq(FragRecord) /\ DOMAIN <<>> = {}
    BY <1>1 DEF LatestFragments
  <2> QED
    BY <2>1
<1>2. CASE DOMAIN manifests # {}
  <2>1. PICK k \in Nat : DOMAIN manifests = 1..k
    BY DEF VersionInv, VersionsUpTo
  <2>2. k \in Nat \ {0} /\ k \in DOMAIN manifests
    BY <1>2, <2>1
  <2>3. LatestVersion(manifests) = k
    BY <2>1, <2>2, LatestOfDense
  <2>4. LatestFragments = manifests[k].frags
    BY <1>2, <2>3 DEF LatestFragments
  <2> QED
    BY <2>2, <2>4 DEF FileInv, ManifestsTyped, Published, ToSet
<1> QED
  BY <1>1, <1>2

\* Appended to what the base has, or alone.
CommitsGroup ==
  /\ FlushCommit
  /\ \/ /\ DOMAIN Contents' = 1..(Len(LatestFragments) + 1)
        /\ Contents'[Len(LatestFragments) + 1] = currentBatch
        /\ \A i \in 1..Len(LatestFragments) : Contents'[i] = Contents[i]
     \/ ~base.whole /\ DOMAIN Contents' = {1} /\ Contents'[1] = currentBatch

\* Only FlushCommit changes what the newest version holds, by one group.
LEMMA ContentsKinds ==
  ASSUME Benign, FileInv, VersionInv, FragWritten, IsGroup(currentBatch), [Next]_vars
  PROVE  /\ Len(LatestFragments) \in Nat /\ DOMAIN Contents = 1..Len(LatestFragments)
         /\ (Contents' = Contents /\ ~FlushCommit) \/ CommitsGroup
<1>1. LatestFragments \in Seq(FragRecord)
      /\ \A i \in DOMAIN LatestFragments : LatestFragments[i] \in Published
  BY LatestPublished
<1>2. DOMAIN Contents = DOMAIN LatestFragments
  BY DEF Contents, ContentsOf
<1>3. CASE LatestFragments' = LatestFragments /\ ~FlushCommit
  <2>1. PICK fs : fs = files'
    OBVIOUS
  <2>2. \A i \in DOMAIN LatestFragments : \A c \in LatestFragments[i].cols :
          fs[<<LatestFragments[i].id, c>>] = files[<<LatestFragments[i].id, c>>]
    BY <1>1, <2>1, PublishedFilesStay
  <2>3. ContentsOf(fs, LatestFragments) = ContentsOf(files, LatestFragments)
    BY <2>2 DEF ContentsOf
  <2>4. Contents' = ContentsOf(files', LatestFragments')
    BY DEF Contents
  <2>5. Contents' = Contents
    BY <1>3, <2>1, <2>3, <2>4 DEF Contents
  <2> QED
    BY <1>1, <1>2, <1>3, <2>5
<1>4. CASE FlushCommit /\ LatestFragments' = Successor.frags /\ UNCHANGED files
  <2>1. pc = "commit" /\ frag \in FragRecord
    BY <1>4 DEF FlushCommit, FileInv, CounterFresh
  <2>2. PICK g : g = [c \in frag.cols |-> files[<<frag.id, c>>]]
    OBVIOUS
  <2>3. g = currentBatch
    BY <2>1, <2>2 DEF FragWritten, IsGroup
  <2>4. PICK lf : lf = LatestFragments /\ lf \in Seq(FragRecord)
    BY <1>1
  <2>5. Contents' = ContentsOf(files, Successor.frags)
    BY <1>4 DEF Contents
  <2>6. CASE base.whole
    <3>1. base.frags = lf
      BY <2>1, <2>4, <2>6 DEF FragWritten, LatestFragments
    <3>2. Successor.frags = Append(lf, frag)
      BY <2>6, <3>1 DEF Successor, AppendFragment, NewManifest
    <3>3. PICK fr : fr = frag
      OBVIOUS
    <3>4. PICK n : n = Len(lf)
      OBVIOUS
    <3>5. /\ n \in Nat /\ DOMAIN ContentsOf(files, lf) = 1..n
          /\ DOMAIN ContentsOf(files, Append(lf, frag)) = 1..(n + 1)
          /\ \A i \in 1..n : ContentsOf(files, Append(lf, frag))[i] = ContentsOf(files, lf)[i]
          /\ ContentsOf(files, Append(lf, frag))[n + 1] = [c \in frag.cols |-> files[<<frag.id, c>>]]
      BY <2>1, <2>4, <3>4, ContentsAppend
    <3>6. /\ DOMAIN Contents' = 1..(n + 1) /\ Contents'[n + 1] = currentBatch
          /\ \A i \in 1..n : Contents'[i] = Contents[i]
      BY <2>2, <2>3, <2>4, <2>5, <3>2, <3>5 DEF Contents
    <3> QED
      BY <1>1, <1>2, <1>4, <2>4, <3>4, <3>6 DEF CommitsGroup
  <2>7. CASE ~base.whole
    <3>1. Successor.frags = <<frag>>
      BY <2>7 DEF Successor, FirstFragment, NewManifest
    <3>2. DOMAIN ContentsOf(files, <<frag>>) = {1} /\ ContentsOf(files, <<frag>>)[1] = g
      BY <2>2 DEF ContentsOf
    <3> QED
      BY <1>1, <1>2, <1>4, <2>3, <2>5, <2>7, <3>1, <3>2 DEF CommitsGroup
  <2> QED
    BY <2>6, <2>7
<1> QED
  BY <1>3, <1>4, LatestKinds

\* Where every column has its schema's type, accumulate never fails.
LEMMA MergesWhole ==
  ASSUME WellTyped, Held(accepted, currentBatch, batchCh), batchCh # <<>>,
         NEW ok, Accumulate(Head(batchCh), ok)
  PROVE  /\ ok /\ currentRows' = currentRows + Rows[Head(batchCh)] /\ Head(batchCh) \in Batches
         /\ currentBatch' = MergeColumns(currentBatch, Head(batchCh), DOMAIN Kind[Head(batchCh)])
<1>1. PICK b : b = Head(batchCh)
  OBVIOUS
<1>2. b \in Batches
  BY <1>1, TailFacts DEF Held
<1>3. ASSUME NEW c \in DOMAIN Kind[b] PROVE Mergeable(currentBatch, b, c)
  <2>1. Kind[b][c] = FieldType
    BY <1>2 DEF WellTyped
  <2>2. CASE c \in DOMAIN currentBatch
    <3>1. PICK col : col = currentBatch[c]
      OBVIOUS
    <3>2. col \in Seq(Batches) /\ col # <<>> /\ SameType(c, col)
      BY <2>2, <3>1 DEF Held, IsGroup
    <3>3. Head(col) \in Batches /\ Head(col) \in ToSet(col)
      BY <3>2, TailFacts
    <3>4. ColumnType(col, c) = FieldType
      BY <3>2, <3>3 DEF SameType, WellTyped, ColumnType
    <3> QED
      BY <2>1, <3>1, <3>4 DEF Mergeable
  <2>3. CASE c \notin DOMAIN currentBatch
    BY <2>3 DEF Mergeable
  <2> QED
    BY <2>2, <2>3
<1>4. {c \in DOMAIN Kind[b] : ~Mergeable(currentBatch, b, c)} = {}
  BY <1>3
<1> QED
  BY <1>1, <1>2, <1>4 DEF Accumulate

\* Write, accumulate, commit and reset keep the log in order.
LEMMA LogInvStep ==
  ASSUME Benign, WellTyped, FileInv, VersionInv, FragWritten, LogInv,
         Held(accepted, currentBatch, batchCh), [Next]_vars
  PROVE  LogInv'
<1>1. IsGroup(currentBatch)
  BY DEF Held
<1>2. /\ DataKinds
      /\ Len(LatestFragments) \in Nat /\ DOMAIN Contents = 1..Len(LatestFragments)
      /\ (Contents' = Contents /\ ~FlushCommit) \/ CommitsGroup
  BY <1>1, NextDataKinds, ContentsKinds
<1>3. CASE Contents' = Contents
  <2>1. CASE UNCHANGED <<accepted, batchCh, currentBatch>>
    BY <1>3, <2>1 DEF LogInv
  <2>2. ASSUME NEW b \in Batches, accepted' = Append(accepted, b),
               batchCh' = Append(batchCh, b), UNCHANGED currentBatch
        PROVE  LogInv'
    BY <1>3, <2>2, LogWrite DEF LogInv
  <2>3. ASSUME UNCHANGED accepted, batchCh # <<>>, batchCh' = Tail(batchCh),
               NEW ok, Accumulate(Head(batchCh), ok)
        PROVE  LogInv'
    <3>1. currentBatch' = MergeColumns(currentBatch, Head(batchCh), DOMAIN Kind[Head(batchCh)])
      BY <2>3, MergesWhole
    <3>2. LogOK(accepted, Contents,
                MergeColumns(currentBatch, Head(batchCh), DOMAIN Kind[Head(batchCh)]), Tail(batchCh))
      BY <2>3, LogMerge DEF LogInv
    <3> QED
      BY <1>3, <2>3, <3>1, <3>2 DEF LogInv
  <2>4. ASSUME UNCHANGED accepted, currentBatch' = EmptyBatch, batchCh' \in {batchCh, <<>>}
        PROVE  LogInv'
    BY <1>3, <2>4, LogReset DEF LogInv
  <2> QED
    BY <1>2, <2>1, <2>2, <2>3, <2>4 DEF DataKinds
<1>4. CASE CommitsGroup
  <2>1. UNCHANGED <<accepted, batchCh>> /\ currentBatch' = EmptyBatch
    BY <1>4 DEF CommitsGroup, FlushCommit, Return, hist
  <2>2. PICK new : new = Contents'
    OBVIOUS
  <2>3. PICK n : n = Len(LatestFragments)
    OBVIOUS
  <2>4. \/ /\ DOMAIN new = 1..(n + 1) /\ new[n + 1] = currentBatch
           /\ \A i \in 1..n : new[i] = Contents[i]
        \/ DOMAIN new = {1} /\ new[1] = currentBatch
    BY <1>4, <2>2, <2>3 DEF CommitsGroup
  <2>5. LogOK(accepted, Contents, currentBatch, batchCh) /\ n \in Nat /\ DOMAIN Contents = 1..n
    BY <1>2, <2>3 DEF LogInv
  <2>6. LogOK(accepted, new, EmptyBatch, batchCh)
    BY <2>4, <2>5, LogCommit
  <2> QED
    BY <2>1, <2>2, <2>6 DEF LogInv
<1> QED
  BY <1>2, <1>3, <1>4

\* The log is empty and no flush is under way.
LEMMA LogInvInit == Init => LogInv /\ FragWritten /\ BaseInv
<1> SUFFICES ASSUME Init PROVE LogInv /\ FragWritten /\ BaseInv
  OBVIOUS
<1>1. FragWritten /\ BaseInv
  BY DEF Init, FragWritten, BaseInv
<1>2. LatestFragments = <<>>
  <2>1. CASE DOMAIN manifests = {}
    BY <2>1 DEF LatestFragments
  <2>2. CASE DOMAIN manifests = {1}
    <3>1. LatestVersion(manifests) = 1
      <4>1. PICK k : k = 1
        OBVIOUS
      <4>2. k \in Nat \ {0} /\ DOMAIN manifests = 1..k
        BY <2>2, <4>1
      <4>3. LatestVersion(manifests) = k
        BY <4>2, LatestOfDense
      <4> QED
        BY <4>1, <4>3
    <3>2. manifests[1] = EmptyManifest
      BY <2>2 DEF Init
    <3>3. EmptyManifest.frags = <<>>
      BY DEF EmptyManifest, NewManifest
    <3> QED
      BY <2>2, <3>1, <3>2, <3>3 DEF LatestFragments
  <2> QED
    BY <2>1, <2>2 DEF Init
<1>3. DOMAIN Contents = {}
  BY <1>2 DEF Contents, ContentsOf
<1>4. DOMAIN EmptyBatch = {} /\ currentBatch = EmptyBatch
  BY DEF Init, EmptyBatch
<1> QED
  BY <1>1, <1>3, <1>4 DEF LogInv, LogOK, WholeGroup

\* The invariant of the log: fragments of whole batches, in the order of Write.
THEOREM LogHolds ==
  ASSUME Benign, WellTyped PROVE Spec => [](LogInv /\ FragWritten)
<1>1. ASSUME FileInv, VersionInv, DataInv, FragmentsThere, LogInv /\ FragWritten, [Next]_vars
      PROVE  (LogInv /\ FragWritten)'
  <2>1. LogInv'
    BY <1>1, LogInvStep DEF DataInv
  <2>2. FragWritten'
    BY <1>1, FragWrittenStep
  <2> QED
    BY <2>1, <2>2
<1>2. "ack" \notin Faults
  BY DEF Benign
<1> QED
  BY <1>1, <1>2, LogInvInit, FragmentsFresh, VersionsFresh, DataSound, FilesThere, PTL DEF Spec

\* What is durable, in terms of the log.
DurableIn(s, log) == {b \in ToSet(s) : \E i \in DOMAIN log : WholeIn(b, log[i])}

\* Durable batches are those that are whole in a group, for any files and fragments.
LEMMA DurableOf ==
  ASSUME NEW s, NEW fs, NEW frags
  PROVE  DurableIn(s, ContentsOf(fs, frags)) =
           {b \in ToSet(s) : \E i \in DOMAIN frags :
              \A c \in DOMAIN Kind[b] : c \in frags[i].cols /\ b \in ToSet(fs[<<frags[i].id, c>>])}
<1> DEFINE log == ContentsOf(fs, frags)
<1>1. /\ DOMAIN log = DOMAIN frags
      /\ \A i \in DOMAIN frags :
           /\ DOMAIN log[i] = frags[i].cols
           /\ \A c \in frags[i].cols : log[i][c] = fs[<<frags[i].id, c>>]
  BY DEF ContentsOf
<1> HIDE DEF log
<1>2. ASSUME NEW b, NEW i \in DOMAIN frags
      PROVE  WholeIn(b, log[i]) <=>
               \A c \in DOMAIN Kind[b] : c \in frags[i].cols /\ b \in ToSet(fs[<<frags[i].id, c>>])
  BY <1>1 DEF WholeIn
<1>3. DurableIn(s, log) =
        {b \in ToSet(s) : \E i \in DOMAIN frags :
           \A c \in DOMAIN Kind[b] : c \in frags[i].cols /\ b \in ToSet(fs[<<frags[i].id, c>>])}
  BY <1>1, <1>2, Zenon DEF DurableIn
<1> QED
  BY <1>3 DEF log

\* Durable of AsyncWriter, in terms of the log.
LEMMA DurableIs == Durable = DurableIn(accepted, Contents)
<1>1. Durable = {b \in ToSet(accepted) : \E i \in DOMAIN LatestFragments :
         \A c \in DOMAIN Kind[b] : /\ c \in LatestFragments[i].cols
                                   /\ b \in ToSet(files[<<LatestFragments[i].id, c>>])}
  BY DEF Durable, Holds
<1> QED
  BY <1>1, DurableOf DEF Contents

\* async_writer.go:234-284.  The rows of a batch are in at most one place, in
\* all columns of one fragment of the newest version or still with the writer:
\* flushes that failed half way and were retried, crashes and restarts never
\* commit one twice or in part.
THEOREM CommittedOnce == ASSUME Benign, WellTyped PROVE Spec => []ExactlyOnce
<1>1. ASSUME LogInv, DataInv, FragmentsThere PROVE ExactlyOnce
  <2> SUFFICES ASSUME NEW i \in DOMAIN LatestFragments, NEW j \in DOMAIN LatestFragments,
                      NEW c \in LatestFragments[i].cols, NEW d \in LatestFragments[j].cols,
                      NEW k \in DOMAIN Column(i, c)
               PROVE  /\ \A l \in DOMAIN Column(j, d) :
                           Column(i, c)[k] = Column(j, d)[l] => i = j /\ (c = d => k = l)
                      /\ Column(i, c)[k] \in Durable /\ ~Buffered(Column(i, c)[k])
    BY DEF ExactlyOnce
  <2>1. DOMAIN Contents = DOMAIN LatestFragments
    BY DEF Contents, ContentsOf
  <2>2. \A e \in DOMAIN LatestFragments :
          /\ DOMAIN Contents[e] = LatestFragments[e].cols
          /\ \A x \in LatestFragments[e].cols : Contents[e][x] = Column(e, x)
    BY DEF Contents, ContentsOf, Column
  <2>3. PICK g : g = Contents[i]
    OBVIOUS
  <2>4. PICK h : h = Contents[j]
    OBVIOUS
  <2>5. PICK b : b = Column(i, c)[k]
    OBVIOUS
  <2>6. /\ c \in DOMAIN g /\ d \in DOMAIN h /\ g[c] = Column(i, c) /\ h[d] = Column(j, d)
        /\ b \in ToSet(g[c])
    BY <2>1, <2>2, <2>3, <2>4, <2>5 DEF ToSet
  <2>7. \A x : ~Before(accepted, x, x)
    BY <1>1, BeforeStrict DEF DataInv, Held
  <2>8. /\ IsGroup(g) /\ IsGroup(h) /\ WholeGroup(g) /\ Ordered(accepted, g[c])
        /\ GroupsInOrder(accepted, g, currentBatch) /\ GroupBefore(accepted, g, ToSet(batchCh))
        /\ i < j => GroupsInOrder(accepted, g, h)
        /\ j < i => GroupsInOrder(accepted, h, g)
    BY <1>1, <2>1, <2>3, <2>4, <2>6 DEF LogInv, LogOK
  <2>9. b \in Durable
    <3>1. WholeIn(b, g) /\ b \in ToSet(accepted)
      BY <2>6, <2>8 DEF WholeGroup, Ordered
    <3> QED
      BY <2>1, <2>3, <3>1, DurableIs DEF DurableIn
  <2>10. ~Buffered(b)
    <3>1. b \notin ToSet(batchCh)
      BY <2>6, <2>7, <2>8 DEF GroupBefore
    <3>2. \A x \in DOMAIN currentBatch : b \notin ToSet(currentBatch[x])
      BY <2>6, <2>7, <2>8 DEF GroupBefore, GroupsInOrder
    <3> QED
      BY <3>1, <3>2 DEF Buffered
  <2>11. ASSUME NEW l \in DOMAIN Column(j, d), b = Column(j, d)[l]
         PROVE  i = j /\ (c = d => k = l)
    <3>1. b \in ToSet(h[d])
      BY <2>6, <2>11 DEF ToSet
    <3>2. ~(i < j) /\ ~(j < i)
      BY <2>6, <2>7, <2>8, <3>1 DEF GroupsInOrder, GroupBefore
    <3>3. i \in Nat /\ j \in Nat
      <4>1. PICK lf : lf = LatestFragments
        OBVIOUS
      <4>2. lf \in Seq(FragRecord)
        BY <1>1, <4>1, LatestComplete DEF DataInv
      <4>3. DOMAIN lf \subseteq Nat
        BY <4>2
      <4> QED
        BY <4>1, <4>3
    <3>4. i = j
      BY <3>2, <3>3
    <3>5. ASSUME c = d PROVE k = l
      <4>1. PICK col : col = g[c]
        OBVIOUS
      <4>2. /\ k \in DOMAIN col /\ l \in DOMAIN col /\ col[k] = col[l]
            /\ col \in Seq(Batches) /\ Ordered(accepted, col)
        BY <2>3, <2>4, <2>5, <2>6, <2>8, <2>11, <3>4, <3>5, <4>1 DEF IsGroup
      <4>3. ~(k < l) /\ ~(l < k)
        BY <2>7, <4>2 DEF Ordered
      <4>4. k \in Nat /\ l \in Nat
        BY <4>2
      <4> QED
        BY <4>3, <4>4
    <3> QED
      BY <3>4, <3>5
  <2> QED
    BY <2>5, <2>9, <2>10, <2>11
<1> QED
  BY <1>1, LogHolds, DataSound, FilesThere, PTL

-----------------------------------------------------------------------------
(* Columns that line up *)

\* All batches have the same columns.
Even == \A a, b \in Batches : DOMAIN Kind[a] = DOMAIN Kind[b]

Aligned(g) ==
  \A c \in DOMAIN g : /\ \A d \in DOMAIN g : g[c] = g[d]
                      /\ \A b \in Batches : DOMAIN g = DOMAIN Kind[b]

AlignedInv == Aligned(currentBatch) /\ \A i \in DOMAIN Contents : Aligned(Contents[i])

\* Merging all columns of a batch keeps them aligned if it has the columns there are.
LEMMA AlignedMerge ==
  ASSUME Even, NEW cur, NEW b \in Batches, Aligned(cur)
  PROVE  Aligned(MergeColumns(cur, b, DOMAIN Kind[b]))
<1>1. PICK new : new = MergeColumns(cur, b, DOMAIN Kind[b])
  OBVIOUS
<1>2. CASE DOMAIN cur = {}
  <2>1. DOMAIN new = DOMAIN Kind[b] /\ \A c \in DOMAIN new : new[c] = <<b>>
    BY <1>1, <1>2 DEF MergeColumns
  <2>2. \A x \in Batches : DOMAIN Kind[x] = DOMAIN Kind[b]
    BY DEF Even
  <2> QED
    BY <1>1, <2>1, <2>2 DEF Aligned
<1>3. CASE DOMAIN cur # {}
  <2>1. DOMAIN cur = DOMAIN Kind[b]
    BY <1>3 DEF Aligned
  <2>2. DOMAIN new = DOMAIN Kind[b] /\ \A c \in DOMAIN new : new[c] = Append(cur[c], b)
    BY <1>1, <2>1 DEF MergeColumns
  <2>3. \A c, d \in DOMAIN new : new[c] = new[d]
    BY <2>1, <2>2 DEF Aligned
  <2>4. \A x \in Batches : DOMAIN Kind[x] = DOMAIN Kind[b]
    BY DEF Even
  <2> QED
    BY <1>1, <2>2, <2>3, <2>4 DEF Aligned
<1> QED
  BY <1>2, <1>3

\* Groups enter the log as they were accumulated, aligned.
LEMMA AlignedStep ==
  ASSUME Benign, WellTyped, Even, FileInv, VersionInv, FragWritten, AlignedInv,
         Held(accepted, currentBatch, batchCh), [Next]_vars
  PROVE  AlignedInv'
<1>1. IsGroup(currentBatch) /\ Aligned(EmptyBatch)
  BY DEF Held, Aligned, EmptyBatch
<1>2. /\ DataKinds
      /\ Len(LatestFragments) \in Nat /\ DOMAIN Contents = 1..Len(LatestFragments)
      /\ (Contents' = Contents /\ ~FlushCommit) \/ CommitsGroup
  BY <1>1, NextDataKinds, ContentsKinds
<1>3. Aligned(currentBatch)'
  <2>1. ASSUME batchCh # <<>>, NEW ok, Accumulate(Head(batchCh), ok) PROVE Aligned(currentBatch)'
    <3>1. /\ currentBatch' = MergeColumns(currentBatch, Head(batchCh), DOMAIN Kind[Head(batchCh)])
          /\ Head(batchCh) \in Batches
      BY <2>1, MergesWhole
    <3>2. Aligned(MergeColumns(currentBatch, Head(batchCh), DOMAIN Kind[Head(batchCh)]))
      BY <3>1, AlignedMerge DEF AlignedInv
    <3> QED
      BY <3>1, <3>2 DEF Aligned
  <2>2. CASE UNCHANGED currentBatch
    BY <2>2 DEF AlignedInv, Aligned
  <2>3. CASE currentBatch' = EmptyBatch
    BY <1>1, <2>3 DEF Aligned
  <2> QED
    BY <1>2, <2>1, <2>2, <2>3 DEF DataKinds
<1>4. \A i \in DOMAIN Contents' : Aligned(Contents'[i])
  <2>1. CASE Contents' = Contents
    BY <2>1 DEF AlignedInv
  <2>2. CASE CommitsGroup
    <3>1. PICK new : new = Contents'
      OBVIOUS
    <3>2. PICK n : n = Len(LatestFragments)
      OBVIOUS
    <3>3. \/ /\ DOMAIN new = 1..(n + 1) /\ new[n + 1] = currentBatch
             /\ \A i \in 1..n : new[i] = Contents[i]
          \/ DOMAIN new = {1} /\ new[1] = currentBatch
      BY <2>2, <3>1, <3>2 DEF CommitsGroup
    <3>4. n \in Nat /\ DOMAIN Contents = 1..n
      BY <1>2, <3>2
    <3>5. \A i \in DOMAIN new : new[i] = currentBatch \/ (i \in DOMAIN Contents /\ new[i] = Contents[i])
      BY <3>3, <3>4
    <3>6. \A i \in DOMAIN new : Aligned(new[i])
      BY <3>5 DEF AlignedInv
    <3> QED
      BY <3>1, <3>6
  <2> QED
    BY <1>2, <2>1, <2>2
<1> QED
  BY <1>3, <1>4 DEF AlignedInv, Aligned

\* async_writer.go:212-232.  What is accumulated lines up, and so does what is committed.
THEOREM AlignedHolds == ASSUME Benign, WellTyped, Even PROVE Spec => []AlignedInv
<1>1. Init => AlignedInv
  <2> SUFFICES ASSUME Init PROVE AlignedInv
    OBVIOUS
  <2>1. currentBatch = EmptyBatch /\ Aligned(EmptyBatch)
    BY DEF Init, EmptyBatch, Aligned
  <2>2. \A v \in DOMAIN manifests : manifests[v].frags = <<>>
    BY DEF Init, EmptyManifest, NewManifest
  <2>3. DataInv
    BY DataInvInit
  <2>4. DOMAIN LatestFragments = {}
    BY <2>2, <2>3, LatestThere DEF DataInv, LatestFragments
  <2> QED
    BY <2>1, <2>4 DEF AlignedInv, Contents, ContentsOf
<1>2. ASSUME FileInv, VersionInv, DataInv, LogInv /\ FragWritten, AlignedInv, [Next]_vars
      PROVE  AlignedInv'
  BY <1>2, AlignedStep DEF DataInv
<1>3. "ack" \notin Faults
  BY DEF Benign
<1> QED
  BY <1>1, <1>2, <1>3, LogHolds, FragmentsFresh, VersionsFresh, DataSound, PTL DEF Spec

\* async_writer.go:212-232.  Where all batches have the same columns, row i of a
\* committed fragment is the same batch's row in every column.
THEOREM CommittedAligned == ASSUME Benign, WellTyped, Even PROVE Spec => []ColumnsAligned
<1>1. AlignedInv => ColumnsAligned
  <2>1. DOMAIN Contents = DOMAIN LatestFragments
    BY DEF Contents, ContentsOf
  <2>2. \A e \in DOMAIN LatestFragments :
          /\ DOMAIN Contents[e] = LatestFragments[e].cols
          /\ \A x \in LatestFragments[e].cols : Contents[e][x] = Column(e, x)
    BY DEF Contents, ContentsOf, Column
  <2> QED
    BY <2>1, <2>2 DEF AlignedInv, Aligned, ColumnsAligned
<1> QED
  BY <1>1, AlignedHolds, PTL

-----------------------------------------------------------------------------
(* Acknowledgements: who waits for what *)

Flushing == {"flush", "column", "read", "commit"}

\* Where run and the clients are; the writer stops only when it is told to.
ControlInv ==
  /\ pc \in {"off", "select", "exited", "drain"} \cup Flushing
  /\ cause \in {"none", "size", "timer", "flush", "stop"}
  /\ (cause = "none") = (pc \in {"off", "select", "exited"})
  /\ pc = "drain" => cause \in {"flush", "stop"}
  /\ cause = "flush" => caller \in Clients
  /\ cpc \in [Clients -> {"idle", "flush_send", "flush_wait", "close_wait"}]
  /\ resp \in [Clients -> {"none", "nil", "err"}]
  /\ due = [c \in Clients |-> due[c]]
  /\ \A c \in Clients : /\ resp[c] # "none" => cpc[c] = "flush_wait"
                        /\ due[c] \subseteq kept
  /\ done = (pc = "exited")
  /\ pc = "exited" \/ cause = "stop" => closed \/ ctxDone

\* A batch without rows has nothing to lose.
Settled == {b \in ToSet(accepted) : Rows[b] = 0 \/ b \in Durable}

\* Batches that the flush under way commits, unless they are.
Safe == {b \in ToSet(accepted) : b \in Settled \/ WholeIn(b, currentBatch)}

\* What was accepted in time waits in the channel, or is safe; flush has drained
\* the channel of what its caller waits for; an answer of nil is true.
AckInv ==
  /\ Running => kept \subseteq Safe \cup ToSet(batchCh)
  /\ pc \in Flushing /\ cause = "flush" /\ cpc[caller] = "flush_wait" => due[caller] \subseteq Safe
  /\ pc \in Flushing /\ cause = "stop" => kept \subseteq Safe
  /\ \A c \in Clients : resp[c] = "nil" => due[c] \subseteq Settled
  /\ done /\ closeErr = "nil" => kept \subseteq Settled

\* The row count is that of the batches accumulated, or more.
RowsInv ==
  /\ currentRows \in Nat
  /\ \A c \in DOMAIN currentBatch : \A b \in ToSet(currentBatch[c]) : Rows[b] <= currentRows

\* run goes back to its select, or ends: the answer goes to whoever waits.
LEMMA ReturnControl ==
  ASSUME ControlInv, pc \in Flushing, NEW err \in {"nil", "err"}, NEW results, Return(err, results)
  PROVE  ControlInv'
<1>1. cause' = "none" /\ UNCHANGED <<closed, ctxDone, cpc, kept, due>>
  BY DEF Return, hist
<1>2. CASE cause \in {"size", "timer"}
  <2>1. pc' = "select" /\ UNCHANGED <<resp, done>>
    BY <1>2 DEF Return
  <2> QED
    BY <1>1, <2>1 DEF ControlInv, Flushing
<1>3. CASE cause = "flush"
  <2>1. pc' = "select" /\ UNCHANGED done /\ Answer(err)
    BY <1>3 DEF Return
  <2>2. resp' \in [Clients -> {"none", "nil", "err"}]
        /\ \A c \in Clients : resp'[c] # "none" => cpc[c] = "flush_wait"
    BY <1>3, <2>1 DEF Answer, ControlInv
  <2> QED
    BY <1>1, <2>1, <2>2 DEF ControlInv, Flushing
<1>4. CASE cause = "stop"
  <2>1. pc' = "exited" /\ done' = TRUE /\ UNCHANGED resp
    BY <1>4 DEF Return, Exit
  <2> QED
    BY <1>1, <1>4, <2>1 DEF ControlInv, Flushing
<1> QED
  BY <1>2, <1>3, <1>4 DEF ControlInv, Flushing, Return

\* Start and Crash leave nobody waiting.
LEMMA FreshControl ==
  ASSUME ControlInv, Fresh, kept' = {}, pc' \in {"off", "select"} PROVE ControlInv'
<1>1. /\ cause' = "none" /\ closed' = FALSE /\ done' = FALSE
      /\ resp' = [c \in Clients |-> "none"] /\ cpc' = [c \in Clients |-> "idle"]
      /\ due' = [c \in Clients |-> {}]
  BY DEF Fresh
<1> QED
  BY <1>1 DEF ControlInv, Flushing

\* Each step of run and of the clients keeps the hand-shakes.
LEMMA ControlStep ==
  ASSUME ControlInv, [Next]_vars PROVE ControlInv'
<1> USE DEF ControlInv, Flushing
<1>1. CASE UNCHANGED vars
  BY <1>1 DEF vars, chans, local, env, hist
<1>2. ASSUME NEW b \in Batches, Write(b) PROVE ControlInv'
  <2>1. kept \subseteq kept' /\ UNCHANGED <<pc, cause, caller, cpc, resp, due, done, closed, ctxDone>>
    BY <1>2 DEF Write, local, env
  <2> QED
    BY <2>1
<1>3. ASSUME NEW c \in Clients, FlushCall(c) PROVE ControlInv'
  <2>1. /\ cpc[c] = "idle" /\ cpc' = [cpc EXCEPT ![c] = "flush_send"]
        /\ due' = [due EXCEPT ![c] = kept]
        /\ UNCHANGED <<pc, cause, caller, resp, kept, done, closed, ctxDone>>
    BY <1>3 DEF FlushCall, chans, local, env
  <2> QED
    BY <2>1
<1>4. ASSUME NEW c \in Clients, FlushDone(c) PROVE ControlInv'
  <2>1. /\ cpc' = [cpc EXCEPT ![c] = "idle"] /\ resp' = [resp EXCEPT ![c] = "none"]
        /\ due' = [due EXCEPT ![c] = {}]
        /\ UNCHANGED <<pc, cause, caller, kept, done, closed, ctxDone>>
    BY <1>4 DEF FlushDone, local, env
  <2> QED
    BY <2>1
<1>5. ASSUME NEW c \in Clients, CloseCall(c) \/ CloseDone(c) PROVE ControlInv'
  <2>1. CASE CloseCall(c)
    <3>1. /\ cpc[c] = "idle" /\ cpc' = [cpc EXCEPT ![c] = "close_wait"] /\ closed' = TRUE
          /\ UNCHANGED <<pc, cause, caller, kept, due, resp, done, ctxDone>>
      BY <2>1 DEF CloseCall, local, env, hist
    <3> QED
      BY <3>1
  <2>2. CASE CloseDone(c)
    <3>1. /\ cpc[c] = "close_wait" /\ cpc' = [cpc EXCEPT ![c] = "idle"]
          /\ UNCHANGED <<pc, cause, caller, kept, due, resp, done, closed, ctxDone>>
      BY <2>2 DEF CloseDone, chans, local, env, hist
    <3> QED
      BY <3>1
  <2> QED
    BY <1>5, <2>1, <2>2
<1>6. CASE Receive \/ Cancel
  BY <1>6 DEF Receive, Cancel, chans, local, env, hist
<1>7. CASE SelectBatch
  <2>1. /\ pc = "select"
        /\ \/ pc' = "flush" /\ cause' = "size"
           \/ UNCHANGED <<pc, cause>>
        /\ UNCHANGED <<caller, cpc, kept, due, resp, done, closed, ctxDone>>
    BY <1>7 DEF SelectBatch, env, hist
  <2> QED
    BY <2>1
<1>8. CASE SelectStop \/ SelectTimer
  BY <1>8 DEF SelectStop, SelectTimer, chans, env, hist
<1>9. ASSUME NEW c \in Clients, SelectFlush(c) PROVE ControlInv'
  <2>1. /\ pc' = "drain" /\ cause' = "flush" /\ caller' = c /\ cpc[c] = "flush_send"
        /\ cpc' = [cpc EXCEPT ![c] = "flush_wait"]
        /\ pc = "select" /\ UNCHANGED <<kept, due, resp, done, closed, ctxDone>>
    BY <1>9 DEF SelectFlush, chans, env, hist
  <2> QED
    BY <2>1
<1>10. CASE Drain
  <2>1. /\ pc = "drain" /\ pc' \in {"drain", "flush"}
        /\ UNCHANGED <<cause, caller, cpc, kept, due, resp, done, closed, ctxDone>>
    BY <1>10 DEF Drain, env, hist
  <2> QED
    BY <2>1
<1>11. ASSUME FlushStart \/ FlushLatest \/ FlushRead PROVE ControlInv'
  BY <1>11 DEF FlushStart, FlushLatest, FlushRead, chans, env, hist
<1>12. ASSUME NEW c \in Columns, FlushColumn(c) PROVE ControlInv'
  BY <1>12 DEF FlushColumn, chans, env, hist
<1>13. CASE FlushEmpty
  BY <1>13, ReturnControl DEF FlushEmpty
<1>14. CASE FlushReadFails
  BY <1>14, ReturnControl DEF FlushReadFails, ReturnError
<1>15. CASE FlushCommitFails
  BY <1>15, ReturnControl DEF FlushCommitFails, ReturnError
<1>16. ASSUME NEW c \in Columns, FlushColumnFails(c) PROVE ControlInv'
  BY <1>16, ReturnControl DEF FlushColumnFails, ReturnError
<1>17. CASE FlushCommit
  <2>1. pc \in Flushing /\ Return("nil", SendResult(resultCh, nextVersion))
    BY <1>17 DEF FlushCommit
  <2> QED
    BY <2>1, ReturnControl
<1>18. CASE Start
  BY <1>18, FreshControl DEF Start
<1>19. CASE Crash
  BY <1>19, FreshControl DEF Crash
<1> QED
  BY <1>1, <1>2, <1>3, <1>4, <1>5, <1>6, <1>7, <1>8, <1>9, <1>10, <1>11, <1>12, <1>13, <1>14,
     <1>15, <1>16, <1>17, <1>18, <1>19 DEF Next, FlushStep

\* Nobody calls and run is off.
LEMMA ControlInit == Init => ControlInv
  BY DEF Init, ControlInv, Flushing

\* async_writer.go:115-194.  run and its clients stay in step, whatever fails: an answer goes
\* to a client that waits for it, and run ends only after Close or cancellation.
THEOREM ControlHolds == Spec => []ControlInv
BY ControlInit, ControlStep, PTL DEF Spec

-----------------------------------------------------------------------------
(* What is safe stays safe *)

\* The same, after a step.
LEMMA DurableNext == Durable' = DurableIn(accepted', Contents')
<1>1. Durable' = {b \in ToSet(accepted') : \E i \in DOMAIN LatestFragments' :
         \A c \in DOMAIN Kind[b] : /\ c \in LatestFragments'[i].cols
                                   /\ b \in ToSet(files'[<<LatestFragments'[i].id, c>>])}
  BY DEF Durable, Holds
<1>2. Contents' = ContentsOf(files', LatestFragments')
  BY DEF Contents
<1> QED
  BY <1>1, <1>2, DurableOf

\* Where LatestVersion cannot be mistaken, flush appends to what there is.
AppendsGroup ==
  /\ FlushCommit
  /\ DOMAIN Contents' = 1..(Len(LatestFragments) + 1)
  /\ Contents'[Len(LatestFragments) + 1] = currentBatch
  /\ \A i \in 1..Len(LatestFragments) : Contents'[i] = Contents[i]

\* Then every commit appends to the log that is there.
LEMMA SteadyKinds ==
  ASSUME Steady, BaseInv, FileInv, VersionInv, FragWritten, IsGroup(currentBatch), [Next]_vars
  PROVE  /\ Len(LatestFragments) \in Nat /\ DOMAIN Contents = 1..Len(LatestFragments)
         /\ (Contents' = Contents /\ ~FlushCommit) \/ AppendsGroup
<1>1. Benign
  BY DEF Steady, Benign
<1>2. /\ Len(LatestFragments) \in Nat /\ DOMAIN Contents = 1..Len(LatestFragments)
      /\ (Contents' = Contents /\ ~FlushCommit) \/ CommitsGroup
  BY <1>1, ContentsKinds
<1>3. ASSUME FlushCommit, ~base.whole, DOMAIN Contents' = {1}, Contents'[1] = currentBatch
      PROVE  AppendsGroup
  <2>1. DOMAIN manifests = {}
    BY <1>3 DEF FlushCommit, BaseInv
  <2>2. LatestFragments = <<>>
    BY <2>1 DEF LatestFragments
  <2>3. PICK n : n = Len(LatestFragments)
    OBVIOUS
  <2>4. n = 0
    BY <2>2, <2>3
  <2>5. 1..(n + 1) = {1} /\ n + 1 = 1 /\ 1..n = {}
    BY <2>4
  <2> QED
    BY <1>3, <2>3, <2>5 DEF AppendsGroup
<1> QED
  BY <1>2, <1>3 DEF CommitsGroup, AppendsGroup

\* What is committed stays, and a commit settles all that was safe.
LEMMA SettledGrows ==
  ASSUME Steady, BaseInv, FileInv, VersionInv, FragWritten,
         Held(accepted, currentBatch, batchCh), [Next]_vars
  PROVE  /\ ToSet(accepted) \subseteq ToSet(accepted')
         /\ Settled \subseteq Settled'
         /\ FlushCommit => Safe \subseteq Settled'
<1>1. IsGroup(currentBatch) /\ accepted \in Seq(Batches)
  BY DEF Held
<1>2. /\ DataKinds
      /\ Len(LatestFragments) \in Nat /\ DOMAIN Contents = 1..Len(LatestFragments)
      /\ (Contents' = Contents /\ ~FlushCommit) \/ AppendsGroup
  BY <1>1, NextDataKinds, SteadyKinds
<1>3. ToSet(accepted) \subseteq ToSet(accepted')
  <2>1. ASSUME NEW b \in Batches, accepted' = Append(accepted, b)
        PROVE  ToSet(accepted) \subseteq ToSet(accepted')
    BY <1>1, <2>1, AppendFacts
  <2> QED
    BY <1>2, <2>1 DEF DataKinds
<1>4. PICK new : new = Contents'
  OBVIOUS
<1>5. PICK n : n = Len(LatestFragments)
  OBVIOUS
<1>6. n \in Nat /\ DOMAIN Contents = 1..n
  BY <1>2, <1>5
<1>7. \/ new = Contents /\ ~FlushCommit
      \/ /\ DOMAIN new = 1..(n + 1) /\ new[n + 1] = currentBatch
         /\ \A i \in 1..n : new[i] = Contents[i]
  BY <1>2, <1>4, <1>5 DEF AppendsGroup
<1>8. \A i \in DOMAIN Contents : i \in DOMAIN new /\ new[i] = Contents[i]
  BY <1>6, <1>7
<1>9. FlushCommit => n + 1 \in DOMAIN new /\ new[n + 1] = currentBatch
  BY <1>6, <1>7
<1>10. Durable = DurableIn(accepted, Contents) /\ Durable' = DurableIn(accepted', new)
  BY <1>4, DurableIs, DurableNext
<1>11. Durable \subseteq Durable'
  BY <1>3, <1>8, <1>10 DEF DurableIn
<1>12. Settled \subseteq Settled'
  BY <1>3, <1>11 DEF Settled
<1>13. ASSUME FlushCommit, NEW b \in ToSet(accepted), WholeIn(b, currentBatch) PROVE b \in Durable'
  BY <1>3, <1>9, <1>10, <1>13 DEF DurableIn
<1>14. FlushCommit => Safe \subseteq Settled'
  <2> SUFFICES ASSUME FlushCommit, NEW b \in Safe PROVE b \in Settled'
    OBVIOUS
  <2>1. b \in ToSet(accepted) /\ b \in ToSet(accepted')
    BY <1>3 DEF Safe
  <2>2. CASE b \in Settled
    BY <1>12, <2>2
  <2>3. CASE WholeIn(b, currentBatch)
    <3>1. b \in Durable'
      BY <1>13, <2>1, <2>3
    <3> QED
      BY <2>1, <3>1 DEF Settled
  <2> QED
    BY <2>2, <2>3 DEF Safe
<1> QED
  BY <1>3, <1>12, <1>14

\* A merged batch is whole in the accumulating batch, and so are the others.
LEMMA WholeMerge ==
  ASSUME NEW cur, NEW b \in Batches, IsGroup(cur)
  PROVE  /\ WholeIn(b, MergeColumns(cur, b, DOMAIN Kind[b]))
         /\ \A x : WholeIn(x, cur) => WholeIn(x, MergeColumns(cur, b, DOMAIN Kind[b]))
<1>1. PICK new : new = MergeColumns(cur, b, DOMAIN Kind[b])
  OBVIOUS
<1>2. /\ DOMAIN new = DOMAIN cur \cup DOMAIN Kind[b]
      /\ \A c \in DOMAIN cur \ DOMAIN Kind[b] : new[c] = cur[c]
      /\ \A c \in DOMAIN Kind[b] \cap DOMAIN cur : new[c] = Append(cur[c], b)
      /\ \A c \in DOMAIN Kind[b] \ DOMAIN cur : new[c] = <<b>>
  BY <1>1 DEF MergeColumns
<1>3. ASSUME NEW c \in DOMAIN new
      PROVE  /\ c \in DOMAIN Kind[b] => b \in ToSet(new[c])
             /\ c \in DOMAIN cur => ToSet(cur[c]) \subseteq ToSet(new[c])
  <2>1. CASE c \in DOMAIN cur \ DOMAIN Kind[b]
    BY <1>2, <2>1
  <2>2. CASE c \in DOMAIN Kind[b] \cap DOMAIN cur
    <3>1. PICK col : col = cur[c]
      OBVIOUS
    <3>2. col \in Seq(Batches)
      BY <2>2, <3>1 DEF IsGroup
    <3>3. ToSet(Append(col, b)) = ToSet(col) \cup {b}
      BY <3>2, AppendFacts
    <3> QED
      BY <1>2, <2>2, <3>1, <3>3
  <2>3. CASE c \in DOMAIN Kind[b] \ DOMAIN cur
    <3>1. ToSet(<<b>>) = {b}
      BY DEF ToSet
    <3> QED
      BY <1>2, <2>3, <3>1
  <2> QED
    BY <1>2, <2>1, <2>2, <2>3
<1>4. WholeIn(b, new) /\ \A x : WholeIn(x, cur) => WholeIn(x, new)
  BY <1>2, <1>3 DEF WholeIn
<1> QED
  BY <1>1, <1>4

\* Until the writer is started anew, what is safe or waits stays so.
LEMMA SafeGrows ==
  ASSUME Steady, WellTyped, BaseInv, FileInv, VersionInv, FragWritten,
         Held(accepted, currentBatch, batchCh), [Next]_vars, ~Start, ~Crash
  PROVE  /\ Settled \subseteq Settled'
         /\ Safe \subseteq Safe'
         /\ ToSet(batchCh) \subseteq Safe' \cup ToSet(batchCh')
<1>1. /\ IsGroup(currentBatch) /\ accepted \in Seq(Batches) /\ batchCh \in Seq(Batches)
      /\ ToSet(batchCh) \subseteq ToSet(accepted)
  BY DEF Held, Ordered
<1>2. /\ ToSet(accepted) \subseteq ToSet(accepted') /\ Settled \subseteq Settled'
      /\ FlushCommit => Safe \subseteq Settled'
  BY SettledGrows
<1>3. DataKinds
  BY <1>1, NextDataKinds
<1>4. Settled' \subseteq Safe'
  BY DEF Safe, Settled
<1>5. CASE UNCHANGED currentBatch /\ ToSet(batchCh) \subseteq ToSet(batchCh')
  BY <1>2, <1>5 DEF Safe
<1>6. ASSUME UNCHANGED accepted, batchCh # <<>>, batchCh' = Tail(batchCh),
             NEW ok, Accumulate(Head(batchCh), ok)
      PROVE  Safe \subseteq Safe' /\ ToSet(batchCh) \subseteq Safe' \cup ToSet(batchCh')
  <2>1. PICK b : b = Head(batchCh)
    OBVIOUS
  <2>2. b \in Batches /\ currentBatch' = MergeColumns(currentBatch, b, DOMAIN Kind[b])
    BY <1>6, <2>1, MergesWhole
  <2>3. ToSet(batchCh) = ToSet(batchCh') \cup {b}
    BY <1>1, <1>6, <2>1, TailFacts
  <2>4. WholeIn(b, currentBatch') /\ \A x : WholeIn(x, currentBatch) => WholeIn(x, currentBatch')
    BY <1>1, <2>2, WholeMerge
  <2>5. b \in Safe'
    BY <1>1, <1>2, <2>3, <2>4 DEF Safe
  <2>6. Safe \subseteq Safe'
    BY <1>2, <2>4 DEF Safe
  <2> QED
    BY <2>3, <2>5, <2>6
<1>7. CASE FlushCommit /\ UNCHANGED batchCh
  BY <1>2, <1>4, <1>7
<1>8. ASSUME NEW b \in Batches, batchCh' = Append(batchCh, b)
      PROVE  ToSet(batchCh) \subseteq ToSet(batchCh')
  BY <1>1, <1>8, AppendFacts
<1> QED
  BY <1>2, <1>3, <1>5, <1>6, <1>7, <1>8 DEF DataKinds

\* accumulate adds the rows of the batch to the count, and commit resets both.
LEMMA RowsStep ==
  ASSUME WellTyped, RowsInv, Held(accepted, currentBatch, batchCh), [Next]_vars PROVE RowsInv'
<1>1. IsGroup(currentBatch) /\ batchCh \in Seq(Batches)
  BY DEF Held
<1>2. DataKinds
  BY <1>1, NextDataKinds
<1>3. ASSUME batchCh # <<>>, NEW ok, Accumulate(Head(batchCh), ok) PROVE RowsInv'
  <2>1. PICK b : b = Head(batchCh)
    OBVIOUS
  <2>2. /\ b \in Batches /\ currentRows' = currentRows + Rows[b]
        /\ currentBatch' = MergeColumns(currentBatch, b, DOMAIN Kind[b])
    BY <1>3, <2>1, MergesWhole
  <2>3. Rows[b] \in Nat /\ currentRows \in Nat
    BY <2>2, BatchesAssumption DEF RowsInv
  <2>4. ASSUME NEW c \in DOMAIN currentBatch', NEW x \in ToSet(currentBatch'[c])
        PROVE  x = b \/ (c \in DOMAIN currentBatch /\ x \in ToSet(currentBatch[c]))
    <3>1. CASE c \in DOMAIN currentBatch \ DOMAIN Kind[b]
      BY <2>2, <2>4, <3>1 DEF MergeColumns
    <3>2. CASE c \in DOMAIN Kind[b] \cap DOMAIN currentBatch
      <4>1. PICK col : col = currentBatch[c]
        OBVIOUS
      <4>2. col \in Seq(Batches) /\ currentBatch'[c] = Append(col, b)
        BY <1>1, <2>2, <3>2, <4>1 DEF IsGroup, MergeColumns
      <4>3. ToSet(Append(col, b)) = ToSet(col) \cup {b}
        BY <2>2, <4>2, AppendFacts
      <4> QED
        BY <2>4, <3>2, <4>1, <4>2, <4>3
    <3>3. CASE c \in DOMAIN Kind[b] \ DOMAIN currentBatch
      <4>1. ToSet(<<b>>) = {b} /\ currentBatch'[c] = <<b>>
        BY <2>2, <3>3 DEF ToSet, MergeColumns
      <4> QED
        BY <2>4, <4>1
    <3> QED
      BY <2>2, <3>1, <3>2, <3>3 DEF MergeColumns
  <2>5. ASSUME NEW c \in DOMAIN currentBatch', NEW x \in ToSet(currentBatch'[c])
        PROVE  Rows[x] <= currentRows'
    <3>1. CASE x = b
      BY <2>2, <2>3, <3>1
    <3>2. CASE c \in DOMAIN currentBatch /\ x \in ToSet(currentBatch[c])
      <4>1. Rows[x] <= currentRows
        BY <3>2 DEF RowsInv
      <4>2. x \in Batches
        <5>1. PICK col : col = currentBatch[c]
          OBVIOUS
        <5>2. col \in Seq(Batches)
          BY <1>1, <3>2, <5>1 DEF IsGroup
        <5>3. ToSet(col) \subseteq Batches
          BY <5>2, ToSetTyped
        <5> QED
          BY <3>2, <5>1, <5>3
      <4>3. Rows[x] \in Nat
        BY <4>2, BatchesAssumption
      <4> QED
        BY <2>2, <2>3, <4>1, <4>3
    <3> QED
      BY <2>4, <2>5, <3>1, <3>2
  <2>6. currentRows' \in Nat
    BY <2>2, <2>3
  <2> QED
    BY <2>5, <2>6 DEF RowsInv
<1>4. CASE UNCHANGED <<currentBatch, currentRows>>
  BY <1>4 DEF RowsInv
<1>5. CASE currentBatch' = EmptyBatch /\ currentRows' = 0
  BY <1>5 DEF RowsInv, EmptyBatch
<1> QED
  BY <1>2, <1>3, <1>4, <1>5 DEF DataKinds

\* Nothing accumulated: what is safe is committed.
LEMMA EmptySettled ==
  ASSUME RowsInv, accepted \in Seq(Batches), currentRows = 0 PROVE Safe \subseteq Settled
<1> SUFFICES ASSUME NEW b \in ToSet(accepted), WholeIn(b, currentBatch) PROVE b \in Settled
  BY DEF Safe
<1>1. b \in Batches
  BY ToSetTyped
<1>2. PICK c : c \in DOMAIN Kind[b]
  BY <1>1, BatchesAssumption
<1>3. Rows[b] <= 0
  BY <1>2 DEF WholeIn, RowsInv
<1>4. Rows[b] \in Nat
  BY <1>1, BatchesAssumption
<1> QED
  BY <1>3, <1>4 DEF Settled

-----------------------------------------------------------------------------
(* No acknowledgement is false and nothing is dropped *)

\* What SafeGrows says.
Grows ==
  /\ Settled \subseteq Settled' /\ Safe \subseteq Safe'
  /\ ToSet(batchCh) \subseteq Safe' \cup ToSet(batchCh')

\* flush returns to run: nil only if what was safe is settled.
LEMMA ReturnAck ==
  ASSUME ControlInv, AckInv, Grows, pc \in Flushing, NEW err \in {"nil", "err"}, NEW results,
         Return(err, results), err = "nil" => Safe \subseteq Settled'
  PROVE  AckInv'
<1>1. UNCHANGED <<batchCh, cpc, kept, due>> /\ pc' \in {"select", "exited"} /\ Running /\ ~done
  BY DEF Return, hist, Exit, Running, Flushing, ControlInv
<1>2. (Running => kept \subseteq Safe \cup ToSet(batchCh))' /\ pc' \notin Flushing
  BY <1>1 DEF AckInv, Grows, Flushing
<1>3. \A c \in Clients : resp[c] = "nil" => due[c] \subseteq Settled'
  BY DEF AckInv, Grows
<1>4. CASE cause \in {"size", "timer"}
  <2>1. UNCHANGED <<resp, done>>
    BY <1>4 DEF Return
  <2> QED
    BY <1>1, <1>2, <1>3, <2>1 DEF AckInv
<1>5. CASE cause = "flush"
  <2>1. UNCHANGED done /\ Answer(err) /\ caller \in Clients /\ resp \in [Clients -> {"none", "nil", "err"}]
    BY <1>5 DEF Return, ControlInv
  <2>2. ASSUME NEW c \in Clients, resp'[c] = "nil" PROVE due[c] \subseteq Settled'
    <3>1. CASE c = caller /\ cpc[caller] = "flush_wait"
      <4>1. due[caller] \subseteq Safe
        BY <1>5, <3>1 DEF AckInv
      <4>2. err = "nil"
        BY <2>1, <2>2, <3>1 DEF Answer
      <4> QED
        BY <3>1, <4>1, <4>2
    <3>2. CASE ~(c = caller /\ cpc[caller] = "flush_wait")
      <4>1. resp'[c] = resp[c]
        BY <2>1, <3>2 DEF Answer
      <4> QED
        BY <1>3, <2>2, <4>1
    <3> QED
      BY <3>1, <3>2
  <2> QED
    BY <1>1, <1>2, <2>1, <2>2 DEF AckInv
<1>6. CASE cause = "stop"
  <2>1. closeErr' = err /\ UNCHANGED resp
    BY <1>6 DEF Return, Exit
  <2>2. closeErr' = "nil" => kept \subseteq Settled'
    BY <1>6, <2>1 DEF AckInv
  <2> QED
    BY <1>1, <1>2, <1>3, <2>1, <2>2 DEF AckInv
<1> QED
  BY <1>4, <1>5, <1>6 DEF Return

\* Steps of the clients and of run outside flush.
LEMMA SameAck ==
  ASSUME AckInv, Grows, UNCHANGED <<kept, done, closeErr>>, Running' => Running,
         \A c \in Clients : resp'[c] = "nil" => resp[c] = "nil" /\ due'[c] = due[c],
         pc' \in Flushing =>
           /\ cause' = "flush" /\ cpc'[caller'] = "flush_wait" => due'[caller'] \subseteq Safe'
           /\ cause' = "stop" => kept' \subseteq Safe'
  PROVE  AckInv'
<1>1. (Running => kept \subseteq Safe \cup ToSet(batchCh))'
  BY DEF AckInv, Grows
<1>2. \A c \in Clients : resp'[c] = "nil" => due'[c] \subseteq Settled'
  BY DEF AckInv, Grows
<1>3. done' /\ closeErr' = "nil" => kept' \subseteq Settled'
  BY DEF AckInv, Grows
<1> QED
  BY <1>1, <1>2, <1>3 DEF AckInv

\* While pc, cause and caller stay, so does what the flush under way owes.
LEMMA StillOwed ==
  ASSUME AckInv, Grows, UNCHANGED <<kept, cause, caller>>, pc' \in Flushing => pc \in Flushing,
         cause = "flush" /\ cpc'[caller] = "flush_wait" =>
           cpc[caller] = "flush_wait" /\ due'[caller] = due[caller]
  PROVE  pc' \in Flushing =>
           /\ cause' = "flush" /\ cpc'[caller'] = "flush_wait" => due'[caller'] \subseteq Safe'
           /\ cause' = "stop" => kept' \subseteq Safe'
  BY DEF AckInv, Grows

\* A call, a return, a receive or a cancellation breaks no acknowledgement.
LEMMA ClientAck ==
  ASSUME ControlInv, AckInv, Grows,
         \/ UNCHANGED vars
         \/ \E c \in Clients : FlushCall(c) \/ FlushDone(c) \/ CloseCall(c) \/ CloseDone(c)
         \/ Receive \/ Cancel
  PROVE  AckInv'
<1>1. UNCHANGED <<kept, done, closeErr, cause, caller, pc>>
  BY DEF vars, FlushCall, FlushDone, CloseCall, CloseDone, Receive, Cancel, chans, writer, local, hist
<1>2. /\ \A d \in Clients : resp'[d] = "nil" => resp[d] = "nil" /\ due'[d] = due[d]
      /\ cause = "flush" /\ cpc'[caller] = "flush_wait" =>
           cpc[caller] = "flush_wait" /\ due'[caller] = due[caller]
  <2>1. ASSUME NEW c \in Clients, FlushCall(c)
        PROVE  /\ \A d \in Clients : resp'[d] = "nil" => resp[d] = "nil" /\ due'[d] = due[d]
               /\ cause = "flush" /\ cpc'[caller] = "flush_wait" =>
                    cpc[caller] = "flush_wait" /\ due'[caller] = due[caller]
    <3>1. /\ cpc[c] = "idle" /\ cpc' = [cpc EXCEPT ![c] = "flush_send"]
          /\ due' = [due EXCEPT ![c] = kept] /\ UNCHANGED resp
      BY <2>1 DEF FlushCall, chans
    <3> QED
      BY <3>1 DEF ControlInv
  <2>2. ASSUME NEW c \in Clients, FlushDone(c)
        PROVE  /\ \A d \in Clients : resp'[d] = "nil" => resp[d] = "nil" /\ due'[d] = due[d]
               /\ cause = "flush" /\ cpc'[caller] = "flush_wait" =>
                    cpc[caller] = "flush_wait" /\ due'[caller] = due[caller]
    <3>1. /\ cpc' = [cpc EXCEPT ![c] = "idle"] /\ resp' = [resp EXCEPT ![c] = "none"]
          /\ due' = [due EXCEPT ![c] = {}]
      BY <2>2 DEF FlushDone
    <3> QED
      BY <3>1 DEF ControlInv
  <2>3. ASSUME NEW c \in Clients, CloseCall(c) \/ CloseDone(c)
        PROVE  /\ \A d \in Clients : resp'[d] = "nil" => resp[d] = "nil" /\ due'[d] = due[d]
               /\ cause = "flush" /\ cpc'[caller] = "flush_wait" =>
                    cpc[caller] = "flush_wait" /\ due'[caller] = due[caller]
    <3>1. /\ \/ cpc' = [cpc EXCEPT ![c] = "close_wait"]
             \/ cpc' = [cpc EXCEPT ![c] = "idle"]
          /\ UNCHANGED <<resp, due>>
      BY <2>3 DEF CloseCall, CloseDone, chans, hist
    <3> QED
      BY <3>1 DEF ControlInv
  <2>4. CASE UNCHANGED <<cpc, resp, due>>
    BY <2>4
  <2>5. CASE UNCHANGED vars \/ Receive \/ Cancel
    BY <2>4, <2>5 DEF vars, Receive, Cancel, chans, hist
  <2> QED
    BY <2>1, <2>2, <2>3, <2>5
<1>3. Running' => Running
  BY <1>1 DEF Running
<1>4. pc' \in Flushing =>
        /\ cause' = "flush" /\ cpc'[caller'] = "flush_wait" => due'[caller'] \subseteq Safe'
        /\ cause' = "stop" => kept' \subseteq Safe'
  BY <1>1, <1>2, StillOwed
<1>5. UNCHANGED <<kept, done, closeErr>>
  BY <1>1
<1> QED
  BY <1>2, <1>3, <1>4, <1>5, SameAck

\* Write puts the batch where it is safe, or after the stop, where nobody counts on it.
LEMMA WriteAck ==
  ASSUME ControlInv, AckInv, Grows, batchCh \in Seq(Batches), NEW b \in Batches, Write(b)
  PROVE  AckInv'
<1>1. /\ batchCh' = Append(batchCh, b) /\ kept' \in {kept, kept \cup {b}}
      /\ closed \/ ctxDone => kept' = kept
      /\ UNCHANGED <<pc, cause, caller, cpc, resp, due, done, closeErr>>
  BY DEF Write, writer, local
<1>2. ToSet(batchCh') = ToSet(batchCh) \cup {b}
  BY <1>1, AppendFacts
<1>3. (Running => kept \subseteq Safe \cup ToSet(batchCh))'
  BY <1>1, <1>2 DEF AckInv, Grows, Running
<1>4. cause = "stop" \/ done => kept' = kept
  BY <1>1 DEF ControlInv
<1>5. (pc \in Flushing /\ cause = "stop" => kept \subseteq Safe)'
  BY <1>1, <1>4 DEF AckInv, Grows
<1>6. (done /\ closeErr = "nil" => kept \subseteq Settled)'
  BY <1>1, <1>4 DEF AckInv, Grows
<1>7. (pc \in Flushing /\ cause = "flush" /\ cpc[caller] = "flush_wait" => due[caller] \subseteq Safe)'
  BY <1>1 DEF AckInv, Grows
<1>8. \A c \in Clients : resp'[c] = "nil" => due'[c] \subseteq Settled'
  BY <1>1 DEF AckInv, Grows
<1> QED
  BY <1>3, <1>5, <1>6, <1>7, <1>8 DEF AckInv

\* The select takes a batch, or starts a flush; one that a client or Close asked for drains
\* the channel first, so that what they wait for is safe.
LEMMA SelectAck ==
  ASSUME ControlInv, AckInv, Grows, WellTyped, Held(accepted, currentBatch, batchCh),
         SelectBatch \/ SelectStop \/ SelectTimer \/ Drain \/ \E c \in Clients : SelectFlush(c)
  PROVE  AckInv'
<1>1. ASSUME SelectBatch \/ SelectStop \/ SelectTimer PROVE AckInv'
  <2>1. /\ UNCHANGED <<kept, done, closeErr, resp, due>> /\ pc = "select"
        /\ pc' \in Flushing => cause' \in {"size", "timer"} \/ UNCHANGED <<pc, cause>>
    BY <1>1 DEF SelectBatch, SelectStop, SelectTimer, chans, writer, hist, Flushing
  <2>2. pc' \in Flushing => cause' \notin {"flush", "stop"}
    BY <2>1 DEF ControlInv, Flushing
  <2> QED
    BY <2>1, <2>2, SameAck DEF Running
<1>2. ASSUME NEW c \in Clients, SelectFlush(c) PROVE AckInv'
  <2>1. /\ UNCHANGED <<kept, done, closeErr, resp, due>> /\ pc = "select" /\ pc' \notin Flushing
    BY <1>2 DEF SelectFlush, chans, writer, hist, Flushing
  <2> QED
    BY <2>1, SameAck DEF Running
<1>3. CASE Drain
  <2>1. /\ UNCHANGED <<kept, done, closeErr, resp, due, cause, caller, cpc>> /\ pc = "drain"
        /\ pc' \in {"drain", "flush"}
    BY <1>3 DEF Drain, hist, env
  <2>2. CASE batchCh = <<>>
    <3>1. ToSet(batchCh) = {}
      BY <2>2 DEF ToSet
    <3>2. kept \subseteq Safe'
      BY <2>1, <3>1 DEF AckInv, Grows, Running
    <3>3. cause = "flush" => due[caller] \subseteq kept
      BY DEF ControlInv
    <3> QED
      BY <2>1, <3>2, <3>3, SameAck DEF Running
  <2>3. CASE pc' = "drain"
    BY <2>1, <2>3, SameAck DEF Running, Flushing
  <2>4. CASE batchCh # <<>> /\ pc' # "drain"
    <3>1. Accumulate(Head(batchCh), FALSE)
      BY <1>3, <2>4 DEF Drain
    <3> QED
      BY <2>4, <3>1, MergesWhole
  <2> QED
    BY <2>2, <2>3, <2>4
<1> QED
  BY <1>1, <1>2, <1>3

\* The steps of flush before its end change no acknowledgement.
LEMMA FlushAck ==
  ASSUME ControlInv, AckInv, Grows,
         FlushStart \/ FlushLatest \/ FlushRead \/ \E c \in Columns : FlushColumn(c)
  PROVE  AckInv'
<1>1. /\ UNCHANGED <<kept, cause, caller, done, closeErr, cpc, resp, due>>
      /\ pc \in Flushing /\ pc' \in Flushing
  <2>1. ASSUME FlushStart \/ FlushLatest \/ FlushRead
        PROVE  /\ UNCHANGED <<kept, cause, caller, done, closeErr, cpc, resp, due>>
               /\ pc \in Flushing /\ pc' \in Flushing
    BY <2>1 DEF FlushStart, FlushLatest, FlushRead, chans, writer, hist, Flushing
  <2>2. ASSUME NEW c \in Columns, FlushColumn(c)
        PROVE  /\ UNCHANGED <<kept, cause, caller, done, closeErr, cpc, resp, due>>
               /\ pc \in Flushing /\ pc' \in Flushing
    BY <2>2 DEF FlushColumn, chans, writer, hist, Flushing
  <2> QED
    BY <2>1, <2>2
<1>2. UNCHANGED <<kept, cause, caller>> /\ UNCHANGED <<kept, done, closeErr>> /\ (Running' => Running)
  BY <1>1 DEF Running, Flushing
<1>3. pc' \in Flushing =>
        /\ cause' = "flush" /\ cpc'[caller'] = "flush_wait" => due'[caller'] \subseteq Safe'
        /\ cause' = "stop" => kept' \subseteq Safe'
  BY <1>1, <1>2, StillOwed
<1> QED
  BY <1>1, <1>2, <1>3, SameAck

\* flush ends: nil after a commit or when there was nothing, err otherwise.
LEMMA ReturnsAck ==
  ASSUME ControlInv, AckInv, Grows, RowsInv, accepted \in Seq(Batches),
         FlushCommit => Safe \subseteq Settled',
         \/ FlushEmpty \/ FlushReadFails \/ FlushCommit \/ FlushCommitFails
         \/ \E c \in Columns : FlushColumnFails(c)
  PROVE  AckInv'
<1>1. CASE FlushEmpty
  <2>1. pc \in Flushing /\ Return("nil", resultCh) /\ currentRows = 0
    BY <1>1 DEF FlushEmpty, Flushing
  <2>2. Safe \subseteq Settled
    BY <2>1, EmptySettled
  <2> QED
    BY <2>1, <2>2, ReturnAck DEF Grows
<1>2. CASE FlushCommit
  <2>1. pc \in Flushing /\ Return("nil", SendResult(resultCh, nextVersion))
    BY <1>2 DEF FlushCommit, Flushing
  <2> QED
    BY <1>2, <2>1, ReturnAck
<1>3. ASSUME FlushReadFails \/ FlushCommitFails \/ \E c \in Columns : FlushColumnFails(c)
      PROVE  AckInv'
  <2>1. pc \in Flushing /\ Return("err", resultCh)
    BY <1>3 DEF FlushReadFails, FlushCommitFails, FlushColumnFails, ReturnError, Flushing
  <2> QED
    BY <2>1, ReturnAck
<1> QED
  BY <1>1, <1>2, <1>3

\* A new writer, or none, owes nobody anything.
LEMMA FreshAck ==
  ASSUME Start \/ Crash PROVE AckInv'
<1>1. /\ kept' = {} /\ pc' \in {"off", "select"} /\ resp' = [c \in Clients |-> "none"]
      /\ due' = [c \in Clients |-> {}] /\ done' = FALSE
  BY DEF Start, Crash, Fresh
<1> QED
  BY <1>1 DEF AckInv, Flushing

\* Every step keeps the acknowledgements true.
LEMMA AckStep ==
  ASSUME Steady, WellTyped, BaseInv, FileInv, VersionInv, FragWritten, DataInv,
         ControlInv, RowsInv, AckInv, [Next]_vars
  PROVE  AckInv'
<1>1. /\ Held(accepted, currentBatch, batchCh)
      /\ accepted \in Seq(Batches) /\ batchCh \in Seq(Batches)
  BY DEF DataInv, Held
<1>2. FlushCommit => Safe \subseteq Settled'
  BY <1>1, SettledGrows
<1>3. CASE Start \/ Crash
  BY <1>3, FreshAck
<1>4. CASE ~Start /\ ~Crash
  <2>1. Grows
    BY <1>1, <1>4, SafeGrows DEF Grows
  <2>2. ASSUME NEW b \in Batches, Write(b) PROVE AckInv'
    BY <1>1, <2>1, <2>2, WriteAck
  <2>3. ASSUME \/ UNCHANGED vars
               \/ \E c \in Clients : FlushCall(c) \/ FlushDone(c) \/ CloseCall(c) \/ CloseDone(c)
               \/ Receive \/ Cancel
        PROVE  AckInv'
    BY <2>1, <2>3, ClientAck
  <2>4. ASSUME SelectBatch \/ SelectStop \/ SelectTimer \/ Drain \/ \E c \in Clients : SelectFlush(c)
        PROVE  AckInv'
    BY <1>1, <2>1, <2>4, SelectAck
  <2>5. ASSUME FlushStart \/ FlushLatest \/ FlushRead \/ \E c \in Columns : FlushColumn(c)
        PROVE  AckInv'
    BY <2>1, <2>5, FlushAck
  <2>6. ASSUME \/ FlushEmpty \/ FlushReadFails \/ FlushCommit \/ FlushCommitFails
               \/ \E c \in Columns : FlushColumnFails(c)
        PROVE  AckInv'
    BY <1>1, <1>2, <2>1, <2>6, ReturnsAck
  <2> QED
    BY <1>4, <2>2, <2>3, <2>4, <2>5, <2>6 DEF Next, FlushStep
<1> QED
  BY <1>3, <1>4

\* Nothing was acknowledged.
LEMMA AckInit == Init => AckInv /\ RowsInv /\ BaseInv
  BY DEF Init, AckInv, RowsInv, BaseInv, Flushing, Running, EmptyBatch

\* The invariant of the acknowledgements.
THEOREM AckHolds ==
  ASSUME Steady, WellTyped PROVE Spec => [](AckInv /\ RowsInv /\ BaseInv)
<1>1. Benign /\ "ack" \notin Faults
  BY DEF Steady, Benign
<1>2. ASSUME FileInv, VersionInv, LogInv /\ FragWritten, DataInv, ControlInv,
             AckInv /\ RowsInv /\ BaseInv, [Next]_vars
      PROVE  (AckInv /\ RowsInv /\ BaseInv)'
  <2>1. AckInv'
    BY <1>2, AckStep
  <2>2. RowsInv'
    BY <1>2, RowsStep DEF DataInv
  <2>3. BaseInv'
    BY <1>2, BaseInvStep
  <2> QED
    BY <2>1, <2>2, <2>3
<1> QED
  BY <1>1, <1>2, AckInit, LogHolds, FragmentsFresh, VersionsFresh, DataSound, ControlHolds, PTL
  DEF Spec

\* async_writer.go:196-232.  While the writer runs, a batch that was accepted
\* before Close and before cancellation is in the channel, in the accumulating
\* batch or committed, however many flushes failed.
THEOREM KeptStays == ASSUME Steady, WellTyped PROVE Spec => []NothingDropped
<1>1. ASSUME AckInv, DataInv PROVE NothingDropped
  <2> SUFFICES ASSUME Running, NEW b \in kept \cap NonEmpty PROVE Buffered(b) \/ b \in Durable
    BY DEF NothingDropped
  <2>1. b \in Batches /\ Rows[b] # 0
    BY BatchesAssumption DEF NonEmpty
  <2>2. CASE b \in ToSet(batchCh)
    BY <2>2 DEF Buffered
  <2>3. CASE WholeIn(b, currentBatch)
    <3>1. PICK c : c \in DOMAIN Kind[b]
      BY <2>1, BatchesAssumption
    <3> QED
      BY <2>3, <3>1 DEF WholeIn, Buffered
  <2>4. CASE b \in Settled
    BY <2>1, <2>4 DEF Settled
  <2> QED
    BY <1>1, <2>2, <2>3, <2>4 DEF AckInv, Safe
<1> QED
  BY <1>1, AckHolds, DataSound, PTL

\* What is settled and has rows is durable.
LEMMA SettledDurable == \A S : S \subseteq Settled => S \cap NonEmpty \subseteq Durable
<1>1. \A b \in Batches : Rows[b] \in Nat
  BY BatchesAssumption
<1> QED
  BY <1>1 DEF Settled, NonEmpty

\* async_writer.go:115-134, 176-178.  Flush answers nil only when everything
\* accepted before the call is in the newest version, whichever flushes failed
\* before, whoever else writes, flushes or closes at the same time.
THEOREM FlushMeansDurable == ASSUME Steady, WellTyped PROVE Spec => []FlushDurable
<1>1. AckInv => FlushDurable
  BY SettledDurable DEF AckInv, FlushDurable
<1> QED
  BY <1>1, AckHolds, PTL

\* async_writer.go:136-145, 179-186.  Close returns nil only when everything
\* accepted before the writer was told to stop is in the newest version.
THEOREM CloseMeansDurable == ASSUME Steady, WellTyped PROVE Spec => []CloseDurable
<1>1. AckInv => CloseDurable
  BY SettledDurable DEF AckInv, CloseDurable
<1> QED
  BY <1>1, AckHolds, PTL

-----------------------------------------------------------------------------
(* The AsyncWriter implements IngestLog: a FlushCommit is a Commit of the  *)
(* log, a Write is an Accept, and every other step is a stutter.           *)

\* Every batch has every column of the schema.
EveryColumn == \A b \in Batches : DOMAIN Kind[b] = Columns

\* The column in which Log of AsyncWriter reads the rows of a fragment.
Shown == CHOOSE c \in Columns : TRUE

\* A batch that has every column has that one.
LEMMA ShownInBatches ==
  ASSUME EveryColumn, NEW b \in Batches PROVE Shown \in DOMAIN Kind[b]
BY BatchesAssumption DEF EveryColumn, Shown

\* Whatever has rows has that column: what is accumulated, what flush is
\* writing, and every fragment of the newest version.
ShownInv ==
  /\ currentRows = 0 \/ Shown \in DOMAIN currentBatch
  /\ pc \in {"column", "read", "commit"} => Shown \in DOMAIN currentBatch
  /\ \A i \in DOMAIN Contents : Shown \in DOMAIN Contents[i]

\* In the initial state the newest version, if there is one, is empty.
LEMMA EmptyAtFirst == Init => DOMAIN LatestFragments = {} /\ currentRows = 0 /\ pc = "off"
<1> SUFFICES ASSUME Init PROVE DOMAIN LatestFragments = {} /\ currentRows = 0 /\ pc = "off"
  OBVIOUS
<1>1. \A v \in DOMAIN manifests : manifests[v].frags = <<>>
  BY DEF Init, EmptyManifest, NewManifest
<1>2. DataInv
  BY DataInvInit
<1>3. DOMAIN LatestFragments = {}
  BY <1>1, <1>2, LatestThere DEF DataInv, LatestFragments
<1> QED
  BY <1>3 DEF Init

\* There is nothing yet.
LEMMA ShownInvInit == Init => ShownInv
  BY EmptyAtFirst DEF ShownInv, Contents, ContentsOf

\* flush works on a batch that has rows.
LEMMA ShownOpen ==
  ASSUME ShownInv, [Next]_vars, pc' \in {"column", "read", "commit"}
  PROVE  Shown \in DOMAIN currentBatch
<1>1. FragKinds
  BY AnyStep
<1>2. CASE pc \in {"column", "read", "commit"}
  BY <1>2 DEF ShownInv
<1>3. CASE FlushStart
  BY <1>3 DEF FlushStart, ShownInv
<1>4. CASE FlushLatest \/ FlushRead \/ \E c \in Columns : FlushColumn(c)
  <2>1. pc \in {"column", "read", "commit"}
    BY <1>4 DEF FlushLatest, FlushRead, FlushColumn
  <2> QED
    BY <1>2, <2>1
<1>5. CASE Start
  BY <1>5 DEF Start
<1> QED
  BY <1>1, <1>2, <1>3, <1>4, <1>5 DEF FragKinds

\* accumulate brings the column in, commit appends the group, and flush starts only with rows.
LEMMA ShownInvStep ==
  ASSUME Steady, WellTyped, EveryColumn, BaseInv, FileInv, VersionInv, FragWritten, ShownInv,
         Held(accepted, currentBatch, batchCh), [Next]_vars
  PROVE  ShownInv'
<1>1. IsGroup(currentBatch)
  BY DEF Held
<1>2. /\ DataKinds
      /\ Len(LatestFragments) \in Nat /\ DOMAIN Contents = 1..Len(LatestFragments)
      /\ (Contents' = Contents /\ ~FlushCommit) \/ AppendsGroup
  BY <1>1, NextDataKinds, SteadyKinds
<1>3. /\ currentRows' = 0 \/ Shown \in DOMAIN currentBatch'
      /\ pc' \in {"column", "read", "commit"} => Shown \in DOMAIN currentBatch'
  <2>1. CASE UNCHANGED <<currentBatch, currentRows>>
    <3>1. pc' \in {"column", "read", "commit"} => Shown \in DOMAIN currentBatch
      BY ShownOpen
    <3>2. currentRows = 0 \/ Shown \in DOMAIN currentBatch
      BY DEF ShownInv
    <3> QED
      BY <2>1, <3>1, <3>2
  <2>2. ASSUME batchCh # <<>>, NEW ok, Accumulate(Head(batchCh), ok)
        PROVE  Shown \in DOMAIN currentBatch'
    <3>1. /\ currentBatch' = MergeColumns(currentBatch, Head(batchCh), DOMAIN Kind[Head(batchCh)])
          /\ Head(batchCh) \in Batches
      BY <2>2, MergesWhole
    <3>2. Shown \in DOMAIN Kind[Head(batchCh)]
      BY <3>1, ShownInBatches
    <3>3. DOMAIN currentBatch' = DOMAIN currentBatch \cup DOMAIN Kind[Head(batchCh)]
      BY <3>1 DEF MergeColumns
    <3> QED
      BY <3>2, <3>3
  <2>3. CASE currentRows' = 0 /\ (FlushCommit \/ Start \/ Crash)
    <3>1. pc' \notin {"column", "read", "commit"}
      BY <2>3 DEF FlushCommit, Return, Exit, Start, Crash
    <3> QED
      BY <2>3, <3>1
  <2> QED
    BY <1>2, <2>1, <2>2, <2>3 DEF DataKinds
<1>4. \A i \in DOMAIN Contents' : Shown \in DOMAIN Contents'[i]
  <2>1. CASE Contents' = Contents
    BY <2>1 DEF ShownInv
  <2>2. CASE AppendsGroup
    <3>1. Shown \in DOMAIN currentBatch
      BY <2>2 DEF AppendsGroup, FlushCommit, ShownInv
    <3>2. PICK n : n = Len(LatestFragments)
      OBVIOUS
    <3>3. PICK new : new = Contents'
      OBVIOUS
    <3>4. /\ n \in Nat /\ DOMAIN Contents = 1..n /\ DOMAIN new = 1..(n + 1)
          /\ new[n + 1] = currentBatch /\ \A i \in 1..n : new[i] = Contents[i]
      BY <1>2, <2>2, <3>2, <3>3 DEF AppendsGroup
    <3>5. \A i \in DOMAIN new : i = n + 1 \/ i \in 1..n
      BY <3>4
    <3>6. \A i \in DOMAIN new : Shown \in DOMAIN new[i]
      BY <3>1, <3>4, <3>5 DEF ShownInv
    <3> QED
      BY <3>3, <3>6
  <2> QED
    BY <1>2, <2>1, <2>2
<1> QED
  BY <1>3, <1>4 DEF ShownInv

\* async_writer.go:196-284.  No fragment without rows is ever committed.
THEOREM ShownHolds ==
  ASSUME Steady, WellTyped, EveryColumn PROVE Spec => []ShownInv
<1>1. Benign /\ "ack" \notin Faults
  BY DEF Steady, Benign
<1>2. ASSUME FileInv, VersionInv, LogInv /\ FragWritten, DataInv, AckInv /\ RowsInv /\ BaseInv,
             ShownInv, [Next]_vars
      PROVE  ShownInv'
  BY <1>2, ShownInvStep DEF DataInv
<1> QED
  BY <1>1, <1>2, ShownInvInit, LogHolds, AckHolds, FragmentsFresh, VersionsFresh, DataSound, PTL
  DEF Spec

-----------------------------------------------------------------------------
(* The refinement *)

\* The rows of each fragment, as Log of AsyncWriter shows them.
RowsOf(log) == [i \in DOMAIN log |-> log[i][Shown]]

\* Its value for any files and fragments.
LEMMA RowsOfContents ==
  ASSUME NEW fs, NEW frags, \A i \in DOMAIN frags : Shown \in frags[i].cols
  PROVE  RowsOf(ContentsOf(fs, frags)) = [i \in DOMAIN frags |-> fs[<<frags[i].id, Shown>>]]
<1>1. \A i \in DOMAIN frags : ContentsOf(fs, frags)[i][Shown] = fs[<<frags[i].id, Shown>>]
  BY DEF ContentsOf
<1> QED
  BY <1>1 DEF ContentsOf, RowsOf

\* Log of AsyncWriter, in terms of what the fragments hold.
LEMMA LogIs == ASSUME ShownInv PROVE Log = RowsOf(Contents)
<1>1. \A i \in DOMAIN LatestFragments : Shown \in LatestFragments[i].cols
  BY DEF ShownInv, Contents, ContentsOf
<1>2. RowsOf(Contents) = [i \in DOMAIN LatestFragments |-> files[<<LatestFragments[i].id, Shown>>]]
  BY <1>1, RowsOfContents DEF Contents
<1> QED
  BY <1>2 DEF Log, Column, Shown

\* The same, after a step.
LEMMA LogNext == ASSUME ShownInv' PROVE Log' = RowsOf(Contents')
<1>1. \A i \in DOMAIN LatestFragments' : Shown \in LatestFragments'[i].cols
  BY DEF ShownInv, Contents, ContentsOf
<1>2. RowsOf(Contents') =
        [i \in DOMAIN LatestFragments' |-> files'[<<LatestFragments'[i].id, Shown>>]]
  BY <1>1, RowsOfContents DEF Contents
<1> QED
  BY <1>2 DEF Log, Column, Shown

\* new is the log of n groups with g appended.
AppendedTo(log, n, g, new) ==
  /\ n \in Nat /\ DOMAIN log = 1..n /\ DOMAIN new = 1..(n + 1)
  /\ new[n + 1] = g /\ \A i \in 1..n : new[i] = log[i]
  /\ g[Shown] \in Seq(Batches) /\ \A i \in 1..n : log[i][Shown] \in Seq(Batches)

\* A function on 1..m is a sequence of length m.
LEMMA RowsSeq ==
  ASSUME NEW T, NEW m \in Nat, NEW f, f = [i \in 1..m |-> f[i]], \A i \in 1..m : f[i] \in T
  PROVE  f \in Seq(T) /\ Len(f) = m
<1>1. f \in [1..m -> T]
  OBVIOUS
<1> QED
  BY <1>1

\* Its rows are those of the log, with those of g appended.
LEMMA RowsAppend ==
  ASSUME NEW log, NEW n, NEW g, NEW new, AppendedTo(log, n, g, new)
  PROVE  /\ RowsOf(new) = Append(RowsOf(log), g[Shown])
         /\ RowsOf(new) # <<>> /\ Last(RowsOf(new)) = g[Shown]
<1> USE DEF AppendedTo
<1>1. RowsOf(log) \in Seq(Seq(Batches)) /\ Len(RowsOf(log)) = n
  BY DEF RowsOf
<1>2. PICK rows, rows2, col : rows = RowsOf(log) /\ rows2 = RowsOf(new) /\ col = g[Shown]
  OBVIOUS
<1>3. rows \in Seq(Seq(Batches)) /\ col \in Seq(Batches) /\ Len(rows) = n
  BY <1>1, <1>2
<1>4. /\ Append(rows, col) \in Seq(Seq(Batches)) /\ Len(Append(rows, col)) = n + 1
      /\ \A i \in 1..n : Append(rows, col)[i] = rows[i]
      /\ Append(rows, col)[n + 1] = col
  BY <1>3
<1>5. \A i \in 1..(n + 1) : i = n + 1 \/ i \in 1..n
  OBVIOUS
<1>6. \A i \in 1..(n + 1) : rows2[i] = Append(rows, col)[i] /\ rows2[i] \in Seq(Batches)
  BY <1>2, <1>4, <1>5 DEF RowsOf
<1>7. rows2 = [i \in 1..(n + 1) |-> rows2[i]]
  BY <1>2 DEF RowsOf
<1>8. rows2 \in Seq(Seq(Batches)) /\ Len(rows2) = n + 1
  <2>1. PICK T, m : T = Seq(Batches) /\ m = n + 1
    OBVIOUS
  <2>2. m \in Nat /\ rows2 = [i \in 1..m |-> rows2[i]] /\ \A i \in 1..m : rows2[i] \in T
    BY <1>6, <1>7, <2>1
  <2>3. rows2 \in Seq(T) /\ Len(rows2) = m
    BY <2>2, RowsSeq
  <2> QED
    BY <2>1, <2>3
<1>9. rows2 = Append(rows, col)
  BY <1>4, <1>6, <1>8, SeqEqual
<1>10. rows2 # <<>> /\ Last(rows2) = col
  BY <1>4, <1>8, <1>9 DEF Last
<1> QED
  BY <1>2, <1>9, <1>10

\* A FlushCommit is a Commit.
LEMMA CommitRefines ==
  ASSUME ShownInv, ShownInv', LogInv, Held(accepted, currentBatch, batchCh),
         Len(LatestFragments) \in Nat, DOMAIN Contents = 1..Len(LatestFragments),
         AppendsGroup
  PROVE  Ingest!Commit
<1>1. /\ Shown \in DOMAIN currentBatch /\ UNCHANGED accepted
      /\ \A i \in DOMAIN Contents : Shown \in DOMAIN Contents[i]
  BY DEF AppendsGroup, FlushCommit, Return, hist, ShownInv
<1>2. PICK n, new, g, log :
        n = Len(LatestFragments) /\ new = Contents' /\ g = currentBatch /\ log = Contents
  OBVIOUS
<1>3. /\ n \in Nat /\ DOMAIN log = 1..n /\ DOMAIN new = 1..(n + 1) /\ new[n + 1] = g
      /\ \A i \in 1..n : new[i] = log[i]
  BY <1>2 DEF AppendsGroup
<1>4. /\ g[Shown] \in Seq(Batches) /\ g[Shown] # <<>> /\ Ordered(accepted, g[Shown])
  BY <1>1, <1>2 DEF Held, IsGroup
<1>5. \A i \in DOMAIN log :
        /\ log[i][Shown] \in Seq(Batches)
        /\ \A a \in ToSet(log[i][Shown]), b \in ToSet(g[Shown]) : Before(accepted, a, b)
  BY <1>1, <1>2 DEF LogInv, LogOK, IsGroup, GroupsInOrder, GroupBefore
<1>6. /\ RowsOf(new) = Append(RowsOf(log), g[Shown])
      /\ RowsOf(new) # <<>> /\ Last(RowsOf(new)) = g[Shown]
  <2>1. AppendedTo(log, n, g, new)
    BY <1>3, <1>4, <1>5 DEF AppendedTo
  <2> QED
    BY <2>1, RowsAppend
<1>7. Log = RowsOf(log) /\ Log' = RowsOf(new)
  <2>1. Log = RowsOf(Contents) /\ Log' = RowsOf(Contents')
    BY LogIs, LogNext
  <2> QED
    BY <1>2, <2>1
<1>8. Log' # <<>> /\ Last(Log') = g[Shown] /\ Log' = Append(Log, Last(Log'))
  BY <1>6, <1>7
<1>9. \A i \in DOMAIN Log : \A a \in ToSet(Log[i]), b \in ToSet(g[Shown]) : Ingest!Earlier(a, b)
  BY <1>5, <1>7 DEF RowsOf, Ingest!Earlier, Before
<1>10. Ingest!Group(g[Shown])
  BY <1>4 DEF Ingest!Group, Ingest!Earlier, Ingest!ToSet, ToSet, Ordered, Before
<1> QED
  BY <1>1, <1>8, <1>9, <1>10 DEF Ingest!Commit, Ingest!Last, Last, Ingest!ToSet, ToSet

\* Every step of the writer is one of the log, or none.
LEMMA StepRefines ==
  ASSUME Steady, WellTyped, BaseInv, FileInv, VersionInv, FragWritten, LogInv,
         Held(accepted, currentBatch, batchCh), ShownInv, ShownInv', [Next]_vars
  PROVE  [Ingest!Next]_<<accepted, Log>>
<1>1. IsGroup(currentBatch)
  BY DEF Held
<1>2. /\ DataKinds
      /\ Len(LatestFragments) \in Nat /\ DOMAIN Contents = 1..Len(LatestFragments)
      /\ (Contents' = Contents /\ ~FlushCommit) \/ AppendsGroup
  BY <1>1, NextDataKinds, SteadyKinds
<1>3. CASE AppendsGroup
  BY <1>2, <1>3, CommitRefines DEF Ingest!Next
<1>4. CASE Contents' = Contents
  <2>1. UNCHANGED Log
    <3>1. Log = RowsOf(Contents) /\ Log' = RowsOf(Contents')
      BY LogIs, LogNext
    <3> QED
      BY <1>4, <3>1
  <2>2. ASSUME NEW b \in Batches, b \notin ToSet(accepted), accepted' = Append(accepted, b)
        PROVE  Ingest!Accept(b)
    BY <2>1, <2>2 DEF Ingest!Accept, Ingest!ToSet, ToSet
  <2>3. \/ UNCHANGED accepted
        \/ \E b \in Batches : b \notin ToSet(accepted) /\ accepted' = Append(accepted, b)
    BY <1>2 DEF DataKinds
  <2> QED
    BY <2>1, <2>2, <2>3 DEF Ingest!Next
<1> QED
  BY <1>2, <1>3, <1>4

\* async_writer.go:212-284.  The rows of the newest version are a log to which
\* each successful flush appends one group of accepted batches, in the order in
\* which Write accepted them, and which nothing else changes.
THEOREM Refines ==
  ASSUME Steady, WellTyped, EveryColumn PROVE Spec => ImplementsIngest
<1>1. Init => Ingest!Init
  <2> SUFFICES ASSUME Init PROVE Ingest!Init
    OBVIOUS
  <2>1. Log = <<>>
    BY EmptyAtFirst DEF Log
  <2>2. accepted = <<>>
    BY DEF Init
  <2> QED
    BY <2>1, <2>2 DEF Ingest!Init
<1>2. ASSUME FileInv, VersionInv, LogInv /\ FragWritten, DataInv, AckInv /\ RowsInv /\ BaseInv,
             ShownInv, ShownInv', [Next]_vars
      PROVE  [Ingest!Next]_<<accepted, Log>>
  BY <1>2, StepRefines DEF DataInv
<1>3. Benign /\ "ack" \notin Faults
  BY DEF Steady, Benign
<1> QED
  BY <1>1, <1>2, <1>3, ShownHolds, LogHolds, AckHolds, FragmentsFresh, VersionsFresh, DataSound,
     PTL DEF Spec, ImplementsIngest, Ingest!Spec
=============================================================================
