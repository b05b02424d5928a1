------------------------ MODULE ManifestStoreProofs ------------------------
(***************************************************************************)
(* Through one ManifestStore object, Commit is a compare-and-swap: for any *)
(* number of processes, any requests and any failures, no version is       *)
(* replaced twice and the pointer file only ever names whole manifests.    *)
(*                                                                         *)
(* The inductive invariant says what a process in Commit may rely on: it   *)
(* holds the mutex, so that between its read and its writes the pointer    *)
(* file is the same, and the version it writes lies beyond every published *)
(* one.  A second one says what a reader may rely on: the size it was told *)
(* is that of a version no older than its call, or of an empty file.  That *)
(* success is told truthfully needs neither.                               *)
(***************************************************************************)
EXTENDS ManifestStore, TLAPS

\* Every goroutine uses the same object.
OneHandle == \A p, q \in Processes : Handle[p] = Handle[q]

InCommit(p) ==
  pc[p] \in Committing \/ (pc[p] \in {"size", "read"} /\ req[p] # Reading)

Typed ==
  /\ latest \in Nat \cup {Absent, Torn} /\ current \in Nat
  /\ holder \in [Handles -> Processes \cup {NoProcess}]
  /\ pc \in [Processes -> Committing \cup {"idle", "lock", "size", "read"}]
  /\ req \in [Processes -> Requests \cup {Reading}]
  /\ size = [p \in Processes |-> size[p]]
  /\ published \subseteq [prev : Nat, version : Nat, by : Processes]

\* A process in Commit holds its mutex, and knows the pointer file.
Guarded ==
  \A p \in Processes :
    /\ pc[p] = "lock" => req[p] # Reading
    /\ InCommit(p) => holder[Handle[p]] = p
    /\ pc[p] = "read" /\ req[p] # Reading =>
         latest # Absent /\ size[p] = Bytes
    /\ pc[p] \in Committing => req[p] # Reading /\ current = req[p].prev

\* The pointer file says what was last published, unless it was truncated.
PointerInv == (latest = Absent => current = 0) /\ (latest \in Nat => latest = current)

\* The published commits form a chain that ends at current.
Chain ==
  /\ \A a \in published : a.prev < a.version /\ a.version <= current
  /\ \A a, b \in published : a = b \/ a.version <= b.prev \/ b.version <= a.prev

\* The file of v is whole and p's.
Whole(v, p) ==
  v \in DOMAIN manifests /\ manifests[v].by = p /\ manifests[v].whole = TRUE

\* The current version has its manifest, and so has one about to be published.
WholeInv ==
  /\ current > 0 => \E a \in published : a.version = current /\ Whole(current, a.by)
  /\ \A p \in Processes :
       pc[p] \in {"pointer", "pointer_fill"} => Whole(req[p].version, p)

CommitInv == Typed /\ Guarded /\ PointerInv /\ Chain /\ WholeInv

-----------------------------------------------------------------------------

\* Initially nothing is published and nobody is in Commit.
LEMMA CommitInit == Init => CommitInv
BY DEF Init, CommitInv, Typed, Guarded, PointerInv, Chain, WholeInv, InCommit,
       Committing, Absent, Torn, Reading

\* Two processes are never in Commit together.
LEMMA Exclusive ==
  ASSUME OneHandle, Guarded, NEW p \in Processes, NEW q \in Processes,
         InCommit(p), InCommit(q)
  PROVE  p = q
BY DEF OneHandle, Guarded

\* A request's version lies beyond the one it replaces.
LEMMA Later ==
  ASSUME Typed, NEW p \in Processes, req[p] # Reading
  PROVE  /\ req[p] \in Requests
         /\ req[p].prev \in Nat /\ req[p].version \in Nat
         /\ req[p].prev < req[p].version
BY RequestsAssumption DEF Typed

\* Returning takes a process out of Commit and disturbs nobody else.
LEMMA ReturnSafe ==
  ASSUME OneHandle, Typed, Guarded, WholeInv, PointerInv, Chain,
         NEW p \in Processes, NEW outcome, Return(p, outcome),
         UNCHANGED <<store, req, current, published>>
  PROVE  CommitInv'
<1>1. /\ pc'[p] = "idle" /\ \A q \in Processes : q # p => pc'[q] = pc[q] /\ size'[q] = size[q]
  BY DEF Return, Typed
<1>2. Typed'
  BY ProcessesAssumption DEF Return, Typed, store
<1>3. \A q \in Processes : q # p /\ InCommit(q) => holder'[Handle[q]] = q
  BY ProcessesAssumption DEF Return, Typed, Guarded
<1>4. Guarded'
  BY <1>1, <1>3 DEF Guarded, InCommit, Committing, store, Bytes
<1>5. PointerInv' /\ Chain' /\ WholeInv'
  BY <1>1 DEF PointerInv, Chain, WholeInv, Whole, store
<1> QED BY <1>2, <1>4, <1>5 DEF CommitInv

\* ReadLatest's answer sends a process back, or on to the writes.
LEMMA GotLatestSafe ==
  ASSUME OneHandle, CommitInv, NEW p \in Processes, NEW v,
         pc[p] \in {"size", "read"}, GotLatest(p, v),
         req[p] # Reading => v = current,
         UNCHANGED <<store, req, faults, hist>>
  PROVE  CommitInv'
<1>1. CASE UNCHANGED <<holder, result, size, value>> /\ req[p] # Reading
           /\ Compare(p, v) /\ pc' = [pc EXCEPT ![p] = "manifest"]
  <2>1. Typed'
    BY <1>1 DEF CommitInv, Typed, store, hist, Committing
  <2>2. Guarded'
    BY <1>1 DEF CommitInv, Typed, Guarded, InCommit, Committing, Compare, store, hist, Bytes
  <2>3. PointerInv' /\ Chain' /\ WholeInv'
    BY <1>1 DEF CommitInv, Typed, PointerInv, Chain, WholeInv, Whole, store, hist
  <2> QED BY <2>1, <2>2, <2>3 DEF CommitInv
<1>2. CASE \E outcome \in {"read", "conflict"} : Return(p, outcome)
  BY <1>2, ReturnSafe DEF CommitInv, hist
<1> QED BY <1>1, <1>2 DEF GotLatest

\* Writing the manifest of an unpublished version harms no published one.
LEMMA PutSafe ==
  ASSUME OneHandle, CommitInv, NEW p \in Processes, NEW whole \in BOOLEAN,
         pc[p] \in {"manifest", "manifest_fill"}, PutManifest(p, whole),
         UNCHANGED <<req, latest, current, published>>
  PROVE  /\ current > 0 =>
              \E a \in published : a.version = current /\ Whole(current, a.by)'
         /\ \A q \in Processes : pc[q] \notin {"pointer", "pointer_fill"}
         /\ whole => Whole(req[p].version, p)'
<1>1. current = req[p].prev /\ req[p] # Reading
  BY DEF CommitInv, Guarded, Committing
<1>2. current < req[p].version
  BY <1>1, Later DEF CommitInv
<1>3. \A q \in Processes : pc[q] \notin {"pointer", "pointer_fill"}
  BY Exclusive DEF CommitInv, InCommit, Committing
<1>4. current > 0 =>
        \E a \in published : a.version = current /\ Whole(current, a.by)'
  <2>1. SUFFICES ASSUME current > 0
                 PROVE  \E a \in published : a.version = current /\ Whole(current, a.by)'
    OBVIOUS
  <2>2. PICK a \in published : a.version = current /\ Whole(current, a.by)
    BY <2>1 DEF CommitInv, WholeInv
  <2>3. current # req[p].version
    BY <1>2 DEF CommitInv, Typed
  <2>4. Whole(current, a.by)'
    BY <2>2, <2>3 DEF Whole, PutManifest
  <2> QED BY <2>2, <2>4
<1>5. whole => Whole(req[p].version, p)'
  BY DEF Whole, PutManifest
<1> QED BY <1>3, <1>4, <1>5

\* Publishing appends to the chain.
LEMMA PublishSafe ==
  ASSUME OneHandle, CommitInv, NEW p \in Processes, NEW outcome,
         pc[p] = "pointer_fill", Publish(p), Return(p, outcome),
         UNCHANGED <<manifests, req>>
  PROVE  CommitInv'
<1> DEFINE mine == [prev |-> req[p].prev, version |-> req[p].version, by |-> p]
<1>1. current = req[p].prev /\ req[p] # Reading /\ Whole(req[p].version, p)
  BY DEF CommitInv, Guarded, WholeInv, Committing
<1>2. /\ req[p].prev \in Nat /\ req[p].version \in Nat /\ req[p].prev < req[p].version
  BY <1>1, Later DEF CommitInv
<1>3. /\ latest' = req[p].version /\ current' = req[p].version
      /\ published' = published \cup {mine}
  BY DEF Publish
<1>4. Typed'
  <2>1. mine \in [prev : Nat, version : Nat, by : Processes]
    BY <1>2
  <2>2. holder' \in [Handles -> Processes \cup {NoProcess}]
    BY ProcessesAssumption DEF CommitInv, Typed, Return
  <2> QED BY <1>2, <1>3, <2>1, <2>2 DEF CommitInv, Typed, Return
<1>5. \A q \in Processes : q # p => ~InCommit(q)
  BY Exclusive DEF CommitInv, InCommit, Committing
<1>6. Guarded'
  BY <1>5 DEF CommitInv, Typed, Guarded, InCommit, Committing, Return
<1>7. PointerInv'
  BY <1>2, <1>3 DEF PointerInv, Absent
<1>8. Chain'
  <2>1. \A a \in published :
          /\ a.prev \in Nat /\ a.version \in Nat
          /\ a.prev < a.version /\ a.version <= mine.prev
    BY <1>1 DEF CommitInv, Typed, Chain
  <2>2. \A a \in published' : a.prev < a.version /\ a.version <= current'
    BY <1>2, <1>3, <2>1
  <2>3. \A a, b \in published' : a = b \/ a.version <= b.prev \/ b.version <= a.prev
    BY <1>3, <2>1 DEF CommitInv, Chain
  <2> QED BY <2>2, <2>3 DEF Chain
<1>9. WholeInv'
  <2>1. PICK v : v = current'
    OBVIOUS
  <2>3. Whole(v, p)'
    BY <1>1, <1>3, <2>1 DEF Whole
  <2>4. mine \in published' /\ mine.version = v /\ mine.by = p
    BY <1>3, <2>1
  <2>2. \A q \in Processes : pc'[q] \notin {"pointer", "pointer_fill"}
    BY <1>5 DEF CommitInv, Typed, Return, InCommit, Committing
  <2> QED BY <2>1, <2>2, <2>3, <2>4 DEF WholeInv, Whole
<1> QED BY <1>4, <1>6, <1>7, <1>8, <1>9 DEF CommitInv

\* Every step keeps the invariant.
LEMMA CommitStep == OneHandle /\ CommitInv /\ [Next]_vars => CommitInv'
<1> SUFFICES ASSUME OneHandle, CommitInv, [Next]_vars PROVE CommitInv'
  OBVIOUS
<1> USE DEF CommitInv
<1>1. ASSUME NEW p \in Processes, NEW r \in Requests, CommitCall(p, r)
      PROVE  CommitInv'
  <2>0. r # Reading
    BY RequestsAssumption DEF Reading
  <2>1. Typed' /\ Guarded'
    BY <1>1, <2>0 DEF CommitCall, Typed, Guarded, InCommit, Committing, store, Bytes
  <2>2. PointerInv' /\ Chain' /\ WholeInv'
    BY <1>1 DEF CommitCall, Typed, PointerInv, Chain, WholeInv, Whole, store
  <2> QED BY <2>1, <2>2
<1>2. ASSUME NEW p \in Processes, ReadCall(p) PROVE CommitInv'
  <2>1. Typed' /\ Guarded'
    BY <1>2 DEF ReadCall, Typed, Guarded, InCommit, Committing, store, Bytes
  <2>2. PointerInv' /\ Chain' /\ WholeInv'
    BY <1>2 DEF ReadCall, Typed, PointerInv, Chain, WholeInv, Whole, store
  <2> QED BY <2>1, <2>2
<1>3. ASSUME NEW p \in Processes, Lock(p) PROVE CommitInv'
  <2>1. \A q \in Processes : ~InCommit(q)
    BY <1>3, ProcessesAssumption DEF Lock, OneHandle, Guarded
  <2>2. Typed' /\ Guarded'
    BY <1>3, <2>1, ProcessesAssumption
       DEF Lock, Typed, Guarded, InCommit, Committing, store, hist, Bytes
  <2>3. PointerInv' /\ Chain' /\ WholeInv'
    BY <1>3 DEF Lock, Typed, PointerInv, Chain, WholeInv, Whole, store, hist
  <2> QED BY <2>2, <2>3
<1>4. ASSUME NEW p \in Processes, ReadSize(p) PROVE CommitInv'
  <2>1. CASE latest = Absent /\ GotLatest(p, 0)
    BY <1>4, <2>1, GotLatestSafe DEF ReadSize, PointerInv
  <2>2. CASE /\ latest # Absent /\ size' = [size EXCEPT ![p] = Bytes]
             /\ pc' = [pc EXCEPT ![p] = "read"] /\ UNCHANGED holder
    <3>1. Typed' /\ Guarded'
      BY <1>4, <2>2 DEF ReadSize, Typed, Guarded, InCommit, Committing, store, hist, Bytes
    <3>2. PointerInv' /\ Chain' /\ WholeInv'
      BY <1>4, <2>2 DEF ReadSize, Typed, PointerInv, Chain, WholeInv, Whole, store, hist
    <3> QED BY <3>1, <3>2
  <2> QED BY <1>4, <2>1, <2>2 DEF ReadSize
<1>5. ASSUME NEW p \in Processes, ReadContent(p) PROVE CommitInv'
  <2>1. CASE Parses(size[p]) /\ GotLatest(p, ParseLatest(size[p]))
    <3>1. req[p] # Reading => ParseLatest(size[p]) = current
      BY <1>5, <2>1
         DEF ReadContent, Parses, ParseLatest, Bytes, Leading, Guarded, PointerInv, Typed
    <3> QED BY <1>5, <2>1, <3>1, GotLatestSafe DEF ReadContent
  <2>2. CASE Return(p, "err")
    BY <1>5, <2>2, ReturnSafe DEF ReadContent, hist
  <2> QED BY <1>5, <2>1, <2>2 DEF ReadContent
<1>6. ASSUME NEW p \in Processes, WriteManifest(p) \/ FillManifest(p)
      PROVE  CommitInv'
  <2>1. /\ current > 0 =>
             \E a \in published : a.version = current /\ Whole(current, a.by)'
        /\ \A q \in Processes : pc[q] \notin {"pointer", "pointer_fill"}
        /\ FillManifest(p) => Whole(req[p].version, p)'
    BY <1>6, PutSafe DEF WriteManifest, FillManifest, hist
  <2>2. Typed' /\ Guarded'
    <3>1. CASE WriteManifest(p)
      BY <3>1 DEF WriteManifest, Typed, Guarded, InCommit, Committing, hist, Bytes
    <3>2. CASE FillManifest(p)
      BY <3>2 DEF FillManifest, Typed, Guarded, InCommit, Committing, hist, Bytes
    <3> QED BY <1>6, <3>1, <3>2
  <2>3. PointerInv' /\ Chain'
    BY <1>6 DEF WriteManifest, FillManifest, PointerInv, Chain, hist
  <2>4. WholeInv'
    BY <1>6, <2>1 DEF WriteManifest, FillManifest, WholeInv, Typed, hist
  <2> QED BY <2>2, <2>3, <2>4
<1>7. ASSUME NEW p \in Processes, WritePointer(p) PROVE CommitInv'
  <2>1. \A q \in Processes : q # p => ~InCommit(q)
    BY <1>7, Exclusive DEF WritePointer, InCommit, Committing
  <2>2. Typed' /\ Guarded'
    BY <1>7, <2>1 DEF WritePointer, Typed, Guarded, InCommit, Committing, hist, Bytes
  <2>3. PointerInv' /\ Chain' /\ WholeInv'
    BY <1>7 DEF WritePointer, Typed, PointerInv, Chain, WholeInv, Whole, hist, Absent, Torn
  <2> QED BY <2>2, <2>3
<1>8. ASSUME NEW p \in Processes, FillPointer(p) PROVE CommitInv'
  BY <1>8, PublishSafe DEF FillPointer
<1>9. ASSUME NEW p \in Processes, Fail(p) PROVE CommitInv'
  <2>1. CASE UNCHANGED <<store, current, published>>
    BY <1>9, <2>1, ReturnSafe DEF Fail
  <2>2. CASE pc[p] = "pointer_fill" /\ Publish(p) /\ UNCHANGED manifests
    BY <1>9, <2>2, PublishSafe DEF Fail
  <2>3. CASE pc[p] = "manifest_fill" /\ PutManifest(p, TRUE)
             /\ UNCHANGED <<latest, current, published>>
    <3>1. /\ current > 0 =>
               \E a \in published : a.version = current /\ Whole(current, a.by)'
          /\ \A q \in Processes : pc[q] \notin {"pointer", "pointer_fill"}
      BY <1>9, <2>3, PutSafe DEF Fail
    <3>2. Typed'
      BY <1>9, <2>3, ProcessesAssumption DEF Fail, Return, Typed
    <3>3. \A q \in Processes : q # p => ~InCommit(q)
      BY <2>3, Exclusive DEF InCommit, Committing
    <3>4. Guarded'
      BY <1>9, <2>3, <3>3 DEF Fail, Return, Typed, Guarded, InCommit, Committing
    <3>5. PointerInv' /\ Chain' /\ WholeInv'
      BY <1>9, <2>3, <3>1 DEF Fail, Return, Typed, PointerInv, Chain, WholeInv
    <3> QED BY <3>2, <3>4, <3>5
  <2> QED BY <1>9, <2>1, <2>2, <2>3 DEF Fail
<1>10. ASSUME NEW v \in DOMAIN manifests, DeleteVersion(v) PROVE CommitInv'
  <2>1. Typed' /\ Guarded' /\ PointerInv' /\ Chain'
    BY <1>10 DEF DeleteVersion, Typed, Guarded, InCommit, PointerInv, Chain,
                 local, hist, Bytes
  <2>2. \A p \in Processes :
          pc[p] \in {"pointer", "pointer_fill"} => current < req[p].version
    BY Later DEF Guarded, Committing
  <2>3. ASSUME NEW w, NEW p, w # v, Whole(w, p) PROVE Whole(w, p)'
    BY <1>10, <2>3 DEF DeleteVersion, Whole
  <2>4. current' > 0 =>
          \E a \in published' : a.version = current' /\ Whole(current, a.by)'
    <3>1. v # current /\ current' = current /\ published' = published
      BY <1>10 DEF DeleteVersion, Typed, hist
    <3> QED BY <2>3, <3>1 DEF WholeInv, Whole
  <2>5. ASSUME NEW p \in Processes, pc'[p] \in {"pointer", "pointer_fill"}
        PROVE  Whole(req[p].version, p)'
    <3>1. req'[p].version # v /\ req' = req /\ pc' = pc
      BY <1>10, <2>2, <2>5, Later DEF DeleteVersion, Typed, Guarded, Committing, local, hist
    <3> QED BY <2>3, <2>5, <3>1 DEF WholeInv, Whole
  <2>6. WholeInv'
    BY <2>4, <2>5 DEF WholeInv
  <2> QED BY <2>1, <2>6
<1>11. ASSUME NEW h \in Handles, Crash(h) PROVE CommitInv'
  <2>1. \A p \in Processes : Handle[p] = h /\ pc'[p] = "idle"
    BY <1>11 DEF Crash, OneHandle
  <2>2. Typed' /\ Guarded'
    BY <1>11, <2>1 DEF Crash, Typed, Guarded, InCommit, Committing, store, hist
  <2>3. PointerInv' /\ Chain' /\ WholeInv'
    BY <1>11, <2>1 DEF Crash, PointerInv, Chain, WholeInv, Whole, store, hist
  <2> QED BY <2>2, <2>3
<1>12. CASE UNCHANGED vars
  BY <1>12 DEF vars, store, local, hist, Typed, Guarded, InCommit, PointerInv, Chain,
               WholeInv, Whole, Bytes
<1> QED
  BY <1>1, <1>2, <1>3, <1>4, <1>5, <1>6, <1>7, <1>8, <1>9, <1>10, <1>11, <1>12
     DEF Next, Step

-----------------------------------------------------------------------------

\* manifest_store.go:153-177.  Through one ManifestStore the invariant holds.
THEOREM CommitInvariant == ASSUME OneHandle PROVE Spec => []CommitInv
<1>1. CommitInv /\ [Next]_vars => CommitInv'
  BY CommitStep
<1> QED BY CommitInit, <1>1, PTL DEF Spec

\* manifest_store.go:162-165.  No two commits replace the same version,
\* whatever the requests, the interleaving and the failures.
THEOREM NoUpdateLost == ASSUME OneHandle PROVE Spec => []NoLostUpdate
<1>1. CommitInv => NoLostUpdate
  BY DEF CommitInv, Typed, Chain, NoLostUpdate
<1> QED BY CommitInvariant, <1>1, PTL

\* manifest_store.go:168-173.  The pointer file only ever names a version whose
\* manifest is whole and belongs to the commit that published it.
THEOREM PointerNamesWhole == ASSUME OneHandle PROVE Spec => []PointerWhole
<1>1. CommitInv => PointerWhole
  <2>1. SUFFICES ASSUME CommitInv, latest > 0 PROVE PointerWhole
    BY DEF PointerWhole
  <2>2. latest = current
    BY <2>1 DEF CommitInv, Typed, PointerInv, Absent, Torn
  <2> QED BY <2>1, <2>2 DEF CommitInv, WholeInv, Whole, PointerWhole
<1> QED BY CommitInvariant, <1>1, PTL

-----------------------------------------------------------------------------
(* The register *)

PublishedVersions == {a.version : a \in published}

\* What the register remembers follows from the files of published versions.
LEMMA OwnerSame ==
  ASSUME PublishedVersions' = PublishedVersions,
         \A v \in PublishedVersions :
           /\ v \in DOMAIN manifests' <=> v \in DOMAIN manifests
           /\ v \in DOMAIN manifests => manifests'[v].by = manifests[v].by
  PROVE  Owner' = Owner
BY DEF Owner, PublishedVersions

\* A manifest that is written is of no published version.
LEMMA PutKeepsOwner ==
  ASSUME OneHandle, CommitInv, NEW p \in Processes, NEW whole \in BOOLEAN,
         pc[p] \in {"manifest", "manifest_fill"}, PutManifest(p, whole),
         UNCHANGED <<current, published>>
  PROVE  UNCHANGED <<current, Owner>>
<1>1. current < req[p].version
  BY Later DEF CommitInv, Guarded, Committing
<1>2. \A v \in PublishedVersions : v # req[p].version
  BY <1>1 DEF CommitInv, Typed, Chain, PublishedVersions
<1>3. Owner' = Owner
  <2>1. \A v \in PublishedVersions :
          /\ v \in DOMAIN manifests' <=> v \in DOMAIN manifests
          /\ v \in DOMAIN manifests => manifests'[v].by = manifests[v].by
    BY <1>2 DEF PutManifest
  <2>2. PublishedVersions' = PublishedVersions
    BY DEF PublishedVersions
  <2> QED BY <2>1, <2>2, OwnerSame
<1> QED BY <1>3

\* Publishing swaps the register.
LEMMA PublishSwaps ==
  ASSUME CommitInv, NEW p \in Processes, pc[p] = "pointer_fill", Publish(p),
         UNCHANGED manifests
  PROVE  Register!Swap(p)
<1>1. /\ current = req[p].prev /\ req[p] # Reading
      /\ req[p].version \in DOMAIN manifests /\ manifests[req[p].version].by = p
  BY DEF CommitInv, Guarded, WholeInv, Whole, Committing
<1>2. current' = req[p].version /\ current' > current
  BY <1>1, Later DEF CommitInv, Typed, Publish
<1>3. PublishedVersions' = PublishedVersions \cup {current'}
  <2> DEFINE mine == [prev |-> req[p].prev, version |-> req[p].version, by |-> p]
  <2>1. published' = published \cup {mine} /\ mine.version = current'
    BY DEF Publish
  <2>2. \A v : v \in PublishedVersions' <=> v \in PublishedVersions \/ v = current'
    <3> HIDE DEF mine
    <3> QED BY <2>1 DEF PublishedVersions
  <2> QED BY <2>2
<1>4. Owner' = [v \in PublishedVersions' \cap DOMAIN manifests |-> manifests[v].by]
  BY DEF Owner, PublishedVersions
<1>5. Owner = [v \in PublishedVersions \cap DOMAIN manifests |-> manifests[v].by]
  BY DEF Owner, PublishedVersions
<1>6. Owner' = [v \in DOMAIN Owner \cup {current'} |->
                  IF v = current' THEN p ELSE Owner[v]]
  BY <1>1, <1>2, <1>3, <1>4, <1>5
<1> QED BY <1>2, <1>6 DEF Register!Swap

\* Deleting a file forgets the owner of its version, if it had one.
LEMMA DeleteExpires ==
  ASSUME NEW v \in DOMAIN manifests, DeleteVersion(v)
  PROVE  \/ UNCHANGED <<current, Owner>>
         \/ v \in DOMAIN Owner /\ Register!Expire(v)
<1>1. /\ v < current /\ current' = current /\ PublishedVersions' = PublishedVersions
      /\ manifests' = [w \in DOMAIN manifests \ {v} |-> manifests[w]]
  BY DEF DeleteVersion, hist, PublishedVersions
<1>2. CASE v \notin PublishedVersions
  BY <1>1, <1>2, OwnerSame
<1>3. CASE v \in PublishedVersions
  <2>1. Owner = [w \in PublishedVersions \cap DOMAIN manifests |-> manifests[w].by]
    BY DEF Owner, PublishedVersions
  <2>2. Owner' = [w \in PublishedVersions' \cap DOMAIN manifests' |-> manifests'[w].by]
    BY DEF Owner, PublishedVersions
  <2>3. Owner' = [w \in DOMAIN Owner \ {v} |-> Owner[w]]
    BY <1>1, <2>1, <2>2
  <2> QED BY <1>1, <1>3, <2>1, <2>3 DEF Register!Expire
<1> QED BY <1>2, <1>3

\* Every step moves the register, or leaves it as it is.
LEMMA RegisterStep ==
  OneHandle /\ CommitInv /\ [Next]_vars => [Register!Next]_<<current, Owner>>
<1> SUFFICES ASSUME OneHandle, CommitInv, [Next]_vars
             PROVE  [Register!Next]_<<current, Owner>>
  OBVIOUS
<1>1. CASE UNCHANGED <<manifests, current, published>>
  BY <1>1, OwnerSame DEF PublishedVersions
<1>2. ASSUME NEW p \in Processes, Publish(p), UNCHANGED manifests, pc[p] = "pointer_fill"
      PROVE  Register!Next
  BY <1>2, PublishSwaps DEF Register!Next
<1>3. ASSUME NEW v \in DOMAIN manifests, DeleteVersion(v)
      PROVE  [Register!Next]_<<current, Owner>>
  BY <1>3, DeleteExpires DEF Register!Next
<1>4. ASSUME NEW p \in Processes, WriteManifest(p) \/ FillManifest(p)
      PROVE  UNCHANGED <<current, Owner>>
  BY <1>4, PutKeepsOwner DEF WriteManifest, FillManifest, hist
<1>5. ASSUME NEW p \in Processes, FillPointer(p) PROVE Register!Next
  BY <1>2, <1>5 DEF FillPointer
<1>6. ASSUME NEW p \in Processes, Fail(p)
      PROVE  [Register!Next]_<<current, Owner>>
  <2>1. CASE UNCHANGED <<store, current, published>>
    BY <1>1, <2>1 DEF store
  <2>2. CASE /\ pc[p] = "manifest_fill" /\ PutManifest(p, TRUE)
             /\ UNCHANGED <<latest, current, published>>
    BY <2>2, PutKeepsOwner
  <2>3. CASE pc[p] = "pointer_fill" /\ Publish(p) /\ UNCHANGED manifests
    BY <1>2, <2>3
  <2> QED BY <1>6, <2>1, <2>2, <2>3 DEF Fail
<1>7. ASSUME NEW p \in Processes,
             \/ \E r \in Requests : CommitCall(p, r)
             \/ ReadCall(p) \/ Lock(p) \/ ReadSize(p) \/ ReadContent(p)
             \/ WritePointer(p)
      PROVE  UNCHANGED <<manifests, current, published>>
  BY <1>7 DEF CommitCall, ReadCall, Lock, ReadSize, ReadContent, WritePointer, store, hist
<1>8. ASSUME NEW h \in Handles, Crash(h)
      PROVE  UNCHANGED <<manifests, current, published>>
  BY <1>8 DEF Crash, store, hist
<1>9. CASE UNCHANGED vars
  BY <1>1, <1>9 DEF vars, store, hist
<1> QED BY <1>1, <1>3, <1>4, <1>5, <1>6, <1>7, <1>8, <1>9 DEF Next, Step

\* manifest_store.go:153-177.  Through one ManifestStore the pointer file and
\* the manifests it has named are a compare-and-swap register: no commit,
\* failing, crashing or late, overwrites what a published version says.
THEOREM CommitImplementsRegister ==
  ASSUME OneHandle PROVE Spec => ImplementsRegister
<1>1. Init => Register!Init
  BY DEF Init, Register!Init, Owner
<1>2. CommitInv /\ [Next]_vars => [Register!Next]_<<current, Owner>>
  BY RegisterStep
<1> QED BY CommitInvariant, <1>1, <1>2, PTL DEF Spec, ImplementsRegister, Register!Spec
-----------------------------------------------------------------------------
(* What the callers are told *)

\* The commit that p's request asks for.
Mine(p) == [prev |-> req[p].prev, version |-> req[p].version, by |-> p]

Results == {"none", "read", "conflict", "err", "nil"}

\* Who was told that its commit succeeded has published it.
ResultInv ==
  /\ result \in [Processes -> Results] /\ req = [p \in Processes |-> req[p]]
  /\ \A p \in Processes : result[p] = "nil" => Mine(p) \in published

\* Every return but that of the pointer's last write is of another outcome.
LEMMA NotSuccess ==
  ASSUME ResultInv, NEW p \in Processes, NEW outcome \in Results \ {"nil"},
         result' = [result EXCEPT ![p] = outcome],
         UNCHANGED req, published \subseteq published'
  PROVE  ResultInv'
BY DEF ResultInv, Mine

\* Every step keeps it, through however many objects the processes go.
LEMMA ResultStep == ResultInv /\ [Next]_vars => ResultInv'
<1> SUFFICES ASSUME ResultInv, [Next]_vars PROVE ResultInv'
  OBVIOUS
<1>1. ASSUME NEW p \in Processes,
             (\E r \in Requests : CommitCall(p, r)) \/ ReadCall(p)
      PROVE  ResultInv'
  BY <1>1 DEF CommitCall, ReadCall, ResultInv, Results, Mine
<1>2. ASSUME NEW p \in Processes, ReadSize(p) \/ ReadContent(p) PROVE ResultInv'
  <2>1. (\E outcome \in {"read", "conflict", "err"} : Return(p, outcome))
        \/ UNCHANGED result
    BY <1>2 DEF ReadSize, ReadContent, GotLatest
  <2>2. UNCHANGED <<req, published>>
    BY <1>2 DEF ReadSize, ReadContent, hist
  <2>3. CASE UNCHANGED result
    BY <2>2, <2>3 DEF ResultInv, Mine
  <2>4. ASSUME NEW outcome \in {"read", "conflict", "err"}, Return(p, outcome)
        PROVE  ResultInv'
    BY <2>2, <2>4, NotSuccess DEF Return, Results
  <2> QED BY <2>1, <2>3, <2>4
<1>3. ASSUME NEW p \in Processes, FillPointer(p) PROVE ResultInv'
  <2>1. /\ published' = published \cup {Mine(p)} /\ req' = req
        /\ result' = [result EXCEPT ![p] = "nil"]
    BY <1>3 DEF FillPointer, Publish, Return, Mine
  <2> QED BY <2>1 DEF ResultInv, Results, Mine
<1>4. ASSUME NEW p \in Processes, Fail(p) PROVE ResultInv'
  <2>1. published \subseteq published' /\ req' = req /\ Return(p, "err")
    BY <1>4 DEF Fail, Publish, Outcome
  <2> QED BY <2>1, NotSuccess DEF Return, Results
<1>5. ASSUME NEW p \in Processes,
             Lock(p) \/ WriteManifest(p) \/ FillManifest(p) \/ WritePointer(p)
      PROVE  ResultInv'
  BY <1>5 DEF Lock, WriteManifest, FillManifest, WritePointer, hist, ResultInv, Mine
<1>6. ASSUME NEW v \in DOMAIN manifests, DeleteVersion(v) PROVE ResultInv'
  BY <1>6 DEF DeleteVersion, local, hist, ResultInv, Mine
<1>7. ASSUME NEW h \in Handles, Crash(h) PROVE ResultInv'
  BY <1>7 DEF Crash, hist, ResultInv, Results, Mine
<1>8. CASE UNCHANGED vars
  BY <1>8 DEF vars, local, hist, ResultInv, Mine
<1> QED BY <1>1, <1>2, <1>3, <1>4, <1>5, <1>6, <1>7, <1>8 DEF Next, Step

\* manifest_store.go:168-176.  A Commit that reports success was published,
\* through one object or several, whatever fails and whoever dies.
THEOREM SuccessIsPublished == Spec => []ResultTruthful
<1>1. Init => ResultInv
  BY DEF Init, ResultInv, Results
<1>2. ResultInv => ResultTruthful
  BY DEF ResultInv, ResultTruthful, Mine
<1> QED BY <1>1, <1>2, ResultStep, PTL DEF Spec

-----------------------------------------------------------------------------
(* What ReadLatest returns *)

\* The size p was told is that of a version no older than its call.
Sized(p) ==
  \E v \in Said : floor[p] <= v /\ v <= current /\ size[p] = NumDigits[v]

\* An answer that ReadLatest may give p.
Answers(p, n) ==
  \E v \in Said, w \in Said :
    floor[p] <= v /\ v <= w /\ n = Leading(w, NumDigits[v])

\* What a reader has seen and what it returned are no older than its call.
ReadInv ==
  /\ result \in [Processes -> Results]
  /\ value = [p \in Processes |-> value[p]] /\ floor \in [Processes -> Nat]
  /\ size = [p \in Processes |-> size[p]]
  /\ latest \in Versions \cup {Absent, Torn}
  /\ \A p \in Processes : floor[p] <= current
  /\ \A p \in Processes : pc[p] = "read" =>
       latest # Absent /\ (size[p] = 0 \/ Sized(p))
  /\ ReadsFresh

\* The current version is 0 or was published, and its own digits say it.
LEMMA CurrentSaid ==
  ASSUME CommitInv
  PROVE  current \in Said /\ Said \subseteq Nat /\ current = Leading(current, NumDigits[current])
<1>1. current = 0 \/ \E a \in published : a.version = current
  BY DEF CommitInv, WholeInv, Typed
<1>2. Said \subseteq Nat
  BY DEF Said, CommitInv, Typed
<1> QED BY <1>1, <1>2 DEF Said, Leading

\* Of the pointer file a reader gets an error, or as many of its digits as the
\* file had when it asked for the size.
LEMMA ReadsDigits ==
  ASSUME CommitInv, ReadInv, NEW p \in Processes,
         pc[p] = "read", Parses(size[p])
  PROVE  Answers(p, ParseLatest(size[p]))
<1>1. latest # Torn /\ size[p] # 0
  BY DEF Parses, Bytes
<1>2. PICK v \in Said : floor[p] <= v /\ v <= current /\ size[p] = NumDigits[v]
  BY <1>1 DEF ReadInv, Sized
<1>3. latest = current
  BY <1>1 DEF ReadInv, CommitInv, PointerInv, Typed
<1>4. ParseLatest(size[p]) = Leading(current, NumDigits[v])
  BY <1>1, <1>2, <1>3 DEF ParseLatest
<1>5. current \in Said
  BY CurrentSaid
<1> QED BY <1>2, <1>4, <1>5 DEF Answers

\* A call that begins has returned nothing.
LEMMA CallReads ==
  ASSUME CommitInv, ReadInv, NEW p \in Processes,
         (\E r \in Requests : CommitCall(p, r)) \/ ReadCall(p)
  PROVE  ReadInv'
<1>1. /\ result' = [result EXCEPT ![p] = "none"] /\ value' = [value EXCEPT ![p] = 0]
      /\ floor' = [floor EXCEPT ![p] = floor'[p]] /\ floor'[p] \in {0, current}
      /\ UNCHANGED <<latest, size, current, published>>
      /\ \A q \in Processes : pc'[q] = "read" => pc[q] = "read" /\ q # p
  BY DEF CommitCall, ReadCall, store, ReadInv, CommitInv, Typed
<1>2. current \in Nat
  BY DEF CommitInv, Typed
<1>3. \A q \in Processes : floor'[q] <= current'
  BY <1>1, <1>2 DEF ReadInv
<1>4. ReadsFresh'
  BY <1>1 DEF ReadInv, ReadsFresh, Said
<1>5. \A q \in Processes : q # p /\ Sized(q) => Sized(q)'
  BY <1>1 DEF Sized, Said, ReadInv
<1> QED BY <1>1, <1>2, <1>3, <1>4, <1>5 DEF ReadInv, Results

\* A call that returns answers with what its reader may be told, or fails.
LEMMA ReturnReads ==
  ASSUME CommitInv, ReadInv, NEW p \in Processes, NEW outcome \in Results,
         Return(p, outcome),
         UNCHANGED <<latest, current, published, floor>>,
         \/ outcome # "read" /\ UNCHANGED value
         \/ /\ outcome = "read" /\ value' = [value EXCEPT ![p] = value'[p]]
            /\ Answers(p, value'[p])
  PROVE  ReadInv'
<1>1. /\ result' = [result EXCEPT ![p] = outcome]
      /\ size' = [size EXCEPT ![p] = 0]
      /\ \A q \in Processes : pc'[q] = "read" => pc[q] = "read" /\ q # p
  BY DEF Return, CommitInv, Typed
<1>2. current \in Nat
  BY DEF CommitInv, Typed
<1>3. ReadsFresh'
  <2> SUFFICES ASSUME NEW q \in Processes, result'[q] = "read"
               PROVE  Answers(q, value'[q])
    BY DEF ReadsFresh, Answers, Said
  <2>1. CASE q = p
    BY <1>1, <2>1 DEF ReadInv
  <2>2. CASE q # p
    BY <1>1, <2>2 DEF ReadInv, ReadsFresh, Answers
  <2> QED BY <2>1, <2>2
<1>4. value' = [q \in Processes |-> value'[q]]
  BY DEF ReadInv
<1>5. \A q \in Processes : q # p /\ Sized(q) => Sized(q)'
  BY <1>1 DEF Sized, Said, ReadInv
<1> QED BY <1>1, <1>2, <1>3, <1>4, <1>5 DEF ReadInv, Results

\* A commit that is published makes no answer stale that was not.
LEMMA PublishReads ==
  ASSUME OneHandle, CommitInv, ReadInv, NEW p \in Processes, pc[p] = "pointer_fill",
         Publish(p), NEW outcome \in Results \ {"read"}, Return(p, outcome),
         UNCHANGED <<value, floor, req>>
  PROVE  ReadInv'
<1>1. /\ result' = [result EXCEPT ![p] = outcome]
      /\ size' = [size EXCEPT ![p] = 0]
      /\ \A q \in Processes : pc'[q] = "read" => pc[q] = "read" /\ q # p
  BY DEF Return, CommitInv, Typed
<1>2. /\ req[p] \in Requests /\ req[p].prev = current
      /\ current \in Nat /\ req[p].version \in Nat /\ current < req[p].version
  BY Later DEF CommitInv, Guarded, Committing, Typed
<1>3. /\ latest' = req[p].version /\ current' = req[p].version
      /\ Said \subseteq Said'
  BY DEF Publish, Said
<1>4. latest' \in Versions
  BY <1>2, <1>3 DEF Versions
<1>5. ReadsFresh'
  BY <1>1, <1>3 DEF ReadInv, ReadsFresh
<1>6. \A q \in Processes : floor'[q] <= current'
  BY <1>2, <1>3 DEF ReadInv
<1>7. latest' # Absent
  BY <1>2, <1>3 DEF Absent
<1>8. Versions' = Versions
  BY DEF Versions
<1>9. ASSUME NEW q \in Processes, q # p, Sized(q) PROVE Sized(q)'
  <2>1. PICK v \in Said : floor[q] <= v /\ v <= current /\ size[q] = NumDigits[v]
    BY <1>9 DEF Sized
  <2>2. v \in Nat
    BY CurrentSaid
  <2>3. v \in Said' /\ v <= current'
    BY <1>2, <1>3, <2>1, <2>2
  <2> QED BY <1>1, <1>9, <2>1, <2>3 DEF Sized, ReadInv
<1> QED BY <1>1, <1>3, <1>4, <1>5, <1>6, <1>7, <1>8, <1>9 DEF ReadInv

\* Whatever else happens: nobody is answered, and the pointer file stays or is
\* truncated.
LEMMA OtherReads ==
  ASSUME CommitInv, ReadInv, latest' \in {latest, Torn},
         UNCHANGED <<value, floor, current, published>>,
         size' = [p \in Processes |-> size'[p]],
         result' \in [Processes -> Results],
         \A p \in Processes : result'[p] \in {result[p], "none"},
         \A p \in Processes : pc'[p] = "read" =>
           \/ pc[p] = "read" /\ size'[p] = size[p]
           \/ latest # Absent /\ size'[p] = Bytes
  PROVE  ReadInv'
<1>1. Versions' = Versions /\ Said' = Said
  BY DEF Versions, Said
<1>2. ASSUME NEW p \in Processes, latest # Absent, size'[p] = Bytes
      PROVE  size'[p] = 0 \/ Sized(p)'
  <2>1. CASE latest = Torn
    BY <1>2, <2>1 DEF Bytes
  <2>2. CASE latest # Torn
    <3>1. latest = current
      BY <1>2, <2>2 DEF ReadInv, CommitInv, PointerInv, Typed
    <3>2. size'[p] = NumDigits[current]
      BY <1>2, <2>2, <3>1 DEF Bytes
    <3>3. current \in Said' /\ floor'[p] <= current /\ current <= current'
      BY <1>1, CurrentSaid DEF ReadInv
    <3> QED BY <3>2, <3>3 DEF Sized
  <2> QED BY <2>1, <2>2
<1>3. ReadsFresh'
  BY <1>1 DEF ReadInv, ReadsFresh
<1>4. latest # Absent => latest' # Absent
  BY DEF Absent, Torn
<1>5. latest' \in Versions \cup {Absent, Torn}
  BY DEF ReadInv
<1>6. ASSUME NEW p \in Processes, pc[p] = "read", size'[p] = size[p]
      PROVE  latest # Absent /\ (size'[p] = 0 \/ Sized(p)')
  BY <1>1, <1>6 DEF ReadInv, Sized
<1> QED BY <1>1, <1>2, <1>3, <1>4, <1>5, <1>6 DEF ReadInv

\* ReadLatest is done, whoever asked for it.
LEMMA GotLatestReads ==
  ASSUME CommitInv, ReadInv, NEW p \in Processes, NEW v,
         pc[p] \in {"size", "read"}, GotLatest(p, v), Answers(p, v),
         UNCHANGED <<latest, current, published, floor>>
  PROVE  ReadInv'
<1>1. CASE Return(p, "read") /\ value' = [value EXCEPT ![p] = v]
  BY <1>1, ReturnReads DEF Results, ReadInv
<1>2. CASE Return(p, "conflict") /\ UNCHANGED value
  BY <1>2, ReturnReads DEF Results
<1>3. CASE /\ pc' = [pc EXCEPT ![p] = "manifest"]
           /\ UNCHANGED <<holder, result, size, value>>
  BY <1>3, OtherReads DEF CommitInv, Typed, ReadInv
<1> QED BY <1>1, <1>2, <1>3 DEF GotLatest

\* Every step keeps it.
LEMMA ReadStep ==
  OneHandle /\ CommitInv /\ ReadInv /\ [Next]_vars => ReadInv'
<1> SUFFICES ASSUME OneHandle, CommitInv, ReadInv, [Next]_vars
             PROVE  ReadInv'
  OBVIOUS
<1>1. ASSUME NEW p \in Processes,
             (\E r \in Requests : CommitCall(p, r)) \/ ReadCall(p)
      PROVE  ReadInv'
  BY <1>1, CallReads
<1>2. ASSUME NEW p \in Processes, ReadSize(p) PROVE ReadInv'
  <2>1. CASE latest = Absent /\ GotLatest(p, 0)
    <3>1. current = 0
      BY <2>1 DEF CommitInv, PointerInv
    <3>2. Answers(p, 0)
      BY <3>1, CurrentSaid DEF Answers, ReadInv
    <3> QED BY <1>2, <2>1, <3>2, GotLatestReads DEF ReadSize, store, hist
  <2>2. CASE /\ latest # Absent /\ size' = [size EXCEPT ![p] = Bytes]
             /\ pc' = [pc EXCEPT ![p] = "read"] /\ UNCHANGED <<result, value>>
    <3>1. \A q \in Processes : pc'[q] = "read" =>
            \/ pc[q] = "read" /\ size'[q] = size[q]
            \/ latest # Absent /\ size'[q] = Bytes
      BY <2>2 DEF CommitInv, Typed, ReadInv
    <3> QED BY <1>2, <2>2, <3>1, OtherReads DEF ReadSize, store, hist, ReadInv
  <2> QED BY <1>2, <2>1, <2>2 DEF ReadSize
<1>3. ASSUME NEW p \in Processes, ReadContent(p) PROVE ReadInv'
  <2>1. CASE Parses(size[p]) /\ GotLatest(p, ParseLatest(size[p]))
    <3>1. Answers(p, ParseLatest(size[p]))
      BY <1>3, <2>1, ReadsDigits DEF ReadContent
    <3> QED BY <1>3, <2>1, <3>1, GotLatestReads DEF ReadContent, store, hist
  <2>2. CASE Return(p, "err") /\ UNCHANGED value
    BY <1>3, <2>2, ReturnReads DEF ReadContent, store, hist, Results
  <2> QED BY <1>3, <2>1, <2>2 DEF ReadContent
<1>4. ASSUME NEW p \in Processes, FillPointer(p) PROVE ReadInv'
  BY <1>4, PublishReads DEF FillPointer, Results
<1>5. ASSUME NEW p \in Processes, Fail(p) PROVE ReadInv'
  <2>1. Return(p, "err") /\ UNCHANGED <<req, value, floor>>
    BY <1>5 DEF Fail, Outcome
  <2>2. CASE pc[p] = "pointer_fill" /\ Publish(p)
    BY <2>1, <2>2, PublishReads DEF Results
  <2>3. CASE UNCHANGED <<latest, current, published>>
    BY <2>1, <2>3, ReturnReads DEF Results
  <2> QED BY <1>5, <2>2, <2>3 DEF Fail, store
<1>6. ASSUME NEW p \in Processes,
             Lock(p) \/ WriteManifest(p) \/ FillManifest(p) \/ WritePointer(p)
      PROVE  ReadInv'
  <2>1. /\ UNCHANGED <<value, floor, current, published, size, result>>
        /\ latest' \in {latest, Torn}
        /\ \A q \in Processes : pc'[q] = "read" => pc[q] = "read"
    BY <1>6 DEF Lock, WriteManifest, FillManifest, WritePointer, store, hist, CommitInv, Typed
  <2> QED BY <2>1, OtherReads DEF ReadInv
<1>7. ASSUME NEW v \in DOMAIN manifests, DeleteVersion(v) PROVE ReadInv'
  BY <1>7, OtherReads DEF DeleteVersion, local, hist, ReadInv
<1>8. ASSUME NEW h \in Handles, Crash(h) PROVE ReadInv'
  <2>1. \A p \in Processes : pc'[p] = "idle" /\ result'[p] = "none"
    BY <1>8 DEF Crash, OneHandle
  <2> QED BY <1>8, <2>1, OtherReads DEF Crash, store, hist, ReadInv, Results
<1>9. CASE UNCHANGED vars
  BY <1>9, OtherReads DEF vars, store, local, hist, ReadInv
<1> QED BY <1>1, <1>2, <1>3, <1>4, <1>5, <1>6, <1>7, <1>8, <1>9 DEF Next, Step

\* manifest_store.go:66-72, 131-151.  Through one object, and whatever fails,
\* ReadLatest returns as many digits as some version had of a version that is
\* no older, and neither is older than the current one at its call: although
\* the writes truncate the file it reads, and whatever the versions' lengths.
THEOREM ReadsAreFresh == ASSUME OneHandle PROVE Spec => []ReadsFresh
<1>1. Init => ReadInv
  BY DEF Init, ReadInv, ReadsFresh, Results
<1>2. ReadInv => ReadsFresh
  BY DEF ReadInv
<1>3. CommitInv /\ ReadInv /\ [Next]_vars => ReadInv'
  BY ReadStep
<1> QED BY <1>1, <1>2, <1>3, CommitInvariant, PTL DEF Spec
=============================================================================
