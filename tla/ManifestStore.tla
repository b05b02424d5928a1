--------------------------- MODULE ManifestStore ---------------------------
(***************************************************************************)
(* table/manifest_store.go: the optimistic commit protocol on the pointer  *)
(* file _versions/_latest, and its readers.                                *)
(*                                                                         *)
(* Processes are goroutines that call Commit, ReadLatest and               *)
(* DeleteVersion; each uses one ManifestStore object (Handle), whose mutex *)
(* Commit holds.  A store call is one step, except that a Write is two, as *)
(* os.WriteFile truncates before it fills, and that ReadLatest's Exists    *)
(* and Size are one: nothing deletes the pointer file.  A call may fail    *)
(* before its effect, between its steps or after its effect, and the       *)
(* operating-system process that owns an object may die.                   *)
(*                                                                         *)
(* The pointer file holds a number in decimal: what matters of it is the   *)
(* number and how many bytes it takes, because readAll asks for the size   *)
(* first and reads that many bytes later.                                  *)
(***************************************************************************)
EXTENDS Integers, FiniteSets

CONSTANTS
  Processes, NoProcess,
  Handles,       \* ManifestStore objects on the same directory
  Handle,        \* Handle[p]: the object p uses
  Requests,      \* the [prev, version] pairs Commit is called with
  Faults,        \* kinds of failure considered
  MaxFaults      \* bound: failures and crashes of a behaviour

FaultKinds == {"fail",    \* a store call fails and has no effect
               "torn",    \* a Write fails after it truncated the file
               "ack",     \* a Write takes effect and still errs
               "crash"}   \* the process that owns a handle dies

ASSUME ProcessesAssumption ==
  NoProcess \notin Processes /\ Handle \in [Processes -> Handles]
ASSUME RequestsAssumption ==
  \A r \in Requests : /\ r.prev \in Nat /\ r.version \in Nat
                      /\ r.prev < r.version
ASSUME FaultsAssumption == Faults \subseteq FaultKinds /\ MaxFaults \in Nat

VARIABLES
  manifests,     \* version -> who wrote the file, and whether it is whole
  latest,        \* the pointer file: a version, Absent or Torn
  holder,        \* holder[h]: who holds the mutex of h
  pc, req, size, \* per process: where it is, its request, what Size returned
  result,        \* result[p]: outcome of p's last call
  value,         \* value[p]: what p's last successful ReadLatest returned
  faults,
  current,       \* history: the last number the pointer file held
  published,     \* history: the commits that moved the pointer file
  floor          \* history: floor[p], current when p called ReadLatest

store == <<manifests, latest>>
local == <<holder, pc, req, size, result, value>>
hist  == <<current, published, floor>>
vars  == <<store, local, faults, hist>>

Absent == -2
Torn == -1
Reading == [prev |-> -1, version |-> -1]   \* req of a process in ReadLatest

Fault(kind) == kind \in Faults /\ faults < MaxFaults /\ faults' = faults + 1

-----------------------------------------------------------------------------
(* The pointer file's bytes *)

\* The length of what strconv.FormatInt(n, 10) returns.
NumDigits[n \in Nat] == IF n < 10 THEN 1 ELSE 1 + NumDigits[n \div 10]

Bytes == IF latest = Torn THEN 0 ELSE NumDigits[latest]

\* The number that the first n of v's decimal digits say.
Leading(v, n) == IF n = NumDigits[v] THEN v ELSE v \div (10 ^ (NumDigits[v] - n))

\* Mutant: an empty file is taken for version 0.
Parses_EmptyIsZero(n) == latest = Torn \/ n <= Bytes

\* Reading n bytes gives a number: fewer bytes than asked for are an io.EOF,
\* and no bytes at all do not parse.
Parses(n) == n \in 1 .. Bytes

ParseLatest(n) == IF latest = Torn THEN 0 ELSE Leading(latest, n)

-----------------------------------------------------------------------------
(* Returning *)

\* The deferred Unlock, and the call's outcome.
Return(p, outcome) ==
  /\ pc' = [pc EXCEPT ![p] = "idle"]
  /\ result' = [result EXCEPT ![p] = outcome]
  /\ holder' = [holder EXCEPT ![Handle[p]] = IF @ = p THEN NoProcess ELSE @]
  /\ size' = [size EXCEPT ![p] = 0]

\* Mutant: the expected version is not compared.
Compare_Always(p, v) == TRUE

Compare(p, v) == v = req[p].prev

\* ReadLatest is done and says v: a reader returns it, Commit compares it.
GotLatest(p, v) ==
  \/ /\ req[p] = Reading
     /\ Return(p, "read") /\ value' = [value EXCEPT ![p] = v]
  \/ /\ req[p] # Reading /\ Compare(p, v)
     /\ pc' = [pc EXCEPT ![p] = "manifest"]
     /\ UNCHANGED <<holder, result, size, value>>
  \/ /\ req[p] # Reading /\ ~Compare(p, v)
     /\ Return(p, "conflict") /\ UNCHANGED value

-----------------------------------------------------------------------------
(* Calls *)

CommitCall(p, r) ==
  /\ pc[p] = "idle"
  /\ pc' = [pc EXCEPT ![p] = "lock"]
  /\ req' = [req EXCEPT ![p] = r]
  /\ result' = [result EXCEPT ![p] = "none"] /\ value' = [value EXCEPT ![p] = 0]
  /\ floor' = [floor EXCEPT ![p] = 0]
  /\ UNCHANGED <<store, holder, size, faults, current, published>>

ReadCall(p) ==
  /\ pc[p] = "idle"
  /\ pc' = [pc EXCEPT ![p] = "size"]
  /\ req' = [req EXCEPT ![p] = Reading]
  /\ result' = [result EXCEPT ![p] = "none"] /\ value' = [value EXCEPT ![p] = 0]
  /\ floor' = [floor EXCEPT ![p] = current]
  /\ UNCHANGED <<store, holder, size, faults, current, published>>

\* DeleteVersion, of a version the caller has seen superseded.
DeleteVersion(v) ==
  /\ v \in DOMAIN manifests /\ v < current
  /\ manifests' = [w \in DOMAIN manifests \ {v} |-> manifests[w]]
  /\ UNCHANGED <<latest, local, faults, hist>>

\* Mutant: Commit without the mutex.
Lock_Unguarded(p) ==
  /\ pc[p] = "lock"
  /\ pc' = [pc EXCEPT ![p] = "size"]
  /\ UNCHANGED <<store, holder, req, size, result, value, faults, hist>>

\* ms.mu.Lock()
Lock(p) ==
  /\ pc[p] = "lock" /\ holder[Handle[p]] = NoProcess
  /\ holder' = [holder EXCEPT ![Handle[p]] = p]
  /\ pc' = [pc EXCEPT ![p] = "size"]
  /\ UNCHANGED <<store, req, size, result, value, faults, hist>>

\* ReadLatest: Exists and Size.  No file is version 0.
ReadSize(p) ==
  /\ pc[p] = "size"
  /\ \/ /\ latest = Absent
        /\ GotLatest(p, 0)
     \/ /\ latest # Absent
        /\ size' = [size EXCEPT ![p] = Bytes]
        /\ pc' = [pc EXCEPT ![p] = "read"]
        /\ UNCHANGED <<holder, result, value>>
  /\ UNCHANGED <<store, req, faults, hist>>

\* Mutant: a pointer file that does not parse is read again.
ReadContent_Retries(p) ==
  /\ pc[p] = "read"
  /\ \/ Parses(size[p]) /\ GotLatest(p, ParseLatest(size[p]))
     \/ /\ ~Parses(size[p])
        /\ pc' = [pc EXCEPT ![p] = "size"]
        /\ UNCHANGED <<holder, size, result, value>>
  /\ UNCHANGED <<store, req, faults, hist>>

\* ReadLatest: Read and ParseInt.
ReadContent(p) ==
  /\ pc[p] = "read"
  /\ \/ Parses(size[p]) /\ GotLatest(p, ParseLatest(size[p]))
     \/ ~Parses(size[p]) /\ Return(p, "err") /\ UNCHANGED value
  /\ UNCHANGED <<store, req, faults, hist>>

-----------------------------------------------------------------------------
(* Commit: the two writes *)

PutManifest(p, whole) ==
  manifests' = [v \in DOMAIN manifests \cup {req[p].version} |->
                  IF v = req[p].version THEN [by |-> p, whole |-> whole]
                  ELSE manifests[v]]

WriteManifest(p) ==
  /\ pc[p] = "manifest"
  /\ PutManifest(p, FALSE)
  /\ pc' = [pc EXCEPT ![p] = "manifest_fill"]
  /\ UNCHANGED <<latest, holder, req, size, result, value, faults, hist>>

\* Mutant: the pointer file is written next to the manifest, not after it.
FillManifest_PointerFirst(p) ==
  /\ pc[p] = "manifest_fill"
  /\ latest' = req[p].version /\ current' = req[p].version
  /\ published' = published \cup
       {[prev |-> req[p].prev, version |-> req[p].version, by |-> p]}
  /\ pc' = [pc EXCEPT ![p] = "pointer"]
  /\ UNCHANGED <<manifests, holder, req, size, result, value, faults, floor>>

FillManifest(p) ==
  /\ pc[p] = "manifest_fill"
  /\ PutManifest(p, TRUE)
  /\ pc' = [pc EXCEPT ![p] = "pointer"]
  /\ UNCHANGED <<latest, holder, req, size, result, value, faults, hist>>

WritePointer(p) ==
  /\ pc[p] = "pointer"
  /\ latest' = Torn
  /\ pc' = [pc EXCEPT ![p] = "pointer_fill"]
  /\ UNCHANGED <<manifests, holder, req, size, result, value, faults, hist>>

\* The pointer file says the new version: the commit is visible.
Publish(p) ==
  /\ latest' = req[p].version
  /\ current' = req[p].version
  /\ published' = published \cup
       {[prev |-> req[p].prev, version |-> req[p].version, by |-> p]}

FillPointer(p) ==
  /\ pc[p] = "pointer_fill"
  /\ Publish(p)
  /\ Return(p, "nil")
  /\ UNCHANGED <<manifests, req, value, faults, floor>>

-----------------------------------------------------------------------------
(* Failures *)

\* Mutant: the error of the pointer's Write is dropped.
Outcome_Ignored(p) == IF pc[p] \in {"pointer", "pointer_fill"} THEN "nil" ELSE "err"

Outcome(p) == "err"

\* A store call fails and the caller returns its error.  What a Write had
\* truncated stays so, and one that fails after its effect leaves the effect.
Fail(p) ==
  /\ Return(p, Outcome(p))
  /\ \/ /\ pc[p] \in {"size", "read", "manifest", "pointer"}
        /\ Fault("fail")
        /\ UNCHANGED <<store, current, published>>
     \/ /\ pc[p] \in {"manifest_fill", "pointer_fill"}
        /\ Fault("torn")
        /\ UNCHANGED <<store, current, published>>
     \/ /\ pc[p] = "manifest_fill"
        /\ Fault("ack")
        /\ PutManifest(p, TRUE)
        /\ UNCHANGED <<latest, current, published>>
     \/ /\ pc[p] = "pointer_fill"
        /\ Fault("ack")
        /\ Publish(p)
        /\ UNCHANGED manifests
  /\ UNCHANGED <<req, value, floor>>

\* The process that owns h dies with every goroutine in it, and starts again.
Crash(h) ==
  /\ Fault("crash")
  /\ \E p \in Processes : Handle[p] = h /\ pc[p] # "idle"
  /\ holder' = [holder EXCEPT ![h] = NoProcess]
  /\ pc' = [p \in Processes |-> IF Handle[p] = h THEN "idle" ELSE pc[p]]
  /\ result' = [p \in Processes |-> IF Handle[p] = h THEN "none" ELSE result[p]]
  /\ size' = [p \in Processes |-> IF Handle[p] = h THEN 0 ELSE size[p]]
  /\ UNCHANGED <<store, req, value, hist>>

-----------------------------------------------------------------------------
(* The specification *)

Init ==
  /\ manifests = [v \in {} |-> [by |-> NoProcess, whole |-> FALSE]]
  /\ latest = Absent
  /\ holder = [h \in Handles |-> NoProcess]
  /\ pc = [p \in Processes |-> "idle"]
  /\ req = [p \in Processes |-> Reading]
  /\ size = [p \in Processes |-> 0]
  /\ result = [p \in Processes |-> "none"]
  /\ value = [p \in Processes |-> 0]
  /\ faults = 0
  /\ current = 0 /\ published = {} /\ floor = [p \in Processes |-> 0]

\* What a process does of itself once it has called.
Step(p) ==
  \/ ReadSize(p) \/ ReadContent(p)
  \/ WriteManifest(p) \/ FillManifest(p) \/ WritePointer(p) \/ FillPointer(p)

Next ==
  \/ \E p \in Processes :
       \/ \E r \in Requests : CommitCall(p, r)
       \/ ReadCall(p) \/ Lock(p) \/ Step(p) \/ Fail(p)
  \/ \E v \in DOMAIN manifests : DeleteVersion(v)
  \/ \E h \in Handles : Crash(h)

Spec == Init /\ [][Next]_vars

\* A goroutine that can run does, and Go's mutex starves nobody: a waiter
\* that has waited for long is handed the mutex.
Fairness == \A p \in Processes : WF_vars(Step(p)) /\ SF_vars(Lock(p))

FairSpec == Spec /\ Fairness

-----------------------------------------------------------------------------
(* Properties *)

Versions == {r.version : r \in Requests}
Committing == {"manifest", "manifest_fill", "pointer", "pointer_fill"}

\* manifest_store.go:154-165; manifest_store_test.go:318 expects "exactly 1
\* success" of concurrent commits.  No two commits replace the same version.
NoLostUpdate == \A a, b \in published : a.prev = b.prev => a = b

\* manifest_store.go:168-173.  Whenever the pointer file names a version, that
\* version's manifest is there, whole, and of the commit that published it.
PointerWhole ==
  latest > 0 =>
    /\ latest \in DOMAIN manifests /\ manifests[latest].whole
    /\ \E a \in published : a.version = latest /\ a.by = manifests[latest].by

\* manifest_store.go:168-176.  A commit that reports success was published:
\* no failure of a store call is lost on the way to the caller.
ResultTruthful ==
  \A p \in Processes : pc[p] = "idle" /\ req[p] # Reading =>
    LET mine == [prev |-> req[p].prev, version |-> req[p].version, by |-> p] IN
    result[p] = "nil" => mine \in published

\* What the pointer file has said, no file being version 0.
Said == {0} \cup {a.version : a \in published}

\* manifest_store.go:66-72, 131-151.  ReadLatest goes to the pointer file twice
\* while commits rewrite it: it returns as many digits as some version v had of
\* the version w it found then, neither older than the current one at its call.
\* That is w, unless a digit was gained in between: of 10 after 9 it makes 1.
\* A file found empty, or shorter than before, is an error and never a version.
ReadsFresh ==
  \A p \in Processes : result[p] = "read" =>
    \E v \in Said, w \in Said :
      floor[p] <= v /\ v <= w /\ value[p] = Leading(w, NumDigits[v])

\* manifest_store.go:157-159.  Every Commit and ReadLatest returns, whoever
\* fails while it holds the mutex.
CallsReturn == \A p \in Processes : pc[p] # "idle" ~> pc[p] = "idle"

Owner ==
  [v \in {a.version : a \in published} \cap DOMAIN manifests |-> manifests[v].by]

Register == INSTANCE VersionRegister WITH Owners <- Processes, owner <- Owner

\* manifest_store.go:153-177.  The pointer file and the manifests it has named
\* implement a compare-and-swap register: in particular a later commit, or one
\* that fails, never overwrites the manifest of a published version.
ImplementsRegister == Register!Spec
=============================================================================
