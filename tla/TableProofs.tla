---------------------------- MODULE TableProofs ----------------------------
(***************************************************************************)
(* What a table directory and the Table object on it keep true, for any    *)
(* columns, batches, readers, failures, crashes and restarts, when the     *)
(* application keeps an AsyncWriter and the table's own mutations apart    *)
(* (or starts no writer).                                                  *)
(*                                                                         *)
(* The inductive invariant has a part for the directory, one for the Table *)
(* object and the mutation under way, one for the writer and one for the   *)
(* readers.  Its core: a version is written beyond every version there is, *)
(* so that a whole manifest is never rewritten; what is written extends    *)
(* the newest committed version; and the fragment being written has an id  *)
(* that no committed fragment has.                                         *)
(***************************************************************************)
EXTENDS Table, FiniteSetTheorems, WellFoundedInduction, TLAPS

\* The application follows the discipline, or starts no AsyncWriter.
KeptApart == Disciplined \/ ~WithWriter

-----------------------------------------------------------------------------
(* Types *)

FragmentRecord == [id : Nat, cols : SUBSET Nat]

\* v is the largest key of d.
Newest(d, v) == v \in DOMAIN d /\ \A w \in DOMAIN d : w <= v

\* NextFieldID finds a largest id.
SchemaTyped(s) ==
  /\ Ids(s) \subseteq Nat
  /\ \E n \in Ids(s) \cup {0} : \A id \in Ids(s) : id <= n

\* A manifest that parses: its fragments are distinct, and max covers them.
ManifestTyped(m) ==
  /\ DOMAIN m = {"whole", "frags", "max", "schema"}
  /\ m.whole = TRUE /\ m.max \in Nat /\ SchemaTyped(m.schema)
  /\ m.frags \in Seq(FragmentRecord) /\ IsInjective(m.frags)
  /\ \A i \in DOMAIN m.frags : m.frags[i].id <= m.max

\* Fragment ids from n on are not m's.
FreeFrom(m, n) == \A i \in DOMAIN m.frags : m.frags[i].id < n

\* The column files m refers to are among those at paths.
Present(m, paths) ==
  \A i \in DOMAIN m.frags : \A c \in m.frags[i].cols : <<m.frags[i].id, c>> \in paths

-----------------------------------------------------------------------------
(* The inductive invariant *)

DiskInv ==
  /\ DOMAIN manifests \subseteq Nat \ {0}
  /\ DOMAIN manifests # {} => \E v \in DOMAIN manifests : Newest(manifests, v)
  /\ \A v \in DOMAIN manifests :
       manifests[v] = TornManifest \/ ManifestTyped(manifests[v])
  /\ \A v \in Whole : Present(manifests[v], DOMAIN files)
  /\ committed \subseteq Whole
  /\ \A u \in committed : \A v \in Whole :
       u <= v => IsPrefix(manifests[u].frags, manifests[v].frags)

\* The newest cached manifest has all that is committed, and the counters lie
\* beyond everything there is.
CountersInv ==
  /\ \A u \in committed : u <= LatestVersion(cached)
  /\ FreeFrom(CachedLatest, nextFragmentID)
  /\ pc \in {"idle", "column"} => \A v \in DOMAIN manifests : v < nextVersion

\* A manifest prepared by a mutation, from its preparation to its publication.
PendingInv ==
  /\ op.version \in Nat /\ nextVersion = op.version + 1
  /\ ManifestTyped(op.manifest) /\ op.manifest.schema = op.schema
  /\ IsPrefix(CachedLatest.frags, op.manifest.frags)
  /\ FreeFrom(op.manifest, nextFragmentID)
  /\ Present(op.manifest, DOMAIN files)
  /\ \A u \in committed : u < op.version
  /\ pc = "write" => \A v \in DOMAIN manifests : v < op.version
  /\ pc \in {"fill", "publish"} => Newest(manifests, op.version)
  /\ pc = "fill" => manifests[op.version] = TornManifest
  /\ pc = "publish" => manifests[op.version] = op.manifest

\* An insert between two column files.
InsertOp == [kind : {"insert"}, batch : Batches, left : SUBSET Nat, cols : SUBSET Nat]

ObjectInv ==
  /\ open \in BOOLEAN
  /\ pc \in {"idle", "column", "write", "fill", "publish"}
  /\ pc # "idle" => open /\ wpc = "off"
  /\ CacheMatchesDisk
  /\ open => /\ nextVersion \in Nat /\ nextFragmentID \in Nat /\ SchemaTyped(schema)
             /\ \E v \in DOMAIN cached : Newest(cached, v)
             /\ wpc = "off" => CountersInv
  /\ pc = "column" => /\ op \in InsertOp
                      /\ \A c \in op.cols : <<nextFragmentID, c>> \in DOMAIN files
  /\ pc \in {"write", "fill", "publish"} => PendingInv

\* A flush under way builds on the newest version; its fragment is new.
WriterInv ==
  /\ wpc \in {"off", "idle", "read", "write", "fill"}
  /\ wpc # "off" =>
       /\ WithWriter /\ open /\ pc = "idle" /\ DOMAIN manifests # {} /\ wver \in Nat /\ wfrag \in Nat
       /\ SchemaTyped(wschema)
  /\ wpc \in {"idle", "read", "write"} =>
       /\ LatestVersion(manifests) \in Whole
       /\ \A v \in DOMAIN manifests : v < wver
  /\ wpc = "idle" => FreeFrom(manifests[LatestVersion(manifests)], wfrag)
  /\ wpc \in {"read", "write", "fill"} =>
       /\ wfragment \in FragmentRecord /\ wfrag = wfragment.id + 1
       /\ \A c \in wfragment.cols : <<wfragment.id, c>> \in DOMAIN files
  /\ wpc = "read" => FreeFrom(manifests[LatestVersion(manifests)], wfragment.id)
  /\ wpc \in {"write", "fill"} =>
       /\ ManifestTyped(wbase) /\ Present(wbase, DOMAIN files)
       /\ FreeFrom(wbase, wfragment.id)
       /\ \A u \in committed : IsPrefix(manifests[u].frags, wbase.frags)
  /\ wpc = "fill" => Newest(manifests, wver) /\ manifests[wver] = TornManifest

ReadersTyped ==
  /\ rpc \in [Readers -> {"idle", "list", "cache", "read"}]
  /\ rver \in [Readers -> Nat] /\ floor \in [Readers -> Nat]
  /\ rres = [r \in Readers |-> rres[r]]

\* A reader that knows its version has one no older than its floor.
ReaderInv ==
  \A r \in Readers :
    /\ rpc[r] # "idle" => open /\ rres[r] = NoManifest
    /\ rpc[r] = "list" => floor[r] = 0 \/ floor[r] \in committed
    /\ rpc[r] \in {"cache", "read"} =>
         /\ rver[r] \in DOMAIN manifests /\ floor[r] <= rver[r]
         /\ floor[r] = 0 \/ floor[r] \in committed \/ floor[r] = rver[r]
    /\ rres[r] \notin {NoManifest, ErrManifest} =>
         /\ rver[r] \in Whole /\ rres[r] = manifests[rver[r]] /\ floor[r] <= rver[r]
         /\ floor[r] = 0 \/ floor[r] \in committed \/ floor[r] = rver[r]

Counted == faults \in Nat /\ adds \in Nat

TableInv == DiskInv /\ ObjectInv /\ WriterInv /\ ReadersTyped /\ ReaderInv /\ Counted

-----------------------------------------------------------------------------
(* Lemmas about the operators *)

\* A nonempty set of numbers that has a bound has a largest element.
LEMMA MaxExists ==
  ASSUME NEW S \in SUBSET Nat, S # {}, NEW n \in Nat, \A x \in S : x <= n
  PROVE  \E m \in S : \A x \in S : x <= m
<1> DEFINE T == {n - x : x \in S}
<1>0. \A x \in S : n - x \in Nat
  OBVIOUS
<1>1. T \subseteq Nat /\ T # {}
  BY <1>0
<1>2. PICK t \in T : \A y \in T : ~(<<y, t>> \in OpToRel(<, Nat))
  BY <1>1, NatLessThanWellFounded, WFMin
<1>3. \A y \in T : ~(y < t)
  BY <1>1, <1>2 DEF OpToRel
<1>4. PICK m \in S : t = n - m
  OBVIOUS
<1>5. \A x \in S : ~(n - x < n - m)
  BY <1>3, <1>4
<1> QED BY <1>4, <1>5

\* LatestVersion (manifest_store.go:74-83) is the largest version there is.
LEMMA LatestIsNewest ==
  ASSUME NEW d, DOMAIN d \subseteq Nat, NEW v, Newest(d, v)
  PROVE  LatestVersion(d) = v
<1>1. \A w \in DOMAIN d : (\A x \in DOMAIN d : x <= w) => w = v
  BY DEF Newest
<1> QED BY <1>1 DEF Newest, LatestVersion, ListVersions

\* Put (manifest_store.go:38-48) adds or replaces one version.
LEMMA PutDomain ==
  ASSUME NEW m, NEW v, NEW x
  PROVE  /\ DOMAIN Put(m, v, x) = DOMAIN m \cup {v}
         /\ Put(m, v, x)[v] = x
         /\ \A w \in DOMAIN m : w # v => Put(m, v, x)[w] = m[w]
BY DEF Put

\* A version beyond all others becomes the newest.
LEMMA PutNewest ==
  ASSUME NEW d, DOMAIN d \subseteq Nat, NEW v \in Nat, NEW x, \A w \in DOMAIN d : w <= v
  PROVE  Newest(Put(d, v, x), v) /\ LatestVersion(Put(d, v, x)) = v
<1>1. DOMAIN Put(d, v, x) = DOMAIN d \cup {v}
  BY PutDomain
<1>2. Newest(Put(d, v, x), v)
  BY <1>1 DEF Newest
<1> QED BY <1>1, <1>2, LatestIsNewest

\* Publish (version_manager.go) keeps the newest version and invents nothing.
LEMMA PublishFacts ==
  ASSUME DOMAIN cached \subseteq Nat, NEW v \in Nat, NEW m,
         \A w \in DOMAIN cached : w <= v
  PROVE  /\ Newest(Publish(v, m), v)
         /\ Publish(v, m)[v] = m
         /\ \A w \in DOMAIN Publish(v, m) :
              w # v => w \in DOMAIN cached /\ Publish(v, m)[w] = cached[w]
<1> DEFINE all == Put(cached, v, m)
           newer(w) == {x \in DOMAIN all : x > w}
           kept == {x \in DOMAIN all : Cardinality(newer(x)) < CacheLimit}
<1>1. /\ DOMAIN all = DOMAIN cached \cup {v} /\ all[v] = m
      /\ \A w \in DOMAIN cached : w # v => all[w] = cached[w]
  BY DEF Put
<1>2. Publish(v, m) = [w \in kept |-> all[w]]
  BY DEF Publish
<1>3. newer(v) = {}
  BY <1>1
<1>4. v \in kept
  BY <1>1, <1>3, FS_EmptySet, LimitsAssumption
<1> HIDE DEF all
<1>5. DOMAIN Publish(v, m) = kept /\ \A w \in kept : Publish(v, m)[w] = all[w]
  BY <1>2
<1>6. kept \subseteq DOMAIN all
  OBVIOUS
<1> HIDE DEF kept, newer
<1>7. \A w \in kept : w # v => w \in DOMAIN cached /\ all[w] = cached[w]
  BY <1>1, <1>6
<1>8. \A w \in kept : w <= v
  BY <1>7
<1> QED BY <1>1, <1>4, <1>5, <1>7, <1>8 DEF Newest

\* IsPrefix, element by element.
LEMMA PrefixElements ==
  ASSUME NEW S, NEW s \in Seq(S), NEW t \in Seq(S)
  PROVE  IsPrefix(s, t) <=> /\ DOMAIN s \subseteq DOMAIN t
                            /\ \A i \in DOMAIN s : t[i] = s[i]
<1>1. /\ Len(s) \in Nat /\ DOMAIN s = 1..Len(s)
      /\ Len(t) \in Nat /\ DOMAIN t = 1..Len(t)
  OBVIOUS
<1>2. DOMAIN s \subseteq DOMAIN t <=> Len(s) <= Len(t)
  BY <1>1
<1>3. ASSUME Len(s) <= Len(t)
      PROVE  SubSeq(s, 1, Len(s)) = SubSeq(t, 1, Len(s)) <=> \A i \in DOMAIN s : t[i] = s[i]
  <2>1. SubSeq(s, 1, Len(s)) = [i \in 1..Len(s) |-> s[i]]
    BY <1>1
  <2>2. SubSeq(t, 1, Len(s)) = [i \in 1..Len(s) |-> t[i]]
    BY <1>1, <1>3
  <2> QED BY <1>1, <2>1, <2>2
<1> QED BY <1>2, <1>3 DEF IsPrefix

\* IsPrefix is reflexive.
LEMMA PrefixSelf == ASSUME NEW S, NEW s \in Seq(S) PROVE IsPrefix(s, s)
BY PrefixElements

\* IsPrefix is transitive.
LEMMA PrefixTransitive ==
  ASSUME NEW S, NEW s \in Seq(S), NEW t \in Seq(S), NEW u \in Seq(S),
         IsPrefix(s, t), IsPrefix(t, u)
  PROVE  IsPrefix(s, u)
<1>1. DOMAIN s \subseteq DOMAIN t /\ \A i \in DOMAIN s : t[i] = s[i]
  BY PrefixElements
<1>2. DOMAIN t \subseteq DOMAIN u /\ \A i \in DOMAIN t : u[i] = t[i]
  BY PrefixElements
<1>3. DOMAIN s \subseteq DOMAIN u /\ \A i \in DOMAIN s : u[i] = s[i]
  BY <1>1, <1>2
<1> QED BY <1>3, PrefixElements

\* What Append does, place by place.
LEMMA AppendFacts ==
  ASSUME NEW S, NEW s \in Seq(S), NEW e \in S
  PROVE  /\ Append(s, e) \in Seq(S)
         /\ DOMAIN Append(s, e) = DOMAIN s \cup {Len(s) + 1} /\ Len(s) + 1 \notin DOMAIN s
         /\ Append(s, e)[Len(s) + 1] = e
         /\ \A i \in DOMAIN s : Append(s, e)[i] = s[i]
         /\ IsPrefix(s, Append(s, e))
<1>1. /\ Append(s, e) \in Seq(S)
      /\ DOMAIN s = 1..Len(s) /\ Len(s) \in Nat /\ Len(Append(s, e)) = Len(s) + 1
  OBVIOUS
<1>2. DOMAIN Append(s, e) = 1..(Len(s) + 1)
  BY <1>1
<1>3. /\ Append(s, e)[Len(s) + 1] = e
      /\ \A i \in DOMAIN s : Append(s, e)[i] = s[i]
  OBVIOUS
<1>4. DOMAIN Append(s, e) = DOMAIN s \cup {Len(s) + 1} /\ Len(s) + 1 \notin DOMAIN s
  BY <1>1, <1>2
<1> QED BY <1>1, <1>3, <1>4, PrefixElements

\* The fragments of a typed manifest.
LEMMA FragmentsTyped ==
  ASSUME NEW m, ManifestTyped(m)
  PROVE  \A i \in DOMAIN m.frags :
           /\ m.frags[i] \in FragmentRecord
           /\ m.frags[i].id \in Nat /\ m.frags[i].cols \subseteq Nat
<1>1. \A i \in DOMAIN m.frags : m.frags[i] \in FragmentRecord
  BY DEF ManifestTyped
<1>2. \A g \in FragmentRecord : g.id \in Nat /\ g.cols \subseteq Nat
  BY DEF FragmentRecord
<1> QED BY <1>1, <1>2

\* A fragment with an id of its own can be appended to a manifest: InsertPrepare
\* and the flush of an AsyncWriter (AppendFragment in async_writer.go:261-272).
LEMMA AppendTyped ==
  ASSUME NEW m, ManifestTyped(m), NEW f \in FragmentRecord, FreeFrom(m, f.id),
         NEW s, SchemaTyped(s), NEW max \in Nat, f.id <= max, m.max <= max \/ f.id = max,
         NEW a, a = TableManifest(s, Append(m.frags, f), max),
         NEW paths, Present(m, paths), \A c \in f.cols : <<f.id, c>> \in paths
  PROVE  /\ ManifestTyped(a) /\ IsPrefix(m.frags, a.frags)
         /\ FreeFrom(a, f.id + 1) /\ Present(a, paths)
<1> DEFINE n == Len(m.frags) + 1
<1>1. m.frags \in Seq(FragmentRecord)
  BY DEF ManifestTyped
<1>2. /\ a.frags \in Seq(FragmentRecord)
      /\ DOMAIN a.frags = DOMAIN m.frags \cup {n} /\ n \notin DOMAIN m.frags
      /\ a.frags[n] = f
      /\ \A i \in DOMAIN m.frags : a.frags[i] = m.frags[i]
      /\ IsPrefix(m.frags, a.frags)
  BY <1>1, AppendFacts DEF TableManifest
<1>3. /\ DOMAIN a = {"whole", "frags", "max", "schema"}
      /\ a.whole = TRUE /\ a.max = max /\ a.schema = s
  BY DEF TableManifest
<1>4. f.id \in Nat /\ \A i \in DOMAIN m.frags : m.frags[i].id \in Nat
  BY FragmentsTyped DEF FragmentRecord
<1>5. \A i \in DOMAIN m.frags : m.frags[i].id < f.id
  BY DEF FreeFrom
<1> HIDE DEF n
<1>6. IsInjective(a.frags)
  <2>1. \A i, j \in DOMAIN m.frags : m.frags[i] = m.frags[j] => i = j
    BY DEF ManifestTyped, IsInjective
  <2>2. \A i \in DOMAIN m.frags : m.frags[i] # f
    BY <1>4, <1>5
  <2> QED BY <1>2, <2>1, <2>2 DEF IsInjective
<1>7. \A i \in DOMAIN a.frags : a.frags[i].id <= max /\ a.frags[i].id < f.id + 1
  BY <1>2, <1>4, <1>5
<1>8. Present(a, paths)
  BY <1>2 DEF Present
<1>9. ManifestTyped(a) /\ FreeFrom(a, f.id + 1)
  BY <1>2, <1>3, <1>6, <1>7 DEF ManifestTyped, FreeFrom
<1> QED BY <1>2, <1>8, <1>9

-----------------------------------------------------------------------------
(* What a step does to the directory *)

\* Nothing whole is rewritten, nothing is deleted, nothing is withdrawn.
Grows ==
  /\ DOMAIN manifests \subseteq DOMAIN manifests'
  /\ \A v \in Whole : manifests'[v] = manifests[v]
  /\ DOMAIN files \subseteq DOMAIN files'
  /\ committed \subseteq committed'

\* A step that writes no manifest.
LEMMA DiskSame ==
  ASSUME DiskInv, UNCHANGED <<manifests, committed>>, DOMAIN files \subseteq DOMAIN files'
  PROVE  /\ DiskInv' /\ Grows /\ Whole' = Whole
         /\ \A m : Present(m, DOMAIN files) => Present(m, DOMAIN files')
<1>1. \A m : Present(m, DOMAIN files) => Present(m, DOMAIN files')
  BY DEF Present
<1>2. Whole' = Whole /\ Grows
  BY DEF Whole, Grows
<1>3. DiskInv'
  BY <1>1, <1>2 DEF DiskInv
<1> QED BY <1>1, <1>2, <1>3

\* Newest is the largest, and there is one as soon as there is any version.
LEMMA NewestFacts ==
  ASSUME DiskInv, DOMAIN manifests # {}
  PROVE  /\ Newest(manifests, LatestVersion(manifests))
         /\ LatestVersion(manifests) \in Nat \ {0}
<1>1. PICK v \in DOMAIN manifests : Newest(manifests, v)
  BY DEF DiskInv
<1>2. DOMAIN manifests \subseteq Nat
  BY DEF DiskInv
<1>3. LatestVersion(manifests) = v
  BY <1>1, <1>2, LatestIsNewest
<1> QED BY <1>1, <1>3 DEF DiskInv

\* A whole manifest is one that parses.
LEMMA WholeTyped == ASSUME DiskInv PROVE \A v \in Whole : ManifestTyped(manifests[v])
BY DEF DiskInv, Whole, TornManifest

\* os.WriteFile truncates the file of a version beyond all others.
LEMMA TearKeeps ==
  ASSUME DiskInv, NEW v \in Nat \ {0}, \A w \in DOMAIN manifests : w < v,
         manifests' = Put(manifests, v, TornManifest), UNCHANGED <<files, committed>>
  PROVE  /\ DiskInv' /\ Grows /\ Whole' = Whole
         /\ Newest(manifests', v) /\ manifests'[v] = TornManifest
         /\ DOMAIN manifests' = DOMAIN manifests \cup {v}
<1>1. /\ DOMAIN manifests' = DOMAIN manifests \cup {v} /\ manifests'[v] = TornManifest
      /\ \A w \in DOMAIN manifests : manifests'[w] = manifests[w]
      /\ v \notin DOMAIN manifests
  BY DEF Put, DiskInv
<1>2. Whole' = Whole
  BY <1>1 DEF Whole, TornManifest
<1>3. Newest(manifests', v)
  BY <1>1 DEF Newest, DiskInv
<1>4. Grows
  BY <1>1 DEF Grows, Whole
<1>5. DiskInv'
  <2>1. \A w \in Whole : w \in DOMAIN manifests /\ manifests'[w] = manifests[w]
    BY <1>1 DEF Whole
  <2>2. \A w \in DOMAIN manifests' :
          manifests'[w] = TornManifest \/ ManifestTyped(manifests'[w])
    BY <1>1 DEF DiskInv
  <2> QED BY <1>1, <1>2, <1>3, <2>1, <2>2 DEF DiskInv
<1> QED BY <1>1, <1>2, <1>3, <1>4, <1>5

\* The newest file, truncated so far, is filled with a successor of all that
\* is committed; it may be committed with that.
LEMMA FillKeeps ==
  ASSUME DiskInv, NEW v, Newest(manifests, v), manifests[v] = TornManifest,
         NEW m, ManifestTyped(m), Present(m, DOMAIN files),
         \A u \in committed : IsPrefix(manifests[u].frags, m.frags),
         manifests' = Put(manifests, v, m), UNCHANGED files,
         committed' = committed \/ committed' = committed \cup {v}
  PROVE  /\ DiskInv' /\ Grows /\ Whole' = Whole \cup {v} /\ v \notin Whole
         /\ Newest(manifests', v) /\ manifests'[v] = m
         /\ DOMAIN manifests' = DOMAIN manifests
<1>1. /\ DOMAIN manifests' = DOMAIN manifests /\ manifests'[v] = m
      /\ \A w \in DOMAIN manifests : w # v => manifests'[w] = manifests[w]
  BY DEF Put, Newest
<1>2. v \notin Whole /\ v \in DOMAIN manifests
  BY DEF Whole, TornManifest, Newest
<1>3. \A w \in Whole : w # v /\ w \in DOMAIN manifests /\ manifests'[w] = manifests[w]
  BY <1>1, <1>2 DEF Whole
<1>4. Whole' = Whole \cup {v}
  BY <1>1, <1>2, <1>3 DEF Whole, ManifestTyped
<1>5. Newest(manifests', v)
  BY <1>1 DEF Newest
<1>6. Grows
  BY <1>1, <1>3 DEF Grows
<1>7. \A w \in DOMAIN manifests' :
        manifests'[w] = TornManifest \/ ManifestTyped(manifests'[w])
  BY <1>1 DEF DiskInv
<1>8. \A w \in Whole' : Present(manifests'[w], DOMAIN files')
  BY <1>1, <1>3, <1>4 DEF DiskInv
<1>9. ASSUME NEW u \in committed', NEW w \in Whole', u <= w
      PROVE  IsPrefix(manifests'[u].frags, manifests'[w].frags)
  <2>1. CASE u = v
    <3>1. w = v
      BY <1>1, <1>4, <1>9, <2>1 DEF Newest, DiskInv, Whole
    <3>2. m.frags \in Seq(FragmentRecord)
      BY DEF ManifestTyped
    <3> QED BY <1>1, <2>1, <3>1, <3>2, PrefixSelf
  <2>2. CASE u # v /\ w = v
    BY <1>1, <1>3, <2>2 DEF DiskInv
  <2>3. CASE u # v /\ w # v
    BY <1>3, <1>4, <1>9, <2>3 DEF DiskInv
  <2> QED BY <2>1, <2>2, <2>3
<1>10. DiskInv'
  BY <1>1, <1>2, <1>4, <1>5, <1>7, <1>8, <1>9 DEF DiskInv
<1> QED BY <1>1, <1>2, <1>4, <1>5, <1>6, <1>10

-----------------------------------------------------------------------------
(* The mutations keep the directory, the object and the writer's part *)

StateInv == DiskInv /\ ObjectInv /\ WriterInv

\* What a mutation does to the rest, besides keeping the invariant.
Kept == StateInv' /\ Grows

\* No table yet: no file, an empty cache.
LEMMA StateInit == Init => StateInv
<1> SUFFICES ASSUME Init PROVE StateInv
  OBVIOUS
<1>1. DOMAIN manifests = {} /\ Whole = {} /\ committed = {} /\ ~open /\ pc = "idle" /\ wpc = "off"
  BY DEF Init, Whole
<1>2. CacheMatchesDisk
  BY DEF Init, CacheMatchesDisk
<1> QED BY <1>1, <1>2 DEF Init, StateInv, DiskInv, ObjectInv, WriterInv

\* No writer runs beside a mutation.
LEMMA MutableAlone == ASSUME KeptApart, StateInv, Mutable PROVE wpc = "off"
BY DEF KeptApart, StateInv, WriterInv, Mutable

\* The newest cached manifest is one on disk, and the cache holds no version
\* beyond those there are.
LEMMA CachedFacts ==
  ASSUME StateInv, open
  PROVE  /\ DOMAIN cached \subseteq Whole /\ DOMAIN cached \subseteq Nat \ {0}
         /\ Newest(cached, LatestVersion(cached))
         /\ LatestVersion(cached) \in Whole
         /\ CachedLatest = manifests[LatestVersion(cached)] /\ ManifestTyped(CachedLatest)
         /\ Present(CachedLatest, DOMAIN files)
         /\ DOMAIN manifests # {}
<1>1. DOMAIN cached \subseteq Whole /\ \A v \in DOMAIN cached : cached[v] = manifests[v]
  BY DEF StateInv, ObjectInv, CacheMatchesDisk
<1>2. DOMAIN cached \subseteq Nat \ {0}
  BY <1>1 DEF StateInv, DiskInv, Whole
<1>3. PICK v \in DOMAIN cached : Newest(cached, v)
  BY DEF StateInv, ObjectInv
<1>4. LatestVersion(cached) = v
  BY <1>2, <1>3, LatestIsNewest
<1>5. v \in Whole /\ v \in DOMAIN manifests
  BY <1>1, <1>3 DEF Whole
<1>6. CachedLatest = manifests[v]
  BY <1>1, <1>3, <1>4 DEF CachedLatest
<1>7. ManifestTyped(manifests[v]) /\ Present(manifests[v], DOMAIN files)
  BY <1>5, WholeTyped DEF StateInv, DiskInv
<1> QED BY <1>1, <1>2, <1>3, <1>4, <1>5, <1>6, <1>7

\* Every committed version is one the newest cached manifest extends.
LEMMA CommittedInCached ==
  ASSUME StateInv, open, wpc = "off", NEW u \in committed
  PROVE  IsPrefix(manifests[u].frags, CachedLatest.frags)
<1>1. u <= LatestVersion(cached)
  BY DEF StateInv, ObjectInv, CountersInv
<1>2. LatestVersion(cached) \in Whole /\ CachedLatest = manifests[LatestVersion(cached)]
  BY CachedFacts
<1> QED BY <1>1, <1>2 DEF StateInv, DiskInv

\* A step that leaves manifests, object and writer alone, and the mutation too.
LEMMA QuietKeeps ==
  ASSUME StateInv, UNCHANGED <<manifests, object, pc, op, writer, committed>>,
         DOMAIN files \subseteq DOMAIN files'
  PROVE  Kept
<1>1. /\ DiskInv' /\ Grows /\ Whole' = Whole
      /\ \A m : Present(m, DOMAIN files) => Present(m, DOMAIN files')
  BY DiskSame DEF StateInv
<1>2. CountersInv => CountersInv'
  BY DEF CountersInv, CachedLatest, object
<1>3. PendingInv => PendingInv'
  BY <1>1 DEF PendingInv, CachedLatest, object
<1>4. CacheMatchesDisk => CacheMatchesDisk'
  BY <1>1 DEF CacheMatchesDisk, object
<1>5. ObjectInv'
  BY <1>1, <1>2, <1>3, <1>4 DEF StateInv, ObjectInv, object, writer
<1>6. WriterInv'
  BY <1>1 DEF StateInv, WriterInv, object, writer
<1> QED BY <1>1, <1>5, <1>6 DEF Kept, StateInv

\* The deferred Unlock, of a mutation that has written no manifest since
\* nextVersion moved, or has written that of nextVersion - 1.
LEMMA ReturnKeeps ==
  ASSUME StateInv, pc # "idle", Return, DiskInv', Grows, UNCHANGED <<object, writer, committed>>,
         \A v \in DOMAIN manifests' : v < nextVersion
  PROVE  Kept
<1>1. open /\ wpc = "off" /\ pc' = "idle"
  BY DEF StateInv, ObjectInv, Return
<1>2. CacheMatchesDisk'
  BY <1>1 DEF StateInv, ObjectInv, CacheMatchesDisk, object, Grows, Whole
<1>3. CountersInv'
  BY <1>1 DEF StateInv, ObjectInv, CountersInv, CachedLatest, object
<1>4. ObjectInv'
  BY <1>1, <1>2, <1>3 DEF StateInv, ObjectInv, object, writer
<1>5. WriterInv'
  BY <1>1 DEF StateInv, WriterInv, writer
<1> QED BY <1>4, <1>5 DEF Kept, StateInv

\* BatchInsert takes the lock and an id beyond all used ones.
LEMMA InsertCallKeeps ==
  ASSUME KeptApart, StateInv, NEW b \in Batches, InsertCall(b) PROVE Kept
<1>1. wpc = "off" /\ open /\ pc = "idle"
  BY MutableAlone DEF InsertCall, Mutable
<1>2. /\ pc' = "column"
      /\ UNCHANGED <<manifests, files, open, schema, nextVersion, nextFragmentID, cached,
                     wpc, committed>>
  BY DEF InsertCall, disk, object, writer
<1>3. DiskInv' /\ Grows /\ Whole' = Whole
  BY <1>2, DiskSame DEF StateInv
<1>4. PICK v \in Whole :
        op' = [kind |-> "insert", batch |-> b, left |-> Ids(manifests[v].schema), cols |-> {}]
  BY DEF InsertCall, Whole
<1>5. Ids(manifests[v].schema) \subseteq Nat
  BY WholeTyped DEF StateInv, ManifestTyped, SchemaTyped
<1>6. op' \in InsertOp /\ op'.cols = {}
  BY <1>4, <1>5 DEF InsertOp
<1>7. CountersInv' /\ CacheMatchesDisk'
  BY <1>1, <1>2, <1>3 DEF StateInv, ObjectInv, CountersInv, CachedLatest, CacheMatchesDisk
<1>8. ObjectInv'
  BY <1>1, <1>2, <1>6, <1>7 DEF StateInv, ObjectInv
<1>9. WriterInv'
  BY <1>1, <1>2 DEF WriterInv
<1> QED BY <1>3, <1>8, <1>9 DEF Kept, StateInv

\* BatchInsert writes a column file that no manifest names.
LEMMA InsertColumnKeeps ==
  ASSUME StateInv, NEW f, InsertColumn(f) PROVE Kept
<1>1. /\ pc = "column" /\ f \in op.left /\ op \in InsertOp /\ open /\ wpc = "off"
      /\ \A c \in op.cols : <<nextFragmentID, c>> \in DOMAIN files
  BY DEF InsertColumn, StateInv, ObjectInv
<1>2. f \in Nat
  BY <1>1 DEF InsertOp
<1>3. op' \in InsertOp /\ op'.cols = op.cols \cup {f}
  BY <1>1, <1>2 DEF InsertColumn, InsertOp
<1>4. DOMAIN files' = DOMAIN files \cup {<<nextFragmentID, f>>}
  BY DEF InsertColumn, Put
<1>5. UNCHANGED <<manifests, open, schema, nextVersion, nextFragmentID, cached, pc, wpc,
                  committed>>
  BY DEF InsertColumn, object, writer
<1>6. DiskInv' /\ Grows /\ Whole' = Whole
  BY <1>4, <1>5, DiskSame DEF StateInv
<1>7. CountersInv' /\ CacheMatchesDisk'
  BY <1>1, <1>5, <1>6 DEF StateInv, ObjectInv, CountersInv, CachedLatest, CacheMatchesDisk
<1>8. ObjectInv'
  BY <1>1, <1>3, <1>4, <1>5, <1>7 DEF StateInv, ObjectInv
<1>9. WriterInv'
  BY <1>1, <1>5 DEF WriterInv
<1> QED BY <1>6, <1>8, <1>9 DEF Kept, StateInv

\* BatchInsert fails in a column: the id stays used up.
LEMMA InsertColumnFailsKeeps ==
  ASSUME StateInv, NEW f, InsertColumnFails(f) PROVE Kept
<1>1. pc = "column" /\ open /\ wpc = "off" /\ \A v \in DOMAIN manifests : v < nextVersion
  BY DEF InsertColumnFails, StateInv, ObjectInv, CountersInv
<1>2. DOMAIN files \subseteq DOMAIN files'
  BY DEF InsertColumnFails, Put
<1>3. UNCHANGED <<manifests, object, writer, committed>> /\ Return
  BY DEF InsertColumnFails
<1>4. DiskInv' /\ Grows
  BY <1>2, <1>3, DiskSame DEF StateInv
<1> QED BY <1>1, <1>3, <1>4, ReturnKeeps

\* A manifest that extends the newest cached one is ready to be written.
LEMMA PrepareKeeps ==
  ASSUME StateInv, pc \in {"idle", "column"}, open, wpc = "off",
         NEW kind, NEW m, ManifestTyped(m), Prepare(kind, nextVersion, m, m.schema),
         IsPrefix(CachedLatest.frags, m.frags), Present(m, DOMAIN files),
         nextFragmentID' \in Nat, FreeFrom(m, nextFragmentID'),
         FreeFrom(CachedLatest, nextFragmentID'),
         UNCHANGED <<disk, open, schema, cached, writer, committed>>
  PROVE  Kept
<1>1. /\ pc' = "write" /\ op'.version = nextVersion /\ op'.manifest = m
      /\ op'.schema = m.schema /\ nextVersion' = nextVersion + 1
  BY DEF Prepare
<1>2. /\ nextVersion \in Nat /\ \A v \in DOMAIN manifests : v < nextVersion
      /\ \A u \in committed : u < nextVersion
  BY DEF StateInv, ObjectInv, CountersInv, DiskInv, Whole
<1>3. DiskInv' /\ Grows /\ Whole' = Whole
  BY DiskSame DEF StateInv, disk
<1>4. PendingInv'
  BY <1>1, <1>2 DEF PendingInv, CachedLatest, disk
<1>5. CountersInv' /\ CacheMatchesDisk'
  BY <1>1, <1>3 DEF StateInv, ObjectInv, CountersInv, CachedLatest, CacheMatchesDisk, disk
<1>6. ObjectInv'
  BY <1>1, <1>2, <1>4, <1>5 DEF StateInv, ObjectInv, writer
<1>7. WriterInv'
  BY DEF WriterInv, writer
<1> QED BY <1>3, <1>6, <1>7 DEF Kept, StateInv

\* BatchInsert builds the manifest on the newest one in the cache.
LEMMA InsertPrepareKeeps == ASSUME StateInv, InsertPrepare PROVE Kept
<1> DEFINE g == [id |-> nextFragmentID, cols |-> op.cols]
           m == TableManifest(schema, Append(CachedLatest.frags, g), nextFragmentID)
<1>1. /\ pc = "column" /\ open /\ wpc = "off" /\ op \in InsertOp
      /\ nextFragmentID \in Nat /\ nextFragmentID' = nextFragmentID + 1
      /\ SchemaTyped(schema) /\ FreeFrom(CachedLatest, nextFragmentID)
      /\ \A c \in op.cols : <<nextFragmentID, c>> \in DOMAIN files
  BY DEF InsertPrepare, StateInv, ObjectInv, CountersInv
<1>2. Prepare("insert", nextVersion, m, m.schema)
  BY DEF InsertPrepare, TableManifest
<1>3. /\ g \in FragmentRecord /\ g.id = nextFragmentID
      /\ \A c \in g.cols : <<g.id, c>> \in DOMAIN files
  BY <1>1 DEF InsertOp, FragmentRecord
<1>4. ManifestTyped(CachedLatest) /\ Present(CachedLatest, DOMAIN files)
  BY <1>1, CachedFacts
<1>5. /\ ManifestTyped(m) /\ IsPrefix(CachedLatest.frags, m.frags)
      /\ FreeFrom(m, nextFragmentID + 1) /\ Present(m, DOMAIN files)
  <2> HIDE DEF g
  <2> QED BY <1>1, <1>3, <1>4, AppendTyped
<1>6. FreeFrom(CachedLatest, nextFragmentID')
  <2>1. \A i \in DOMAIN CachedLatest.frags : CachedLatest.frags[i].id \in Nat
    BY <1>4, FragmentsTyped
  <2> QED BY <1>1, <2>1 DEF FreeFrom
<1>7. UNCHANGED <<disk, open, schema, cached, writer, committed>>
  BY DEF InsertPrepare
<1> HIDE DEF m
<1> QED BY <1>1, <1>2, <1>5, <1>6, <1>7, PrepareKeeps

\* A new schema over the fragments of the newest manifest.
LEMMA EvolveKeeps ==
  ASSUME StateInv, pc = "idle", open, wpc = "off", NEW kind, NEW s, SchemaTyped(s),
         Evolve(kind, s)
  PROVE  Kept
<1> DEFINE m == TableManifest(s, CachedLatest.frags, CachedLatest.max)
<1>1. ManifestTyped(CachedLatest) /\ Present(CachedLatest, DOMAIN files)
  BY CachedFacts
<1>2. ManifestTyped(m) /\ Present(m, DOMAIN files) /\ m.frags = CachedLatest.frags
  BY <1>1 DEF ManifestTyped, Present, TableManifest
<1>3. IsPrefix(CachedLatest.frags, m.frags)
  BY <1>1, <1>2, PrefixSelf DEF ManifestTyped
<1>4. FreeFrom(CachedLatest, nextFragmentID) /\ nextFragmentID \in Nat
  BY DEF StateInv, ObjectInv, CountersInv
<1>5. FreeFrom(m, nextFragmentID)
  BY <1>2, <1>4 DEF FreeFrom
<1>6. /\ Prepare(kind, nextVersion, m, m.schema)
      /\ UNCHANGED <<disk, open, schema, nextFragmentID, cached, writer, committed>>
  BY DEF Evolve, TableManifest
<1> HIDE DEF m
<1> QED BY <1>2, <1>3, <1>4, <1>5, <1>6, PrepareKeeps

\* NextFieldID is a number larger than any id there is.
LEMMA NextFieldIDFacts ==
  ASSUME SchemaTyped(schema)
  PROVE  NextFieldID \in Nat /\ \A id \in Ids(schema) : id \in Nat /\ id < NextFieldID
<1> DEFINE S == Ids(schema)
           m == CHOOSE m \in S \cup {0} : \A id \in S : id <= m
<1>1. S \subseteq Nat
  BY DEF SchemaTyped
<1>2. \E n \in S \cup {0} : \A id \in S : id <= n
  BY DEF SchemaTyped
<1>3. m \in S \cup {0} /\ \A id \in S : id <= m
  BY <1>2
<1>4. NextFieldID = m + 1
  BY DEF NextFieldID
<1> HIDE DEF m, S
<1>5. NextFieldID \in Nat /\ \A id \in S : id \in Nat /\ id < NextFieldID
  BY <1>1, <1>3, <1>4
<1> QED BY <1>5 DEF S

\* AddColumn is such a change.
LEMMA AddColumnKeeps ==
  ASSUME KeptApart, StateInv, adds \in Nat, NEW n, AddColumn(n) PROVE Kept
<1> DEFINE s == Put(schema, n, NextFieldID)
<1>1. wpc = "off" /\ open /\ pc = "idle" /\ n \notin DOMAIN schema
  BY MutableAlone DEF AddColumn, Mutable
<1>2. SchemaTyped(schema)
  BY <1>1 DEF StateInv, ObjectInv
<1>3. NextFieldID \in Nat
  BY <1>2, NextFieldIDFacts
<1>4. Ids(s) = Ids(schema) \cup {NextFieldID}
  BY <1>1 DEF Ids, Put
<1>5. \A id \in Ids(s) : id <= NextFieldID
  BY <1>2, <1>3, <1>4, NextFieldIDFacts
<1>6. SchemaTyped(s)
  BY <1>2, <1>3, <1>4, <1>5 DEF SchemaTyped
<1>7. Evolve("add", s)
  BY DEF AddColumn
<1> QED BY <1>1, <1>6, <1>7, EvolveKeeps

\* A part of a typed schema is typed.
LEMMA SchemaPart ==
  ASSUME NEW s, SchemaTyped(s), NEW t, Ids(t) \subseteq Ids(s) PROVE SchemaTyped(t)
<1> DEFINE S == Ids(s)
           T == Ids(t)
<1>1. T \subseteq S /\ S \subseteq Nat
  BY DEF SchemaTyped
<1>2. PICK m \in S \cup {0} : \A id \in S : id <= m
  BY DEF SchemaTyped
<1>3. \E n \in T \cup {0} : \A id \in T : id <= n
  <2>1. CASE T = {}
    BY <2>1
  <2>2. CASE T # {}
    <3>1. T \in SUBSET Nat /\ m \in Nat /\ \A x \in T : x <= m
      BY <1>1, <1>2
    <3> HIDE DEF T
    <3> QED BY <2>2, <3>1, MaxExists
  <2> QED BY <2>1, <2>2
<1> QED BY <1>3 DEF SchemaTyped

\* DropColumn is such a change.
LEMMA DropColumnKeeps ==
  ASSUME KeptApart, StateInv, NEW n, DropColumn(n) PROVE Kept
<1> DEFINE s == [k \in DOMAIN schema \ {n} |-> schema[k]]
<1>1. wpc = "off" /\ open /\ pc = "idle"
  BY MutableAlone DEF DropColumn, Mutable
<1>2. SchemaTyped(s)
  BY <1>1, SchemaPart DEF StateInv, ObjectInv, Ids
<1> QED BY <1>1, <1>2, EvolveKeeps DEF DropColumn

\* The write of a manifest begins: its file is truncated.
LEMMA WriteManifestKeeps == ASSUME StateInv, WriteManifest PROVE Kept
<1>1. /\ pc = "write" /\ pc' = "fill" /\ open /\ wpc = "off"
      /\ manifests' = Put(manifests, op.version, TornManifest)
      /\ UNCHANGED <<files, open, schema, nextVersion, nextFragmentID, cached, op, wpc, committed>>
  BY DEF WriteManifest, object, writer, StateInv, ObjectInv
<1>2. PendingInv
  BY <1>1 DEF StateInv, ObjectInv
<1>3. \A v \in DOMAIN manifests : v < op.version /\ v \in Nat
  BY <1>1, <1>2 DEF PendingInv, StateInv, DiskInv
<1>4. op.version \in Nat \ {0}
  <2>1. LatestVersion(cached) \in DOMAIN manifests
    BY <1>1, CachedFacts DEF Whole
  <2> QED BY <1>2, <1>3, <2>1 DEF PendingInv
<1>5. /\ DiskInv' /\ Grows /\ Whole' = Whole
      /\ Newest(manifests', op.version) /\ manifests'[op.version] = TornManifest
  BY <1>1, <1>3, <1>4, TearKeeps DEF StateInv
<1>6. PendingInv'
  BY <1>1, <1>2, <1>5 DEF PendingInv, CachedLatest
<1>7. CountersInv' /\ CacheMatchesDisk'
  BY <1>1, <1>5 DEF StateInv, ObjectInv, CountersInv, CachedLatest, CacheMatchesDisk, Grows
<1>8. ObjectInv'
  BY <1>1, <1>6, <1>7 DEF StateInv, ObjectInv
<1>9. WriterInv'
  BY <1>1 DEF WriterInv
<1> QED BY <1>5, <1>8, <1>9 DEF Kept, StateInv

\* The file is filled: by FillManifest, or by a write that errs all the same.
LEMMA FilledKeeps ==
  ASSUME StateInv, pc = "fill", manifests' = Put(manifests, op.version, op.manifest),
         UNCHANGED <<files, committed>>
  PROVE  /\ DiskInv' /\ Grows /\ Whole' = Whole \cup {op.version}
         /\ Newest(manifests', op.version) /\ manifests'[op.version] = op.manifest
         /\ DOMAIN manifests' = DOMAIN manifests
<1>1. /\ open /\ wpc = "off" /\ PendingInv
      /\ Newest(manifests, op.version) /\ manifests[op.version] = TornManifest
      /\ ManifestTyped(op.manifest) /\ Present(op.manifest, DOMAIN files)
      /\ IsPrefix(CachedLatest.frags, op.manifest.frags)
  BY DEF StateInv, ObjectInv, PendingInv
<1>2. ASSUME NEW u \in committed PROVE IsPrefix(manifests[u].frags, op.manifest.frags)
  <2>1. IsPrefix(manifests[u].frags, CachedLatest.frags)
    BY <1>1, CommittedInCached
  <2>2. manifests[u].frags \in Seq(FragmentRecord)
    BY WholeTyped DEF StateInv, DiskInv, ManifestTyped
  <2>3. CachedLatest.frags \in Seq(FragmentRecord) /\ op.manifest.frags \in Seq(FragmentRecord)
    BY <1>1, CachedFacts DEF ManifestTyped
  <2> QED BY <1>1, <2>1, <2>2, <2>3, PrefixTransitive
<1> QED BY <1>1, <1>2, FillKeeps DEF StateInv

\* The truncated manifest file is filled.
LEMMA FillManifestKeeps == ASSUME StateInv, FillManifest PROVE Kept
<1>1. /\ pc = "fill" /\ pc' = "publish" /\ open /\ wpc = "off"
      /\ manifests' = Put(manifests, op.version, op.manifest)
      /\ UNCHANGED <<files, open, schema, nextVersion, nextFragmentID, cached, op, wpc, committed>>
  BY DEF FillManifest, object, writer, StateInv, ObjectInv
<1>2. /\ DiskInv' /\ Grows /\ Whole' = Whole \cup {op.version}
      /\ Newest(manifests', op.version) /\ manifests'[op.version] = op.manifest
  BY <1>1, FilledKeeps
<1>3. PendingInv'
  BY <1>1, <1>2 DEF StateInv, ObjectInv, PendingInv, CachedLatest
<1>4. CountersInv' /\ CacheMatchesDisk'
  BY <1>1, <1>2 DEF StateInv, ObjectInv, CountersInv, CachedLatest, CacheMatchesDisk, Grows
<1>5. ObjectInv'
  BY <1>1, <1>3, <1>4 DEF StateInv, ObjectInv
<1>6. WriterInv'
  BY <1>1 DEF WriterInv
<1> QED BY <1>2, <1>5, <1>6 DEF Kept, StateInv

\* The write of the manifest fails: its version stays used up.
LEMMA WriteManifestFailsKeeps == ASSUME StateInv, WriteManifestFails PROVE Kept
<1>1. /\ pc \in {"write", "fill"} /\ Return
      /\ UNCHANGED <<files, object, writer, committed>>
      /\ \/ UNCHANGED manifests
         \/ pc = "fill" /\ manifests' = Put(manifests, op.version, op.manifest)
  BY DEF WriteManifestFails
<1>2. PendingInv
  BY <1>1 DEF StateInv, ObjectInv
<1>3. \A v \in DOMAIN manifests : v \in Nat /\ v < nextVersion
  BY <1>1, <1>2 DEF PendingInv, Newest, StateInv, DiskInv
<1>4. DiskInv' /\ Grows /\ DOMAIN manifests' = DOMAIN manifests
  <2>1. CASE UNCHANGED manifests
    BY <1>1, <2>1, DiskSame DEF StateInv
  <2>2. CASE pc = "fill" /\ manifests' = Put(manifests, op.version, op.manifest)
    BY <1>1, <2>2, FilledKeeps
  <2> QED BY <1>1, <2>1, <2>2
<1> QED BY <1>1, <1>3, <1>4, ReturnKeeps

\* The call returns nil: the newest cached manifest is the one just written.
LEMMA PublishingKeeps == ASSUME StateInv, Publishing PROVE Kept
<1> DEFINE v == op.version
           m == op.manifest
<1>1. /\ pc = "publish" /\ open /\ wpc = "off" /\ PendingInv
      /\ pc' = "idle" /\ schema' = op.schema /\ cached' = Publish(v, m)
      /\ committed' = committed \cup {v}
      /\ UNCHANGED <<manifests, files, open, nextVersion, nextFragmentID, wpc>>
  BY DEF Publishing, Return, StateInv, ObjectInv, disk, writer
<1>2. /\ v \in Nat /\ nextVersion = v + 1 /\ Newest(manifests, v) /\ manifests[v] = m
      /\ ManifestTyped(m) /\ m.schema = op.schema /\ FreeFrom(m, nextFragmentID)
      /\ IsPrefix(CachedLatest.frags, m.frags)
  BY <1>1 DEF PendingInv
<1>3. v \in Whole /\ DOMAIN manifests \subseteq Nat
  BY <1>2 DEF Whole, Newest, ManifestTyped, StateInv, DiskInv
<1>4. /\ Newest(Publish(v, m), v) /\ Publish(v, m)[v] = m
      /\ \A w \in DOMAIN Publish(v, m) :
           w # v => w \in DOMAIN cached /\ Publish(v, m)[w] = cached[w]
  <2>1. DOMAIN cached \subseteq Nat /\ DOMAIN cached \subseteq DOMAIN manifests
    BY <1>1, CachedFacts DEF Whole
  <2>2. \A w \in DOMAIN cached : w <= v
    BY <1>2, <2>1 DEF Newest
  <2> HIDE DEF m, v
  <2> QED BY <1>2, <2>1, <2>2, PublishFacts
<1>5. Whole' = Whole /\ Grows
  BY <1>1 DEF Whole, Grows
<1>6. DiskInv'
  <2>1. ASSUME NEW u \in committed', NEW w \in Whole, u <= w
        PROVE  IsPrefix(manifests[u].frags, manifests[w].frags)
    <3>1. CASE u = v
      <4>1. w = v
        BY <1>2, <1>3, <2>1, <3>1 DEF Newest, Whole
      <4> QED BY <1>2, <3>1, <4>1, PrefixSelf DEF ManifestTyped
    <3>2. CASE u # v
      BY <1>1, <2>1, <3>2 DEF StateInv, DiskInv
    <3> QED BY <3>1, <3>2
  <2> QED BY <1>1, <1>3, <1>5, <2>1 DEF StateInv, DiskInv
<1> HIDE DEF m, v
<1>7. CacheMatchesDisk'
  <2>1. \A w \in DOMAIN cached : w \in Whole /\ manifests[w] = cached[w]
    BY <1>1 DEF CacheMatchesDisk, StateInv, ObjectInv
  <2>2. ASSUME NEW w \in DOMAIN cached' PROVE w \in Whole /\ manifests[w] = cached'[w]
    BY <1>1, <1>2, <1>3, <1>4, <2>1
  <2> QED BY <1>1, <1>5, <2>2 DEF CacheMatchesDisk
<1>8. LatestVersion(cached') = v /\ DOMAIN cached' \subseteq Nat
  <2>1. DOMAIN cached' \subseteq Nat
    BY <1>3, <1>5, <1>7 DEF CacheMatchesDisk, Whole
  <2> QED BY <1>1, <1>4, <2>1, LatestIsNewest
<1>9. LatestVersion(cached)' = v /\ CachedLatest' = m
  BY <1>1, <1>4, <1>8 DEF CachedLatest
<1>10. \A u \in committed' : u <= v
  BY <1>1, <1>2, <1>3 DEF Newest, StateInv, DiskInv, Whole
<1>11. CountersInv'
  <2>1. \A w \in DOMAIN manifests : w < nextVersion
    BY <1>2, <1>3 DEF Newest
  <2> QED BY <1>1, <1>2, <1>9, <1>10, <2>1 DEF CountersInv, FreeFrom
<1>12. ObjectInv'
  <2>1. SchemaTyped(schema)' /\ nextVersion \in Nat /\ nextFragmentID \in Nat
    BY <1>1, <1>2 DEF ManifestTyped, StateInv, ObjectInv
  <2>2. \E w \in DOMAIN cached' : Newest(cached', w)
    BY <1>1, <1>4 DEF Newest
  <2> QED BY <1>1, <1>7, <1>11, <2>1, <2>2 DEF ObjectInv
<1>13. WriterInv'
  BY <1>1 DEF WriterInv
<1> QED BY <1>5, <1>6, <1>12, <1>13 DEF Kept, StateInv

\* Every step of a mutation of the Table.
LEMMA MutateKeeps == ASSUME KeptApart, StateInv, Counted, Mutate PROVE Kept
BY InsertCallKeeps, InsertColumnKeeps, InsertColumnFailsKeeps, InsertPrepareKeeps,
   AddColumnKeeps, DropColumnKeeps, WriteManifestKeeps, FillManifestKeeps,
   WriteManifestFailsKeeps, PublishingKeeps
DEF Mutate, Counted

-----------------------------------------------------------------------------
(* Opening, closing and the AsyncWriter *)

\* An object whose cache holds the newest manifest, and nobody uses yet.
LEMMA OpenedKeeps ==
  ASSUME DiskInv', Grows, pc = "idle", wpc = "off", UNCHANGED <<pc, op, wpc>>,
         NEW v \in Nat, NEW frag \in Nat, Newest(manifests', v), v \in Whole',
         Opened(manifests'[v].schema, v + 1, frag, v, manifests'[v]),
         FreeFrom(manifests'[v], frag)
  PROVE  Kept
<1>1. /\ open' = TRUE /\ nextVersion' = v + 1 /\ nextFragmentID' = frag
      /\ schema' = manifests'[v].schema
      /\ DOMAIN cached' = {v} /\ cached'[v] = manifests'[v]
  BY DEF Opened
<1>2. SchemaTyped(schema)'
  BY <1>1 DEF DiskInv, Whole, ManifestTyped, TornManifest
<1>3. Newest(cached', v) /\ CacheMatchesDisk'
  BY <1>1 DEF Newest, CacheMatchesDisk
<1>4. LatestVersion(cached') = v
  BY <1>1, <1>3, LatestIsNewest
<1>5. LatestVersion(cached)' = v /\ CachedLatest' = manifests'[v]
  BY <1>1, <1>4 DEF CachedLatest
<1>6. DOMAIN manifests' \subseteq Nat /\ committed' \subseteq DOMAIN manifests'
  BY DEF DiskInv, Whole
<1>7. \A w \in DOMAIN manifests' : w <= v /\ w < v + 1
  BY <1>6 DEF Newest
<1>8. CountersInv'
  BY <1>1, <1>5, <1>6, <1>7 DEF CountersInv
<1>9. ObjectInv'
  <2>1. \E w \in DOMAIN cached' : Newest(cached', w)
    BY <1>3 DEF Newest
  <2> QED BY <1>1, <1>2, <1>3, <1>8, <2>1 DEF ObjectInv
<1>10. WriterInv'
  BY DEF WriterInv
<1> QED BY <1>9, <1>10 DEF Kept, StateInv

\* NewSchema gives the n-th column the id n - 1.
LEMMA NewSchemaTyped == SchemaTyped(NewSchema)
<1>1. /\ Len(InitialColumns) \in Nat /\ DOMAIN InitialColumns = 1..Len(InitialColumns)
  BY NamesAssumption
<1>2. DOMAIN NewSchema = ToSet(InitialColumns)
  BY DEF NewSchema
<1>3. ASSUME NEW n \in DOMAIN NewSchema
      PROVE  NewSchema[n] \in Nat /\ NewSchema[n] <= Len(InitialColumns)
  <2> DEFINE i == CHOOSE i \in DOMAIN InitialColumns : InitialColumns[i] = n
  <2>1. i \in DOMAIN InitialColumns
    BY <1>2, <1>3 DEF ToSet
  <2>2. NewSchema[n] = i - 1
    BY <1>2, <1>3 DEF NewSchema
  <2> HIDE DEF i
  <2>3. i - 1 \in Nat /\ i - 1 <= Len(InitialColumns)
    BY <1>1, <2>1
  <2> QED BY <2>2, <2>3
<1> DEFINE S == Ids(NewSchema)
<1>4. S \subseteq Nat /\ \A id \in S : id <= Len(InitialColumns)
  BY <1>3 DEF Ids
<1>5. \E n \in S \cup {0} : \A id \in S : id <= n
  <2> HIDE DEF S
  <2>1. CASE S = {}
    BY <2>1
  <2>2. CASE S # {}
    BY <1>1, <1>4, <2>2, MaxExists
  <2> QED BY <2>1, <2>2
<1> QED BY <1>4, <1>5 DEF SchemaTyped

\* Create writes version 1.
LEMMA CreateKeeps == ASSUME StateInv, Create PROVE Kept
<1> DEFINE m == TableManifest(NewSchema, <<>>, 0)
<1>1. /\ open = FALSE /\ DOMAIN manifests = {} /\ committed = {} /\ Whole = {} /\ pc = "idle" /\ wpc = "off"
      /\ UNCHANGED <<files, pc, op, wpc>>
  BY DEF Create, StateInv, ObjectInv, WriterInv, DiskInv, Whole, writer
<1>2. /\ ManifestTyped(m) /\ m.whole = TRUE /\ m.schema = NewSchema
      /\ FreeFrom(m, 0) /\ Present(m, DOMAIN files) /\ m.frags = <<>>
  <2>1. /\ DOMAIN m = {"whole", "frags", "max", "schema"}
        /\ m.frags = <<>> /\ m.whole = TRUE /\ m.max = 0 /\ m.schema = NewSchema
    BY DEF TableManifest
  <2>0. DOMAIN <<>> = {} /\ <<>> \in Seq(FragmentRecord)
    OBVIOUS
  <2>2. DOMAIN m.frags = {} /\ m.frags \in Seq(FragmentRecord)
    BY <2>0, <2>1
  <2> HIDE DEF m
  <2> QED BY <2>1, <2>2, NewSchemaTyped DEF ManifestTyped, FreeFrom, Present, IsInjective
<1> HIDE DEF m
<1>3. ASSUME NEW x, x = m \/ x = TornManifest, manifests' = Put(manifests, 1, x),
             committed' \in {{}, {1}}, committed' = {1} => x = m
      PROVE  /\ DiskInv' /\ Grows /\ Newest(manifests', 1)
             /\ manifests'[1] = x /\ (x = m => 1 \in Whole')
  <2>1. DOMAIN manifests' = {1} /\ manifests'[1] = x
    BY <1>1, <1>3 DEF Put
  <2>2. Newest(manifests', 1)
    BY <2>1 DEF Newest
  <2>3. Whole' = {w \in {1} : x.whole}
    BY <2>1 DEF Whole
  <2>4. \A u \in committed' : \A w \in Whole' : IsPrefix(manifests'[u].frags, manifests'[w].frags)
    <3>1. ASSUME NEW u \in committed', NEW w \in Whole'
          PROVE  IsPrefix(manifests'[u].frags, manifests'[w].frags)
      <4>1. u = 1 /\ w = 1 /\ x = m
        BY <1>3, <2>3
      <4> QED BY <1>2, <2>1, <4>1, PrefixSelf DEF ManifestTyped
    <3> QED BY <3>1
  <2>5. Grows
    BY <1>1 DEF Grows
  <2>6. Whole' \subseteq {1} /\ (1 \in Whole' => x = m) /\ (x = m => 1 \in Whole')
    BY <1>2, <1>3, <2>3 DEF TornManifest
  <2>7. committed' \subseteq Whole'
    BY <1>3, <2>6
  <2>8. DiskInv'
    BY <1>1, <1>2, <1>3, <2>1, <2>2, <2>4, <2>6, <2>7 DEF DiskInv
  <2> QED BY <2>1, <2>2, <2>5, <2>6, <2>8
<1>4. CASE /\ manifests' = Put(manifests, 1, m) /\ Opened(NewSchema, 2, 0, 1, m)
           /\ committed' = {1}
  <2>1. DiskInv' /\ Grows /\ Newest(manifests', 1) /\ manifests'[1] = m /\ 1 \in Whole'
    BY <1>3, <1>4
  <2>2. Opened(manifests'[1].schema, 1 + 1, 0, 1, manifests'[1])
    BY <1>2, <1>4, <2>1
  <2> QED BY <1>1, <1>2, <2>1, <2>2, OpenedKeeps
<1>5. CASE /\ \/ UNCHANGED manifests
              \/ manifests' = Put(manifests, 1, TornManifest)
              \/ manifests' = Put(manifests, 1, m)
           /\ UNCHANGED <<object, committed>>
  <2>1. DiskInv' /\ Grows
    <3>1. CASE UNCHANGED manifests
      BY <1>1, <1>5, <3>1, DiskSame DEF StateInv
    <3>2. CASE manifests' = Put(manifests, 1, TornManifest) \/ manifests' = Put(manifests, 1, m)
      BY <1>1, <1>3, <1>5, <3>2
    <3> QED BY <1>5, <3>1, <3>2
  <2>4. CacheMatchesDisk'
    BY <1>1, <1>5 DEF CacheMatchesDisk, StateInv, ObjectInv, object
  <2>2. ObjectInv'
    BY <1>1, <1>5, <2>4 DEF ObjectInv, object
  <2>3. WriterInv'
    BY <1>1 DEF WriterInv
  <2> QED BY <2>1, <2>2, <2>3 DEF Kept, StateInv
<1> QED BY <1>4, <1>5 DEF Create, m

\* Open reads the newest manifest and sets the counters beyond it.
LEMMA OpenKeeps == ASSUME StateInv, Open PROVE Kept
<1> DEFINE v == LatestVersion(manifests)
<1>1. /\ ~open /\ DOMAIN manifests # {} /\ v \in Whole
      /\ Opened(manifests[v].schema, v + 1, manifests[v].max + 1, v, manifests[v])
      /\ UNCHANGED <<manifests, files, pc, op, wpc, committed>>
  BY DEF Open, Readable, Whole, FirstFreeFragment, disk, writer
<1>2. pc = "idle" /\ wpc = "off"
  BY <1>1 DEF StateInv, ObjectInv, WriterInv
<1>3. DiskInv' /\ Grows /\ Whole' = Whole
  BY <1>1, DiskSame DEF StateInv
<1>4. Newest(manifests, v) /\ v \in Nat /\ ManifestTyped(manifests[v])
  BY <1>1, NewestFacts, WholeTyped DEF StateInv
<1>5. manifests[v].max + 1 \in Nat /\ FreeFrom(manifests[v], manifests[v].max + 1)
  <2>1. /\ manifests[v].max \in Nat
        /\ \A i \in DOMAIN manifests[v].frags :
             manifests[v].frags[i].id \in Nat /\ manifests[v].frags[i].id <= manifests[v].max
    BY <1>4, FragmentsTyped DEF ManifestTyped
  <2> QED BY <2>1 DEF FreeFrom
<1> HIDE DEF v
<1>6. /\ manifests' = manifests /\ Newest(manifests', v) /\ v \in Whole'
  BY <1>1, <1>3, <1>4
<1> QED BY <1>1, <1>2, <1>3, <1>4, <1>5, <1>6, OpenedKeeps

\* The process ends, or the table is let go of.
LEMMA StopKeeps == ASSUME StateInv, Stop PROVE Kept
<1>1. /\ open' = FALSE /\ pc' = "idle" /\ wpc' = "off"
      /\ UNCHANGED <<manifests, files, committed>>
  BY DEF Stop, Gone, disk
<1>2. DiskInv' /\ Grows
  BY <1>1, DiskSame DEF StateInv
<1>3. CacheMatchesDisk'
  BY DEF Stop, Gone, CacheMatchesDisk
<1>4. ObjectInv' /\ WriterInv'
  BY <1>1, <1>3 DEF ObjectInv, WriterInv
<1> QED BY <1>2, <1>4 DEF Kept, StateInv

\* Starting a writer, and the part of a flush that writes no manifest: the
\* object is the same, and has nothing under way.
LEMMA WriterQuiet ==
  ASSUME StateInv, open, pc = "idle", wpc' # "off", DOMAIN files \subseteq DOMAIN files',
         UNCHANGED <<manifests, object, pc, op, committed>>, WriterInv'
  PROVE  Kept
<1>1. DiskInv' /\ Grows /\ Whole' = Whole
  BY DiskSame DEF StateInv
<1>2. CacheMatchesDisk'
  BY <1>1 DEF StateInv, ObjectInv, CacheMatchesDisk, object
<1>3. ObjectInv'
  BY <1>2 DEF StateInv, ObjectInv, object
<1> QED BY <1>1, <1>3 DEF Kept, StateInv

\* StartAsyncWriter on a table at rest takes counters beyond the table's.
LEMMA StartWriterKeeps == ASSUME KeptApart, StateInv, StartWriter PROVE Kept
<1> DEFINE v == LatestVersion(manifests)
<1>1. /\ WithWriter /\ open /\ Apart /\ pc = "idle" /\ v \in Whole
      /\ wver' = v + 1 /\ wfrag' = manifests[v].max + 1
      /\ wschema' = schema /\ wpc' = "idle"
      /\ UNCHANGED <<manifests, files, object, pc, op, committed>>
  BY DEF KeptApart, StartWriter, Apart, Readable, Whole, disk
<1>2. /\ DOMAIN manifests # {} /\ Newest(manifests, v) /\ v \in Nat
      /\ DOMAIN manifests \subseteq Nat /\ ManifestTyped(manifests[v])
  BY <1>1, NewestFacts, WholeTyped DEF StateInv, DiskInv, Whole
<1>3. manifests[v].max + 1 \in Nat /\ FreeFrom(manifests[v], manifests[v].max + 1)
  <2>1. /\ manifests[v].max \in Nat
        /\ \A i \in DOMAIN manifests[v].frags :
             manifests[v].frags[i].id \in Nat /\ manifests[v].frags[i].id <= manifests[v].max
    BY <1>2, FragmentsTyped DEF ManifestTyped
  <2> QED BY <2>1 DEF FreeFrom
<1>4. \A w \in DOMAIN manifests : w < v + 1
  BY <1>2 DEF Newest
<1>5. SchemaTyped(schema) /\ v + 1 \in Nat
  BY <1>1, <1>2 DEF StateInv, ObjectInv
<1>6. LatestVersion(manifests)' = v /\ Whole' = Whole
  BY <1>1 DEF Whole
<1>7. WriterInv'
  <2> HIDE DEF v
  <2> QED BY <1>1, <1>2, <1>3, <1>4, <1>5, <1>6 DEF WriterInv, object
<1> HIDE DEF v
<1> QED BY <1>1, <1>7, WriterQuiet

\* The writer's flush writes the column files.
LEMMA FlushFilesKeeps == ASSUME StateInv, NEW b, FlushFiles(b) PROVE Kept
<1>1. /\ wpc = "idle" /\ wpc' = "read" /\ open /\ pc = "idle" /\ WithWriter
      /\ wfragment' = [id |-> wfrag, cols |-> Ids(wschema)]
      /\ wfrag' = wfrag + 1 /\ wfrag \in Nat
      /\ DOMAIN files' = DOMAIN files \cup {<<wfrag, id>> : id \in Ids(wschema)}
      /\ UNCHANGED <<manifests, object, pc, op, wschema, wver, wbase, committed>>
      /\ SchemaTyped(wschema)
  BY DEF FlushFiles, StateInv, WriterInv
<1>2. Ids(wschema) \subseteq Nat
  BY <1>1 DEF SchemaTyped, Ids
<1>3. /\ wfragment' \in FragmentRecord /\ wfrag' = wfragment'.id + 1
      /\ \A c \in wfragment'.cols : <<wfragment'.id, c>> \in DOMAIN files'
  BY <1>1, <1>2 DEF FragmentRecord
<1>4. LatestVersion(manifests)' = LatestVersion(manifests) /\ Whole' = Whole
  BY <1>1 DEF Whole
<1>5. WriterInv'
  BY <1>1, <1>3, <1>4 DEF StateInv, WriterInv, object
<1> QED BY <1>1, <1>5, WriterQuiet

\* The writer's flush reads the newest manifest.
LEMMA FlushReadKeeps == ASSUME StateInv, FlushRead PROVE Kept
<1> DEFINE v == LatestVersion(manifests)
<1>1. /\ wpc = "read" /\ open /\ pc = "idle" /\ WithWriter /\ v \in Whole
      /\ FreeFrom(manifests[v], wfragment.id)
  BY DEF FlushRead, StateInv, WriterInv
<1>2. /\ wpc' = "write" /\ wbase' = manifests[v]
      /\ UNCHANGED <<manifests, files, object, pc, op, wschema, wver, wfrag, wfragment, committed>>
  BY <1>1 DEF FlushRead, Readable, Whole, disk
<1>3. DOMAIN manifests # {} /\ Newest(manifests, v) /\ ManifestTyped(manifests[v])
  BY <1>1, NewestFacts, WholeTyped DEF StateInv, Whole
<1>4. Present(manifests[v], DOMAIN files)
  BY <1>1 DEF StateInv, DiskInv
<1>5. \A u \in committed : IsPrefix(manifests[u].frags, manifests[v].frags)
  BY <1>1, <1>3 DEF StateInv, DiskInv, Newest, Whole
<1>6. LatestVersion(manifests)' = v /\ Whole' = Whole
  BY <1>2 DEF Whole
<1>7. WriterInv'
  <2> HIDE DEF v
  <2>1. /\ ManifestTyped(wbase') /\ Present(wbase', DOMAIN files')
        /\ FreeFrom(wbase', wfragment'.id)
        /\ \A u \in committed' : IsPrefix(manifests'[u].frags, wbase'.frags)
    BY <1>1, <1>2, <1>3, <1>4, <1>5
  <2> QED BY <1>1, <1>2, <1>6, <2>1 DEF StateInv, WriterInv, object, v
<1> HIDE DEF v
<1> QED BY <1>1, <1>2, <1>7, WriterQuiet

\* The writer's flush truncates the manifest file.
LEMMA FlushWriteKeeps == ASSUME StateInv, FlushWrite PROVE Kept
<1>1. /\ wpc = "write" /\ wpc' = "fill" /\ open /\ pc = "idle" /\ WithWriter
      /\ wver \in Nat /\ DOMAIN manifests # {}
      /\ manifests' = Put(manifests, wver, TornManifest)
      /\ UNCHANGED <<files, object, pc, op, wschema, wver, wfrag, wbase, wfragment, committed>>
      /\ \A w \in DOMAIN manifests : w < wver
  BY DEF FlushWrite, StateInv, WriterInv
<1>2. wver \in Nat \ {0}
  BY <1>1 DEF StateInv, DiskInv
<1>3. /\ DiskInv' /\ Grows /\ Whole' = Whole
      /\ Newest(manifests', wver) /\ manifests'[wver] = TornManifest
      /\ DOMAIN manifests' = DOMAIN manifests \cup {wver}
  BY <1>1, <1>2, TearKeeps DEF StateInv
<1>4. \A u \in committed : manifests'[u] = manifests[u]
  BY <1>3 DEF Grows, StateInv, DiskInv
<1>5. WriterInv'
  BY <1>1, <1>3, <1>4 DEF StateInv, WriterInv, object
<1>6. CacheMatchesDisk'
  BY <1>1, <1>3 DEF StateInv, ObjectInv, CacheMatchesDisk, object, Grows
<1>7. ObjectInv'
  BY <1>1, <1>6 DEF StateInv, ObjectInv, object
<1> QED BY <1>3, <1>5, <1>7 DEF Kept, StateInv

\* The writer's flush fills it.
LEMMA FlushFillKeeps == ASSUME StateInv, FlushFill PROVE Kept
<1> DEFINE n == AppendFragment(wbase, wfragment)
           m == TableManifest(wschema, n.frags, n.max)
<1>1. /\ wpc = "fill" /\ wpc' = "idle" /\ open /\ pc = "idle" /\ WithWriter
      /\ wver \in Nat /\ wver' = wver + 1 /\ committed' = committed \cup {wver}
      /\ manifests' = Put(manifests, wver, m)
      /\ UNCHANGED <<files, object, pc, op, wschema, wfrag, wbase, wfragment>>
      /\ Newest(manifests, wver) /\ manifests[wver] = TornManifest
      /\ wfragment \in FragmentRecord /\ wfrag = wfragment.id + 1 /\ wfrag \in Nat
      /\ \A c \in wfragment.cols : <<wfragment.id, c>> \in DOMAIN files
      /\ ManifestTyped(wbase) /\ Present(wbase, DOMAIN files)
      /\ FreeFrom(wbase, wfragment.id) /\ SchemaTyped(wschema)
      /\ \A u \in committed : IsPrefix(manifests[u].frags, wbase.frags)
  BY DEF FlushFill, StateInv, WriterInv
<1>2. /\ n.frags = Append(wbase.frags, wfragment)
      /\ n.max = IF wfragment.id > wbase.max THEN wfragment.id ELSE wbase.max
  BY DEF AppendFragment, NewManifest
<1>3. /\ n.max \in Nat /\ wfragment.id <= n.max /\ wbase.max <= n.max
      /\ m = TableManifest(wschema, Append(wbase.frags, wfragment), n.max)
  <2>1. wfragment.id \in Nat /\ wbase.max \in Nat
    BY <1>1 DEF FragmentRecord, ManifestTyped
  <2> QED BY <1>2, <2>1
<1> HIDE DEF n
<1>4. /\ ManifestTyped(m) /\ IsPrefix(wbase.frags, m.frags)
      /\ FreeFrom(m, wfragment.id + 1) /\ Present(m, DOMAIN files)
  BY <1>1, <1>3, AppendTyped
<1> HIDE DEF m
<1>5. ASSUME NEW u \in committed PROVE IsPrefix(manifests[u].frags, m.frags)
  <2>1. manifests[u].frags \in Seq(FragmentRecord)
    BY WholeTyped DEF StateInv, DiskInv, ManifestTyped
  <2>2. wbase.frags \in Seq(FragmentRecord) /\ m.frags \in Seq(FragmentRecord)
    BY <1>1, <1>4 DEF ManifestTyped
  <2> QED BY <1>1, <1>4, <2>1, <2>2, PrefixTransitive
<1>6. /\ DiskInv' /\ Grows /\ Whole' = Whole \cup {wver}
      /\ Newest(manifests', wver) /\ manifests'[wver] = m
      /\ DOMAIN manifests' = DOMAIN manifests
  BY <1>1, <1>4, <1>5, FillKeeps DEF StateInv
<1>7. DOMAIN manifests' \subseteq Nat
  BY <1>6 DEF DiskInv
<1>8. LatestVersion(manifests') = wver
  BY <1>6, <1>7, LatestIsNewest
<1>9. LatestVersion(manifests)' = wver /\ \A w \in DOMAIN manifests' : w < wver'
  BY <1>1, <1>6, <1>7, <1>8 DEF Newest
<1>10. WriterInv'
  <2>1. DOMAIN manifests' # {} /\ wver' \in Nat
    BY <1>1, <1>6 DEF Newest
  <2> QED BY <1>1, <1>4, <1>6, <1>9, <2>1 DEF WriterInv, object
<1>11. CacheMatchesDisk'
  BY <1>1, <1>6 DEF StateInv, ObjectInv, CacheMatchesDisk, object, Grows
<1>12. ObjectInv'
  BY <1>1, <1>11 DEF StateInv, ObjectInv, object
<1> QED BY <1>6, <1>10, <1>12 DEF Kept, StateInv

\* Every step of the writer.
LEMMA WriteKeeps == ASSUME KeptApart, StateInv, Write PROVE Kept
BY StartWriterKeeps, FlushFilesKeeps, FlushReadKeeps, FlushWriteKeeps, FlushFillKeeps DEF Write

-----------------------------------------------------------------------------
(* Every step *)

\* A reader changes nothing but its own part.
LEMMA ReadKeeps ==
  ASSUME StateInv, NEW r \in Readers, Read(r)
  PROVE  Kept /\ UNCHANGED <<disk, object, pc, op, writer, bounds, inserted, committed>>
<1>1. UNCHANGED <<disk, object, pc, op, writer, bounds, inserted, committed>>
  BY DEF Read, LatestCall, ReadList, ReadCache, ReadDisk, CheckoutCall, Got
<1> QED BY <1>1, QuietKeeps DEF disk

\* Every step of the table, its writer and its readers.
LEMMA StateStep == ASSUME KeptApart, StateInv, Counted, [Next]_vars PROVE Kept
<1>1. CASE UNCHANGED vars
  BY <1>1, QuietKeeps DEF vars, disk
<1>2. CASE Next
  BY <1>2, CreateKeeps, OpenKeeps, StopKeeps, MutateKeeps, WriteKeeps, ReadKeeps DEF Next
<1> QED BY <1>1, <1>2

\* The bounded counters grow by one at most.
LEMMA CountedStep ==
  ASSUME Counted, [Next]_vars
  PROVE  Counted' /\ (faults' = faults \/ faults' = faults + 1) /\ (adds' = adds \/ adds' = adds + 1)
<1> USE DEF Counted, Fault, bounds
<1>1. CASE UNCHANGED vars
  BY <1>1 DEF vars
<1>2. CASE Create \/ Open \/ Stop
  BY <1>2 DEF Create, Open, Stop
<1>3. CASE Mutate
  <2>1. ASSUME NEW f, InsertColumn(f) \/ InsertColumnFails(f)
        PROVE  (faults' = faults \/ faults' = faults + 1) /\ adds' = adds
    BY <2>1 DEF InsertColumn, InsertColumnFails
  <2>2. ASSUME NEW n, AddColumn(n) \/ DropColumn(n)
        PROVE  faults' = faults /\ (adds' = adds \/ adds' = adds + 1)
    BY <2>2 DEF AddColumn, DropColumn, Evolve
  <2>3. CASE WriteManifestFails
    BY <2>3 DEF WriteManifestFails
  <2>4. CASE InsertPrepare \/ WriteManifest \/ FillManifest \/ Publishing
    BY <2>4 DEF InsertPrepare, WriteManifest, FillManifest, Publishing
  <2>5. ASSUME NEW b, InsertCall(b) PROVE UNCHANGED bounds
    BY <2>5 DEF InsertCall
  <2> QED BY <1>3, <2>1, <2>2, <2>3, <2>4, <2>5 DEF Mutate
<1>4. CASE Write
  BY <1>4 DEF Write, StartWriter, FlushFiles, FlushRead, FlushWrite, FlushFill
<1>5. ASSUME NEW r \in Readers, Read(r) PROVE UNCHANGED bounds
  BY <1>5 DEF Read, LatestCall, ReadList, ReadCache, ReadDisk, CheckoutCall, Got
<1> QED BY <1>1, <1>2, <1>3, <1>4, <1>5 DEF Next

\* The newest committed version is one of them.
LEMMA NewestCommittedFacts ==
  ASSUME DiskInv
  PROVE  /\ \/ NewestCommitted = 0 /\ committed = {}
            \/ NewestCommitted \in committed /\ \A u \in committed : u <= NewestCommitted
         /\ NewestCommitted \in Nat
<1>1. CASE committed = {}
  BY <1>1 DEF NewestCommitted
<1>2. CASE committed # {}
  <2>1. committed \subseteq DOMAIN manifests /\ committed \in SUBSET Nat
    BY DEF DiskInv, Whole
  <2>2. PICK v \in DOMAIN manifests : \A u \in committed : u <= v
    BY <1>2, <2>1, NewestFacts DEF Newest
  <2>3. v \in Nat
    BY DEF DiskInv
  <2>4. \E u \in committed : \A w \in committed : w <= u
    BY <1>2, <2>1, <2>2, <2>3, MaxExists
  <2>5. NewestCommitted = CHOOSE u \in committed : \A w \in committed : w <= u
    BY <1>2 DEF NewestCommitted
  <2> QED BY <2>1, <2>4, <2>5
<1> QED BY <1>1, <1>2

\* A step that is not a reader's keeps what is said of the readers, unless it
\* ends the process.
LEMMA ReadersUndisturbed ==
  ASSUME ReadersTyped, ReaderInv, Grows, UNCHANGED reads, open => open'
  PROVE  ReadersTyped' /\ ReaderInv'
<1>1. ReadersTyped'
  BY DEF ReadersTyped, reads
<1>2. \A v \in Whole : v \in Whole' /\ manifests'[v] = manifests[v]
  BY DEF Grows, Whole
<1>3. ReaderInv'
  BY <1>2 DEF ReaderInv, Grows, reads
<1> QED BY <1>1, <1>3

\* A reader holds what was on disk, and the versions on disk only grow.
LEMMA ReadersStep ==
  ASSUME StateInv, ReadersTyped, ReaderInv, NEW r \in Readers, Read(r)
  PROVE  ReadersTyped' /\ ReaderInv'
<1>0. /\ UNCHANGED <<manifests, open, cached, committed>> /\ Whole' = Whole
      /\ DOMAIN manifests \subseteq Nat
  BY ReadKeeps DEF disk, object, Whole, StateInv, DiskInv
<1> USE DEF ReadersTyped
<1>1. CASE LatestCall(r)
  <2>1. NewestCommitted \in Nat /\ (NewestCommitted = 0 \/ NewestCommitted \in committed)
    BY NewestCommittedFacts DEF StateInv
  <2>2. ReadersTyped'
    BY <1>1, <2>1 DEF LatestCall
  <2>3. ReaderInv'
    BY <1>0, <1>1, <2>1 DEF LatestCall, ReaderInv
  <2> QED BY <2>2, <2>3
<1>2. ASSUME NEW v \in DOMAIN manifests, CheckoutCall(r, v) PROVE ReadersTyped' /\ ReaderInv'
  <2>1. v \in Nat
    BY <1>0
  <2>2. ReadersTyped'
    BY <1>2, <2>1 DEF CheckoutCall
  <2>3. ReaderInv'
    BY <1>0, <1>2, <2>1 DEF CheckoutCall, ReaderInv
  <2> QED BY <2>2, <2>3
<1>3. CASE ReadList(r)
  <2> DEFINE v == LatestVersion(manifests)
  <2>1. open /\ rres[r] = NoManifest /\ (floor[r] = 0 \/ floor[r] \in committed)
    BY <1>3 DEF ReadList, ReaderInv
  <2>2. Newest(manifests, v) /\ v \in Nat
    BY <2>1, CachedFacts, NewestFacts DEF StateInv
  <2>3. v \in DOMAIN manifests /\ floor[r] <= v
    BY <2>1, <2>2 DEF Newest, StateInv, DiskInv, Whole
  <2>4. /\ rpc' = [rpc EXCEPT ![r] = "cache"] /\ rver' = [rver EXCEPT ![r] = v]
        /\ UNCHANGED <<rres, floor>>
    BY <1>3 DEF ReadList
  <2> HIDE DEF v
  <2>5. ReadersTyped'
    BY <2>2, <2>4
  <2>6. ReaderInv'
    BY <1>0, <2>1, <2>3, <2>4 DEF ReaderInv
  <2> QED BY <2>5, <2>6
<1>4. ASSUME NEW m, rpc[r] \in {"cache", "read"}, Got(r, m),
             m \notin {NoManifest, ErrManifest} => rver[r] \in Whole /\ m = manifests[rver[r]]
      PROVE  ReadersTyped' /\ ReaderInv'
  <2>1. /\ rpc' = [rpc EXCEPT ![r] = "idle"] /\ rres' = [rres EXCEPT ![r] = m]
        /\ UNCHANGED <<rver, floor>>
    BY <1>4 DEF Got
  <2>2. floor[r] <= rver[r] /\ (floor[r] = 0 \/ floor[r] \in committed \/ floor[r] = rver[r])
    BY <1>4 DEF ReaderInv
  <2>3. ReadersTyped'
    BY <2>1
  <2>4. ReaderInv'
    BY <1>0, <1>4, <2>1, <2>2 DEF ReaderInv
  <2> QED BY <2>3, <2>4
<1>5. CASE ReadCache(r)
  <2>1. CASE rver[r] \in DOMAIN cached /\ Got(r, cached[rver[r]])
    <3>1. rver[r] \in Whole /\ cached[rver[r]] = manifests[rver[r]]
      BY <2>1 DEF StateInv, ObjectInv, CacheMatchesDisk
    <3> QED BY <1>4, <1>5, <2>1, <3>1 DEF ReadCache
  <2>2. CASE rpc' = [rpc EXCEPT ![r] = "read"] /\ UNCHANGED <<rver, rres, floor>>
    <3>1. ReadersTyped'
      BY <2>2
    <3>2. ReaderInv'
      BY <1>0, <1>5, <2>2 DEF ReadCache, ReaderInv
    <3> QED BY <3>1, <3>2
  <2> QED BY <1>5, <2>1, <2>2 DEF ReadCache
<1>6. CASE ReadDisk(r)
  <2> DEFINE m == IF Readable(manifests, rver[r]) THEN manifests[rver[r]] ELSE ErrManifest
  <2>1. rpc[r] = "read" /\ Got(r, m)
    BY <1>6 DEF ReadDisk
  <2>2. m \notin {NoManifest, ErrManifest} => rver[r] \in Whole /\ m = manifests[rver[r]]
    BY DEF Readable, Whole
  <2> HIDE DEF m
  <2> QED BY <1>4, <2>1, <2>2
<1> QED BY <1>1, <1>2, <1>3, <1>5, <1>6 DEF Read

\* The invariant holds in the beginning.
LEMMA TableInit == Init => TableInv
<1> SUFFICES ASSUME Init PROVE TableInv
  OBVIOUS
<1>1. ReadersTyped /\ ReaderInv /\ Counted
  BY DEF Init, ReadersTyped, ReaderInv, Counted
<1> QED BY <1>1, StateInit DEF TableInv, StateInv

\* Every step keeps the invariant and what was committed.
LEMMA TableStep == ASSUME KeptApart, TableInv, [Next]_vars PROVE TableInv' /\ Grows
<1>1. StateInv /\ Counted /\ ReadersTyped /\ ReaderInv
  BY DEF TableInv, StateInv
<1>2. StateInv' /\ Grows /\ Counted'
  BY <1>1, StateStep, CountedStep DEF Kept
<1>3. ReadersTyped' /\ ReaderInv'
  <2>1. CASE Stop
    BY <2>1 DEF Stop, Gone, ReadersTyped, ReaderInv
  <2>2. ASSUME NEW r \in Readers, Read(r) PROVE ReadersTyped' /\ ReaderInv'
    BY <1>1, <2>2, ReadersStep
  <2>3. CASE Create \/ Open \/ Mutate \/ Write \/ UNCHANGED vars
    <3>1. UNCHANGED reads
      BY <2>3 DEF Create, Open, Mutate, Write, vars, InsertCall, InsertColumn, InsertColumnFails,
                  InsertPrepare, AddColumn, DropColumn, Evolve, WriteManifest, FillManifest,
                  WriteManifestFails, Publishing, StartWriter, FlushFiles, FlushRead,
                  FlushWrite, FlushFill
    <3>2. open => open'
      BY <2>3 DEF Create, Open, Opened, Mutate, Write, vars, object, InsertCall, InsertColumn,
                  InsertColumnFails, InsertPrepare, AddColumn, DropColumn, Evolve, WriteManifest,
                  FillManifest, WriteManifestFails, Publishing, StartWriter, FlushFiles,
                  FlushRead, FlushWrite, FlushFill
    <3> QED BY <1>1, <1>2, <3>1, <3>2, ReadersUndisturbed
  <2> QED BY <2>1, <2>2, <2>3 DEF Next
<1> QED BY <1>2, <1>3 DEF TableInv, StateInv

\* The inductive invariant, of an application that keeps its writers apart.
THEOREM TableInvariant == ASSUME KeptApart PROVE Spec => []TableInv
<1>1. ASSUME TableInv, [Next]_vars PROVE TableInv'
  BY <1>1, TableStep
<1> QED BY <1>1, TableInit, PTL DEF Spec

-----------------------------------------------------------------------------
(* What follows: the cache, the readers and the column files *)

\* table.go:53-57, 88, 229-232, 280-284.  What the cache has of a version is what its file
\* has, whatever fails and whenever the process dies.
THEOREM CacheIsDisk == ASSUME KeptApart PROVE Spec => []CacheMatchesDisk
<1>1. TableInv => CacheMatchesDisk
  BY DEF TableInv, ObjectInv
<1> QED BY <1>1, TableInvariant, PTL

\* table.go:107-133.  A manifest that LatestManifest or CheckoutVersion returned is that of its
\* version, and has every fragment committed before the call.
THEOREM ReadersSeeCommitted == ASSUME KeptApart PROVE Spec => []ReadsFresh
<1>1. TableInv => ReadsFresh
  <2> SUFFICES ASSUME TableInv, NEW r \in Readers, rres[r] \notin {NoManifest, ErrManifest}
               PROVE  /\ rver[r] >= floor[r] /\ rres[r] = manifests[rver[r]]
                      /\ floor[r] > 0 => IsPrefix(manifests[floor[r]].frags, rres[r].frags)
    BY DEF ReadsFresh
  <2>1. /\ rver[r] \in Whole /\ rres[r] = manifests[rver[r]] /\ floor[r] <= rver[r]
        /\ floor[r] = 0 \/ floor[r] \in committed \/ floor[r] = rver[r]
        /\ rver[r] \in Nat /\ floor[r] \in Nat
    BY DEF TableInv, ReadersTyped, ReaderInv
  <2>2. CASE floor[r] \in committed
    BY <2>1, <2>2 DEF TableInv, DiskInv
  <2>3. CASE floor[r] = rver[r]
    <3>1. manifests[rver[r]].frags \in Seq(FragmentRecord)
      BY <2>1, WholeTyped DEF TableInv, ManifestTyped
    <3> QED BY <2>1, <2>3, <3>1, PrefixSelf
  <2> QED BY <2>1, <2>2, <2>3
<1> QED BY <1>1, TableInvariant, PTL

\* The files a step writes are those of a fragment nobody has committed.
LEMMA FilesWritten ==
  ASSUME KeptApart, TableInv, [Next]_vars, NEW v \in committed,
         NEW i \in DOMAIN manifests[v].frags, NEW c,
         <<manifests[v].frags[i].id, c>> \in DOMAIN files
  PROVE  files'[<<manifests[v].frags[i].id, c>>] = files[<<manifests[v].frags[i].id, c>>]
<1> DEFINE g == manifests[v].frags[i]
<1>0. StateInv /\ v \in Whole /\ ManifestTyped(manifests[v]) /\ g.id \in Nat
  BY WholeTyped, FragmentsTyped DEF TableInv, StateInv, DiskInv
<1>1. ASSUME NEW m, NEW n, ManifestTyped(m), FreeFrom(m, n), IsPrefix(manifests[v].frags, m.frags)
      PROVE  g.id # n
  <2>1. i \in DOMAIN m.frags /\ m.frags[i] = g
    BY <1>0, <1>1, PrefixElements DEF ManifestTyped
  <2> QED BY <1>0, <1>1, <2>1 DEF FreeFrom
<1>2. ASSUME NEW f, InsertColumn(f) \/ InsertColumnFails(f)
      PROVE  files'[<<g.id, c>>] = files[<<g.id, c>>]
  <2>1. pc = "column"
    BY <1>2 DEF InsertColumn, InsertColumnFails
  <2>2. open /\ wpc = "off" /\ FreeFrom(CachedLatest, nextFragmentID)
    BY <1>0, <2>1 DEF StateInv, ObjectInv, CountersInv
  <2>3. g.id # nextFragmentID
    BY <1>0, <1>1, <2>2, CommittedInCached, CachedFacts
  <2>4. UNCHANGED files \/ \E x : files' = Put(files, <<nextFragmentID, f>>, x)
    BY <1>2 DEF InsertColumn, InsertColumnFails
  <2> QED BY <2>3, <2>4 DEF Put
<1>3. ASSUME NEW b, FlushFiles(b) PROVE files'[<<g.id, c>>] = files[<<g.id, c>>]
  <2> DEFINE l == LatestVersion(manifests)
  <2>1. l \in Whole /\ FreeFrom(manifests[l], wfrag)
    BY <1>0, <1>3 DEF FlushFiles, StateInv, WriterInv
  <2>2. Newest(manifests, l) /\ ManifestTyped(manifests[l])
    BY <1>0, <2>1, NewestFacts, WholeTyped DEF StateInv, Whole
  <2>3. IsPrefix(manifests[v].frags, manifests[l].frags)
    BY <1>0, <2>1, <2>2 DEF Newest, StateInv, DiskInv, Whole
  <2> HIDE DEF l
  <2>4. g.id # wfrag
    BY <1>1, <2>1, <2>2, <2>3
  <2> DEFINE p == <<g.id, c>>
  <2>5. p \in DOMAIN files /\ p[1] # wfrag
    BY <2>4
  <2> HIDE DEF p, g
  <2>6. files'[p] = files[p]
    BY <1>3, <2>5 DEF FlushFiles
  <2> QED BY <2>6 DEF p
<1>4. UNCHANGED files \/ \E f : InsertColumn(f) \/ InsertColumnFails(f) \/ \E b : FlushFiles(b)
  BY DEF Next, vars, disk, Create, Open, Stop, Mutate, Write, Read, InsertCall, InsertPrepare,
         AddColumn, DropColumn, Evolve, WriteManifest, FillManifest, WriteManifestFails,
         Publishing, StartWriter, FlushRead, FlushWrite, FlushFill, LatestCall, ReadList,
         ReadCache, ReadDisk, CheckoutCall, Got
<1> QED BY <1>2, <1>3, <1>4

\* table.go:201-210, 87.  The column files of a committed version are there for good and
\* are never written again.
THEOREM FilesImmutable == ASSUME KeptApart PROVE Spec => CommittedFilesImmutable
<1> DEFINE Same ==
      \A v \in committed : \A i \in DOMAIN manifests[v].frags :
        \A c \in manifests[v].frags[i].cols :
          LET p == <<manifests[v].frags[i].id, c>> IN
          p \in DOMAIN files' /\ files'[p] = files[p]
<1>1. ASSUME TableInv, [Next]_vars PROVE Same
  <2> SUFFICES ASSUME NEW v \in committed, NEW i \in DOMAIN manifests[v].frags,
                      NEW c \in manifests[v].frags[i].cols
               PROVE  /\ <<manifests[v].frags[i].id, c>> \in DOMAIN files'
                      /\ files'[<<manifests[v].frags[i].id, c>>]
                           = files[<<manifests[v].frags[i].id, c>>]
    OBVIOUS
  <2>1. <<manifests[v].frags[i].id, c>> \in DOMAIN files
    BY <1>1 DEF TableInv, DiskInv, Present
  <2>2. <<manifests[v].frags[i].id, c>> \in DOMAIN files'
    BY <1>1, <2>1, TableStep DEF Grows
  <2> QED BY <1>1, <2>1, <2>2, FilesWritten
<1>2. TableInv /\ [Next]_vars => [Same]_vars
  BY <1>1
<1> QED BY <1>2, TableInvariant, PTL DEF Spec, CommittedFilesImmutable

-----------------------------------------------------------------------------
(* The table implements a history of snapshots *)

\* A step commits at most one version, newer than all before.
LEMMA CommitKinds ==
  ASSUME StateInv, [Next]_vars
  PROVE  \/ committed' = committed
         \/ \E v \in Nat : /\ committed' = committed \cup {v}
                           /\ \A u \in committed : u < v
<1>1. CASE Publishing
  <2>1. op.version \in Nat /\ \A u \in committed : u < op.version
    BY <1>1 DEF Publishing, StateInv, ObjectInv, PendingInv
  <2> QED BY <1>1, <2>1 DEF Publishing
<1>2. CASE FlushFill
  <2>1. /\ wver \in Nat /\ Newest(manifests, wver) /\ wver \notin Whole
        /\ committed' = committed \cup {wver}
    BY <1>2 DEF FlushFill, StateInv, WriterInv, Whole, TornManifest
  <2>2. \A u \in committed : u \in Nat /\ u <= wver /\ u # wver
    BY <2>1 DEF StateInv, DiskInv, Whole, Newest
  <2> QED BY <2>1, <2>2
<1>3. CASE Create
  <2>1. committed = {}
    BY <1>3 DEF Create, StateInv, DiskInv, Whole
  <2>2. committed' = committed \/ committed' = {1}
    BY <1>3 DEF Create
  <2> QED BY <2>1, <2>2
<1>4. CASE UNCHANGED committed
  BY <1>4
<1>5. Publishing \/ FlushFill \/ Create \/ UNCHANGED committed
  BY DEF Next, vars, disk, Open, Stop, Mutate, Write, Read, InsertCall, InsertColumn,
         InsertColumnFails, InsertPrepare,
         AddColumn, DropColumn, Evolve, WriteManifest, FillManifest, WriteManifestFails,
         StartWriter, FlushFiles, FlushRead, FlushWrite, LatestCall, ReadList,
         ReadCache, ReadDisk, CheckoutCall, Got
<1> QED BY <1>1, <1>2, <1>3, <1>4, <1>5

\* A step is a Publish of the history or leaves it alone.
LEMMA SnapshotStep ==
  ASSUME KeptApart, TableInv, [Next]_vars PROVE [Abstract!Publish]_History
<1>1. StateInv /\ StateInv' /\ Grows
  BY TableStep DEF TableInv, StateInv
<1>2. \A u \in committed : u \in committed' /\ manifests'[u] = manifests[u]
  BY <1>1 DEF Grows, StateInv, DiskInv
<1>3. CASE committed' = committed
  BY <1>2, <1>3 DEF History
<1>4. ASSUME NEW v \in Nat, committed' = committed \cup {v}, \A u \in committed : u < v
      PROVE  Abstract!Publish
  <2>1. v \notin committed /\ DOMAIN History = committed /\ DOMAIN History' = committed \cup {v}
    BY <1>4 DEF History
  <2>2. \A w \in committed : History'[w] = History[w]
    BY <1>2 DEF History
  <2>3. ManifestTyped(manifests'[v]) /\ History'[v] = manifests'[v].frags /\ v \in Whole'
    BY <1>1, <1>4 DEF StateInv, DiskInv, Whole, TornManifest, History
  <2>4. IsInjective(History'[v])
    BY <2>3 DEF ManifestTyped
  <2>5. IsPrefix(Abstract!Newest, History'[v])
    <3>1. CASE committed = {}
      <4>1. Abstract!Newest = <<>>
        BY <2>1, <3>1 DEF Abstract!Newest
      <4>2. <<>> \in Seq(FragmentRecord) /\ DOMAIN <<>> = {} /\ History'[v] \in Seq(FragmentRecord)
        BY <2>3 DEF ManifestTyped
      <4> QED BY <4>1, <4>2, PrefixElements
    <3>2. CASE committed # {}
      <4> DEFINE u == CHOOSE u \in committed : \A w \in committed : w <= u
      <4>1. \E x \in committed : \A w \in committed : w <= x
        BY <1>1, <3>2, NewestCommittedFacts DEF StateInv
      <4>2. u \in committed
        BY <4>1
      <4>3. Abstract!Newest = History[u]
        BY <2>1, <3>2 DEF Abstract!Newest
      <4> HIDE DEF u
      <4>4. History[u] = manifests'[u].frags /\ u \in committed' /\ u \in Nat /\ u <= v
        BY <1>1, <1>2, <1>4, <4>2 DEF History, StateInv, DiskInv, Whole
      <4> QED BY <1>1, <2>3, <4>3, <4>4 DEF StateInv, DiskInv
    <3> QED BY <3>1, <3>2
  <2>6. \A w \in DOMAIN History : w < v /\ History'[w] = History[w]
    BY <1>4, <2>1, <2>2
  <2>7. v \in DOMAIN History' \ DOMAIN History /\ DOMAIN History' = DOMAIN History \cup {v}
    BY <2>1
  <2>8. Abstract!IsPrefix(Abstract!Newest, History'[v]) /\ Abstract!IsInjective(History'[v])
    BY <2>4, <2>5 DEF IsPrefix, IsInjective, Abstract!IsPrefix, Abstract!IsInjective
  <2> QED BY <2>6, <2>7, <2>8 DEF Abstract!Publish
<1> QED BY <1>1, <1>3, <1>4, CommitKinds

\* table.go:183-331, async_writer.go:234-284.  The versions whose mutation reported success are
\* a history of snapshots, each with the fragments of the one before it in their places:
\* whatever fails, and however often the process dies, nothing committed is lost or rewritten.
THEOREM TableImplementsSnapshots == ASSUME KeptApart PROVE Spec => ImplementsSnapshots
<1>1. Init => Abstract!Init
  BY DEF Init, Abstract!Init, History
<1>2. TableInv /\ [Next]_vars => [Abstract!Publish]_History
  BY SnapshotStep
<1> QED BY <1>1, <1>2, TableInvariant, PTL DEF Spec, ImplementsSnapshots, Abstract!Spec

-----------------------------------------------------------------------------
(* Readers beside mutations that do not fail *)

\* Every manifest parses, but the one being written.
TornIsCurrent ==
  \A v \in DOMAIN manifests \ Whole :
    (pc = "fill" /\ v = op.version) \/ (wpc = "fill" /\ v = wver)

ReadersFine ==
  \A r \in Readers : rres[r] # ErrManifest /\ (rpc[r] = "read" => rver[r] \in Whole)

NothingFailed ==
  faults = 0 => TornIsCurrent /\ (wpc = "off" => ReadersFine)

\* When no manifest is being written, a step that writes none leaves none torn.
LEMMA NoneTorn ==
  ASSUME TornIsCurrent, pc # "fill", wpc # "fill", UNCHANGED manifests
  PROVE  TornIsCurrent'
BY DEF TornIsCurrent, Whole

\* Without a failure a truncated manifest is the one being written now.
LEMMA TornStep ==
  ASSUME StateInv, Counted, TornIsCurrent, [Next]_vars, faults = 0, faults' = 0
  PROVE  TornIsCurrent'
<1>0. \A kind : ~Fault(kind)
  BY DEF Fault
<1>1. CASE UNCHANGED vars \/ \E r \in Readers : Read(r)
  <2>1. UNCHANGED <<manifests, pc, op, wpc, wver>>
    BY <1>1, ReadKeeps DEF vars, disk, writer
  <2> QED BY <2>1 DEF TornIsCurrent, Whole
<1>2. CASE Create
  <2>1. \/ manifests' = Put(manifests, 1, TableManifest(NewSchema, <<>>, 0))
        \/ UNCHANGED <<manifests, pc, op, wpc, wver>>
    BY <1>0, <1>2 DEF Create
  <2>2. CASE manifests' = Put(manifests, 1, TableManifest(NewSchema, <<>>, 0))
    <3>1. DOMAIN manifests' = {1} /\ manifests'[1] = TableManifest(NewSchema, <<>>, 0)
      BY <1>2, <2>2 DEF Create, Put
    <3>2. Whole' = {1}
      BY <3>1 DEF Whole, TableManifest
    <3> QED BY <3>1, <3>2 DEF TornIsCurrent
  <2>3. CASE UNCHANGED <<manifests, pc, op, wpc, wver>>
    BY <2>3 DEF TornIsCurrent, Whole
  <2> QED BY <2>1, <2>2, <2>3
<1>3. CASE Open \/ Stop
  <2>1. pc = "idle" /\ wpc # "fill"
    BY <1>0, <1>3 DEF Open, Stop, StateInv, ObjectInv, WriterInv
  <2>2. UNCHANGED manifests
    BY <1>3 DEF Open, Stop, disk
  <2> QED BY <2>1, <2>2, NoneTorn
<1>4. ASSUME pc \in {"idle", "column", "publish"}, wpc # "fill", UNCHANGED manifests
      PROVE  TornIsCurrent'
  BY <1>4, NoneTorn
<1>5. ASSUME pc = "write" \/ wpc = "write", NEW v, manifests' = Put(manifests, v, TornManifest),
             (pc' = "fill" /\ op'.version = v) \/ (wpc' = "fill" /\ wver' = v)
      PROVE  TornIsCurrent'
  <2>1. pc # "fill" /\ wpc # "fill"
    BY <1>5 DEF StateInv, ObjectInv, WriterInv
  <2>2. \A w \in DOMAIN manifests : w \in Whole
    BY <2>1 DEF TornIsCurrent
  <2>3. \A w \in DOMAIN manifests' : w = v \/ w \in Whole'
    BY <1>5, <2>2 DEF Put, Whole
  <2> QED BY <1>5, <2>3 DEF TornIsCurrent
<1>6. ASSUME NEW v, NEW m, manifests' = Put(manifests, v, m), m.whole = TRUE,
             (pc = "fill" /\ v = op.version) \/ (wpc = "fill" /\ v = wver)
      PROVE  TornIsCurrent'
  <2>1. \A w \in DOMAIN manifests : w = v \/ w \in Whole
    BY <1>6 DEF TornIsCurrent, StateInv, ObjectInv, WriterInv
  <2>2. \A w \in DOMAIN manifests' : w \in Whole'
    BY <1>6, <2>1 DEF Put, Whole
  <2> QED BY <2>2 DEF TornIsCurrent
<1>7. CASE Mutate
  <2>1. ASSUME pc = "idle", UNCHANGED <<manifests, wpc, wver>> PROVE TornIsCurrent'
    <3>1. \A v \in DOMAIN manifests \ Whole : wpc = "fill" /\ v = wver
      BY <2>1 DEF TornIsCurrent
    <3> QED BY <2>1, <3>1 DEF TornIsCurrent, Whole
  <2>2. ASSUME NEW f, InsertColumn(f) \/ InsertColumnFails(f) PROVE TornIsCurrent'
    BY <1>4, <2>2 DEF InsertColumn, InsertColumnFails, disk, StateInv, WriterInv, ObjectInv
  <2>3. ASSUME NEW n, InsertCall(n) \/ AddColumn(n) \/ DropColumn(n) PROVE TornIsCurrent'
    <3>1. pc = "idle" /\ UNCHANGED <<manifests, wpc, wver>>
      BY <2>3 DEF InsertCall, AddColumn, DropColumn, Evolve, Mutable, disk, writer
    <3> QED BY <2>1, <3>1
  <2>4. CASE InsertPrepare \/ Publishing
    BY <1>4, <2>4 DEF InsertPrepare, Publishing, disk, StateInv, ObjectInv
  <2>5. CASE WriteManifest
    BY <1>5, <2>5 DEF WriteManifest
  <2>6. CASE FillManifest
    BY <1>6, <2>6 DEF FillManifest, StateInv, ObjectInv, PendingInv, ManifestTyped
  <2>7. ~WriteManifestFails
    BY <1>0 DEF WriteManifestFails
  <2> QED BY <1>7, <2>2, <2>3, <2>4, <2>5, <2>6, <2>7 DEF Mutate
<1>8. CASE Write
  <2>1. CASE StartWriter
    <3>1. wpc = "off" /\ UNCHANGED <<manifests, pc, op>>
      BY <2>1 DEF StartWriter, disk
    <3> QED BY <3>1 DEF TornIsCurrent, Whole
  <2>2. CASE FlushRead \/ \E b : FlushFiles(b)
    BY <1>4, <2>2 DEF FlushRead, FlushFiles, disk, StateInv, WriterInv
  <2>3. CASE FlushWrite
    BY <1>5, <2>3 DEF FlushWrite
  <2>4. CASE FlushFill
    <3>1. \A frags, max : TableManifest(wschema, frags, max).whole = TRUE
      BY DEF TableManifest
    <3> QED BY <1>6, <2>4, <3>1 DEF FlushFill
  <2> QED BY <1>8, <2>1, <2>2, <2>3, <2>4 DEF Write
<1> QED BY <1>1, <1>2, <1>3, <1>7, <1>8 DEF Next

\* A reader that missed the cache under the lock reads a whole file.
LEMMA ReadersFineStep ==
  ASSUME KeptApart, TableInv, TornIsCurrent, wpc = "off" => ReadersFine,
         [Next]_vars, wpc' = "off"
  PROVE  ReadersFine'
<1>0. Grows /\ StateInv /\ StateInv' /\ ReadersTyped /\ NoManifest # ErrManifest
  BY TableStep DEF TableInv, StateInv, NoManifest, ErrManifest
<1>1. \A v \in Whole : v \in Whole' /\ manifests'[v] = manifests[v]
  BY <1>0 DEF Grows, Whole
<1>2. CASE Stop
  BY <1>0, <1>2 DEF Stop, Gone, ReadersFine
<1>3. CASE UNCHANGED reads /\ wpc = "off"
  BY <1>1, <1>3 DEF ReadersFine, reads
<1>4. ASSUME NEW r \in Readers, Read(r) PROVE ReadersFine'
  <2>0. wpc = "off" /\ UNCHANGED <<manifests, cached>> /\ Whole' = Whole /\ ReadersFine
    BY <1>0, <1>4, ReadKeeps DEF disk, object, writer, Whole
  <2>1. \A v \in Whole : manifests[v] # ErrManifest
    BY <1>0, WholeTyped DEF StateInv, ManifestTyped, ErrManifest
  <2>2. ASSUME NEW m, m # ErrManifest, Got(r, m) PROVE ReadersFine'
    BY <1>0, <2>0, <2>2 DEF Got, ReadersFine, ReadersTyped
  <2>3. CASE LatestCall(r) \/ ReadList(r) \/ \E v \in DOMAIN manifests : CheckoutCall(r, v)
    BY <1>0, <2>0, <2>3 DEF LatestCall, ReadList, CheckoutCall, ReadersFine, ReadersTyped
  <2>4. CASE ReadCache(r)
    <3>1. CASE rver[r] \in DOMAIN cached /\ Got(r, cached[rver[r]])
      <4>1. cached[rver[r]] # ErrManifest
        BY <1>0, <2>1, <3>1 DEF StateInv, ObjectInv, CacheMatchesDisk
      <4> QED BY <2>2, <3>1, <4>1
    <3>2. CASE rpc' = [rpc EXCEPT ![r] = "read"] /\ UNCHANGED <<rver, rres>>
      <4>1. rver[r] \in DOMAIN manifests
        BY <2>4 DEF ReadCache, TableInv, ReaderInv
      <4>2. rver[r] \in Whole
        BY <2>0, <2>4, <4>1 DEF ReadCache, TornIsCurrent
      <4> QED BY <1>0, <2>0, <3>2, <4>2 DEF ReadersFine, ReadersTyped
    <3> QED BY <2>4, <3>1, <3>2 DEF ReadCache
  <2>5. CASE ReadDisk(r)
    <3>1. rver[r] \in Whole
      BY <2>0, <2>5 DEF ReadDisk, ReadersFine
    <3>2. Got(r, manifests[rver[r]])
      BY <2>5, <3>1 DEF ReadDisk, Readable, Whole
    <3> QED BY <2>1, <2>2, <3>1, <3>2
  <2> QED BY <1>4, <2>3, <2>4, <2>5 DEF Read
<1>5. CASE UNCHANGED vars
  BY <1>3, <1>5 DEF vars, reads, writer
<1>6. CASE Create \/ Open
  BY <1>3, <1>6 DEF Create, Open, writer
<1>7. CASE Mutate
  <2>1. UNCHANGED <<reads, writer>>
    BY <1>7 DEF Mutate, InsertCall, InsertColumn, InsertColumnFails, InsertPrepare, AddColumn,
                DropColumn, Evolve, WriteManifest, FillManifest, WriteManifestFails, Publishing
  <2> QED BY <1>3, <2>1 DEF writer
<1>8. ~Write
  BY <1>0 DEF Write, StartWriter, FlushFiles, FlushRead, FlushWrite, FlushFill
<1> QED BY <1>2, <1>4, <1>5, <1>6, <1>7, <1>8 DEF Next

\* table_test.go:358-392.  Beside mutations that do not fail, LatestManifest and
\* CheckoutVersion do not either, although the file they read may be truncated: they wait for
\* the lock before they look into the cache, and what is not in there by then is whole.
THEOREM ReadersAlwaysSucceed == ASSUME KeptApart PROVE Spec => []ReadersNeverFail
<1>1. Init => NothingFailed
  BY DEF Init, NothingFailed, TornIsCurrent, ReadersFine, Whole, NoManifest, ErrManifest
<1>2. ASSUME TableInv, NothingFailed, [Next]_vars PROVE NothingFailed'
  <2> SUFFICES ASSUME faults' = 0 PROVE TornIsCurrent' /\ (wpc' = "off" => ReadersFine')
    BY DEF NothingFailed
  <2>1. faults = 0 /\ StateInv /\ Counted
    BY <1>2, CountedStep DEF TableInv, StateInv, Counted
  <2>2. TornIsCurrent /\ (wpc = "off" => ReadersFine)
    BY <1>2, <2>1 DEF NothingFailed
  <2> QED BY <1>2, <2>1, <2>2, TornStep, ReadersFineStep
<1>3. NothingFailed => ReadersNeverFail
  BY DEF NothingFailed, ReadersFine, ReadersNeverFail
<1> QED BY <1>1, <1>2, <1>3, TableInvariant, PTL DEF Spec

=============================================================================
