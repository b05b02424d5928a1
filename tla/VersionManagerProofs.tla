------------------------ MODULE VersionManagerProofs ------------------------
(***************************************************************************)
(* The cache's invariants for every set of version numbers and every       *)
(* limit.                                                                  *)
(***************************************************************************)
EXTENDS VersionManager, FiniteSetTheorems, TLAPS

IsLeast(v, S)    == v \in S /\ \A w \in S : v <= w
IsGreatest(v, S) == v \in S /\ \A w \in S : w <= v

\* What sorting a key set relies on: each of its non-empty subsets has ends.
HasEnds(S) ==
  \A T \in SUBSET S : T # {} => (\E v : IsLeast(v, T)) /\ (\E v : IsGreatest(v, T))

\* While evict runs there may be one version too many.
AlmostWithinLimit ==
  MaxVersions > 0 =>
    Cardinality(cached) <= IF evicting THEN MaxVersions + 1 ELSE MaxVersions

\* While evict runs, what it has taken is older than all but the version it
\* may still have to take, and older than that one too once the cache fits.
AlmostNewest ==
  \A v \in published \ cached :
    /\ MaxVersions > 0 /\ Cardinality(cached) \in {MaxVersions, MaxVersions + 1}
    /\ \A w \in cached : v < w \/ (evicting /\ TooMany /\ IsLeast(w, cached))

IInv ==
  /\ TypeOK /\ LatestIsNewest /\ HasEnds(cached) /\ AlmostWithinLimit
  /\ cached \subseteq published /\ AlmostNewest

\* Adding one number keeps the ends.
LEMMA HasEndsAdd ==
  ASSUME NEW S \in SUBSET Nat, NEW x \in Nat, HasEnds(S)
  PROVE  HasEnds(S \cup {x})
<1> SUFFICES ASSUME NEW T \in SUBSET (S \cup {x}), T # {}
             PROVE  (\E v : IsLeast(v, T)) /\ (\E v : IsGreatest(v, T))
  BY DEF HasEnds
<1> DEFINE R == T \ {x}
<1>1. CASE R = {}
  <2>1. T = {x}
    BY <1>1
  <2>2. IsLeast(x, T) /\ IsGreatest(x, T)
    BY <2>1 DEF IsLeast, IsGreatest
  <2> QED
    BY <2>2
<1>2. CASE R # {}
  <2>1. R \in SUBSET S /\ R \subseteq Nat
    OBVIOUS
  <2>2. PICK lo, hi : IsLeast(lo, R) /\ IsGreatest(hi, R)
    BY <1>2, <2>1 DEF HasEnds
  <2>3. IsLeast(lo, T) \/ IsLeast(x, T)
    BY <2>1, <2>2 DEF IsLeast
  <2>4. IsGreatest(hi, T) \/ IsGreatest(x, T)
    BY <2>1, <2>2 DEF IsGreatest
  <2> QED
    BY <2>3, <2>4
<1> QED
  BY <1>1, <1>2

\* Subsets have ends when the set has them.
LEMMA HasEndsSubset ==
  ASSUME NEW S, NEW T \in SUBSET S, HasEnds(S) PROVE HasEnds(T)
  BY DEF HasEnds

\* versionsLocked()[0] is the least cached version.
LEMMA OldestIsLeast ==
  ASSUME HasEnds(cached), cached # {} PROVE IsLeast(oldestVersion, cached)
<1>1. \E v \in cached : \A w \in cached : v <= w
  BY DEF HasEnds, IsLeast
<1> QED
  BY <1>1 DEF oldestVersion, IsLeast

\* recomputeLatest finds the highest version.
LEMMA RecomputeIsGreatest ==
  ASSUME NEW S, HasEnds(S), S # {} PROVE IsGreatest(recomputeLatest(S), S)
<1>1. \E v \in S : \A w \in S : w <= v
  BY DEF HasEnds, IsGreatest
<1> QED
  BY <1>1 DEF recomputeLatest, IsGreatest

\* The empty cache.
LEMMA IInvInit == Init => IInv
<1> SUFFICES ASSUME Init PROVE IInv
  OBVIOUS
<1>0. published = {}
  BY DEF Init
<1>1. IsFiniteSet({}) /\ Cardinality({}) = 0
  BY FS_EmptySet
<1>2. HasEnds({})
  BY DEF HasEnds
<1>3. cached = {} /\ latestVersion = None /\ evicting = FALSE
  BY DEF Init
<1>4. TypeOK /\ LatestIsNewest
  BY <1>0, <1>1, <1>3 DEF TypeOK, LatestIsNewest
<1>5. AlmostWithinLimit
  BY <1>1, <1>3, MaxVersionsAssumption DEF AlmostWithinLimit
<1>6. cached \subseteq published /\ AlmostNewest
  BY <1>0, <1>3 DEF AlmostNewest
<1> QED
  BY <1>2, <1>3, <1>4, <1>5, <1>6 DEF IInv

\* Publish, evict, Remove and Clear, one by one.
LEMMA IInvStep == IInv /\ [Next]_vars => IInv'
<1> SUFFICES ASSUME IInv, [Next]_vars PROVE IInv'
  OBVIOUS
<1> USE VersionsAssumption, MaxVersionsAssumption
<1>1. IsFiniteSet(cached) /\ cached \subseteq Versions /\ Cardinality(cached) \in Nat
  BY FS_CardinalityType DEF IInv, TypeOK
<1>2. ASSUME NEW v \in Versions, Publish(v) PROVE IInv'
  <2>1. cached' = cached \cup {v} /\ evicting' = TRUE /\ ~evicting
    BY <1>2 DEF Publish
  <2>2. /\ IsFiniteSet(cached')
        /\ Cardinality(cached') \in {Cardinality(cached), Cardinality(cached) + 1}
    BY <1>1, <2>1, FS_AddElement
  <2>3. TypeOK'
    BY <1>1, <1>2, <2>1, <2>2 DEF Publish, IInv, TypeOK
  <2>4. LatestIsNewest'
    <3>1. v \in Nat /\ \A w \in cached : w \in Nat
      BY <1>1
    <3>2. CASE cached = {}
      <4>1. latestVersion = None
        BY <3>2 DEF IInv, LatestIsNewest
      <4>2. cached' = {v} /\ latestVersion' = v
        BY <1>2, <3>1, <3>2, <4>1 DEF Publish, None
      <4> QED
        BY <3>1, <4>2 DEF LatestIsNewest
    <3>3. CASE cached # {}
      <4>1. latestVersion \in cached /\ \A w \in cached : w <= latestVersion
        BY <3>3 DEF IInv, LatestIsNewest
      <4> QED
        BY <1>2, <3>1, <4>1 DEF Publish, LatestIsNewest
    <3> QED
      BY <3>2, <3>3
  <2>5. HasEnds(cached')
    BY <1>1, <2>1, HasEndsAdd DEF IInv
  <2>6. AlmostWithinLimit'
    BY <1>1, <2>1, <2>2 DEF IInv, AlmostWithinLimit
  <2>7. cached' \subseteq published' /\ published' \ cached' \subseteq published \ cached
    BY <1>2, <2>1 DEF Publish, IInv
  <2>8. ASSUME NEW u \in published' \ cached'
        PROVE  /\ MaxVersions > 0 /\ Cardinality(cached') \in {MaxVersions, MaxVersions + 1}
               /\ \A w \in cached' : u < w \/ (evicting' /\ TooMany' /\ IsLeast(w, cached'))
    <3>1. /\ MaxVersions > 0 /\ Cardinality(cached) = MaxVersions
          /\ \A w \in cached : u < w
      <4>1. u \in published \ cached
        BY <2>7
      <4>2. Cardinality(cached) <= MaxVersions \/ ~(MaxVersions > 0)
        BY <2>1 DEF IInv, AlmostWithinLimit
      <4> QED
        BY <1>1, <2>1, <4>1, <4>2 DEF IInv, AlmostNewest
    <3>2. Cardinality(cached') \in {MaxVersions, MaxVersions + 1}
      BY <2>2, <3>1
    <3>3. u \in Nat /\ v \in Nat /\ u # v /\ \A w \in cached : w \in Nat
      BY <1>1, <1>2, <2>1, <2>3 DEF TypeOK
    <3>4. CASE u < v
      BY <2>1, <3>1, <3>2, <3>4
    <3>5. CASE v < u
      <4>1. v \notin cached
        BY <3>1, <3>3, <3>5
      <4>2. Cardinality(cached') = MaxVersions + 1
        BY <1>1, <2>1, <3>1, <4>1, FS_AddElement
      <4>3. TooMany'
        BY <3>1, <4>2 DEF TooMany
      <4>4. \A w \in cached : v <= w
        BY <3>1, <3>3, <3>5
      <4>5. IsLeast(v, cached')
        BY <2>1, <3>3, <4>4 DEF IsLeast
      <4> QED
        BY <2>1, <3>1, <3>2, <4>3, <4>5
    <3> QED
      BY <3>3, <3>4, <3>5
  <2>9. AlmostNewest'
    BY <2>8 DEF AlmostNewest, IsLeast
  <2> QED
    BY <2>3, <2>4, <2>5, <2>6, <2>7, <2>9 DEF IInv, HasEnds, IsLeast, IsGreatest
<1>3. ASSUME NEW v \in cached, cached' = cached \ {v}
      PROVE  /\ IsFiniteSet(cached') /\ HasEnds(cached')
             /\ Cardinality(cached') = Cardinality(cached) - 1
  BY <1>1, <1>3, FS_RemoveElement, HasEndsSubset DEF IInv
<1>4. CASE EvictOldest
  <2>1. /\ evicting /\ UNCHANGED <<latestVersion, evicting>>
        /\ cached' = cached \ {oldestVersion} /\ oldestVersion # latestVersion
        /\ published' = published /\ TooMany
    BY <1>4 DEF EvictOldest
  <2>2. cached # {}
    <3>1. cached = {} => Cardinality(cached) = 0
      BY FS_EmptySet
    <3> QED
      BY <1>4, <3>1 DEF EvictOldest, TooMany
  <2>3. oldestVersion \in cached
    BY <2>2, OldestIsLeast DEF IInv, IsLeast
  <2>4. /\ IsFiniteSet(cached') /\ HasEnds(cached')
        /\ Cardinality(cached') = Cardinality(cached) - 1
    BY <1>3, <2>1, <2>3
  <2>5. TypeOK'
    BY <2>1, <2>4 DEF IInv, TypeOK
  <2>6. LatestIsNewest'
    BY <2>1, <2>2 DEF IInv, LatestIsNewest
  <2>7. AlmostWithinLimit'
    BY <1>1, <2>1, <2>4 DEF IInv, AlmostWithinLimit
  <2>8. MaxVersions > 0 /\ Cardinality(cached') = MaxVersions
    BY <1>1, <2>1, <2>4 DEF IInv, AlmostWithinLimit, TooMany
  <2>9. IsLeast(oldestVersion, cached)
    BY <2>2, OldestIsLeast DEF IInv
  <2>10. ASSUME NEW u \in published' \ cached', NEW w \in cached' PROVE u < w
    <3>1. w \in cached /\ w # oldestVersion /\ w \in Nat /\ oldestVersion \in Nat
      BY <1>1, <2>1, <2>3
    <3>2. oldestVersion < w
      BY <2>9, <3>1 DEF IsLeast
    <3>3. ~IsLeast(w, cached)
      BY <2>3, <3>1, <3>2 DEF IsLeast
    <3>4. CASE u = oldestVersion
      BY <3>2, <3>4
    <3>5. CASE u # oldestVersion
      BY <2>1, <3>1, <3>3, <3>5 DEF IInv, AlmostNewest
    <3> QED
      BY <3>4, <3>5
  <2>11. AlmostNewest'
    BY <2>8, <2>10 DEF AlmostNewest
  <2>12. cached' \subseteq published'
    BY <2>1 DEF IInv
  <2> QED
    BY <2>4, <2>5, <2>6, <2>7, <2>11, <2>12 DEF IInv, HasEnds, IsLeast, IsGreatest
<1>5. CASE EvictDone
  <2>1. evicting' = FALSE /\ UNCHANGED <<cached, latestVersion, published>>
    BY <1>5 DEF EvictDone
  <2>2. MaxVersions > 0 => Cardinality(cached) <= MaxVersions
    <3>1. CASE ~TooMany
      BY <1>1, <3>1 DEF TooMany
    <3>2. CASE oldestVersion = latestVersion
      <4>1. CASE cached = {}
        <5>1. Cardinality(cached) = 0
          BY <4>1, FS_EmptySet
        <5> QED
          BY <5>1
      <4>2. CASE cached # {}
        <5>1. IsLeast(latestVersion, cached) /\ IsGreatest(latestVersion, cached)
          BY <3>2, <4>2, OldestIsLeast DEF IInv, LatestIsNewest, IsGreatest
        <5>2. cached = {latestVersion}
          <6>1. \A w \in cached : w \in Nat /\ w <= latestVersion /\ latestVersion <= w
            BY <1>1, <5>1 DEF IsLeast, IsGreatest
          <6>2. latestVersion \in cached
            BY <5>1 DEF IsLeast
          <6>3. \A w \in cached : w = latestVersion
            BY <6>1, <6>2
          <6> QED
            BY <6>2, <6>3
        <5>3. Cardinality(cached) = 1
          BY <5>2, FS_Singleton
        <5> QED
          BY <5>3
      <4> QED
        BY <4>1, <4>2
    <3> QED
      BY <1>5, <3>1, <3>2 DEF EvictDone
  <2>3. TypeOK' /\ LatestIsNewest' /\ HasEnds(cached')
    BY <2>1 DEF IInv, TypeOK, LatestIsNewest, HasEnds, IsLeast, IsGreatest
  <2>4. AlmostWithinLimit'
    BY <2>1, <2>2 DEF AlmostWithinLimit
  <2>5. cached' \subseteq published'
    BY <2>1 DEF IInv
  <2>6. ~TooMany
    BY <1>1, <2>2 DEF TooMany
  <2>7. AlmostNewest'
    BY <2>1, <2>6 DEF IInv, AlmostNewest
  <2> QED
    BY <2>3, <2>4, <2>5, <2>7 DEF IInv, HasEnds, IsLeast, IsGreatest
<1>6. ASSUME NEW v \in Versions, Remove(v) PROVE IInv'
  <2>1. /\ cached' = cached \ {v} /\ ~evicting /\ evicting' = evicting
        /\ published' = cached'
    BY <1>6 DEF Remove
  <2>2. /\ IsFiniteSet(cached') /\ HasEnds(cached')
        /\ Cardinality(cached') <= Cardinality(cached) /\ Cardinality(cached') \in Nat
    BY <1>1, <2>1, FS_Subset, FS_CardinalityType, HasEndsSubset DEF IInv
  <2>3. cached' # {} => IsGreatest(recomputeLatest(cached'), cached')
    BY <2>2, RecomputeIsGreatest
  <2>4. latestVersion' = IF v = latestVersion THEN recomputeLatest(cached') ELSE latestVersion
    BY <1>6, <2>1 DEF Remove
  <2>5. LatestIsNewest'
    <3>1. CASE v = latestVersion /\ cached' # {}
      BY <2>3, <2>4, <3>1 DEF LatestIsNewest, IsGreatest
    <3>2. CASE v = latestVersion /\ cached' = {}
      BY <2>4, <3>2 DEF LatestIsNewest, recomputeLatest
    <3>3. CASE v # latestVersion
      BY <2>1, <2>4, <3>3 DEF IInv, LatestIsNewest
    <3> QED
      BY <3>1, <3>2, <3>3
  <2>6. TypeOK'
    BY <1>1, <2>1, <2>2, <2>5 DEF IInv, TypeOK, LatestIsNewest
  <2>7. AlmostWithinLimit'
    BY <1>1, <2>1, <2>2 DEF IInv, AlmostWithinLimit
  <2>8. cached' \subseteq published' /\ AlmostNewest'
    BY <2>1 DEF AlmostNewest
  <2> QED
    BY <2>2, <2>5, <2>6, <2>7, <2>8 DEF IInv, HasEnds, IsLeast, IsGreatest
<1>7. CASE Clear
  <2>1. /\ cached' = {} /\ latestVersion' = None /\ evicting' = evicting
        /\ published' = {}
    BY <1>7 DEF Clear
  <2>2. IsFiniteSet(cached') /\ Cardinality(cached') = 0
    BY <2>1, FS_EmptySet
  <2>3. HasEnds(cached')
    BY <2>1 DEF HasEnds
  <2>4. AlmostWithinLimit'
    BY <2>2 DEF AlmostWithinLimit
  <2>5. cached' \subseteq published' /\ AlmostNewest'
    BY <2>1 DEF AlmostNewest
  <2> QED
    BY <2>1, <2>2, <2>3, <2>4, <2>5
       DEF IInv, TypeOK, LatestIsNewest, HasEnds, IsLeast, IsGreatest
<1>8. CASE UNCHANGED vars
  BY <1>8 DEF vars, IInv, TypeOK, LatestIsNewest, AlmostWithinLimit, AlmostNewest, TooMany,
              HasEnds, IsLeast, IsGreatest
<1> QED
  BY <1>2, <1>4, <1>5, <1>6, <1>7, <1>8 DEF Next

\* version_manager.go:27-128.  The inductive invariant of the cache, in every order of operations.
THEOREM Invariance == Spec => []IInv
  BY IInvInit, IInvStep, PTL DEF Spec

\* Type correctness of the cache.
THEOREM TypeCorrect == Spec => []TypeOK
<1>1. IInv => TypeOK
  BY DEF IInv
<1> QED
  BY <1>1, Invariance, PTL

\* version_manager.go:89-128.  Latest() always finds the newest cached manifest.
THEOREM LatestCorrect == Spec => []LatestIsNewest
<1>1. IInv => LatestIsNewest
  BY DEF IInv
<1> QED
  BY <1>1, Invariance, PTL

\* version_manager.go:43-54.  The eviction loop always gets the cache within
\* its limit before the lock is released.
THEOREM LimitRespected == Spec => []WithinLimit
<1>1. IInv => WithinLimit
  BY DEF IInv, AlmostWithinLimit, WithinLimit
<1> QED
  BY <1>1, Invariance, PTL

\* version_manager.go:27-54.  In every order of publications, of old versions
\* too, the cache is the newest maxVersions of what was published since the
\* last removal: what eviction took is older than all that it kept.
THEOREM NewestKept == Spec => []KeepsNewest
<1>1. ASSUME IInv PROVE KeepsNewest
  <2> SUFFICES ASSUME ~evicting, NEW v \in published \ cached
               PROVE  /\ MaxVersions > 0 /\ Cardinality(cached) = MaxVersions
                      /\ \A w \in cached : v < w
    BY DEF KeepsNewest
  <2>1. /\ MaxVersions > 0 /\ Cardinality(cached) \in {MaxVersions, MaxVersions + 1}
        /\ \A w \in cached : v < w
    BY <1>1 DEF IInv, AlmostNewest
  <2>2. Cardinality(cached) <= MaxVersions
    BY <1>1, <2>1 DEF IInv, AlmostWithinLimit
  <2> QED
    BY <2>1, <2>2, MaxVersionsAssumption
<1> QED
  BY <1>1, Invariance, PTL
=============================================================================
