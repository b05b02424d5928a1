--------------------------- MODULE VersionManager ---------------------------
(***************************************************************************)
(* table/version_manager.go: the in-memory cache of manifests.             *)
(*                                                                         *)
(* Every operation holds vm.mu, so Remove and Clear are one step each.     *)
(* Publish is the insertion followed by one step per iteration of evict's  *)
(* loop, during all of which the lock is held (evicting).  The manifests   *)
(* themselves do not influence the cache and are left out: cached is the   *)
(* key set of vm.manifests.  published is a history variable that no       *)
(* operation reads: all the versions a cache without a limit would hold if *)
(* a removal also forgot what eviction had taken before it.                *)
(***************************************************************************)
EXTENDS Integers, FiniteSets

CONSTANTS
  Versions,      \* version numbers that manifests are published under
  MaxVersions    \* maxVersions; not positive: unlimited

ASSUME VersionsAssumption == Versions \subseteq Nat
ASSUME MaxVersionsAssumption == MaxVersions \in Int

VARIABLES
  cached,        \* keys of vm.manifests
  latestVersion,
  evicting,      \* Publish is in evict
  published      \* history: what was cached at the last removal, or published since

vars == <<cached, latestVersion, evicting, published>>

None == -1

\* The smallest cached version: versionsLocked()[0].
oldestVersion == CHOOSE v \in cached : \A w \in cached : v <= w

\* Mutant: the first key that comes along instead of the last of the sorted.
recomputeLatest_First(vs) ==
  IF vs = {} THEN None ELSE CHOOSE v \in vs : \A w \in vs : v <= w

\* The last of the sorted versions.
recomputeLatest(vs) ==
  IF vs = {} THEN None ELSE CHOOSE v \in vs : \A w \in vs : w <= v

Init ==
  /\ cached = {} /\ latestVersion = None /\ evicting = FALSE
  /\ published = {}

\* Publish, up to the call of evict.
Publish(v) ==
  /\ ~evicting
  /\ cached' = cached \cup {v}
  /\ latestVersion' = IF v > latestVersion THEN v ELSE latestVersion
  /\ evicting' = TRUE
  /\ published' = published \cup {v}

\* Mutant: the loop keeps one version too many.
TooMany_OffByOne == MaxVersions > 0 /\ Cardinality(cached) > MaxVersions + 1

TooMany == MaxVersions > 0 /\ Cardinality(cached) > MaxVersions

\* Mutant: evict takes any version but the latest.
EvictOldest_Any ==
  /\ evicting /\ TooMany /\ oldestVersion # latestVersion
  /\ \E v \in cached \ {latestVersion} : cached' = cached \ {v}
  /\ UNCHANGED <<latestVersion, evicting, published>>

\* One iteration of the loop.
EvictOldest ==
  /\ evicting /\ TooMany /\ oldestVersion # latestVersion
  /\ cached' = cached \ {oldestVersion}
  /\ UNCHANGED <<latestVersion, evicting, published>>

\* evict returns: the cache fits, or only the latest version is left to go.
EvictDone ==
  /\ evicting /\ (~TooMany \/ oldestVersion = latestVersion)
  /\ evicting' = FALSE
  /\ UNCHANGED <<cached, latestVersion, published>>

\* Remove of a version, cached or not.
Remove(v) ==
  /\ ~evicting
  /\ cached' = cached \ {v}
  /\ latestVersion' = IF v = latestVersion THEN recomputeLatest(cached \ {v})
                      ELSE latestVersion
  /\ published' = cached \ {v}
  /\ UNCHANGED evicting

Clear ==
  /\ ~evicting
  /\ cached' = {} /\ latestVersion' = None /\ published' = {}
  /\ UNCHANGED evicting

Next ==
  \/ \E v \in Versions : Publish(v) \/ Remove(v)
  \/ EvictOldest \/ EvictDone \/ Clear

Spec == Init /\ [][Next]_vars

-----------------------------------------------------------------------------
(* Properties *)

\* The cache is a finite set of versions, whatever is published (TypeCorrect).
TypeOK ==
  /\ cached \subseteq Versions /\ IsFiniteSet(cached)
  /\ latestVersion \in Versions \cup {None}
  /\ evicting \in BOOLEAN
  /\ published \subseteq Versions

\* version_manager.go:34-37, 110-128.  The latest pointer is the highest cached
\* version, or -1 for an empty cache: in every order of publications, evictions
\* and removals Latest() finds the newest manifest there is.
LatestIsNewest ==
  \/ cached = {} /\ latestVersion = None
  \/ latestVersion \in cached /\ \A v \in cached : v <= latestVersion

\* version_manager.go:17-19, 43-54.  Whenever the lock is free the cache holds
\* at most maxVersions versions, although the loop gives up at the latest one.
WithinLimit == MaxVersions > 0 /\ ~evicting => Cardinality(cached) <= MaxVersions

\* "the oldest versions (lowest version numbers) are evicted; the latest version
\* is never evicted" (version_manager.go:29).  Whenever the lock is free, all that eviction has
\* taken since the last removal is older than everything in the cache, and the
\* cache is full: whatever the order of publications, and although a version is
\* published again or below all that is cached, the cache is the newest
\* maxVersions of what was published.
KeepsNewest ==
  ~evicting =>
    \A v \in published \ cached :
      MaxVersions > 0 /\ Cardinality(cached) = MaxVersions /\ \A w \in cached : v < w
=============================================================================
