----------------------------- MODULE Manifests -----------------------------
(***************************************************************************)
(* The on-disk vocabulary shared by every writer of a table                *)
(* (table/manifest.go, table/fragment.go, table/manifest_store.go).        *)
(*                                                                         *)
(* A table directory holds manifest files `_versions/<v>.manifest` and     *)
(* column files `data/f<id>/col_<c>.lance`.  A manifest is a record        *)
(*   whole  - FALSE when the file was truncated by an interrupted write    *)
(*            and does not parse any more (LocalFS.Write truncates first)  *)
(*   frags  - the fragments the version consists of, oldest first          *)
(*   max    - MaxFragmentID                                                *)
(* and a fragment is the record of its id and the columns it has a         *)
(* DataFile for.  Versions are the keys of a function.                     *)
(***************************************************************************)
EXTENDS Integers, Sequences

\* A file cut short by a failed or interrupted os.WriteFile.
TornManifest == [whole |-> FALSE, frags |-> <<>>, max |-> 0]

NewManifest(frags, max) == [whole |-> TRUE, frags |-> frags, max |-> max]

\* What Table.Create writes as version 1: no fragment, MaxFragmentID 0.
EmptyManifest == NewManifest(<<>>, 0)

\* ListVersions is the sorted list of the keys; only its emptiness and its
\* last element are ever used.
ListVersions(manifests) == DOMAIN manifests

LatestVersion(manifests) ==
  CHOOSE v \in ListVersions(manifests) :
    \A w \in ListVersions(manifests) : w <= v

\* ManifestStore.Read succeeds on a file that is there and parses.
Readable(manifests, v) == v \in DOMAIN manifests /\ manifests[v].whole

\* Store.Write: the file at path is created or overwritten blindly.  A
\* manifest's path is its version, a column file's its fragment and column.
Put(dir, path, content) ==
  [f \in DOMAIN dir \cup {path} |-> IF f = path THEN content ELSE dir[f]]

\* The manifest a writer builds on top of the one it read: the fragments of
\* the base followed by the new one, the larger of the two fragment ids.
AppendFragment(base, frag) ==
  NewManifest(Append(base.frags, frag),
              IF frag.id > base.max THEN frag.id ELSE base.max)

\* The manifest built when there is no base.
FirstFragment(frag) == NewManifest(<<frag>>, frag.id)
=============================================================================
