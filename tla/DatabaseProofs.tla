--------------------------- MODULE DatabaseProofs ---------------------------
(***************************************************************************)
(* What a Database and the handles it gives out keep true, for any number  *)
(* of clients, tables, batches, failures, closes, drops and reconnections. *)
(*                                                                         *)
(* The inductive invariant rests on one idea, that of a live handle: one   *)
(* that is open, or in Close with its mutex held.  A live handle is the    *)
(* one db.tables has for its name, so that there is one per directory;     *)
(* DropTable and Database.Close forget a handle only when it is dead.  For *)
(* a quiet application that connects by path, a live handle is also the    *)
(* only writer of its directory, and knows the versions and the rows that  *)
(* are there.                                                              *)
(***************************************************************************)
EXTENDS Database, WellFoundedInduction, TLAPS

-----------------------------------------------------------------------------
(* Types *)

\* The versions of a directory are numbers, and there are finitely many.
Directory(d) ==
  /\ d \in [DOMAIN d -> SUBSET Batches] /\ DOMAIN d \subseteq Nat
  /\ \E m \in Nat : \A v \in DOMAIN d : v <= m

HandleRecord ==
  [name : Names, made : Nat, closed : BOOLEAN, nextVersion : Nat,
   rows : SUBSET Batches, writer : {"off", "on", "stopped"}, wver : Nat,
   pending : SUBSET Batches]

\* Where a client is in Table.Close, or in a call that closes tables.
Closers == {"close", "closing", "closed", "failed"}

CloseArgs ==
  [h : Nat, for : {"user"}] \cup [h : Nat, for : {"drop"}, name : Names]
    \cup [h : Nat, for : {"db"}, left : SUBSET Nat]

ArgTyped(c) ==
  /\ pc[c] = "insert" => arg[c] \in [h : DOMAIN handles, batch : Batches]
  /\ pc[c] = "flush" => arg[c] \in [h : DOMAIN handles]
  /\ pc[c] \in Closers => arg[c] \in CloseArgs
  /\ pc[c] \in {"close", "closing"} => arg[c].h \in DOMAIN handles

DiskTyped ==
  /\ disk = [n \in DOMAIN disk |-> disk[n]] /\ DOMAIN disk \subseteq Names
  /\ \A n \in DOMAIN disk : Directory(disk[n])

ProcessTyped ==
  /\ db \in {"none", "open", "closed"}
  /\ tables = [n \in DOMAIN tables |-> tables[n]] /\ DOMAIN tables \subseteq Names
  /\ handles \in Seq(HandleRecord)
  /\ tmu \in Seq(Clients \cup {NoClient}) /\ Len(tmu) = Len(handles)

ClientsTyped ==
  /\ pc \in [Clients -> {"idle", "insert", "flush"} \cup Closers]
  /\ arg = [c \in Clients |-> arg[c]]
  /\ \A c \in Clients : ArgTyped(c)

HistTyped ==
  /\ made \in Nat
  /\ latestMade \in [DOMAIN latestMade -> Nat]
  /\ owner = [b \in DOMAIN owner |-> owner[b]]

TypeInv == DiskTyped /\ ProcessTyped /\ ClientsTyped /\ HistTyped

-----------------------------------------------------------------------------
(* Handles *)

\* Handle h is open, or being closed.
Live(h) == ~handles[h].closed \/ tmu[h] # NoClient

\* db.tables has handles of the right name.
TablesInv ==
  \A n \in DOMAIN tables :
    tables[n] # Unopened =>
      tables[n] \in DOMAIN handles /\ handles[tables[n]].name = n

\* Who holds t.mu is in Close of that table, which is marked closed, and who is
\* in DropTable or Database.Close holds db.mu.
LockInv ==
  /\ \A c \in Clients : pc[c] = "closing" =>
       tmu[arg[c].h] = c /\ handles[arg[c].h].closed
  /\ \A h \in DOMAIN handles : tmu[h] # NoClient =>
       tmu[h] \in Clients /\ pc[tmu[h]] = "closing" /\ arg[tmu[h]].h = h
  /\ \A c \in Clients : pc[c] \in Closers /\ arg[c].for # "user" => dbmu = c

\* db.tables knows every live handle.
LiveInv ==
  \A h \in DOMAIN handles : Live(h) =>
    handles[h].name \in DOMAIN tables /\ tables[handles[h].name] = h

\* DropTable closes the handle that it is about to forget.
DropInv ==
  \A c \in Clients : pc[c] \in Closers /\ arg[c].for = "drop" =>
    /\ arg[c].name \in DOMAIN tables /\ tables[arg[c].name] = arg[c].h
    /\ pc[c] \in {"closed", "failed"} /\ arg[c].h # 0 => ~Live(arg[c].h)

\* Database.Close gets to every handle that db.tables knows.
DBInv ==
  \A c \in Clients : pc[c] \in Closers /\ arg[c].for = "db" =>
    /\ db = "closed" /\ arg[c].left \subseteq DOMAIN handles
    /\ \A n \in DOMAIN tables : tables[n] # Unopened =>
         \/ tables[n] \in arg[c].left
         \/ pc[c] \in {"close", "closing"} /\ tables[n] = arg[c].h
         \/ ~Live(tables[n])

\* An Insert under way is of the table of its handle.
InsertInv ==
  \A c \in Clients : pc[c] = "insert" =>
    /\ arg[c].batch \in DOMAIN owner
    /\ owner[arg[c].batch] = handles[arg[c].h].made

\* Who may do what with a handle.
TurnsInv == TablesInv /\ LockInv /\ LiveInv /\ DropInv /\ DBInv

HandlesInv == TypeInv /\ TurnsInv /\ InsertInv

-----------------------------------------------------------------------------
(* Data, of a quiet application *)

\* Nobody closes a table beside an Insert or a Flush.
QuietInv ==
  \A c \in Clients : pc[c] \in {"insert", "flush"} =>
    /\ ~handles[arg[c].h].closed
    /\ \A d \in Clients : ~Closing(d, arg[c].h)

\* Nobody runs a writer beside an Insert.
ApartInv ==
  \A c \in Clients : pc[c] = "insert" => handles[arg[c].h].writer = "off"

\* A directory with a version is a table's that was created, and has no rows
\* but that table's.
DirectoryInv ==
  \A n \in DOMAIN disk : DOMAIN disk[n] # {} =>
    /\ n \in DOMAIN latestMade /\ (db = "open" => n \in DOMAIN tables)
    /\ \A v \in DOMAIN disk[n] : \A b \in disk[n][v] :
         b \in DOMAIN owner /\ owner[b] = latestMade[n]

\* Version v of n is yet to be written.
Beyond(n, v) == \A w \in DOMAIN disk[n] : w < v

\* A live handle knows its directory.
KnowsDirectory(t) ==
  /\ t.name \in DOMAIN disk /\ DOMAIN disk[t.name] # {}
  /\ t.name \in DOMAIN latestMade /\ t.made = latestMade[t.name]
  /\ t.writer = "off" => Beyond(t.name, t.nextVersion) /\ t.rows = Visible(t.name)
  /\ t.writer = "on" => Beyond(t.name, t.wver)
  /\ \A b \in t.pending : b \in DOMAIN owner /\ owner[b] = t.made

WritersInv == \A h \in DOMAIN handles : Live(h) => KnowsDirectory(handles[h])

\* What was acknowledged is there.
AckedInv == \A b \in acked : b \in DOMAIN owner /\ InTable(b)

DataInv == QuietInv /\ ApartInv /\ DirectoryInv /\ WritersInv /\ AckedInv

DatabaseInv ==
  HandlesInv /\ (quiet => QuietInv /\ ApartInv) /\ (quiet /\ ~configured => DataInv)
-----------------------------------------------------------------------------
(* Directories *)

\* A nonempty set of numbers that has a bound has a largest element.
LEMMA MaxExists ==
  ASSUME NEW S \in SUBSET Nat, S # {}, NEW n \in Nat, \A x \in S : x <= n
  PROVE  \E m \in S : \A x \in S : x <= m
<1> DEFINE Gaps == {n - x : x \in S}
<1>0. \A x \in S : n - x \in Nat
  OBVIOUS
<1>1. Gaps \subseteq Nat /\ Gaps # {}
  BY <1>0
<1>2. PICK g \in Gaps : \A y \in Gaps : ~(<<y, g>> \in OpToRel(<, Nat))
  BY <1>1, NatLessThanWellFounded, WFMin
<1>3. PICK m \in S : g = n - m
  OBVIOUS
<1>4. ASSUME NEW x \in S PROVE ~(n - x < n - m)
  BY <1>1, <1>2, <1>3 DEF OpToRel
<1> QED BY <1>3, <1>4

\* connection.go lists the versions and takes the largest.
LEMMA NewestFacts ==
  ASSUME NEW d, Directory(d), DOMAIN d # {}
  PROVE  /\ Newest(d) \in DOMAIN d /\ Newest(d) \in Nat
         /\ \A v \in DOMAIN d : v <= Newest(d)
<1>1. \E v \in DOMAIN d : \A w \in DOMAIN d : w <= v
  BY MaxExists DEF Directory
<1>2. Newest(d) \in DOMAIN d /\ \A v \in DOMAIN d : v <= Newest(d)
  BY <1>1 DEF Newest
<1> QED BY <1>2 DEF Directory

\* A version beyond all others is the newest.
LEMMA NewestIs ==
  ASSUME NEW d, Directory(d), NEW v \in DOMAIN d, \A w \in DOMAIN d : w <= v
  PROVE  Newest(d) = v
<1>1. Newest(d) \in DOMAIN d /\ v <= Newest(d) /\ Newest(d) <= v
  BY NewestFacts
<1> QED BY <1>1 DEF Directory

\* Rows are batches.
LEMMA VisibleTyped ==
  ASSUME DiskTyped, NEW n \in DOMAIN disk
  PROVE  Visible(n) \subseteq Batches
<1>1. Directory(disk[n])
  BY DEF DiskTyped
<1>2. CASE DOMAIN disk[n] # {}
  BY <1>1, <1>2, NewestFacts DEF Visible, Directory
<1> QED BY <1>2 DEF Visible

\* What a write of a version leaves in the directories.
LEMMA WriteFacts ==
  ASSUME DiskTyped, NEW n \in Names, NEW v \in Nat, NEW rows \in SUBSET Batches,
         WriteVersion(n, v, rows)
  PROVE  /\ DiskTyped' /\ DOMAIN disk' = DOMAIN disk \cup {n}
         /\ \A k \in DOMAIN disk \ {n} : disk'[k] = disk[k]
         /\ disk'[n][v] = rows
         /\ n \in DOMAIN disk => /\ DOMAIN disk'[n] = DOMAIN disk[n] \cup {v}
                                 /\ \A w \in DOMAIN disk[n] \ {v} : disk'[n][w] = disk[n][w]
         /\ n \notin DOMAIN disk => DOMAIN disk'[n] = {v}
<1> DEFINE dir == IF n \in DOMAIN disk THEN disk[n] ELSE NoVersions
           new == [w \in DOMAIN dir \cup {v} |-> IF w = v THEN rows ELSE dir[w]]
<1>1. disk' = [k \in DOMAIN disk \cup {n} |-> IF k # n THEN disk[k] ELSE new]
  BY DEF WriteVersion
<1>2. Directory(dir)
  <2>1. CASE n \in DOMAIN disk
    BY <2>1 DEF DiskTyped
  <2>2. CASE n \notin DOMAIN disk
    <3>1. DOMAIN NoVersions = {}
      BY DEF NoVersions
    <3>2. NoVersions \in [{} -> SUBSET Batches]
      BY DEF NoVersions
    <3> QED BY <2>2, <3>1, <3>2 DEF Directory
  <2> QED BY <2>1, <2>2
<1>3. DOMAIN new = DOMAIN dir \cup {v} /\ new[v] = rows
      /\ \A w \in DOMAIN dir \ {v} : new[w] = dir[w]
  OBVIOUS
<1>4. Directory(new)
  <2>1. PICK m \in Nat : \A w \in DOMAIN dir : w <= m
    BY <1>2 DEF Directory
  <2>2. \E k \in Nat : \A w \in DOMAIN dir \cup {v} : w <= k
    <3>1. CASE v <= m
      BY <2>1, <3>1
    <3>2. CASE m < v
      BY <1>2, <2>1, <3>2 DEF Directory
    <3> QED BY <3>1, <3>2
  <2> QED BY <1>2, <1>3, <2>2 DEF Directory
<1>5. dir = IF n \in DOMAIN disk THEN disk[n] ELSE NoVersions
  OBVIOUS
<1>6. DOMAIN NoVersions = {}
  BY DEF NoVersions
<1> HIDE DEF dir, new
<1>7. disk'[n] = new /\ DOMAIN disk' = DOMAIN disk \cup {n}
      /\ \A k \in DOMAIN disk \ {n} : disk'[k] = disk[k]
  BY <1>1
<1>8. DiskTyped'
  BY <1>1, <1>4, <1>7 DEF DiskTyped
<1> QED BY <1>3, <1>5, <1>6, <1>7, <1>8
-----------------------------------------------------------------------------
(* Handles: what a step of a client changes *)

\* No handle is made, renamed, opened or closed.
SameHandles ==
  /\ Len(handles') = Len(handles) /\ DOMAIN handles' = DOMAIN handles
  /\ \A h \in DOMAIN handles :
       /\ handles'[h].name = handles[h].name /\ handles'[h].made = handles[h].made
       /\ handles'[h].closed = handles[h].closed

\* A client goes on, and no table or mutex but db.mu is touched.
LEMMA GotoKeeps ==
  ASSUME TypeInv, TurnsInv, NEW c \in Clients, NEW label, NEW a, Goto(c, label, a),
         SameHandles, UNCHANGED <<tables, tmu>>, db' \in {db, "closed"},
         pc[c] # "closing", label # "closing",
         \A d \in Clients \ {c} : dbmu = d => dbmu' = d,
         label \in Closers /\ a.for # "user" => dbmu' = c,
         label \in Closers /\ a.for = "drop" =>
           /\ a.name \in DOMAIN tables /\ tables[a.name] = a.h
           /\ label \in {"closed", "failed"} /\ a.h # 0 => ~Live(a.h),
         label \in Closers /\ a.for = "db" =>
           /\ db' = "closed" /\ a.left \subseteq DOMAIN handles
           /\ \A n \in DOMAIN tables : tables[n] # Unopened =>
                \/ tables[n] \in a.left
                \/ label = "close" /\ tables[n] = a.h
                \/ ~Live(tables[n])
  PROVE  TurnsInv'
<1>1. /\ pc'[c] = label /\ arg'[c] = a
      /\ \A d \in Clients \ {c} : pc'[d] = pc[d] /\ arg'[d] = arg[d]
  BY DEF Goto, TypeInv, ClientsTyped
<1>2. \A h \in DOMAIN handles : Live(h)' = Live(h)
  BY DEF SameHandles, Live
<1>3. TablesInv' /\ LiveInv'
  BY <1>2 DEF TurnsInv, TablesInv, LiveInv, SameHandles
<1>4. LockInv'
  <2>1. ASSUME NEW d \in Clients, pc'[d] = "closing"
        PROVE  tmu'[arg'[d].h] = d /\ handles'[arg'[d].h].closed
    <3>1. d # c /\ pc[d] = "closing" /\ arg[d].h \in DOMAIN handles
      BY <1>1, <2>1 DEF TypeInv, ClientsTyped, ArgTyped
    <3> QED BY <1>1, <3>1 DEF TurnsInv, LockInv, SameHandles
  <2>2. ASSUME NEW h \in DOMAIN handles, tmu[h] # NoClient
        PROVE  tmu[h] \in Clients /\ pc'[tmu[h]] = "closing" /\ arg'[tmu[h]].h = h
    BY <1>1, <2>2 DEF TurnsInv, LockInv
  <2>3. ASSUME NEW d \in Clients, pc'[d] \in Closers, arg'[d].for # "user"
        PROVE  dbmu' = d
    BY <1>1, <2>3 DEF TurnsInv, LockInv
  <2> QED BY <2>1, <2>2, <2>3 DEF LockInv, SameHandles
<1>5. ASSUME NEW d \in Clients, (pc[d] \in Closers /\ arg[d].for = "drop")'
      PROVE  (/\ arg[d].name \in DOMAIN tables /\ tables[arg[d].name] = arg[d].h
              /\ pc[d] \in {"closed", "failed"} /\ arg[d].h # 0 => ~Live(arg[d].h))'
  <2>1. CASE d = c
    <3>1. a.h # 0 => a.h \in DOMAIN handles
      BY <1>1, <1>5, <2>1 DEF TurnsInv, TablesInv, Unopened
    <3> QED BY <1>1, <1>2, <1>5, <2>1, <3>1 DEF SameHandles, Live
  <2>2. CASE d # c
    <3>1. pc[d] \in Closers /\ arg[d].for = "drop"
      BY <1>1, <1>5, <2>2
    <3>2. arg[d].h # 0 => arg[d].h \in DOMAIN handles
      BY <3>1 DEF TurnsInv, DropInv, TablesInv, Unopened
    <3> QED BY <1>1, <2>2, <3>1, <3>2 DEF TurnsInv, DropInv, SameHandles, Live
  <2> QED BY <2>1, <2>2
<1>6. ASSUME NEW d \in Clients, (pc[d] \in Closers /\ arg[d].for = "db")'
      PROVE  (/\ db = "closed" /\ arg[d].left \subseteq DOMAIN handles
              /\ \A n \in DOMAIN tables : tables[n] # Unopened =>
                   \/ tables[n] \in arg[d].left
                   \/ pc[d] \in {"close", "closing"} /\ tables[n] = arg[d].h
                   \/ ~Live(tables[n]))'
  <2>1. \A n \in DOMAIN tables : tables[n] # Unopened => Live(tables[n])' = Live(tables[n])
    BY <1>2 DEF TurnsInv, TablesInv
  <2>2. CASE d = c
    BY <1>1, <1>6, <2>1, <2>2 DEF SameHandles, Live
  <2>3. CASE d # c
    <3>1. pc[d] \in Closers /\ arg[d].for = "db"
      BY <1>1, <1>6, <2>3
    <3> QED BY <1>1, <2>1, <2>3, <3>1 DEF TurnsInv, DBInv, SameHandles, Live
  <2> QED BY <2>2, <2>3
<1>7. DropInv'
  BY <1>5 DEF DropInv
<1>8. DBInv'
  BY <1>6 DEF DBInv
<1> QED BY <1>3, <1>4, <1>7, <1>8 DEF TurnsInv
\* Only handles change, and no handle but in what it knows of its directory.
LEMMA SameTurns ==
  ASSUME TypeInv, TurnsInv, SameHandles,
         UNCHANGED <<db, tables, dbmu, tmu, pc, arg>>
  PROVE  TurnsInv'
<1>1. \A h \in DOMAIN handles : Live(h)' = Live(h)
  BY DEF SameHandles, Live
<1>2. TablesInv' /\ LiveInv'
  BY <1>1 DEF TurnsInv, TablesInv, LiveInv, SameHandles
<1>3. LockInv'
  BY DEF TurnsInv, LockInv, SameHandles, TypeInv, ClientsTyped, ArgTyped
<1>4. DropInv'
  BY <1>1 DEF TurnsInv, DropInv, TablesInv, Unopened
<1>5. DBInv'
  BY <1>1 DEF TurnsInv, DBInv, TablesInv, SameHandles
<1> QED BY <1>2, <1>3, <1>4, <1>5 DEF TurnsInv

\* One handle is changed.
LEMMA HandleChange ==
  ASSUME ProcessTyped, NEW h \in DOMAIN handles, NEW t \in HandleRecord,
         handles' = [handles EXCEPT ![h] = t]
  PROVE  /\ handles' \in Seq(HandleRecord) /\ Len(handles') = Len(handles)
         /\ DOMAIN handles' = DOMAIN handles /\ handles'[h] = t
         /\ \A g \in DOMAIN handles \ {h} : handles'[g] = handles[g]
BY DEF ProcessTyped

\* A client goes on with arguments of the right type.
LEMMA GotoTyped ==
  ASSUME ClientsTyped, NEW c \in Clients, NEW a,
         NEW label \in {"idle", "insert", "flush"} \cup Closers,
         Goto(c, label, a), DOMAIN handles' = DOMAIN handles,
         label = "insert" => a \in [h : DOMAIN handles, batch : Batches],
         label = "flush" => a \in [h : DOMAIN handles],
         label \in Closers => a \in CloseArgs,
         label \in {"close", "closing"} => a.h \in DOMAIN handles
  PROVE  ClientsTyped'
<1>1. pc'[c] = label /\ arg'[c] = a /\ ArgTyped(c)'
  BY DEF Goto, ClientsTyped, ArgTyped
<1>2. \A d \in Clients \ {c} : ArgTyped(d)'
  BY DEF Goto, ClientsTyped, ArgTyped
<1> QED BY <1>1, <1>2 DEF Goto, ClientsTyped

\* The handle of a call is one of the handles.
LEMMA ArgFacts ==
  ASSUME TypeInv, NEW c \in Clients
  PROVE  /\ pc[c] = "insert" => arg[c].h \in DOMAIN handles /\ arg[c].batch \in Batches
         /\ pc[c] = "flush" => arg[c].h \in DOMAIN handles
         /\ pc[c] \in {"close", "closing"} => arg[c].h \in DOMAIN handles
         /\ pc[c] \in Closers => arg[c].for \in {"user", "drop", "db"}
BY DEF TypeInv, ClientsTyped, ArgTyped, CloseArgs, Closers

\* What a handle is.
LEMMA HandleFacts ==
  ASSUME TypeInv, NEW h \in DOMAIN handles
  PROVE  /\ h \in Nat \ {0} /\ handles[h] \in HandleRecord
         /\ handles[h].name \in Names /\ tmu[h] \in Clients \cup {NoClient}
         /\ DOMAIN tmu = DOMAIN handles
<1>1. /\ handles \in Seq(HandleRecord) /\ tmu \in Seq(Clients \cup {NoClient})
      /\ Len(tmu) = Len(handles)
  BY DEF TypeInv, ProcessTyped
<1>2. handles[h] \in HandleRecord /\ h \in Nat \ {0} /\ DOMAIN tmu = DOMAIN handles
  BY <1>1
<1>3. tmu[h] \in Clients \cup {NoClient}
  BY <1>1, <1>2
<1> QED BY <1>2, <1>3 DEF HandleRecord

\* What the writer of h writes.
LEMMA FlushedFacts ==
  ASSUME TypeInv, NEW h \in DOMAIN handles, Flushed(h)
  PROVE  /\ DiskTyped'
         /\ \E rows \in SUBSET Batches :
              WriteVersion(handles[h].name, handles[h].wver, rows)
<1>1. (IF handles[h].name \in DOMAIN disk THEN Visible(handles[h].name) ELSE {})
        \cup handles[h].pending \in SUBSET Batches
  BY HandleFacts, VisibleTyped DEF TypeInv, HandleRecord
<1>2. handles[h].wver \in Nat
  BY HandleFacts DEF HandleRecord
<1> QED BY <1>1, <1>2, HandleFacts, WriteFacts DEF Flushed, TypeInv

\* An Insert under way is not disturbed by a client that goes on.
LEMMA InsertKeeps ==
  ASSUME TypeInv, InsertInv, NEW c \in Clients, NEW label, NEW a, Goto(c, label, a),
         label # "insert", UNCHANGED owner, DOMAIN handles' = DOMAIN handles,
         \A h \in DOMAIN handles : handles'[h].made = handles[h].made
  PROVE  InsertInv'
<1>1. \A d \in Clients : pc'[d] = "insert" =>
        d # c /\ pc[d] = "insert" /\ arg'[d] = arg[d] /\ arg[d].h \in DOMAIN handles
  BY ArgFacts DEF Goto, TypeInv, ClientsTyped
<1> QED BY <1>1 DEF InsertInv

-----------------------------------------------------------------------------
(* Calls on a table *)

\* Insert: the look at closed, under the lock.
LEMMA InsertCallHandles ==
  ASSUME HandlesInv, NEW c \in Clients, NEW h \in DOMAIN handles, NEW b \in Batches,
         InsertCall(c, h, b)
  PROVE  HandlesInv'
<1> DEFINE a == [h |-> h, batch |-> b]
<1>1. /\ Goto(c, "insert", a) /\ UNCHANGED <<disk, process, made, latestMade>>
      /\ pc[c] = "idle" /\ b \notin DOMAIN owner
      /\ owner' = [k \in DOMAIN owner \cup {b} |->
                     IF k = b THEN handles[h].made ELSE owner[k]]
  BY DEF InsertCall
<1>2. TypeInv'
  <2>1. DOMAIN handles' = DOMAIN handles
    BY <1>1 DEF process
  <2>2. ClientsTyped'
    BY <1>1, <2>1, GotoTyped DEF HandlesInv, TypeInv, Closers
  <2>3. DiskTyped' /\ ProcessTyped' /\ HistTyped'
    BY <1>1 DEF HandlesInv, TypeInv, DiskTyped, ProcessTyped, HistTyped, process
  <2> QED BY <2>2, <2>3 DEF TypeInv
<1>3. TurnsInv'
  BY <1>1, GotoKeeps DEF HandlesInv, SameHandles, process, Closers
<1>4. InsertInv'
  <2>1. \A d \in Clients \ {c} : pc'[d] = pc[d] /\ arg'[d] = arg[d]
    BY <1>1 DEF Goto, HandlesInv, TypeInv, ClientsTyped
  <2>2. arg'[c] = a
    BY <1>1 DEF Goto, HandlesInv, TypeInv, ClientsTyped
  <2> QED BY <1>1, <2>1, <2>2 DEF HandlesInv, InsertInv, process
<1> QED BY <1>2, <1>3, <1>4 DEF HandlesInv

\* Insert: the rest, after the lock was let go of.
LEMMA InsertHandles ==
  ASSUME HandlesInv, NEW c \in Clients, Insert(c)
  PROVE  HandlesInv' /\ SameHandles
<1> DEFINE h == arg[c].h
           rows == handles[h].rows \cup {arg[c].batch}
<1>1. /\ h \in DOMAIN handles /\ arg[c].batch \in Batches /\ pc[c] = "insert"
      /\ handles[h] \in HandleRecord /\ handles[h].name \in Names
  BY ArgFacts, HandleFacts DEF Insert, HandlesInv
<1>2. /\ Goto(c, "idle", NoArg)
      /\ UNCHANGED <<db, tables, dbmu, tmu, made, latestMade, owner>>
  BY DEF Insert, ReturnOf
<1>10. rows \in SUBSET Batches /\ handles[h].nextVersion \in Nat
  BY <1>1 DEF HandleRecord
<1>3. \E t \in HandleRecord :
        /\ handles' = [handles EXCEPT ![h] = t]
        /\ t.name = handles[h].name /\ t.made = handles[h].made
        /\ t.closed = handles[h].closed /\ t.writer = handles[h].writer
  <2>1. CASE handles' = [handles EXCEPT ![h].nextVersion = @ + 1, ![h].rows = rows]
    <3>0. ASSUME NEW u \in HandleRecord, NEW v \in Nat, NEW r \in SUBSET Batches
          PROVE  [u EXCEPT !.nextVersion = v, !.rows = r] \in HandleRecord
      BY DEF HandleRecord
    <3>4. handles[h].nextVersion + 1 \in Nat
      BY <1>10
    <3>1. [handles[h] EXCEPT !.nextVersion = @ + 1, !.rows = rows] \in HandleRecord
      BY <1>1, <1>10, <3>0, <3>4
    <3>2. handles' = [handles EXCEPT ![h] =
                        [handles[h] EXCEPT !.nextVersion = @ + 1, !.rows = rows]]
      BY <1>1, <2>1
    <3> QED BY <1>1, <3>1, <3>2 DEF HandleRecord
  <2>2. ASSUME NEW used \in {0, 1},
               handles' = [handles EXCEPT ![h].nextVersion = @ + used]
        PROVE  \E t \in HandleRecord :
                 /\ handles' = [handles EXCEPT ![h] = t]
                 /\ t.name = handles[h].name /\ t.made = handles[h].made
                 /\ t.closed = handles[h].closed /\ t.writer = handles[h].writer
    <3>1. [handles[h] EXCEPT !.nextVersion = @ + used] \in HandleRecord
      BY <1>1 DEF HandleRecord
    <3>2. handles' = [handles EXCEPT ![h] = [handles[h] EXCEPT !.nextVersion = @ + used]]
      BY <1>1, <2>2
    <3> QED BY <1>1, <3>1, <3>2 DEF HandleRecord
  <2> QED BY <2>1, <2>2 DEF Insert
<1>4. /\ handles' \in Seq(HandleRecord) /\ SameHandles
      /\ \A g \in DOMAIN handles : handles'[g].writer = handles[g].writer
  BY <1>1, <1>3, HandleChange DEF HandlesInv, TypeInv, SameHandles
<1>5. DiskTyped'
  <2>1. CASE WriteVersion(handles[h].name, handles[h].nextVersion, rows)
    BY <1>1, <1>10, <2>1, WriteFacts DEF HandlesInv, TypeInv
  <2>2. CASE UNCHANGED disk
    BY <2>2 DEF HandlesInv, TypeInv, DiskTyped
  <2> QED BY <2>1, <2>2 DEF Insert
<1>6. ClientsTyped'
  BY <1>2, <1>4, GotoTyped DEF HandlesInv, TypeInv, SameHandles, Closers
<1>7. ProcessTyped' /\ HistTyped'
  BY <1>2, <1>4 DEF HandlesInv, TypeInv, ProcessTyped, HistTyped, SameHandles
<1>8. TurnsInv'
  BY <1>1, <1>2, <1>4, GotoKeeps DEF HandlesInv, Closers
<1>9. InsertInv'
  BY <1>2, <1>4, InsertKeeps DEF HandlesInv, SameHandles
<1> QED BY <1>4, <1>5, <1>6, <1>7, <1>8, <1>9 DEF HandlesInv, TypeInv

\* StartAsyncWriter gives an open handle a writer.
LEMMA StartAsyncWriterHandles ==
  ASSUME HandlesInv, NEW c \in Clients, NEW h \in DOMAIN handles, StartAsyncWriter(c, h)
  PROVE  HandlesInv'
<1> DEFINE n == handles[h].name
           v == IF n \in DOMAIN disk /\ DOMAIN disk[n] # {} THEN Newest(disk[n]) + 1 ELSE 1
           t == [handles[h] EXCEPT !.writer = "on", !.wver = v]
<1>1. UNCHANGED <<disk, db, tables, dbmu, tmu, pc, arg, made, latestMade, owner>>
  BY DEF StartAsyncWriter, client, hist
<1>2. v \in Nat
  BY NewestFacts DEF HandlesInv, TypeInv, DiskTyped
<1>3. handles[h] \in HandleRecord
  BY HandleFacts DEF HandlesInv
<1>4. handles' = [handles EXCEPT ![h] = t]
  BY DEF StartAsyncWriter
<1>5. /\ t \in HandleRecord /\ t.name = handles[h].name /\ t.made = handles[h].made
      /\ t.closed = handles[h].closed
  BY <1>2, <1>3 DEF HandleRecord
<1> HIDE DEF t
<1>6. /\ handles' \in Seq(HandleRecord) /\ SameHandles
      /\ \A g \in DOMAIN handles \ {h} : handles'[g] = handles[g]
  BY <1>4, <1>5, HandleChange DEF HandlesInv, TypeInv, SameHandles
<1>7. TypeInv'
  <2>1. DiskTyped' /\ ProcessTyped' /\ HistTyped'
    BY <1>1, <1>6
       DEF HandlesInv, TypeInv, DiskTyped, ProcessTyped, HistTyped, SameHandles
  <2>2. ClientsTyped'
    BY <1>1, <1>6 DEF HandlesInv, TypeInv, ClientsTyped, ArgTyped, SameHandles
  <2> QED BY <2>1, <2>2 DEF TypeInv
<1>8. TurnsInv'
  BY <1>1, <1>6, SameTurns DEF HandlesInv
<1>9. InsertInv'
  BY <1>1, <1>6, ArgFacts DEF HandlesInv, InsertInv, SameHandles
<1> QED BY <1>7, <1>8, <1>9 DEF HandlesInv

\* InsertAsync hands rows to the writer of an open handle.
LEMMA InsertAsyncHandles ==
  ASSUME HandlesInv, NEW c \in Clients, NEW h \in DOMAIN handles, NEW b \in Batches,
         InsertAsync(c, h, b)
  PROVE  HandlesInv'
<1> DEFINE t == [handles[h] EXCEPT !.pending = @ \cup {b}]
<1>1. /\ UNCHANGED <<disk, db, tables, dbmu, tmu, pc, arg, made, latestMade>>
      /\ b \notin DOMAIN owner
      /\ owner' = [k \in DOMAIN owner \cup {b} |->
                     IF k = b THEN handles[h].made ELSE owner[k]]
  BY DEF InsertAsync, client
<1>2. handles[h] \in HandleRecord
  BY HandleFacts DEF HandlesInv
<1>3. handles' = [handles EXCEPT ![h] = t]
  BY DEF InsertAsync
<1>4. /\ t \in HandleRecord /\ t.name = handles[h].name /\ t.made = handles[h].made
      /\ t.closed = handles[h].closed /\ t.writer = handles[h].writer
  BY <1>2 DEF HandleRecord
<1> HIDE DEF t
<1>5. /\ handles' \in Seq(HandleRecord) /\ SameHandles
      /\ \A g \in DOMAIN handles : handles'[g].writer = handles[g].writer
  BY <1>3, <1>4, HandleChange DEF HandlesInv, TypeInv, SameHandles
<1>6. TypeInv'
  <2>1. DiskTyped' /\ ProcessTyped' /\ HistTyped'
    BY <1>1, <1>5
       DEF HandlesInv, TypeInv, DiskTyped, ProcessTyped, HistTyped, SameHandles
  <2>2. ClientsTyped'
    BY <1>1, <1>5 DEF HandlesInv, TypeInv, ClientsTyped, ArgTyped, SameHandles
  <2> QED BY <2>1, <2>2 DEF TypeInv
<1>7. TurnsInv'
  BY <1>1, <1>5, SameTurns DEF HandlesInv
<1>8. InsertInv'
  BY <1>1, <1>5, ArgFacts DEF HandlesInv, InsertInv, SameHandles
<1> QED BY <1>6, <1>7, <1>8 DEF HandlesInv

\* Flush: the writer commits what it has.
LEMMA FlushHandles ==
  ASSUME HandlesInv, NEW c \in Clients, Flush(c)
  PROVE  HandlesInv' /\ SameHandles
<1> DEFINE h == arg[c].h
           t == [handles[h] EXCEPT !.pending = {}, !.wver = @ + 1]
<1>1. /\ h \in DOMAIN handles /\ pc[c] = "flush" /\ handles[h] \in HandleRecord
  BY ArgFacts, HandleFacts DEF Flush, HandlesInv
<1>2. /\ Goto(c, "idle", NoArg)
      /\ UNCHANGED <<db, tables, dbmu, tmu, made, latestMade, owner>>
  BY DEF Flush, ReturnOf
<1>3. /\ handles' \in Seq(HandleRecord) /\ SameHandles
      /\ \A g \in DOMAIN handles : handles'[g].writer = handles[g].writer
  <2>1. CASE handles' = [handles EXCEPT ![h].pending = {}, ![h].wver = @ + 1]
    <3>1. handles' = [handles EXCEPT ![h] = t]
      BY <1>1, <2>1
    <3>2. ASSUME NEW u \in HandleRecord
          PROVE  [u EXCEPT !.pending = {}, !.wver = @ + 1] \in HandleRecord
      <4>1. u.wver + 1 \in Nat
        BY DEF HandleRecord
      <4> QED BY <4>1 DEF HandleRecord
    <3>3. /\ t \in HandleRecord /\ t.name = handles[h].name /\ t.made = handles[h].made
          /\ t.closed = handles[h].closed /\ t.writer = handles[h].writer
      BY <1>1, <3>2 DEF HandleRecord
    <3> HIDE DEF t
    <3> QED BY <1>1, <3>1, <3>3, HandleChange DEF HandlesInv, TypeInv, SameHandles
  <2>2. CASE UNCHANGED handles
    BY <2>2 DEF HandlesInv, TypeInv, ProcessTyped, SameHandles
  <2> QED BY <2>1, <2>2 DEF Flush
<1>4. DiskTyped'
  <2>1. CASE Flushed(h)
    BY <1>1, <2>1, FlushedFacts DEF HandlesInv
  <2>2. CASE UNCHANGED disk
    BY <2>2 DEF HandlesInv, TypeInv, DiskTyped
  <2> QED BY <2>1, <2>2 DEF Flush
<1>5. ClientsTyped'
  BY <1>2, <1>3, GotoTyped DEF HandlesInv, TypeInv, SameHandles, Closers
<1>6. ProcessTyped' /\ HistTyped'
  BY <1>2, <1>3 DEF HandlesInv, TypeInv, ProcessTyped, HistTyped, SameHandles
<1>7. TurnsInv'
  BY <1>1, <1>2, <1>3, GotoKeeps DEF HandlesInv, Closers
<1>8. InsertInv'
  BY <1>2, <1>3, InsertKeeps DEF HandlesInv, SameHandles
<1> QED BY <1>3, <1>4, <1>5, <1>6, <1>7, <1>8 DEF HandlesInv, TypeInv

\* A client goes on and nothing else changes but db and db.mu.
LEMMA OnlyGoto ==
  ASSUME HandlesInv, NEW c \in Clients, NEW a,
         NEW label \in {"idle", "insert", "flush"} \cup Closers, Goto(c, label, a),
         UNCHANGED <<disk, tables, handles, tmu, made, latestMade, owner>>,
         db' \in {db, "closed"}, label # "insert",
         label = "flush" => a \in [h : DOMAIN handles],
         label \in Closers => a \in CloseArgs,
         label \in {"close", "closing"} => a.h \in DOMAIN handles
  PROVE  TypeInv' /\ InsertInv' /\ SameHandles
<1>1. ClientsTyped'
  BY GotoTyped DEF HandlesInv, TypeInv
<1>2. DiskTyped' /\ ProcessTyped' /\ HistTyped'
  BY DEF HandlesInv, TypeInv, DiskTyped, ProcessTyped, HistTyped
<1>3. InsertInv'
  BY InsertKeeps DEF HandlesInv
<1> QED BY <1>1, <1>2, <1>3 DEF TypeInv, SameHandles

\* Flush: the look at closed, under the lock.
LEMMA FlushCallHandles ==
  ASSUME HandlesInv, NEW c \in Clients, NEW h \in DOMAIN handles, FlushCall(c, h)
  PROVE  HandlesInv'
<1>1. /\ Goto(c, "flush", [h |-> h]) /\ pc[c] = "idle"
      /\ UNCHANGED <<disk, db, tables, dbmu, handles, tmu, made, latestMade, owner>>
  BY DEF FlushCall, process, hist
<1>2. TypeInv' /\ InsertInv' /\ SameHandles
  BY <1>1, OnlyGoto DEF Closers
<1>3. TurnsInv'
  BY <1>1, <1>2, GotoKeeps DEF HandlesInv, Closers
<1> QED BY <1>2, <1>3 DEF HandlesInv

-----------------------------------------------------------------------------
(* Calls that close *)

\* Close: the handle is marked closed.
LEMMA CloseCallHandles ==
  ASSUME HandlesInv, NEW c \in Clients, NEW h \in DOMAIN handles, CloseCall(c, h)
  PROVE  HandlesInv'
<1> DEFINE a == [h |-> h, for |-> "user"]
<1>1. /\ Goto(c, "close", a) /\ pc[c] = "idle"
      /\ UNCHANGED <<disk, db, tables, dbmu, handles, tmu, made, latestMade, owner>>
  BY DEF CloseCall, process, hist
<1>2. a \in CloseArgs /\ a.h = h /\ a.for = "user"
  BY HandleFacts DEF CloseArgs, HandlesInv
<1> HIDE DEF a
<1>3. TypeInv' /\ InsertInv' /\ SameHandles
  BY <1>1, <1>2, OnlyGoto DEF Closers
<1>4. TurnsInv'
  BY <1>1, <1>2, <1>3, GotoKeeps DEF HandlesInv, Closers
<1> QED BY <1>3, <1>4 DEF HandlesInv

\* A client that holds no t.mu is back from its call.
LEMMA ReturnHandles ==
  ASSUME HandlesInv, NEW c \in Clients, ReturnOf(c), pc[c] # "closing",
         \A d \in Clients \ {c} : dbmu = d => dbmu' = d,
         UNCHANGED <<disk, db, tables, handles, tmu, made, latestMade, owner>>
  PROVE  HandlesInv'
<1>1. Goto(c, "idle", NoArg)
  BY DEF ReturnOf
<1>2. TypeInv' /\ InsertInv' /\ SameHandles
  BY <1>1, OnlyGoto DEF Closers
<1>3. TurnsInv'
  BY <1>1, <1>2, GotoKeeps DEF HandlesInv, Closers
<1> QED BY <1>2, <1>3 DEF HandlesInv

\* A Close that finds the handle closed returns.
LEMMA CloseReturnHandles ==
  ASSUME HandlesInv, NEW c \in Clients, CloseDone(c) \/ DropFails(c)
  PROVE  HandlesInv'
<1>1. \A d \in Clients \ {c} : dbmu = d => dbmu' = d
  BY DEF CloseDone, DropFails, process, HandlesInv, TurnsInv, LockInv, Closers
<1> QED BY <1>1, ReturnHandles DEF CloseDone, DropFails, process, hist

\* DropTable: from here on db.mu is held.
LEMMA DropCallHandles ==
  ASSUME HandlesInv, NEW c \in Clients, NEW n \in Names, DropCall(c, n)
  PROVE  HandlesInv'
<1> DEFINE a == [h |-> tables[n], for |-> "drop", name |-> n]
           label == IF tables[n] = Unopened THEN "closed" ELSE "close"
<1>1. /\ Goto(c, label, a) /\ pc[c] = "idle" /\ n \in DOMAIN tables
      /\ dbmu = NoClient /\ dbmu' = c
      /\ UNCHANGED <<disk, db, tables, handles, tmu, made, latestMade, owner>>
  BY DEF DropCall, DBFree, hist
<1>2. /\ tables[n] # Unopened => tables[n] \in DOMAIN handles
      /\ tables[n] \in Nat
  BY <1>1, HandleFacts DEF HandlesInv, TurnsInv, TablesInv, Unopened
<1>3. /\ a \in CloseArgs /\ a.h = tables[n] /\ a.for = "drop" /\ a.name = n
      /\ label \in {"close", "closed"}
      /\ label = "close" => a.h \in DOMAIN handles
      /\ label = "closed" => a.h = 0
  BY <1>2 DEF CloseArgs, Unopened
<1> HIDE DEF a, label
<1>4. TypeInv' /\ InsertInv' /\ SameHandles
  BY <1>1, <1>3, OnlyGoto DEF Closers
<1>5. TurnsInv'
  BY <1>1, <1>3, <1>4, GotoKeeps, DatabaseAssumption DEF HandlesInv, Closers
<1> QED BY <1>4, <1>5 DEF HandlesInv

\* A second Close finds the table closed.
LEMMA CloseAgainHandles ==
  ASSUME HandlesInv, NEW c \in Clients, pc[c] = "close", tmu[arg[c].h] = NoClient,
         handles[arg[c].h].closed, pc' = [pc EXCEPT ![c] = "closed"],
         UNCHANGED <<disk, db, tables, dbmu, handles, tmu, arg, made, latestMade, owner>>
  PROVE  HandlesInv'
<1>1. Goto(c, "closed", arg[c])
  BY DEF Goto, HandlesInv, TypeInv, ClientsTyped
<1>2. arg[c] \in CloseArgs /\ arg[c].h \in DOMAIN handles /\ ~Live(arg[c].h)
  BY DEF HandlesInv, TypeInv, ClientsTyped, ArgTyped, Closers, Live
<1>3. TypeInv' /\ InsertInv' /\ SameHandles
  BY <1>1, <1>2, OnlyGoto DEF Closers
<1>4. arg[c].for # "user" => dbmu = c
  BY DEF HandlesInv, TurnsInv, LockInv, Closers
<1>5. arg[c].for = "drop" =>
        arg[c].name \in DOMAIN tables /\ tables[arg[c].name] = arg[c].h
  BY DEF HandlesInv, TurnsInv, DropInv, Closers
<1>6. arg[c].for = "db" =>
        /\ db = "closed" /\ arg[c].left \subseteq DOMAIN handles
        /\ \A n \in DOMAIN tables : tables[n] # Unopened =>
             tables[n] \in arg[c].left \/ ~Live(tables[n])
  BY <1>2 DEF HandlesInv, TurnsInv, DBInv, Closers
<1>7. TurnsInv'
  BY <1>1, <1>2, <1>3, <1>4, <1>5, <1>6, GotoKeeps DEF HandlesInv
<1> QED BY <1>3, <1>7 DEF HandlesInv

\* In Close, handle h of c turns from open to locked, or from locked to closed:
\* either way it is the only one that changes, and it does not come to life.
LEMMA TurnKeeps ==
  ASSUME HandlesInv, NEW c \in Clients, pc[c] \in {"close", "closing"},
         NEW label \in {"closing", "closed", "failed"},
         pc' = [pc EXCEPT ![c] = label],
         UNCHANGED <<db, tables, dbmu, arg, made, latestMade, owner>>, DiskTyped',
         NEW t \in HandleRecord, handles' = [handles EXCEPT ![arg[c].h] = t],
         t.name = handles[arg[c].h].name, t.made = handles[arg[c].h].made, t.closed,
         handles[arg[c].h].writer = "off" => t.writer = "off",
         \/ /\ pc[c] = "close" /\ label = "closing" /\ ~handles[arg[c].h].closed
            /\ tmu[arg[c].h] = NoClient /\ tmu' = [tmu EXCEPT ![arg[c].h] = c]
         \/ /\ pc[c] = "closing" /\ label \in {"closed", "failed"}
            /\ tmu' = [tmu EXCEPT ![arg[c].h] = NoClient]
  PROVE  HandlesInv'
<1> DEFINE h == arg[c].h
<1>1. h \in DOMAIN handles /\ label \in Closers
  BY ArgFacts DEF HandlesInv, Closers
<1>2. /\ handles' \in Seq(HandleRecord) /\ Len(handles') = Len(handles)
      /\ DOMAIN handles' = DOMAIN handles /\ handles'[h] = t
      /\ \A g \in DOMAIN handles \ {h} : handles'[g] = handles[g]
  BY <1>1, HandleChange DEF HandlesInv, TypeInv
<1>3. /\ tmu' \in Seq(Clients \cup {NoClient}) /\ Len(tmu') = Len(tmu)
      /\ DOMAIN tmu = DOMAIN handles
      /\ \A g \in DOMAIN handles \ {h} : tmu'[g] = tmu[g]
      /\ tmu'[h] = IF label = "closing" THEN c ELSE NoClient
  <2>1. tmu \in Seq(Clients \cup {NoClient}) /\ DOMAIN tmu = DOMAIN handles
    BY <1>1, HandleFacts DEF HandlesInv, TypeInv, ProcessTyped
  <2> QED BY <1>1, <2>1
<1>4. /\ pc'[c] = label /\ \A d \in Clients \ {c} : pc'[d] = pc[d]
  BY DEF HandlesInv, TypeInv, ClientsTyped
<1>5. TypeInv'
  <2>1. ClientsTyped'
    <3>1. Goto(c, label, arg[c])
      BY DEF Goto, HandlesInv, TypeInv, ClientsTyped
    <3>2. arg[c] \in CloseArgs
      BY DEF HandlesInv, TypeInv, ClientsTyped, ArgTyped, Closers
    <3> QED BY <1>1, <1>2, <3>1, <3>2, GotoTyped DEF HandlesInv, TypeInv, Closers
  <2>2. ProcessTyped' /\ HistTyped'
    BY <1>2, <1>3 DEF HandlesInv, TypeInv, ProcessTyped, HistTyped
  <2> QED BY <2>1, <2>2 DEF TypeInv
<1>6. \A g \in DOMAIN handles : Live(g)' => Live(g)
  <2>1. pc[c] = "closing" => tmu[h] = c
    BY DEF HandlesInv, TurnsInv, LockInv
  <2> QED BY <1>2, <1>3, <2>1, DatabaseAssumption DEF Live
<1>7. label # "closing" => ~Live(h)'
  BY <1>2, <1>3 DEF Live
<1>8. TablesInv' /\ LiveInv'
  BY <1>1, <1>2, <1>6 DEF HandlesInv, TurnsInv, TablesInv, LiveInv
<1>9. LockInv'
  <2>1. ASSUME NEW d \in Clients, pc'[d] = "closing"
        PROVE  tmu'[arg[d].h] = d /\ handles'[arg[d].h].closed
    <3>1. CASE d = c
      BY <1>2, <1>3, <1>4, <2>1, <3>1
    <3>2. CASE d # c
      <4>1. pc[d] = "closing" /\ tmu[arg[d].h] = d /\ handles[arg[d].h].closed
        BY <1>4, <2>1, <3>2 DEF HandlesInv, TurnsInv, LockInv
      <4>2. arg[d].h \in DOMAIN handles
        BY <4>1, ArgFacts DEF HandlesInv
      <4>3. arg[d].h # h
        BY <3>2, <4>1, DatabaseAssumption DEF HandlesInv, TurnsInv, LockInv
      <4> QED BY <1>2, <1>3, <4>1, <4>2, <4>3
    <3> QED BY <3>1, <3>2
  <2>2. ASSUME NEW g \in DOMAIN handles, tmu'[g] # NoClient
        PROVE  tmu'[g] \in Clients /\ pc'[tmu'[g]] = "closing" /\ arg[tmu'[g]].h = g
    <3>1. CASE g = h
      BY <1>3, <1>4, <2>2, <3>1
    <3>2. CASE g # h
      <4>1. /\ tmu'[g] = tmu[g] /\ tmu[g] \in Clients /\ pc[tmu[g]] = "closing"
            /\ arg[tmu[g]].h = g
        BY <1>3, <2>2, <3>2 DEF HandlesInv, TurnsInv, LockInv
      <4> QED BY <1>4, <3>2, <4>1
    <3> QED BY <3>1, <3>2
  <2>3. ASSUME NEW d \in Clients, pc'[d] \in Closers, arg[d].for # "user"
        PROVE  dbmu = d
    BY <1>4, <2>3 DEF HandlesInv, TurnsInv, LockInv, Closers
  <2> QED BY <1>2, <2>1, <2>2, <2>3 DEF LockInv
<1>10. DropInv'
  <2>1. ASSUME NEW d \in Clients, (pc[d] \in Closers /\ arg[d].for = "drop")'
        PROVE  (/\ arg[d].name \in DOMAIN tables /\ tables[arg[d].name] = arg[d].h
                /\ pc[d] \in {"closed", "failed"} /\ arg[d].h # 0 => ~Live(arg[d].h))'
    <3>1. pc[d] \in Closers /\ arg[d].for = "drop"
      BY <1>4, <2>1 DEF Closers
    <3>2. arg[d].name \in DOMAIN tables /\ tables[arg[d].name] = arg[d].h
      BY <3>1 DEF HandlesInv, TurnsInv, DropInv
    <3>3. arg[d].h # 0 => arg[d].h \in DOMAIN handles
      BY <3>2 DEF HandlesInv, TurnsInv, TablesInv, Unopened
    <3>4. pc'[d] \in {"closed", "failed"} /\ arg[d].h # 0 => ~Live(arg[d].h)'
      <4>1. CASE d = c
        BY <1>4, <1>7, <4>1
      <4>2. CASE d # c
        BY <1>4, <1>6, <3>1, <3>3, <4>2 DEF HandlesInv, TurnsInv, DropInv
      <4> QED BY <4>1, <4>2
    <3> QED BY <3>2, <3>4
  <2> QED BY <2>1 DEF DropInv
<1>11. DBInv'
  <2>1. ASSUME NEW d \in Clients, (pc[d] \in Closers /\ arg[d].for = "db")'
        PROVE  (/\ db = "closed" /\ arg[d].left \subseteq DOMAIN handles
                /\ \A n \in DOMAIN tables : tables[n] # Unopened =>
                     \/ tables[n] \in arg[d].left
                     \/ pc[d] \in {"close", "closing"} /\ tables[n] = arg[d].h
                     \/ ~Live(tables[n]))'
    <3>1. pc[d] \in Closers /\ arg[d].for = "db"
      BY <1>4, <2>1 DEF Closers
    <3>2. /\ db = "closed" /\ arg[d].left \subseteq DOMAIN handles
          /\ \A n \in DOMAIN tables : tables[n] # Unopened =>
               \/ tables[n] \in arg[d].left
               \/ pc[d] \in {"close", "closing"} /\ tables[n] = arg[d].h
               \/ ~Live(tables[n])
      BY <3>1 DEF HandlesInv, TurnsInv, DBInv
    <3>3. \A n \in DOMAIN tables : tables[n] # Unopened => tables[n] \in DOMAIN handles
      BY DEF HandlesInv, TurnsInv, TablesInv
    <3>4. pc'[d] \in {"close", "closing"} \/ ~Live(arg[d].h)'
          \/ pc[d] \notin {"close", "closing"}
      BY <1>4, <1>7
    <3> QED BY <1>2, <1>6, <3>2, <3>3, <3>4
  <2> QED BY <2>1 DEF DBInv
<1>12. InsertInv'
  <2>1. Goto(c, label, arg[c]) /\ label # "insert"
    BY <1>1 DEF Goto, Closers, HandlesInv, TypeInv, ClientsTyped
  <2>2. \A g \in DOMAIN handles : handles'[g].made = handles[g].made
    BY <1>2
  <2> QED BY <1>2, <2>1, <2>2, InsertKeeps DEF HandlesInv
<1> QED BY <1>5, <1>8, <1>9, <1>10, <1>11, <1>12 DEF HandlesInv, TurnsInv

\* Close takes the lock of the table.
LEMMA CloseLockHandles ==
  ASSUME HandlesInv, NEW c \in Clients, CloseLock(c)
  PROVE  HandlesInv'
<1> DEFINE h == arg[c].h
           t == [handles[h] EXCEPT !.closed = TRUE]
<1>1. /\ h \in DOMAIN handles /\ handles[h] \in HandleRecord
      /\ pc[c] = "close" /\ tmu[h] = NoClient
      /\ UNCHANGED <<disk, db, tables, dbmu, arg, made, latestMade, owner>>
  BY ArgFacts, HandleFacts DEF CloseLock, HandlesInv, hist
<1>2. CASE handles[h].closed
  BY <1>1, <1>2, CloseAgainHandles DEF CloseLock
<1>3. CASE ~handles[h].closed
  <2>1. /\ handles' = [handles EXCEPT ![h] = t]
        /\ tmu' = [tmu EXCEPT ![h] = c] /\ pc' = [pc EXCEPT ![c] = "closing"]
    BY <1>3 DEF CloseLock
  <2>2. /\ t \in HandleRecord /\ t.name = handles[h].name /\ t.made = handles[h].made
        /\ t.closed /\ t.writer = handles[h].writer
    BY <1>1 DEF HandleRecord
  <2>3. DiskTyped'
    BY <1>1 DEF HandlesInv, TypeInv, DiskTyped
  <2> HIDE DEF t
  <2> QED BY <1>1, <1>3, <2>1, <2>2, <2>3, TurnKeeps
<1> QED BY <1>2, <1>3

\* Close: the writer flushes and ends.
LEMMA CloseWriterHandles ==
  ASSUME HandlesInv, NEW c \in Clients, CloseWriter(c)
  PROVE  HandlesInv'
<1> DEFINE h == arg[c].h
           t == [handles[h] EXCEPT !.writer = IF @ = "on" THEN "stopped" ELSE @,
                                   !.pending = {}]
<1>1. /\ h \in DOMAIN handles /\ handles[h] \in HandleRecord /\ pc[c] = "closing"
      /\ UNCHANGED <<db, tables, dbmu, arg, made, latestMade, owner>>
  BY ArgFacts, HandleFacts DEF CloseWriter, HandlesInv
<1>2. handles[h].closed
  BY <1>1 DEF HandlesInv, TurnsInv, LockInv
<1>3. /\ t \in HandleRecord /\ t.name = handles[h].name /\ t.made = handles[h].made
      /\ t.closed
      /\ handles[h].writer = "off" => t.writer = "off"
  BY <1>1, <1>2 DEF HandleRecord
<1>4. handles' = [handles EXCEPT ![h] = t]
  BY <1>1 DEF CloseWriter
<1>5. tmu' = [tmu EXCEPT ![h] = NoClient]
  BY DEF CloseWriter, Unlock
<1>6. DiskTyped'
  <2>1. CASE Flushed(h)
    BY <1>1, <2>1, FlushedFacts DEF HandlesInv
  <2>2. CASE UNCHANGED disk
    BY <2>2 DEF HandlesInv, TypeInv, DiskTyped
  <2> QED BY <2>1, <2>2 DEF CloseWriter, FinalFlush
<1> HIDE DEF t
<1>7. PICK label \in {"closed", "failed"} : pc' = [pc EXCEPT ![c] = label]
  BY DEF CloseWriter
<1>8. label \in {"closing", "closed", "failed"}
  OBVIOUS
<1> QED BY <1>1, <1>3, <1>4, <1>5, <1>6, <1>7, <1>8, TurnKeeps

-----------------------------------------------------------------------------
(* Dropping tables, and closing the database *)

\* db.tables forgets dead handles, and c is back from its call.
LEMMA ForgetKeeps ==
  ASSUME HandlesInv, NEW c \in Clients, pc[c] \in {"closed", "failed"}, dbmu = c,
         Goto(c, "idle", NoArg), dbmu' = NoClient,
         DiskTyped', UNCHANGED <<db, handles, tmu, made, latestMade, owner>>,
         tables' = [n \in DOMAIN tables' |-> tables'[n]],
         DOMAIN tables' \subseteq DOMAIN tables,
         \A n \in DOMAIN tables' : tables'[n] = tables[n],
         \A n \in DOMAIN tables \ DOMAIN tables' :
           tables[n] # Unopened => ~Live(tables[n])
  PROVE  HandlesInv'
<1>1. /\ pc'[c] = "idle" /\ arg'[c] = NoArg
      /\ \A d \in Clients \ {c} : pc'[d] = pc[d] /\ arg'[d] = arg[d]
  BY DEF Goto, HandlesInv, TypeInv, ClientsTyped
<1>2. \A h \in DOMAIN handles : Live(h)' = Live(h)
  BY DEF Live
<1>3. \A d \in Clients : pc'[d] \in Closers => d # c /\ arg[d].for = "user"
  BY <1>1 DEF Closers, HandlesInv, TurnsInv, LockInv
<1>4. TypeInv'
  <2>1. ClientsTyped'
    BY GotoTyped DEF HandlesInv, TypeInv, Closers
  <2>2. ProcessTyped' /\ HistTyped'
    BY DEF HandlesInv, TypeInv, ProcessTyped, HistTyped
  <2> QED BY <2>1, <2>2 DEF TypeInv
<1>5. TablesInv'
  BY DEF HandlesInv, TurnsInv, TablesInv
<1>6. LiveInv'
  BY <1>2, HandleFacts DEF HandlesInv, TurnsInv, LiveInv, Unopened
<1>7. LockInv'
  <2>1. \A d \in Clients : pc'[d] = "closing" => pc[d] = "closing" /\ arg'[d] = arg[d]
    BY <1>1
  <2>2. \A h \in DOMAIN handles : tmu[h] # NoClient => tmu[h] # c
    BY DEF HandlesInv, TurnsInv, LockInv
  <2> QED BY <1>1, <1>3, <2>1, <2>2 DEF HandlesInv, TurnsInv, LockInv
<1>8. DropInv' /\ DBInv'
  BY <1>1, <1>3 DEF DropInv, DBInv
<1>9. InsertInv'
  BY InsertKeeps DEF HandlesInv
<1> QED BY <1>4, <1>5, <1>6, <1>7, <1>8, <1>9 DEF HandlesInv, TurnsInv

\* Removing versions of a directory, or the directory, leaves directories.
LEMMA RemovedTyped ==
  ASSUME DiskTyped, NEW n,
         \/ disk' = Removed(n)
         \/ /\ n \in DOMAIN disk
            /\ \E left \in SUBSET DOMAIN disk[n] :
                 disk' = [disk EXCEPT ![n] = [v \in left |-> disk[n][v]]]
  PROVE  /\ DiskTyped' /\ DOMAIN disk' \subseteq DOMAIN disk
         /\ \A k \in DOMAIN disk' \ {n} : disk'[k] = disk[k]
         /\ \A k \in DOMAIN disk \ {n} : k \in DOMAIN disk'
         /\ n \in DOMAIN disk' => /\ DOMAIN disk'[n] \subseteq DOMAIN disk[n]
                                  /\ \A v \in DOMAIN disk'[n] : disk'[n][v] = disk[n][v]
<1>1. CASE disk' = Removed(n)
  BY <1>1 DEF Removed, DiskTyped
<1>2. ASSUME n \in DOMAIN disk, NEW left \in SUBSET DOMAIN disk[n],
             disk' = [disk EXCEPT ![n] = [v \in left |-> disk[n][v]]]
      PROVE  /\ DiskTyped' /\ DOMAIN disk' = DOMAIN disk
             /\ \A k \in DOMAIN disk \ {n} : disk'[k] = disk[k]
             /\ DOMAIN disk'[n] = left
             /\ \A v \in left : disk'[n][v] = disk[n][v]
  <2> DEFINE some == [v \in left |-> disk[n][v]]
  <2>1. Directory(disk[n])
    BY <1>2 DEF DiskTyped
  <2>2. DOMAIN some = left /\ \A v \in left : some[v] = disk[n][v]
    OBVIOUS
  <2>3. Directory(some)
    BY <2>1, <2>2 DEF Directory
  <2>4. disk' = [disk EXCEPT ![n] = some]
    BY <1>2
  <2> HIDE DEF some
  <2>5. /\ DOMAIN disk' = DOMAIN disk /\ disk'[n] = some
        /\ \A k \in DOMAIN disk \ {n} : disk'[k] = disk[k]
    BY <1>2, <2>4 DEF DiskTyped
  <2>6. DiskTyped'
    BY <2>3, <2>4, <2>5 DEF DiskTyped
  <2> QED BY <2>2, <2>5, <2>6
<1> QED BY <1>1, <1>2

\* DropTable deletes the directory and forgets the name.
LEMMA DropRemoveHandles ==
  ASSUME HandlesInv, NEW c \in Clients, DropRemove(c)
  PROVE  HandlesInv'
<1> DEFINE n == arg[c].name
<1>1. /\ pc[c] = "closed" /\ dbmu' = NoClient /\ Goto(c, "idle", NoArg)
      /\ UNCHANGED <<db, handles, tmu, made, latestMade, owner>>
      /\ arg[c].for = "drop"
  BY DEF DropRemove, ReturnOf
<1>2. /\ dbmu = c /\ n \in DOMAIN tables
      /\ tables[n] # Unopened => ~Live(tables[n])
  BY <1>1 DEF HandlesInv, TurnsInv, LockInv, DropInv, Closers, Unopened
<1>3. DiskTyped'
  <2>1. \/ disk' = Removed(n)
        \/ /\ n \in DOMAIN disk
           /\ \E left \in SUBSET DOMAIN disk[n] :
                disk' = [disk EXCEPT ![n] = [v \in left |-> disk[n][v]]]
    BY DEF DropRemove
  <2>2. DiskTyped
    BY DEF HandlesInv, TypeInv
  <2> HIDE DEF n
  <2> QED BY <2>1, <2>2, RemovedTyped
<1>4. tables = [k \in DOMAIN tables |-> tables[k]]
  BY DEF HandlesInv, TypeInv, ProcessTyped
<1>5. /\ tables' = [k \in DOMAIN tables' |-> tables'[k]]
      /\ DOMAIN tables' \in {DOMAIN tables, DOMAIN tables \ {n}}
      /\ \A k \in DOMAIN tables' : tables'[k] = tables[k]
  <2>1. CASE Forget(n)
    BY <2>1 DEF Forget
  <2>2. CASE UNCHANGED tables
    BY <1>4, <2>2
  <2> QED BY <2>1, <2>2 DEF DropRemove
<1> QED BY <1>1, <1>2, <1>3, <1>5, ForgetKeeps

\* Database.Close: from here on db.mu is held.
LEMMA DBCloseHandles ==
  ASSUME HandlesInv, NEW c \in Clients, DBClose(c)
  PROVE  HandlesInv'
<1> DEFINE open == {tables[n] : n \in DOMAIN tables} \ {Unopened}
           a == [h |-> 0, for |-> "db", left |-> open]
<1>1. /\ Goto(c, "closed", a) /\ pc[c] = "idle"
      /\ dbmu = NoClient /\ dbmu' = c /\ db' = "closed"
      /\ UNCHANGED <<disk, tables, handles, tmu, made, latestMade, owner>>
  BY DEF DBClose, DBFree, hist
<1>2. open \subseteq DOMAIN handles
  BY DEF HandlesInv, TurnsInv, TablesInv
<1>3. open \subseteq Nat
  BY <1>2, HandleFacts DEF HandlesInv
<1>4. \A n \in DOMAIN tables : tables[n] # Unopened => tables[n] \in open
  OBVIOUS
<1> HIDE DEF open
<1>5. a \in CloseArgs /\ a.for = "db" /\ a.left = open
  BY <1>3 DEF CloseArgs
<1> HIDE DEF a
<1>6. TypeInv' /\ InsertInv' /\ SameHandles
  BY <1>1, <1>5, OnlyGoto DEF Closers
<1>7. TurnsInv'
  BY <1>1, <1>2, <1>4, <1>5, <1>6, GotoKeeps, DatabaseAssumption DEF HandlesInv, Closers
<1> QED BY <1>6, <1>7 DEF HandlesInv

\* Database.Close turns to the next table.
LEMMA DBCloseNextHandles ==
  ASSUME HandlesInv, NEW c \in Clients, DBCloseNext(c)
  PROVE  HandlesInv'
<1>1. /\ pc[c] \in {"closed", "failed"} /\ arg[c].for = "db"
      /\ UNCHANGED <<disk, db, handles, tmu, made, latestMade, owner>>
  BY DEF DBCloseNext, hist
<1>2. /\ dbmu = c /\ db = "closed" /\ arg[c].left \subseteq DOMAIN handles
      /\ \A n \in DOMAIN tables : tables[n] # Unopened =>
           tables[n] \in arg[c].left \/ ~Live(tables[n])
  BY <1>1 DEF HandlesInv, TurnsInv, LockInv, DBInv, Closers
<1>3. ASSUME NEW h \in arg[c].left, UNCHANGED <<tables, dbmu>>,
             Goto(c, "close", [h |-> h, for |-> "db", left |-> arg[c].left \ {h}])
      PROVE  HandlesInv'
  <2> DEFINE rest == arg[c].left \ {h}
             a == [h |-> h, for |-> "db", left |-> rest]
  <2>1. h \in DOMAIN handles /\ rest \subseteq DOMAIN handles
    BY <1>2
  <2>2. rest \subseteq Nat /\ h \in Nat
    BY <2>1, HandleFacts DEF HandlesInv
  <2>3. \A n \in DOMAIN tables : tables[n] # Unopened =>
          tables[n] \in rest \/ tables[n] = h \/ ~Live(tables[n])
    BY <1>2
  <2>4. Goto(c, "close", a)
    BY <1>3
  <2> HIDE DEF rest
  <2>5. a \in CloseArgs /\ a.for = "db" /\ a.left = rest /\ a.h = h
    BY <2>2 DEF CloseArgs
  <2> HIDE DEF a
  <2>6. TypeInv' /\ InsertInv' /\ SameHandles
    BY <1>1, <1>3, <2>1, <2>4, <2>5, OnlyGoto DEF Closers
  <2>7. TurnsInv'
    BY <1>1, <1>2, <1>3, <2>1, <2>3, <2>4, <2>5, <2>6, GotoKeeps DEF HandlesInv, Closers
  <2> QED BY <2>6, <2>7 DEF HandlesInv
<1>4. CASE /\ arg[c].left = {} /\ tables' = [n \in {} |-> Unopened]
           /\ dbmu' = NoClient /\ ReturnOf(c)
  <2>1. DOMAIN tables' = {} /\ tables' = [n \in DOMAIN tables' |-> tables'[n]]
    BY <1>4
  <2>2. DiskTyped'
    BY <1>1 DEF HandlesInv, TypeInv, DiskTyped
  <2> QED BY <1>1, <1>2, <1>4, <2>1, <2>2, ForgetKeeps DEF ReturnOf
<1> QED BY <1>3, <1>4 DEF DBCloseNext

-----------------------------------------------------------------------------
(* New handles *)

\* What appending does to the handles and their mutexes.
LEMMA AppendHandle ==
  ASSUME ProcessTyped, NEW t \in HandleRecord, handles' = Append(handles, t),
         tmu' = Append(tmu, NoClient)
  PROVE  /\ handles' \in Seq(HandleRecord) /\ Len(handles') = Len(handles) + 1
         /\ tmu' \in Seq(Clients \cup {NoClient}) /\ Len(tmu') = Len(handles')
         /\ DOMAIN handles' = DOMAIN handles \cup {Len(handles) + 1}
         /\ Len(handles) + 1 \notin DOMAIN handles /\ Len(handles) + 1 \in Nat \ {0}
         /\ handles'[Len(handles) + 1] = t /\ tmu'[Len(handles) + 1] = NoClient
         /\ \A h \in DOMAIN handles : handles'[h] = handles[h] /\ tmu'[h] = tmu[h]
<1>1. handles \in Seq(HandleRecord) /\ t \in HandleRecord
  BY DEF ProcessTyped
<1>2. /\ handles' \in Seq(HandleRecord) /\ Len(handles') = Len(handles) + 1
      /\ Len(handles) \in Nat
      /\ handles'[Len(handles) + 1] = t
      /\ \A h \in 1..Len(handles) : handles'[h] = handles[h]
      /\ DOMAIN handles = 1..Len(handles) /\ DOMAIN handles' = 1..Len(handles')
  BY <1>1
<1>3. tmu \in Seq(Clients \cup {NoClient}) /\ Len(tmu) = Len(handles)
  BY DEF ProcessTyped
<1>4. /\ tmu' \in Seq(Clients \cup {NoClient}) /\ Len(tmu') = Len(tmu) + 1
      /\ tmu'[Len(tmu) + 1] = NoClient
      /\ \A h \in 1..Len(tmu) : tmu'[h] = tmu[h]
  BY <1>3
<1> QED BY <1>2, <1>3, <1>4

\* Under db.mu, a handle for a table that has none keeps the invariant.
LEMMA NewHandleKeeps ==
  ASSUME HandlesInv, NEW n \in Names, NEW v \in Nat, NEW rows \in SUBSET Batches,
         NEW id \in Nat, NewHandle(n, v, rows, id), DBFree,
         n \in DOMAIN tables => tables[n] = Unopened,
         UNCHANGED <<db, dbmu, pc, arg, owner>>, DiskTyped', HistTyped'
  PROVE  HandlesInv'
<1> DEFINE t == [name |-> n, made |-> id, closed |-> FALSE, nextVersion |-> v,
                 rows |-> rows, writer |-> "off", wver |-> 0, pending |-> {}]
           new == Len(handles) + 1
<1>1. t \in HandleRecord /\ t.name = n
  BY DEF HandleRecord
<1>2. handles' = Append(handles, t) /\ tmu' = Append(tmu, NoClient)
  BY DEF NewHandle
<1>3. tables' = [k \in DOMAIN tables \cup {n} |-> IF k = n THEN new ELSE tables[k]]
  BY DEF NewHandle
<1> HIDE DEF t
<1>4. /\ handles' \in Seq(HandleRecord) /\ Len(handles') = Len(handles) + 1
      /\ tmu' \in Seq(Clients \cup {NoClient}) /\ Len(tmu') = Len(handles')
      /\ DOMAIN handles' = DOMAIN handles \cup {new}
      /\ new \notin DOMAIN handles /\ new \in Nat \ {0}
      /\ handles'[new] = t /\ tmu'[new] = NoClient
      /\ \A h \in DOMAIN handles : handles'[h] = handles[h] /\ tmu'[h] = tmu[h]
  BY <1>1, <1>2, AppendHandle DEF HandlesInv, TypeInv
<1> HIDE DEF new
<1>5. /\ DOMAIN tables' = DOMAIN tables \cup {n} /\ tables'[n] = new
      /\ \A k \in DOMAIN tables \ {n} : tables'[k] = tables[k]
  BY <1>3
<1>6. TypeInv'
  <2>1. ProcessTyped'
    BY <1>3, <1>4, <1>5 DEF HandlesInv, TypeInv, ProcessTyped
  <2>2. ASSUME NEW c \in Clients PROVE ArgTyped(c)'
    BY <1>4 DEF HandlesInv, TypeInv, ClientsTyped, ArgTyped
  <2>3. ClientsTyped'
    BY <2>2 DEF HandlesInv, TypeInv, ClientsTyped
  <2> QED BY <2>1, <2>3 DEF TypeInv
<1>7. \A h \in DOMAIN handles : Live(h)' = Live(h)
  BY <1>4 DEF Live
<1>8. TablesInv'
  BY <1>1, <1>4, <1>5 DEF HandlesInv, TurnsInv, TablesInv
<1>9. LiveInv'
  <2>1. ASSUME NEW h \in DOMAIN handles, Live(h)
        PROVE  /\ handles'[h].name \in DOMAIN tables'
               /\ tables'[handles'[h].name] = h
    <3>1. handles[h].name \in DOMAIN tables /\ tables[handles[h].name] = h
      BY <2>1 DEF HandlesInv, TurnsInv, LiveInv
    <3>2. handles[h].name # n
      BY <3>1, HandleFacts DEF HandlesInv, Unopened
    <3> QED BY <1>4, <1>5, <3>1, <3>2
  <2> QED BY <1>1, <1>4, <1>5, <1>7, <2>1 DEF LiveInv
<1>10. \A c \in Clients : pc[c] \in Closers => arg[c].for = "user"
  BY DatabaseAssumption DEF HandlesInv, TurnsInv, LockInv, DBFree
<1>11. LockInv'
  <2>1. \A c \in Clients : pc[c] = "closing" => arg[c].h \in DOMAIN handles
    BY ArgFacts DEF HandlesInv
  <2> QED BY <1>4, <1>10, <2>1 DEF HandlesInv, TurnsInv, LockInv
<1>12. DropInv' /\ DBInv'
  BY <1>10 DEF DropInv, DBInv
<1>13. InsertInv'
  BY <1>4, ArgFacts DEF HandlesInv, InsertInv
<1> QED BY <1>6, <1>8, <1>9, <1>11, <1>12, <1>13 DEF HandlesInv, TurnsInv

\* CreateTable makes a handle for a name that has no open one.
LEMMA CreateTableHandles ==
  ASSUME HandlesInv, NEW c \in Clients, NEW n \in Names, CreateTable(c, n)
  PROVE  HandlesInv'
<1>1. /\ DBFree /\ n \notin DOMAIN tables
      /\ UNCHANGED <<db, dbmu, pc, arg, owner>>
  BY DEF CreateTable, Creatable, client
<1>2. CASE /\ WriteVersion(n, 1, {}) /\ NewHandle(n, 2, {}, made + 1)
           /\ made' = made + 1
           /\ latestMade' = [k \in DOMAIN latestMade \cup {n} |->
                               IF k = n THEN made + 1 ELSE latestMade[k]]
  <2>1. DiskTyped'
    <3>1. {} \in SUBSET Batches /\ 1 \in Nat
      OBVIOUS
    <3> QED BY <1>2, <3>1, WriteFacts DEF HandlesInv, TypeInv
  <2>2. made + 1 \in Nat /\ 2 \in Nat /\ {} \in SUBSET Batches
    BY DEF HandlesInv, TypeInv, HistTyped
  <2>3. HistTyped'
    BY <1>1, <1>2, <2>2 DEF HandlesInv, TypeInv, HistTyped
  <2> QED BY <1>1, <1>2, <2>1, <2>2, <2>3, NewHandleKeeps
<1>3. CASE /\ \/ UNCHANGED disk
              \/ /\ n \notin DOMAIN disk
                 /\ disk' = [k \in DOMAIN disk \cup {n} |->
                               IF k = n THEN NoVersions ELSE disk[k]]
           /\ UNCHANGED <<handles, tmu, tables, made, latestMade>>
  <2>1. Directory(NoVersions)
    <3>1. DOMAIN NoVersions = {} /\ NoVersions \in [{} -> SUBSET Batches]
      BY DEF NoVersions
    <3> QED BY <3>1 DEF Directory
  <2>2. DiskTyped'
    BY <1>3, <2>1 DEF HandlesInv, TypeInv, DiskTyped
  <2>3. TypeInv'
    BY <1>1, <1>3, <2>2 DEF HandlesInv, TypeInv, ProcessTyped, ClientsTyped, HistTyped,
                            ArgTyped
  <2>4. TurnsInv'
    BY <1>1, <1>3, SameTurns DEF HandlesInv, SameHandles
  <2>5. InsertInv'
    BY <1>1, <1>3 DEF HandlesInv, InsertInv
  <2> QED BY <2>3, <2>4, <2>5 DEF HandlesInv
<1> QED BY <1>2, <1>3 DEF CreateTable

\* OpenTable makes a handle only for a name that has none.
LEMMA OpenTableHandles ==
  ASSUME HandlesInv, NEW c \in Clients, NEW n \in Names, OpenTable(c, n)
  PROVE  HandlesInv'
<1> DEFINE id == IF n \in DOMAIN latestMade THEN latestMade[n] ELSE 0
           v == Newest(disk[n]) + 1
           rows == Visible(n)
<1>1. /\ DBFree /\ tables[n] = Unopened /\ n \in DOMAIN disk /\ DOMAIN disk[n] # {}
      /\ NewHandle(n, v, rows, id)
      /\ UNCHANGED <<disk, db, dbmu, pc, arg, made, latestMade, owner>>
  BY DEF OpenTable, Cached, client, hist
<1>2. Directory(disk[n]) /\ DiskTyped
  BY <1>1 DEF HandlesInv, TypeInv, DiskTyped
<1>3. v \in Nat /\ rows \in SUBSET Batches
  BY <1>1, <1>2, NewestFacts, VisibleTyped
<1>4. id \in Nat
  BY DEF HandlesInv, TypeInv, HistTyped
<1>5. DiskTyped' /\ HistTyped'
  BY <1>1 DEF HandlesInv, TypeInv, DiskTyped, HistTyped
<1> HIDE DEF id, v, rows
<1> QED BY <1>1, <1>3, <1>4, <1>5, NewHandleKeeps

\* Connecting leaves no handle of an earlier connection open.
LEMMA ConnectHandles ==
  ASSUME HandlesInv, NEW kind \in ConnectKinds, Connect(kind)
  PROVE  HandlesInv'
<1>1. /\ db' = "open" /\ handles' = <<>> /\ tmu' = <<>>
      /\ tables' = [n \in Found(kind) |-> Unopened]
      /\ \A c \in Clients : pc[c] = "idle"
      /\ UNCHANGED <<disk, pc, arg, made, latestMade, owner>>
  BY DEF Connect, client
<1>2. Found(kind) \subseteq Names
  BY DEF Found, HandlesInv, TypeInv, DiskTyped
<1>3. DOMAIN handles' = {}
  BY <1>1
<1>4. /\ handles' \in Seq(HandleRecord) /\ tmu' \in Seq(Clients \cup {NoClient})
      /\ Len(tmu') = Len(handles')
  BY <1>1
<1>5. TypeInv'
  <2>1. ProcessTyped'
    BY <1>1, <1>2, <1>4 DEF ProcessTyped
  <2>2. DiskTyped' /\ HistTyped'
    BY <1>1 DEF HandlesInv, TypeInv, DiskTyped, HistTyped
  <2>3. ClientsTyped'
    BY <1>1 DEF HandlesInv, TypeInv, ClientsTyped, ArgTyped, Closers
  <2> QED BY <2>1, <2>2, <2>3 DEF TypeInv
<1>6. TablesInv' /\ LiveInv'
  BY <1>1, <1>3 DEF TablesInv, LiveInv
<1>7. LockInv' /\ DropInv' /\ DBInv' /\ InsertInv'
  BY <1>1, <1>3 DEF LockInv, DropInv, DBInv, InsertInv, Closers
<1> QED BY <1>5, <1>6, <1>7 DEF HandlesInv, TurnsInv

-----------------------------------------------------------------------------

\* Initially there are no tables and no handles.
LEMMA HandlesInit == Init => HandlesInv
<1> SUFFICES ASSUME Init PROVE HandlesInv
  OBVIOUS
<1>1. DOMAIN handles = {}
  BY DEF Init
<1>2. handles \in Seq(HandleRecord) /\ tmu \in Seq(Clients \cup {NoClient})
      /\ Len(tmu) = Len(handles)
  BY DEF Init
<1>3. TypeInv
  BY <1>2 DEF Init, TypeInv, DiskTyped, ProcessTyped, ClientsTyped, HistTyped, ArgTyped,
              Closers
<1>4. TurnsInv /\ InsertInv
  BY <1>1 DEF Init, TurnsInv, TablesInv, LockInv, LiveInv, DropInv, DBInv, InsertInv,
              Closers
<1> QED BY <1>3, <1>4 DEF HandlesInv

\* Every step keeps the part of the invariant that is about handles.
LEMMA HandlesStep == HandlesInv /\ [Next]_vars => HandlesInv'
<1> SUFFICES ASSUME HandlesInv, [Next]_vars PROVE HandlesInv'
  OBVIOUS
<1>1. ASSUME NEW c \in Clients, Call(c) PROVE HandlesInv'
  BY <1>1, CreateTableHandles, OpenTableHandles, DropCallHandles, StartAsyncWriterHandles,
     FlushCallHandles, CloseCallHandles, InsertCallHandles, InsertAsyncHandles,
     DBCloseHandles DEF Call
<1>2. ASSUME NEW c \in Clients, Step(c) PROVE HandlesInv'
  BY <1>2, InsertHandles, FlushHandles, CloseWriterHandles, CloseReturnHandles,
     DropRemoveHandles, DBCloseNextHandles DEF Step
<1>3. CASE UNCHANGED vars
  <2>1. TypeInv'
    BY <1>3 DEF vars, process, client, hist, HandlesInv, TypeInv, DiskTyped, ProcessTyped,
                ClientsTyped, HistTyped, ArgTyped
  <2>2. TurnsInv' /\ InsertInv'
    BY <1>3, SameTurns DEF vars, process, client, hist, HandlesInv, SameHandles, InsertInv
  <2> QED BY <2>1, <2>2 DEF HandlesInv
<1> QED BY <1>1, <1>2, <1>3, CloseLockHandles, ConnectHandles DEF Next

\* The part of the invariant that is about handles holds always.
THEOREM HandlesInvariant == Spec => []HandlesInv
BY HandlesInit, HandlesStep, PTL DEF Spec

\* connection.go:181-203, 221-236.  Whatever is opened, closed, dropped and
\* created again, by any number of clients and through any number of
\* reconnections, no two handles of one table are open.
THEOREM OneHandlePerTable == Spec => []OneOpenHandle
<1>1. HandlesInv => OneOpenHandle
  BY DEF HandlesInv, TurnsInv, LiveInv, Live, OneOpenHandle
<1> QED BY <1>1, HandlesInvariant, PTL

-----------------------------------------------------------------------------
(* A quiet application *)

\* A client goes on, and closes only what no other client uses.
LEMMA QuietGoto ==
  ASSUME HandlesInv, QuietInv, NEW c \in Clients, NEW label, NEW a, Goto(c, label, a),
         DOMAIN handles' = DOMAIN handles,
         \A h \in DOMAIN handles :
           handles'[h].closed = handles[h].closed \/ Closing(c, h),
         label \in {"insert", "flush"} =>
           /\ ~handles'[a.h].closed
           /\ \A d \in Clients \ {c} : ~Closing(d, a.h),
         label \in Closers => \A g \in DOMAIN handles :
           g = a.h \/ (a.for = "db" /\ g \in a.left) => Closing(c, g) \/ Unused(g, c)
  PROVE  QuietInv'
<1>1. /\ pc'[c] = label /\ arg'[c] = a
      /\ \A d \in Clients \ {c} : pc'[d] = pc[d] /\ arg'[d] = arg[d]
  BY DEF Goto, HandlesInv, TypeInv, ClientsTyped
<1>2. ASSUME NEW d \in Clients, (pc[d] \in {"insert", "flush"})'
      PROVE  (/\ ~handles[arg[d].h].closed
              /\ \A e \in Clients : ~Closing(e, arg[d].h))'
  <2>1. CASE d = c
    BY <1>1, <1>2, <2>1 DEF Closing
  <2>2. CASE d # c
    <3>1. /\ pc[d] \in {"insert", "flush"} /\ arg'[d] = arg[d]
          /\ arg[d].h \in DOMAIN handles
      BY <1>1, <1>2, <2>2, ArgFacts DEF HandlesInv
    <3>2. /\ ~handles[arg[d].h].closed
          /\ \A e \in Clients : ~Closing(e, arg[d].h)
      BY <3>1 DEF QuietInv
    <3>3. ~handles'[arg[d].h].closed
      BY <3>1, <3>2
    <3>4. ~Unused(arg[d].h, c)
      BY <2>2, <3>1 DEF Unused
    <3>5. ~Closing(c, arg[d].h)'
      BY <1>1, <2>2, <3>1, <3>2, <3>4 DEF Closing, Closers
    <3>6. \A e \in Clients \ {c} : ~Closing(e, arg[d].h)'
      BY <1>1, <2>2, <3>2 DEF Closing
    <3> QED BY <3>1, <3>3, <3>5, <3>6
  <2> QED BY <2>1, <2>2
<1> QED BY <1>2 DEF QuietInv

\* Nobody goes on, and no handle is closed.
LEMMA QuietSame ==
  ASSUME HandlesInv, QuietInv, UNCHANGED <<pc, arg>>,
         \A h \in DOMAIN handles : handles'[h].closed = handles[h].closed
  PROVE  QuietInv'
<1>1. \A c \in Clients : pc[c] \in {"insert", "flush"} => arg[c].h \in DOMAIN handles
  BY ArgFacts DEF HandlesInv
<1> QED BY <1>1 DEF QuietInv, Closing

\* A quiet application keeps what the rows rest on, step by step.
LEMMA QuietStep ==
  HandlesInv /\ QuietInv /\ quiet /\ [Next]_vars => QuietInv'
<1> SUFFICES ASSUME HandlesInv, QuietInv, quiet, [Next]_vars PROVE QuietInv'
  OBVIOUS
<1>0. \A h \in DOMAIN handles : handles[h] \in HandleRecord
  BY HandleFacts DEF HandlesInv
<1>1. ASSUME NEW c \in Clients, NEW n \in Names, CreateTable(c, n) \/ OpenTable(c, n)
      PROVE  QuietInv'
  <2>1. UNCHANGED <<pc, arg>>
    BY <1>1 DEF CreateTable, OpenTable, client
  <2>2. \A h \in DOMAIN handles : handles'[h] = handles[h]
    <3>1. CASE UNCHANGED handles
      BY <3>1
    <3>2. ASSUME NEW t, handles' = Append(handles, t)
          PROVE  \A h \in DOMAIN handles : handles'[h] = handles[h]
      <4>1. handles \in Seq(HandleRecord)
        BY DEF HandlesInv, TypeInv, ProcessTyped
      <4> QED BY <3>2, <4>1
    <3> QED BY <1>1, <3>1, <3>2 DEF CreateTable, OpenTable, NewHandle
  <2> QED BY <2>1, <2>2, QuietSame
<1>2. ASSUME NEW c \in Clients, NEW n \in Names, DropCall(c, n) PROVE QuietInv'
  <2> DEFINE label == IF tables[n] = Unopened THEN "closed" ELSE "close"
             a == [h |-> tables[n], for |-> "drop", name |-> n]
  <2>1. /\ Goto(c, label, a) /\ UNCHANGED handles
        /\ tables[n] # Unopened => Unused(tables[n], c)
        /\ label \in Closers \ {"insert", "flush"}
    BY <1>2 DEF DropCall, Quiet, Closers
  <2>2. a.h = tables[n] /\ a.for = "drop"
    OBVIOUS
  <2>3. \A g \in DOMAIN handles : g # Unopened
    BY HandleFacts DEF HandlesInv, Unopened
  <2> HIDE DEF label, a
  <2> QED BY <2>1, <2>2, <2>3, QuietGoto
<1>3. ASSUME NEW c \in Clients, NEW h \in DOMAIN handles,
             \/ StartAsyncWriter(c, h)
             \/ \E b \in Batches : InsertAsync(c, h, b)
      PROVE  QuietInv'
  <2>1. UNCHANGED <<pc, arg>>
    BY <1>3 DEF StartAsyncWriter, InsertAsync, client
  <2>2. \A g \in DOMAIN handles : handles'[g].closed = handles[g].closed
    <3>1. ASSUME NEW r, r.closed = handles[h].closed, handles' = [handles EXCEPT ![h] = r]
          PROVE  \A g \in DOMAIN handles : handles'[g].closed = handles[g].closed
      BY <3>1
    <3>2. CASE StartAsyncWriter(c, h)
      <4>1. PICK v : handles' = [handles EXCEPT ![h] =
                                   [handles[h] EXCEPT !.writer = "on", !.wver = v]]
        BY <3>2 DEF StartAsyncWriter
      <4>2. [handles[h] EXCEPT !.writer = "on", !.wver = v].closed = handles[h].closed
        BY <1>0
      <4> QED BY <3>1, <4>1, <4>2
    <3>3. CASE \E b \in Batches : InsertAsync(c, h, b)
      <4>1. PICK s : handles' = [handles EXCEPT ![h] = [handles[h] EXCEPT !.pending = s]]
        BY <3>3 DEF InsertAsync
      <4>2. [handles[h] EXCEPT !.pending = s].closed = handles[h].closed
        BY <1>0
      <4> QED BY <3>1, <4>1, <4>2
    <3> QED BY <1>3, <3>2, <3>3
  <2> QED BY <2>1, <2>2, QuietSame
<1>4. ASSUME NEW c \in Clients, NEW h \in DOMAIN handles, FlushCall(c, h)
      PROVE  QuietInv'
  <2>1. /\ Goto(c, "flush", [h |-> h]) /\ UNCHANGED handles /\ ~handles[h].closed
        /\ \A d \in Clients \ {c} : ~Closing(d, h)
    BY <1>4 DEF FlushCall, process, Usable, Calm
  <2> QED BY <2>1, QuietGoto DEF Closers
<1>5. ASSUME NEW c \in Clients, NEW h \in DOMAIN handles, NEW b \in Batches,
             InsertCall(c, h, b)
      PROVE  QuietInv'
  <2>1. /\ Goto(c, "insert", [h |-> h, batch |-> b]) /\ UNCHANGED handles
        /\ ~handles[h].closed /\ \A d \in Clients \ {c} : ~Closing(d, h)
    BY <1>5 DEF InsertCall, process, Usable, Calm
  <2> QED BY <2>1, QuietGoto DEF Closers
<1>6. ASSUME NEW c \in Clients, NEW h \in DOMAIN handles, CloseCall(c, h)
      PROVE  QuietInv'
  <2>1. /\ Goto(c, "close", [h |-> h, for |-> "user"]) /\ UNCHANGED handles
        /\ Unused(h, c)
    BY <1>6 DEF CloseCall, process, Quiet
  <2> QED BY <2>1, QuietGoto DEF Closers
<1>7. ASSUME NEW c \in Clients, DBClose(c) PROVE QuietInv'
  <2> DEFINE open == {tables[n] : n \in DOMAIN tables} \ {Unopened}
             a == [h |-> 0, for |-> "db", left |-> open]
  <2>1. Goto(c, "closed", a) /\ UNCHANGED handles
    BY <1>7 DEF DBClose
  <2>2. \A g \in open : Unused(g, c)
    BY <1>7 DEF DBClose, Quiet
  <2>3. a.h = 0 /\ a.left = open /\ \A g \in DOMAIN handles : g # 0
    BY HandleFacts DEF HandlesInv
  <2> HIDE DEF open, a
  <2> QED BY <2>1, <2>2, <2>3, QuietGoto DEF Closers
<1>8. ASSUME NEW c \in Clients, Insert(c) \/ Flush(c) PROVE QuietInv'
  <2>1. Goto(c, "idle", NoArg)
    BY <1>8 DEF Insert, Flush, ReturnOf
  <2>2. SameHandles
    BY <1>8, InsertHandles, FlushHandles
  <2> QED BY <2>1, <2>2, QuietGoto DEF SameHandles, Closers
<1>9. ASSUME NEW c \in Clients, CloseDone(c) \/ DropRemove(c) \/ DropFails(c)
      PROVE  QuietInv'
  <2>1. Goto(c, "idle", NoArg) /\ UNCHANGED handles
    BY <1>9 DEF CloseDone, DropRemove, DropFails, ReturnOf, process
  <2> QED BY <2>1, QuietGoto DEF Closers
<1>10. ASSUME NEW c \in Clients, DBCloseNext(c) PROVE QuietInv'
  <2>1. CASE ReturnOf(c) /\ UNCHANGED handles
    BY <2>1, QuietGoto DEF ReturnOf, Closers
  <2>2. ASSUME NEW h \in arg[c].left, UNCHANGED handles,
               Goto(c, "close", [h |-> h, for |-> "db", left |-> arg[c].left \ {h}])
        PROVE  QuietInv'
    <3>1. \A g \in arg[c].left : Closing(c, g)
      BY <1>10 DEF DBCloseNext, Closing
    <3> QED BY <2>2, <3>1, QuietGoto DEF Closers
  <2> QED BY <1>10, <2>1, <2>2 DEF DBCloseNext
<1>11. ASSUME NEW c \in Clients, CloseLock(c) \/ CloseWriter(c) PROVE QuietInv'
  <2>1. /\ pc[c] \in {"close", "closing"} /\ arg[c].h \in DOMAIN handles
        /\ Closing(c, arg[c].h) /\ UNCHANGED arg
    BY <1>11, ArgFacts DEF CloseLock, CloseWriter, Closing, HandlesInv
  <2>2. \A g \in DOMAIN handles : g = arg[c].h \/ (arg[c].for = "db" /\ g \in arg[c].left)
          => Closing(c, g)
    BY <2>1 DEF Closing
  <2>3. PICK label \in Closers : pc' = [pc EXCEPT ![c] = label]
    BY <1>11 DEF CloseLock, CloseWriter, Closers
  <2>4. Goto(c, label, arg[c])
    BY <2>1, <2>3 DEF Goto, HandlesInv, TypeInv, ClientsTyped
  <2>5. DOMAIN handles' = DOMAIN handles
        /\ \A g \in DOMAIN handles : g # arg[c].h => handles'[g] = handles[g]
    BY <1>11, <2>1 DEF CloseLock, CloseWriter
  <2> QED BY <2>1, <2>2, <2>3, <2>4, <2>5, QuietGoto DEF Closers
<1>12. ASSUME NEW kind \in ConnectKinds, Connect(kind) PROVE QuietInv'
  BY <1>12 DEF Connect, client, QuietInv
<1>13. CASE UNCHANGED vars
  BY <1>13, QuietSame DEF vars, process, client
<1> QED BY <1>1, <1>2, <1>3, <1>4, <1>5, <1>6, <1>7, <1>8, <1>9, <1>10, <1>11, <1>12, <1>13
        DEF Next, Call, Step

\* A client goes on, and no writer starts where there was none.
LEMMA ApartGoto ==
  ASSUME HandlesInv, ApartInv, NEW c \in Clients, NEW label, NEW a, Goto(c, label, a),
         \A h \in DOMAIN handles :
           handles[h].writer = "off" => handles'[h].writer = "off",
         label = "insert" => handles'[a.h].writer = "off"
  PROVE  ApartInv'
<1>1. /\ pc'[c] = label /\ arg'[c] = a
      /\ \A d \in Clients \ {c} : pc'[d] = pc[d] /\ arg'[d] = arg[d]
  BY DEF Goto, HandlesInv, TypeInv, ClientsTyped
<1>2. \A d \in Clients : pc[d] = "insert" => arg[d].h \in DOMAIN handles
  BY ArgFacts DEF HandlesInv
<1> QED BY <1>1, <1>2 DEF ApartInv

\* Nobody goes on, and no writer starts beside an Insert.
LEMMA ApartSame ==
  ASSUME HandlesInv, ApartInv, UNCHANGED <<pc, arg>>,
         \A h \in DOMAIN handles : handles[h].writer = "off" =>
           \/ handles'[h].writer = "off"
           \/ \A d \in Clients : pc[d] = "insert" => arg[d].h # h
  PROVE  ApartInv'
<1>1. \A d \in Clients : pc[d] = "insert" => arg[d].h \in DOMAIN handles
  BY ArgFacts DEF HandlesInv
<1> QED BY <1>1 DEF ApartInv

\* A quiet application keeps Insert and the async writer of a table apart.
LEMMA ApartStep ==
  HandlesInv /\ ApartInv /\ quiet /\ [Next]_vars => ApartInv'
<1> SUFFICES ASSUME HandlesInv, ApartInv, quiet, [Next]_vars PROVE ApartInv'
  OBVIOUS
<1>0. \A h \in DOMAIN handles : handles[h] \in HandleRecord
  BY HandleFacts DEF HandlesInv
<1>1. ASSUME NEW c \in Clients, NEW n \in Names, CreateTable(c, n) \/ OpenTable(c, n)
      PROVE  ApartInv'
  <2>1. UNCHANGED <<pc, arg>>
    BY <1>1 DEF CreateTable, OpenTable, client
  <2>2. \A h \in DOMAIN handles : handles'[h] = handles[h]
    <3>1. CASE UNCHANGED handles
      BY <3>1
    <3>2. ASSUME NEW t, handles' = Append(handles, t)
          PROVE  \A h \in DOMAIN handles : handles'[h] = handles[h]
      <4>1. handles \in Seq(HandleRecord)
        BY DEF HandlesInv, TypeInv, ProcessTyped
      <4> QED BY <3>2, <4>1
    <3> QED BY <1>1, <3>1, <3>2 DEF CreateTable, OpenTable, NewHandle
  <2> QED BY <2>1, <2>2, ApartSame
<1>2. ASSUME NEW c \in Clients, NEW n \in Names, DropCall(c, n) PROVE ApartInv'
  <2>1. PICK label \in {"closed", "close"} :
          \E a : Goto(c, label, a) /\ UNCHANGED handles
    BY <1>2 DEF DropCall
  <2> QED BY <2>1, ApartGoto
<1>3. ASSUME NEW c \in Clients, NEW h \in DOMAIN handles, StartAsyncWriter(c, h)
      PROVE  ApartInv'
  <2>1. UNCHANGED <<pc, arg>> /\ \A d \in Clients : pc[d] = "insert" => arg[d].h # h
    BY <1>3 DEF StartAsyncWriter, client
  <2>2. PICK t : handles' = [handles EXCEPT ![h] = t]
    BY <1>3 DEF StartAsyncWriter
  <2> QED BY <2>1, <2>2, ApartSame
<1>4. ASSUME NEW c \in Clients, NEW h \in DOMAIN handles, NEW b \in Batches,
             InsertAsync(c, h, b)
      PROVE  ApartInv'
  <2>1. UNCHANGED <<pc, arg>> /\ handles[h].writer = "on"
    BY <1>4 DEF InsertAsync, client
  <2>2. PICK t : handles' = [handles EXCEPT ![h] = t]
    BY <1>4 DEF InsertAsync
  <2> QED BY <2>1, <2>2, ApartSame
<1>5. ASSUME NEW c \in Clients, NEW h \in DOMAIN handles, FlushCall(c, h)
      PROVE  ApartInv'
  <2>1. Goto(c, "flush", [h |-> h]) /\ UNCHANGED handles
    BY <1>5 DEF FlushCall, process
  <2> QED BY <2>1, ApartGoto
<1>6. ASSUME NEW c \in Clients, NEW h \in DOMAIN handles, NEW b \in Batches,
             InsertCall(c, h, b)
      PROVE  ApartInv'
  <2>1. /\ Goto(c, "insert", [h |-> h, batch |-> b]) /\ UNCHANGED handles
        /\ handles[h].writer = "off"
    BY <1>6 DEF InsertCall, process
  <2> QED BY <2>1, ApartGoto
<1>7. ASSUME NEW c \in Clients, NEW h \in DOMAIN handles, CloseCall(c, h)
      PROVE  ApartInv'
  <2>1. Goto(c, "close", [h |-> h, for |-> "user"]) /\ UNCHANGED handles
    BY <1>7 DEF CloseCall, process
  <2> QED BY <2>1, ApartGoto
<1>8. ASSUME NEW c \in Clients, DBClose(c) PROVE ApartInv'
  <2>1. PICK a : Goto(c, "closed", a) /\ UNCHANGED handles
    BY <1>8 DEF DBClose
  <2> QED BY <2>1, ApartGoto
<1>9. ASSUME NEW c \in Clients, Insert(c) \/ Flush(c) PROVE ApartInv'
  <2>1. Goto(c, "idle", NoArg)
    BY <1>9 DEF Insert, Flush, ReturnOf
  <2>2. arg[c].h \in DOMAIN handles
    BY <1>9, ArgFacts DEF Insert, Flush, HandlesInv
  <2> DEFINE h == arg[c].h
  <2>3. ASSUME NEW t, t.writer = handles[h].writer, handles' = [handles EXCEPT ![h] = t]
        PROVE  \A g \in DOMAIN handles : handles'[g].writer = handles[g].writer
    BY <2>2, <2>3
  <2>4. \A g \in DOMAIN handles : handles'[g].writer = handles[g].writer
    <3>1. CASE UNCHANGED handles
      BY <3>1
    <3>2. ASSUME NEW v, NEW rows,
                 handles' = [handles EXCEPT ![h].nextVersion = @ + v, ![h].rows = rows]
          PROVE  \A g \in DOMAIN handles : handles'[g].writer = handles[g].writer
      <4> DEFINE t == [handles[h] EXCEPT !.nextVersion = @ + v, !.rows = rows]
      <4>1. handles' = [handles EXCEPT ![h] = t]
        BY <2>2, <3>2
      <4>2. t.writer = handles[h].writer
        BY <1>0, <2>2 DEF HandleRecord
      <4> HIDE DEF t, h
      <4> QED BY <2>3, <4>1, <4>2
    <3>3. ASSUME NEW v, handles' = [handles EXCEPT ![h].nextVersion = @ + v]
          PROVE  \A g \in DOMAIN handles : handles'[g].writer = handles[g].writer
      <4> DEFINE t == [handles[h] EXCEPT !.nextVersion = @ + v]
      <4>1. handles' = [handles EXCEPT ![h] = t]
        BY <2>2, <3>3
      <4>2. t.writer = handles[h].writer
        BY <1>0, <2>2 DEF HandleRecord
      <4> HIDE DEF t, h
      <4> QED BY <2>3, <4>1, <4>2
    <3>4. ASSUME handles' = [handles EXCEPT ![h].pending = {}, ![h].wver = @ + 1]
          PROVE  \A g \in DOMAIN handles : handles'[g].writer = handles[g].writer
      <4> DEFINE t == [handles[h] EXCEPT !.pending = {}, !.wver = @ + 1]
      <4>1. handles' = [handles EXCEPT ![h] = t]
        BY <2>2, <3>4
      <4>2. t.writer = handles[h].writer
        BY <1>0, <2>2 DEF HandleRecord
      <4> HIDE DEF t, h
      <4> QED BY <2>3, <4>1, <4>2
    <3>5. CASE Insert(c)
      BY <3>2, <3>3, <3>5 DEF Insert
    <3>6. CASE Flush(c)
      BY <3>1, <3>4, <3>6 DEF Flush
    <3> QED BY <1>9, <3>5, <3>6
  <2> QED BY <2>1, <2>4, ApartGoto
<1>10. ASSUME NEW c \in Clients, CloseDone(c) \/ DropRemove(c) \/ DropFails(c)
       PROVE  ApartInv'
  <2>1. Goto(c, "idle", NoArg) /\ UNCHANGED handles
    BY <1>10 DEF CloseDone, DropRemove, DropFails, ReturnOf, process
  <2> QED BY <2>1, ApartGoto
<1>11. ASSUME NEW c \in Clients, DBCloseNext(c) PROVE ApartInv'
  <2>1. CASE ReturnOf(c) /\ UNCHANGED handles
    BY <2>1, ApartGoto DEF ReturnOf
  <2>2. ASSUME NEW a, UNCHANGED handles, Goto(c, "close", a) PROVE ApartInv'
    BY <2>2, ApartGoto
  <2> QED BY <1>11, <2>1, <2>2 DEF DBCloseNext
<1>12. ASSUME NEW c \in Clients, CloseLock(c) \/ CloseWriter(c) PROVE ApartInv'
  <2>1. UNCHANGED arg /\ arg[c].h \in DOMAIN handles
    BY <1>12, ArgFacts DEF CloseLock, CloseWriter, HandlesInv
  <2>2. PICK label \in Closers : pc' = [pc EXCEPT ![c] = label]
    BY <1>12 DEF CloseLock, CloseWriter, Closers
  <2>3. Goto(c, label, arg[c])
    BY <2>1, <2>2 DEF Goto, HandlesInv, TypeInv, ClientsTyped
  <2>4. \A g \in DOMAIN handles : handles[g].writer = "off" => handles'[g].writer = "off"
    <3>1. \A g \in DOMAIN handles : DOMAIN handles[g] =
            {"name", "made", "closed", "nextVersion", "rows", "writer", "wver", "pending"}
      BY <1>0 DEF HandleRecord
    <3>2. CASE CloseLock(c)
      <4>1. UNCHANGED handles \/ handles' = [handles EXCEPT ![arg[c].h].closed = TRUE]
        BY <3>2 DEF CloseLock
      <4> QED BY <2>1, <3>1, <4>1
    <3>3. CASE CloseWriter(c)
      <4>1. handles' = [handles EXCEPT
              ![arg[c].h].writer = IF @ = "on" THEN "stopped" ELSE @,
              ![arg[c].h].pending = {}]
        BY <3>3 DEF CloseWriter
      <4> QED BY <2>1, <3>1, <4>1
    <3> QED BY <1>12, <3>2, <3>3
  <2> QED BY <2>2, <2>3, <2>4, ApartGoto DEF Closers
<1>13. ASSUME NEW kind \in ConnectKinds, Connect(kind) PROVE ApartInv'
  BY <1>13 DEF Connect, client, ApartInv
<1>14. CASE UNCHANGED vars
  BY <1>14, ApartSame DEF vars, process, client
<1> QED BY <1>1, <1>2, <1>3, <1>4, <1>5, <1>6, <1>7, <1>8, <1>9, <1>10, <1>11, <1>12,
           <1>13, <1>14 DEF Next, Call, Step

-----------------------------------------------------------------------------
(* What a directory holds *)

\* No batch is inserted twice.
OwnerGrows == \A b \in DOMAIN owner : b \in DOMAIN owner' /\ owner'[b] = owner[b]

\* The live handles are those there were, and know their directories.
StillKnown ==
  \A h \in DOMAIN handles' : Live(h)' => KnowsDirectory(handles[h])'

\* A step that writes no directory, and forgets no table of an open database.
LEMMA NothingWritten ==
  ASSUME DirectoryInv, AckedInv, UNCHANGED <<disk, latestMade, acked>>,
         OwnerGrows, StillKnown,
         db' = "open" => db = "open" /\ DOMAIN tables \subseteq DOMAIN tables'
  PROVE  DirectoryInv' /\ WritersInv' /\ AckedInv'
<1>1. DirectoryInv'
  BY DEF DirectoryInv, OwnerGrows
<1>2. AckedInv'
  BY DEF AckedInv, InTable, Visible, OwnerGrows
<1>3. WritersInv'
  BY DEF StillKnown, WritersInv
<1> QED BY <1>1, <1>2, <1>3

\* A handle knows its directory as long as neither changes.
LEMMA KnowsKept ==
  ASSUME NEW h \in DOMAIN handles, KnowsDirectory(handles[h]), handles'[h] = handles[h],
         OwnerGrows,
         handles[h].name \in DOMAIN disk',
         disk'[handles[h].name] = disk[handles[h].name],
         handles[h].name \in DOMAIN latestMade',
         latestMade'[handles[h].name] = latestMade[handles[h].name]
  PROVE  KnowsDirectory(handles[h])'
BY DEF KnowsDirectory, OwnerGrows, Visible, Beyond

\* No directory is written, and no handle that was dead comes to life.
LEMMA KnownSame ==
  ASSUME HandlesInv, WritersInv, OwnerGrows, UNCHANGED <<disk, latestMade>>,
         DOMAIN handles' = DOMAIN handles,
         \A h \in DOMAIN handles :
           Live(h)' => Live(h) /\ handles'[h] = handles[h]
  PROVE  StillKnown
<1>1. ASSUME NEW h \in DOMAIN handles, Live(h)' PROVE KnowsDirectory(handles[h])'
  <2>1. KnowsDirectory(handles[h]) /\ handles'[h] = handles[h]
    BY <1>1 DEF WritersInv
  <2>2. /\ handles[h].name \in DOMAIN disk' /\ handles[h].name \in DOMAIN latestMade'
        /\ disk'[handles[h].name] = disk[handles[h].name]
        /\ latestMade'[handles[h].name] = latestMade[handles[h].name]
    BY <2>1 DEF KnowsDirectory
  <2> QED BY <2>1, <2>2, KnowsKept
<1> QED BY <1>1 DEF StillKnown

\* A live handle writes the next version of its directory, over its rows.
LEMMA VersionWritten ==
  ASSUME HandlesInv, DataInv, NEW h \in DOMAIN handles, Live(h),
         NEW n \in Names, n = handles[h].name, NEW v \in Nat,
         NEW rows \in SUBSET Batches, WriteVersion(n, v, rows),
         Beyond(n, v), Visible(n) \subseteq rows,
         \A b \in rows : b \in DOMAIN owner /\ owner[b] = handles[h].made,
         UNCHANGED <<db, tables, latestMade, owner>>, acked' \subseteq acked \cup rows
  PROVE  /\ DirectoryInv' /\ AckedInv'
         /\ n \in DOMAIN disk' /\ DOMAIN disk'[n] # {}
         /\ Visible(n)' = rows /\ \A w \in DOMAIN disk'[n] : w <= v
         /\ \A k \in DOMAIN disk \ {n} : k \in DOMAIN disk' /\ disk'[k] = disk[k]
         /\ \A g \in DOMAIN handles \ {h} : Live(g) => handles[g].name # n
<1>1. /\ n \in DOMAIN disk /\ DOMAIN disk[n] # {} /\ n \in DOMAIN latestMade
      /\ handles[h].made = latestMade[n]
  BY DEF DataInv, WritersInv, KnowsDirectory
<1>2. DiskTyped
  BY DEF HandlesInv, TypeInv
<1>3. /\ DiskTyped' /\ DOMAIN disk' = DOMAIN disk
      /\ \A k \in DOMAIN disk \ {n} : disk'[k] = disk[k]
      /\ disk'[n][v] = rows /\ DOMAIN disk'[n] = DOMAIN disk[n] \cup {v}
      /\ \A w \in DOMAIN disk[n] \ {v} : disk'[n][w] = disk[n][w]
  BY <1>1, <1>2, WriteFacts
<1>4. \A w \in DOMAIN disk'[n] : w <= v
  <2>1. DOMAIN disk[n] \subseteq Nat
    BY <1>1, <1>2 DEF DiskTyped, Directory
  <2> QED BY <1>1, <1>3, <2>1 DEF Beyond
<1>5. Newest(disk'[n]) = v
  BY <1>1, <1>3, <1>4, NewestIs DEF DiskTyped
<1>6. Visible(n)' = rows
  BY <1>3, <1>5 DEF Visible
<1>7. DirectoryInv'
  <2>1. ASSUME NEW k \in DOMAIN disk', DOMAIN disk'[k] # {}
        PROVE  /\ k \in DOMAIN latestMade' /\ (db' = "open" => k \in DOMAIN tables')
               /\ \A w \in DOMAIN disk'[k] : \A b \in disk'[k][w] :
                    b \in DOMAIN owner' /\ owner'[b] = latestMade'[k]
    <3>1. CASE k = n
      BY <1>1, <1>3, <3>1 DEF DataInv, DirectoryInv
    <3>2. CASE k # n
      BY <1>3, <2>1, <3>2 DEF DataInv, DirectoryInv
    <3> QED BY <3>1, <3>2
  <2> QED BY <2>1 DEF DirectoryInv
<1>8. AckedInv'
  <2>1. ASSUME NEW b \in acked' PROVE b \in DOMAIN owner' /\ InTable(b)'
    <3>1. CASE b \in rows
      BY <1>1, <1>3, <1>6, <3>1 DEF InTable
    <3>2. CASE b \in acked /\ b \notin rows
      <4>1. PICK k \in DOMAIN disk :
              k \in DOMAIN latestMade /\ latestMade[k] = owner[b] /\ b \in Visible(k)
        BY <3>2 DEF DataInv, AckedInv, InTable
      <4>2. k # n
        BY <3>2, <4>1
      <4>3. b \in Visible(k)'
        BY <1>3, <4>1, <4>2 DEF Visible
      <4> QED BY <1>3, <3>2, <4>1, <4>3 DEF DataInv, AckedInv, InTable
    <3> QED BY <3>1, <3>2
  <2> QED BY <2>1 DEF AckedInv
<1>9. \A g \in DOMAIN handles \ {h} : Live(g) => handles[g].name # n
  BY DEF HandlesInv, TurnsInv, LiveInv
<1> QED BY <1>1, <1>3, <1>4, <1>6, <1>7, <1>8, <1>9

\* The directories, the writers and what was acknowledged.
RowsInv == DirectoryInv /\ WritersInv /\ AckedInv

\* After its writer h has written version v of n, the others know what they did.
LEMMA OthersKnow ==
  ASSUME HandlesInv, DataInv, NEW h \in DOMAIN handles, NEW n \in Names,
         UNCHANGED <<latestMade, owner, tmu>>,
         \A k \in DOMAIN disk \ {n} : k \in DOMAIN disk' /\ disk'[k] = disk[k],
         \A g \in DOMAIN handles \ {h} : Live(g) => handles[g].name # n,
         DOMAIN handles' = DOMAIN handles,
         \A g \in DOMAIN handles \ {h} : handles'[g] = handles[g],
         Live(h)' => KnowsDirectory(handles[h])'
  PROVE  WritersInv'
<1>1. ASSUME NEW g \in DOMAIN handles \ {h}, Live(g)' PROVE KnowsDirectory(handles[g])'
  <2>1. Live(g) /\ handles'[g] = handles[g]
    BY <1>1 DEF Live
  <2>2. KnowsDirectory(handles[g]) /\ handles[g].name # n
    BY <2>1 DEF DataInv, WritersInv
  <2>3. /\ handles[g].name \in DOMAIN disk' /\ handles[g].name \in DOMAIN latestMade'
        /\ disk'[handles[g].name] = disk[handles[g].name]
        /\ latestMade'[handles[g].name] = latestMade[handles[g].name]
    BY <2>2 DEF KnowsDirectory
  <2> QED BY <2>1, <2>2, <2>3, KnowsKept DEF OwnerGrows
<1> QED BY <1>1 DEF WritersInv

\* Insert: the next version has the rows of the last one and the batch.
LEMMA InsertRows ==
  ASSUME HandlesInv, DataInv, NEW c \in Clients, Insert(c)
  PROVE  RowsInv'
<1>1. PICK h \in DOMAIN handles : h = arg[c].h
  BY ArgFacts DEF Insert, HandlesInv
<1>2. PICK b \in Batches : b = arg[c].batch
  BY ArgFacts DEF Insert, HandlesInv
<1>3. handles[h] \in HandleRecord /\ pc[c] = "insert"
  BY HandleFacts DEF Insert, HandlesInv
<1>4. PICK n \in Names : n = handles[h].name
  BY <1>3 DEF HandleRecord
<1>5. PICK v \in Nat : v = handles[h].nextVersion
  BY <1>3 DEF HandleRecord
<1>6. PICK rows \in SUBSET Batches : rows = handles[h].rows \cup {b}
  BY <1>3 DEF HandleRecord
<1>7. Live(h) /\ handles[h].writer = "off"
  BY <1>1, <1>3 DEF DataInv, QuietInv, ApartInv, Live
<1>8. /\ n \in DOMAIN disk /\ n \in DOMAIN latestMade /\ handles[h].made = latestMade[n]
      /\ Beyond(n, v) /\ handles[h].rows = Visible(n) /\ DOMAIN disk[n] # {}
      /\ \A x \in handles[h].pending : x \in DOMAIN owner /\ owner[x] = handles[h].made
  BY <1>4, <1>5, <1>7 DEF DataInv, WritersInv, KnowsDirectory
<1>9. /\ b \in DOMAIN owner /\ owner[b] = handles[h].made
      /\ UNCHANGED <<db, tables, latestMade, owner, tmu>>
  BY <1>1, <1>2, <1>3 DEF HandlesInv, InsertInv, Insert
<1>10. DiskTyped' /\ SameHandles
  BY InsertHandles DEF HandlesInv, TypeInv
<1>11. CASE /\ WriteVersion(n, v, rows)
            /\ handles' = [handles EXCEPT ![h].nextVersion = @ + 1, ![h].rows = rows]
            /\ acked' = acked \cup {b}
  <2>1. \A x \in rows : x \in DOMAIN owner /\ owner[x] = handles[h].made
    <3>1. Newest(disk[n]) \in DOMAIN disk[n]
      BY <1>8, NewestFacts DEF HandlesInv, TypeInv, DiskTyped
    <3> QED BY <1>6, <1>8, <1>9, <3>1 DEF DataInv, DirectoryInv, Visible
  <2>2. /\ DOMAIN handles' = DOMAIN handles
        /\ \A g \in DOMAIN handles \ {h} : handles'[g] = handles[g]
        /\ handles'[h] = [handles[h] EXCEPT !.nextVersion = v + 1, !.rows = rows]
    BY <1>5, <1>11
  <2>3. /\ handles'[h].nextVersion = v + 1 /\ handles'[h].rows = rows
        /\ handles'[h].name = n /\ handles'[h].made = handles[h].made
        /\ handles'[h].writer = "off" /\ handles'[h].pending = handles[h].pending
    BY <1>3, <1>4, <1>7, <2>2 DEF HandleRecord
  <2>4. Visible(n) \subseteq rows /\ acked' \subseteq acked \cup rows
    BY <1>6, <1>8, <1>11
  <2>5. /\ DirectoryInv' /\ AckedInv'
        /\ n \in DOMAIN disk' /\ DOMAIN disk'[n] # {}
        /\ Visible(n)' = rows /\ \A w \in DOMAIN disk'[n] : w <= v
        /\ \A k \in DOMAIN disk \ {n} : k \in DOMAIN disk' /\ disk'[k] = disk[k]
        /\ \A g \in DOMAIN handles \ {h} : Live(g) => handles[g].name # n
    <3>1. UNCHANGED <<db, tables, latestMade, owner>> /\ WriteVersion(n, v, rows)
      BY <1>9, <1>11
    <3>2. Beyond(n, v)
      BY <1>8
    <3> QED BY <1>4, <1>7, <2>1, <2>4, <3>1, <3>2, VersionWritten
  <2>6. Beyond(n, v + 1)'
    <3>1. DOMAIN disk'[n] \subseteq Nat
      BY <1>10, <2>5 DEF DiskTyped, Directory
    <3> QED BY <2>5, <3>1 DEF Beyond
  <2>7. KnowsDirectory(handles[h])'
    BY <1>8, <1>9, <2>3, <2>5, <2>6 DEF KnowsDirectory
  <2> QED BY <1>9, <2>2, <2>5, <2>7, OthersKnow DEF RowsInv
<1>12. ASSUME NEW used \in {0, 1}, UNCHANGED <<disk, acked>>,
              handles' = [handles EXCEPT ![h].nextVersion = @ + used]
       PROVE  RowsInv'
  <2>1. /\ DOMAIN handles' = DOMAIN handles
        /\ \A g \in DOMAIN handles \ {h} : handles'[g] = handles[g]
        /\ handles'[h] = [handles[h] EXCEPT !.nextVersion = v + used]
    BY <1>5, <1>12
  <2>2. /\ handles'[h].nextVersion = v + used /\ handles'[h].rows = handles[h].rows
        /\ handles'[h].name = n /\ handles'[h].made = handles[h].made
        /\ handles'[h].writer = "off" /\ handles'[h].pending = handles[h].pending
    BY <1>3, <1>4, <1>7, <2>1 DEF HandleRecord
  <2>3. Beyond(n, v + used)'
    <3>1. DOMAIN disk[n] \subseteq Nat
      BY <1>8 DEF HandlesInv, TypeInv, DiskTyped, Directory
    <3> QED BY <1>8, <1>12, <3>1 DEF Beyond
  <2>4. KnowsDirectory(handles[h])'
    BY <1>8, <1>9, <1>12, <2>2, <2>3 DEF KnowsDirectory, Visible
  <2>5. \A g \in DOMAIN handles \ {h} : Live(g) => handles[g].name # n
    BY <1>4, <1>7 DEF HandlesInv, TurnsInv, LiveInv
  <2>6. WritersInv'
    BY <1>9, <1>12, <2>1, <2>4, <2>5, OthersKnow
  <2>7. DirectoryInv' /\ AckedInv'
    BY <1>9, <1>12 DEF DataInv, DirectoryInv, AckedInv, InTable, Visible
  <2> QED BY <2>6, <2>7 DEF RowsInv
<1> QED BY <1>1, <1>2, <1>4, <1>5, <1>6, <1>11, <1>12 DEF Insert

\* What the writer of a live handle flushes.
LEMMA FlushWrites ==
  ASSUME HandlesInv, DataInv, NEW h \in DOMAIN handles, Live(h),
         handles[h].writer = "on", NEW n \in Names, n = handles[h].name,
         NEW v \in Nat, v = handles[h].wver, Flushed(h),
         UNCHANGED <<db, tables, latestMade, owner>>
  PROVE  /\ DirectoryInv' /\ AckedInv' /\ Beyond(n, v + 1)'
         /\ n \in DOMAIN disk' /\ DOMAIN disk'[n] # {}
         /\ \A k \in DOMAIN disk \ {n} : k \in DOMAIN disk' /\ disk'[k] = disk[k]
         /\ \A g \in DOMAIN handles \ {h} : Live(g) => handles[g].name # n
<1>1. /\ n \in DOMAIN disk /\ n \in DOMAIN latestMade /\ handles[h].made = latestMade[n]
      /\ Beyond(n, v) /\ DOMAIN disk[n] # {}
      /\ \A x \in handles[h].pending : x \in DOMAIN owner /\ owner[x] = handles[h].made
  BY DEF DataInv, WritersInv, KnowsDirectory
<1>2. Visible(n) \subseteq Batches /\ handles[h].pending \subseteq Batches
  BY <1>1, VisibleTyped, HandleFacts DEF HandlesInv, TypeInv, HandleRecord
<1>3. PICK rows \in SUBSET Batches : rows = Visible(n) \cup handles[h].pending
  BY <1>2
<1>4. WriteVersion(n, v, rows) /\ acked' \subseteq acked \cup rows
  BY <1>1, <1>3 DEF Flushed
<1>5. \A x \in rows : x \in DOMAIN owner /\ owner[x] = handles[h].made
  <2>1. Newest(disk[n]) \in DOMAIN disk[n]
    BY <1>1, NewestFacts DEF HandlesInv, TypeInv, DiskTyped
  <2> QED BY <1>1, <1>3, <2>1 DEF DataInv, DirectoryInv, Visible
<1>6. Beyond(n, v) /\ Visible(n) \subseteq rows
  BY <1>1, <1>3
<1>7. /\ DirectoryInv' /\ AckedInv'
      /\ n \in DOMAIN disk' /\ DOMAIN disk'[n] # {}
      /\ \A w \in DOMAIN disk'[n] : w <= v
      /\ \A k \in DOMAIN disk \ {n} : k \in DOMAIN disk' /\ disk'[k] = disk[k]
      /\ \A g \in DOMAIN handles \ {h} : Live(g) => handles[g].name # n
  BY <1>4, <1>5, <1>6, VersionWritten
<1>8. Beyond(n, v + 1)'
  <2>1. DiskTyped'
    BY FlushedFacts DEF HandlesInv
  <2>2. DOMAIN disk'[n] \subseteq Nat
    BY <1>7, <2>1 DEF DiskTyped, Directory
  <2> QED BY <1>7, <2>2 DEF Beyond
<1> QED BY <1>7, <1>8

\* A flush of an open table.
LEMMA FlushRows ==
  ASSUME HandlesInv, DataInv, NEW c \in Clients, Flush(c)
  PROVE  RowsInv'
<1>1. PICK h \in DOMAIN handles : h = arg[c].h
  BY ArgFacts DEF Flush, HandlesInv
<1>2. handles[h] \in HandleRecord /\ Live(h)
  BY <1>1, HandleFacts DEF Flush, HandlesInv, DataInv, QuietInv, Live
<1>3. UNCHANGED <<db, tables, latestMade, owner, tmu>>
  BY DEF Flush
<1>4. CASE /\ handles[h].writer = "on" /\ Flushed(h)
           /\ handles' = [handles EXCEPT ![h].pending = {}, ![h].wver = @ + 1]
  <2>1. PICK n \in Names : n = handles[h].name
    BY <1>2 DEF HandleRecord
  <2>2. PICK v \in Nat : v = handles[h].wver
    BY <1>2 DEF HandleRecord
  <2>3. /\ DirectoryInv' /\ AckedInv' /\ Beyond(n, v + 1)'
        /\ n \in DOMAIN disk' /\ DOMAIN disk'[n] # {}
        /\ \A k \in DOMAIN disk \ {n} : k \in DOMAIN disk' /\ disk'[k] = disk[k]
        /\ \A g \in DOMAIN handles \ {h} : Live(g) => handles[g].name # n
    BY <1>2, <1>3, <1>4, <2>1, <2>2, FlushWrites
  <2>4. /\ DOMAIN handles' = DOMAIN handles
        /\ \A g \in DOMAIN handles \ {h} : handles'[g] = handles[g]
        /\ handles'[h] = [handles[h] EXCEPT !.pending = {}, !.wver = v + 1]
    BY <1>4, <2>2
  <2>5. /\ handles'[h].wver = v + 1 /\ handles'[h].pending = {}
        /\ handles'[h].name = n /\ handles'[h].made = handles[h].made
        /\ handles'[h].writer = "on"
    BY <1>2, <1>4, <2>1, <2>4 DEF HandleRecord
  <2>6. n \in DOMAIN latestMade /\ handles[h].made = latestMade[n]
    BY <1>2, <2>1 DEF DataInv, WritersInv, KnowsDirectory
  <2>7. KnowsDirectory(handles[h])'
    BY <1>3, <2>3, <2>5, <2>6 DEF KnowsDirectory
  <2> QED BY <1>3, <2>3, <2>4, <2>7, OthersKnow DEF RowsInv
<1>5. CASE UNCHANGED <<disk, handles, acked>>
  <2>1. StillKnown
    BY <1>3, <1>5, KnownSame DEF DataInv, OwnerGrows, Live
  <2> QED BY <1>3, <1>5, <2>1, NothingWritten DEF DataInv, RowsInv, OwnerGrows
<1> QED BY <1>1, <1>4, <1>5 DEF Flush

\* The last flush of a table that is being closed.
LEMMA CloseWriterRows ==
  ASSUME HandlesInv, DataInv, NEW c \in Clients, CloseWriter(c)
  PROVE  RowsInv'
<1>1. PICK h \in DOMAIN handles : h = arg[c].h
  BY ArgFacts DEF CloseWriter, HandlesInv
<1>2. /\ handles[h] \in HandleRecord /\ tmu[h] = c /\ handles[h].closed
      /\ DOMAIN tmu = DOMAIN handles
  BY <1>1, HandleFacts DEF CloseWriter, HandlesInv, TurnsInv, LockInv
<1>3. Live(h)
  BY <1>2, DatabaseAssumption DEF Live
<1>4. /\ UNCHANGED <<db, tables, latestMade, owner>>
      /\ tmu' = [tmu EXCEPT ![h] = NoClient]
  BY <1>1 DEF CloseWriter, Unlock
<1>5. /\ DOMAIN handles' = DOMAIN handles
      /\ \A g \in DOMAIN handles \ {h} : handles'[g] = handles[g] /\ tmu'[g] = tmu[g]
  BY <1>1, <1>2, <1>4 DEF CloseWriter
<1>6. ~Live(h)'
  <2>1. tmu'[h] = NoClient
    BY <1>2, <1>4
  <2>2. handles'[h].closed
    BY <1>1, <1>2 DEF CloseWriter, HandleRecord
  <2> QED BY <2>1, <2>2 DEF Live
<1>7. CASE handles[h].writer = "on" /\ Flushed(h)
  <2>1. PICK n \in Names : n = handles[h].name
    BY <1>2 DEF HandleRecord
  <2>2. PICK v \in Nat : v = handles[h].wver
    BY <1>2 DEF HandleRecord
  <2>3. /\ DirectoryInv' /\ AckedInv'
        /\ \A k \in DOMAIN disk \ {n} : k \in DOMAIN disk' /\ disk'[k] = disk[k]
        /\ \A g \in DOMAIN handles \ {h} : Live(g) => handles[g].name # n
    BY <1>3, <1>4, <1>7, <2>1, <2>2, FlushWrites
  <2>4. ASSUME NEW g \in DOMAIN handles', Live(g)' PROVE KnowsDirectory(handles[g])'
    <3>1. g \in DOMAIN handles /\ Live(g) /\ handles'[g] = handles[g] /\ g # h
      BY <1>5, <1>6, <2>4 DEF Live
    <3>2. KnowsDirectory(handles[g]) /\ handles[g].name # n
      BY <2>3, <3>1 DEF DataInv, WritersInv
    <3>3. /\ handles[g].name \in DOMAIN disk' /\ handles[g].name \in DOMAIN latestMade'
          /\ disk'[handles[g].name] = disk[handles[g].name]
          /\ latestMade'[handles[g].name] = latestMade[handles[g].name]
      BY <1>4, <2>3, <3>2 DEF KnowsDirectory
    <3> QED BY <1>4, <3>1, <3>2, <3>3, KnowsKept DEF OwnerGrows
  <2> QED BY <2>3, <2>4 DEF RowsInv, WritersInv
<1>8. CASE UNCHANGED <<disk, acked>>
  <2>1. \A g \in DOMAIN handles : Live(g)' => Live(g) /\ handles'[g] = handles[g]
    BY <1>5, <1>6 DEF Live
  <2>2. StillKnown
    BY <1>4, <1>5, <1>8, <2>1, KnownSame DEF DataInv, OwnerGrows
  <2> QED BY <1>4, <1>8, <2>2, NothingWritten DEF DataInv, RowsInv, OwnerGrows
<1> QED BY <1>1, <1>7, <1>8 DEF CloseWriter, FinalFlush

\* A step that writes no directory, makes no handle and changes none that lives
\* on, and forgets no table of an open database.
LEMMA UntouchedRows ==
  ASSUME HandlesInv, DataInv, UNCHANGED <<disk, latestMade, acked>>, OwnerGrows,
         DOMAIN handles' = DOMAIN handles,
         \A h \in DOMAIN handles : Live(h)' => Live(h) /\ handles'[h] = handles[h],
         db' = "open" => db = "open" /\ UNCHANGED tables
  PROVE  RowsInv'
<1>1. StillKnown
  BY KnownSame DEF DataInv
<1> QED BY <1>1, NothingWritten DEF DataInv, RowsInv

\* The calls and the returns that only move a client.
LEMMA MovingRows ==
  ASSUME HandlesInv, DataInv, NEW c \in Clients,
         \/ \E h \in DOMAIN handles, b \in Batches : InsertCall(c, h, b)
         \/ \E h \in DOMAIN handles : FlushCall(c, h) \/ CloseCall(c, h)
         \/ \E n \in Names : DropCall(c, n)
         \/ CloseDone(c) \/ DropFails(c) \/ DBClose(c) \/ DBCloseNext(c)
  PROVE  RowsInv'
<1>1. UNCHANGED <<disk, latestMade, acked, handles, tmu>>
  BY DEF InsertCall, FlushCall, CloseCall, DropCall, CloseDone, DropFails, DBClose,
         DBCloseNext, process, hist
<1>2. OwnerGrows
  BY DEF InsertCall, FlushCall, CloseCall, DropCall, CloseDone, DropFails, DBClose,
         DBCloseNext, hist, OwnerGrows
<1>3. db' = "open" => db = "open" /\ UNCHANGED tables
  <2>1. DBCloseNext(c) => db' = "closed"
    BY DEF DBCloseNext, HandlesInv, TurnsInv, DBInv, Closers
  <2> QED BY <2>1 DEF InsertCall, FlushCall, CloseCall, DropCall, CloseDone, DropFails,
                      DBClose, process
<1>4. \A h \in DOMAIN handles : Live(h)' => Live(h) /\ handles'[h] = handles[h]
  BY <1>1 DEF Live
<1> QED BY <1>1, <1>2, <1>3, <1>4, UntouchedRows

\* A table that is marked closed is still the writer of its directory.
LEMMA CloseLockRows ==
  ASSUME HandlesInv, DataInv, NEW c \in Clients, CloseLock(c)
  PROVE  RowsInv'
<1>1. PICK h \in DOMAIN handles : h = arg[c].h
  BY ArgFacts DEF CloseLock, HandlesInv
<1>2. UNCHANGED <<disk, latestMade, acked, owner, db, tables>>
  BY DEF CloseLock, hist
<1>3. CASE UNCHANGED <<handles, tmu>>
  <2>1. \A g \in DOMAIN handles : Live(g)' => Live(g) /\ handles'[g] = handles[g]
    BY <1>3 DEF Live
  <2> QED BY <1>2, <1>3, <2>1, UntouchedRows DEF OwnerGrows
<1>4. CASE /\ ~handles[h].closed
           /\ handles' = [handles EXCEPT ![h].closed = TRUE]
           /\ tmu' = [tmu EXCEPT ![h] = c]
  <2>1. handles[h] \in HandleRecord /\ DOMAIN tmu = DOMAIN handles
    BY HandleFacts DEF HandlesInv
  <2>2. /\ DOMAIN handles' = DOMAIN handles
        /\ \A g \in DOMAIN handles \ {h} : handles'[g] = handles[g] /\ tmu'[g] = tmu[g]
        /\ handles'[h] = [handles[h] EXCEPT !.closed = TRUE]
    BY <1>4, <2>1
  <2>3. /\ handles'[h].name = handles[h].name /\ handles'[h].made = handles[h].made
        /\ handles'[h].nextVersion = handles[h].nextVersion
        /\ handles'[h].rows = handles[h].rows /\ handles'[h].writer = handles[h].writer
        /\ handles'[h].wver = handles[h].wver /\ handles'[h].pending = handles[h].pending
    BY <2>1, <2>2 DEF HandleRecord
  <2>4. KnowsDirectory(handles[h])
    BY <1>4 DEF Live, DataInv, WritersInv
  <2>5. KnowsDirectory(handles[h])'
    BY <1>2, <2>3, <2>4 DEF KnowsDirectory, Visible, Beyond
  <2>6. ASSUME NEW g \in DOMAIN handles', Live(g)' PROVE KnowsDirectory(handles[g])'
    <3>1. CASE g = h
      BY <2>5, <3>1
    <3>2. CASE g # h
      <4>1. g \in DOMAIN handles /\ Live(g) /\ handles'[g] = handles[g]
        BY <2>2, <2>6, <3>2 DEF Live
      <4>2. KnowsDirectory(handles[g])
        BY <4>1 DEF DataInv, WritersInv
      <4> QED BY <1>2, <4>1, <4>2, KnowsKept DEF OwnerGrows, KnowsDirectory
    <3> QED BY <3>1, <3>2
  <2>7. StillKnown
    BY <2>6 DEF StillKnown
  <2> QED BY <1>2, <2>7, NothingWritten DEF DataInv, RowsInv, OwnerGrows
<1> QED BY <1>1, <1>3, <1>4 DEF CloseLock

\* A step that writes no directory and changes one handle.
LEMMA OneHandleRows ==
  ASSUME HandlesInv, DataInv, NEW h \in DOMAIN handles,
         UNCHANGED <<disk, latestMade, acked, tmu, db, tables>>, OwnerGrows,
         DOMAIN handles' = DOMAIN handles,
         \A g \in DOMAIN handles \ {h} : handles'[g] = handles[g],
         Live(h)' => KnowsDirectory(handles[h])'
  PROVE  RowsInv'
<1>1. ASSUME NEW g \in DOMAIN handles \ {h}, Live(g)' PROVE KnowsDirectory(handles[g])'
  <2>1. Live(g) /\ handles'[g] = handles[g]
    BY <1>1 DEF Live
  <2>2. KnowsDirectory(handles[g])
    BY <2>1 DEF DataInv, WritersInv
  <2> QED BY <2>1, <2>2, KnowsKept DEF KnowsDirectory
<1>2. StillKnown
  BY <1>1 DEF StillKnown
<1> QED BY <1>2, NothingWritten DEF DataInv, RowsInv

\* A writer starts behind the newest version of its directory.
LEMMA StartAsyncWriterRows ==
  ASSUME HandlesInv, DataInv, NEW c \in Clients, NEW h \in DOMAIN handles,
         StartAsyncWriter(c, h)
  PROVE  RowsInv'
<1>1. /\ handles[h] \in HandleRecord /\ Live(h)
      /\ UNCHANGED <<disk, latestMade, acked, owner, tmu, db, tables>>
  BY HandleFacts DEF StartAsyncWriter, Usable, Live, HandlesInv, hist
<1>2. PICK n \in Names : n = handles[h].name
  BY <1>1 DEF HandleRecord
<1>3. KnowsDirectory(handles[h])
  BY <1>1 DEF DataInv, WritersInv
<1>4. n \in DOMAIN disk /\ DOMAIN disk[n] # {} /\ Directory(disk[n])
  BY <1>2, <1>3 DEF KnowsDirectory, HandlesInv, TypeInv, DiskTyped
<1>5. PICK v \in Nat : v = Newest(disk[n]) + 1
  BY <1>4, NewestFacts
<1>6. handles' = [handles EXCEPT ![h].writer = "on", ![h].wver = v]
  BY <1>2, <1>4, <1>5 DEF StartAsyncWriter
<1>7. /\ DOMAIN handles' = DOMAIN handles
      /\ \A g \in DOMAIN handles \ {h} : handles'[g] = handles[g]
      /\ handles'[h] = [handles[h] EXCEPT !.writer = "on", !.wver = v]
  BY <1>6
<1>8. /\ handles'[h].name = n /\ handles'[h].made = handles[h].made
      /\ handles'[h].writer = "on" /\ handles'[h].wver = v
      /\ handles'[h].pending = handles[h].pending
  BY <1>1, <1>2, <1>7 DEF HandleRecord
<1>9. Beyond(n, v)'
  <2>1. DOMAIN disk[n] \subseteq Nat /\ Newest(disk[n]) \in Nat
        /\ \A w \in DOMAIN disk[n] : w <= Newest(disk[n])
    BY <1>4, NewestFacts DEF Directory
  <2> QED BY <1>1, <1>5, <2>1 DEF Beyond
<1>10. KnowsDirectory(handles[h])'
  BY <1>1, <1>2, <1>3, <1>8, <1>9 DEF KnowsDirectory
<1> QED BY <1>1, <1>7, <1>10, OneHandleRows DEF OwnerGrows

\* What is put into the channel of a writer is its table's.
LEMMA InsertAsyncRows ==
  ASSUME HandlesInv, DataInv, NEW c \in Clients, NEW h \in DOMAIN handles,
         NEW b \in Batches, InsertAsync(c, h, b)
  PROVE  RowsInv'
<1>1. /\ handles[h] \in HandleRecord /\ Live(h) /\ handles[h].writer = "on"
      /\ UNCHANGED <<disk, latestMade, acked, tmu, db, tables>>
      /\ b \notin DOMAIN owner
  BY HandleFacts DEF InsertAsync, Usable, Live, HandlesInv
<1>2. /\ DOMAIN owner' = DOMAIN owner \cup {b} /\ owner'[b] = handles[h].made
      /\ OwnerGrows
  BY <1>1 DEF InsertAsync, OwnerGrows
<1>3. /\ DOMAIN handles' = DOMAIN handles
      /\ \A g \in DOMAIN handles \ {h} : handles'[g] = handles[g]
      /\ handles'[h] = [handles[h] EXCEPT !.pending = @ \cup {b}]
  BY DEF InsertAsync
<1>4. /\ handles'[h].name = handles[h].name /\ handles'[h].made = handles[h].made
      /\ handles'[h].writer = "on" /\ handles'[h].wver = handles[h].wver
      /\ handles'[h].pending = handles[h].pending \cup {b}
  BY <1>1, <1>3 DEF HandleRecord
<1>5. KnowsDirectory(handles[h])
  BY <1>1 DEF DataInv, WritersInv
<1>6. \A x \in handles'[h].pending : x \in DOMAIN owner' /\ owner'[x] = handles'[h].made
  BY <1>2, <1>4, <1>5 DEF KnowsDirectory, OwnerGrows
<1>7. KnowsDirectory(handles[h])'
  BY <1>1, <1>4, <1>5, <1>6 DEF KnowsDirectory, Beyond
<1> QED BY <1>1, <1>2, <1>3, <1>7, OneHandleRows

-----------------------------------------------------------------------------
(* Making and removing directories *)

\* A new handle that knows its directory, where no live handle is.
LEMMA NewHandleKnows ==
  ASSUME HandlesInv, DataInv, NEW n \in Names, NEW v \in Nat, NEW rows \in SUBSET Batches,
         NEW id \in Nat, NewHandle(n, v, rows, id), UNCHANGED owner,
         n \in DOMAIN tables => tables[n] = Unopened,
         \A k \in DOMAIN disk \ {n} : k \in DOMAIN disk' /\ disk'[k] = disk[k],
         \A k \in DOMAIN latestMade \ {n} :
           k \in DOMAIN latestMade' /\ latestMade'[k] = latestMade[k],
         n \in DOMAIN disk', DOMAIN disk'[n] # {}, Visible(n)' = rows,
         \A w \in DOMAIN disk'[n] : w < v,
         n \in DOMAIN latestMade', latestMade'[n] = id
  PROVE  WritersInv'
<1> DEFINE t == [name |-> n, made |-> id, closed |-> FALSE, nextVersion |-> v,
                 rows |-> rows, writer |-> "off", wver |-> 0, pending |-> {}]
<1>0. PICK new \in Nat : new = Len(handles) + 1
  BY DEF HandlesInv, TypeInv, ProcessTyped
<1>1. /\ t \in HandleRecord /\ t.name = n /\ t.made = id /\ t.nextVersion = v
      /\ t.rows = rows /\ t.writer = "off" /\ t.pending = {}
  BY DEF HandleRecord
<1>2. handles' = Append(handles, t) /\ tmu' = Append(tmu, NoClient)
  BY DEF NewHandle
<1> HIDE DEF t
<1>3. /\ DOMAIN handles' = DOMAIN handles \cup {new} /\ handles'[new] = t
      /\ \A h \in DOMAIN handles : handles'[h] = handles[h] /\ tmu'[h] = tmu[h]
  BY <1>0, <1>1, <1>2, AppendHandle DEF HandlesInv, TypeInv
<1>4. Beyond(n, v)'
  BY DEF Beyond
<1>5. OwnerGrows
  BY DEF OwnerGrows
<1>6. KnowsDirectory(handles[new])'
  BY <1>1, <1>3, <1>4 DEF KnowsDirectory
<1>7. ASSUME NEW g \in DOMAIN handles, Live(g)' PROVE KnowsDirectory(handles[g])'
  <2>1. Live(g) /\ handles'[g] = handles[g]
    BY <1>3, <1>7 DEF Live
  <2>2. handles[g].name # n
    BY <2>1, HandleFacts DEF HandlesInv, TurnsInv, LiveInv, Unopened
  <2>3. KnowsDirectory(handles[g])
    BY <2>1 DEF DataInv, WritersInv
  <2>4. /\ handles[g].name \in DOMAIN disk' /\ handles[g].name \in DOMAIN latestMade'
        /\ disk'[handles[g].name] = disk[handles[g].name]
        /\ latestMade'[handles[g].name] = latestMade[handles[g].name]
    BY <2>2, <2>3 DEF KnowsDirectory
  <2> QED BY <1>5, <2>1, <2>3, <2>4, KnowsKept
<1> QED BY <1>3, <1>6, <1>7 DEF WritersInv

\* OpenTable reads the newest version.
LEMMA OpenTableRows ==
  ASSUME HandlesInv, DataInv, NEW c \in Clients, NEW n \in Names, OpenTable(c, n)
  PROVE  RowsInv'
<1>1. /\ tables[n] = Unopened /\ n \in DOMAIN disk /\ DOMAIN disk[n] # {}
      /\ n \in DOMAIN tables
      /\ UNCHANGED <<disk, db, latestMade, owner, acked>>
  BY DEF OpenTable, Cached, hist
<1>2. Directory(disk[n]) /\ DiskTyped
  BY <1>1 DEF HandlesInv, TypeInv, DiskTyped
<1>3. PICK v \in Nat : v = Newest(disk[n]) + 1
  BY <1>1, <1>2, NewestFacts
<1>4. PICK rows \in SUBSET Batches : rows = Visible(n)
  BY <1>1, <1>2, VisibleTyped
<1>5. n \in DOMAIN latestMade
  BY <1>1 DEF DataInv, DirectoryInv
<1>6. PICK id \in Nat : id = latestMade[n]
  BY <1>5 DEF HandlesInv, TypeInv, HistTyped
<1>7. NewHandle(n, v, rows, id)
  BY <1>3, <1>4, <1>5, <1>6 DEF OpenTable
<1>8. \A w \in DOMAIN disk[n] : w < v
  <2>1. DOMAIN disk[n] \subseteq Nat /\ Newest(disk[n]) \in Nat
        /\ \A w \in DOMAIN disk[n] : w <= Newest(disk[n])
    BY <1>1, <1>2, NewestFacts DEF Directory
  <2> QED BY <1>3, <2>1
<1>9. Visible(n)' = rows
  BY <1>1, <1>4 DEF Visible
<1>10. WritersInv'
  BY <1>1, <1>5, <1>6, <1>7, <1>8, <1>9, NewHandleKnows
<1>11. DOMAIN tables' = DOMAIN tables
  BY <1>1, <1>7 DEF NewHandle
<1>12. DirectoryInv' /\ AckedInv'
  BY <1>1, <1>11 DEF DataInv, DirectoryInv, AckedInv, InTable, Visible
<1> QED BY <1>10, <1>12 DEF RowsInv

\* CreateTable makes a directory where there is no version.
LEMMA CreateTableRows ==
  ASSUME HandlesInv, DataInv, NEW c \in Clients, NEW n \in Names, CreateTable(c, n)
  PROVE  RowsInv'
<1>1. /\ n \notin DOMAIN tables /\ db = "open" /\ UNCHANGED <<db, owner, acked>>
  BY DEF CreateTable, Creatable, DBFree
<1>2. DiskTyped
  BY DEF HandlesInv, TypeInv
<1>3. n \in DOMAIN disk => DOMAIN disk[n] = {}
  BY <1>1 DEF DataInv, DirectoryInv
<1>4. ASSUME NEW k \in DOMAIN disk, NEW b \in Visible(k) PROVE k # n
  BY <1>3, <1>4 DEF Visible
<1>5. CASE /\ WriteVersion(n, 1, {}) /\ NewHandle(n, 2, {}, made + 1)
           /\ latestMade' = [k \in DOMAIN latestMade \cup {n} |->
                               IF k = n THEN made + 1 ELSE latestMade[k]]
  <2>1. PICK id \in Nat : id = made + 1
    BY DEF HandlesInv, TypeInv, HistTyped
  <2>2. PICK rows \in SUBSET Batches : rows = {}
    OBVIOUS
  <2>3. WriteVersion(n, 1, rows) /\ 1 \in Nat
    BY <1>5, <2>2
  <2>4. /\ DiskTyped' /\ DOMAIN disk' = DOMAIN disk \cup {n}
        /\ \A k \in DOMAIN disk \ {n} : disk'[k] = disk[k]
        /\ disk'[n][1] = rows /\ DOMAIN disk'[n] = {1}
    BY <1>2, <1>3, <2>3, WriteFacts
  <2>5. /\ DOMAIN latestMade' = DOMAIN latestMade \cup {n} /\ latestMade'[n] = id
        /\ \A k \in DOMAIN latestMade \ {n} : latestMade'[k] = latestMade[k]
    BY <1>5, <2>1
  <2>6. Newest(disk'[n]) = 1
    BY <2>4, NewestIs DEF DiskTyped
  <2>7. Visible(n)' = rows
    BY <2>4, <2>6 DEF Visible
  <2>8. PICK v \in Nat : v = 2
    OBVIOUS
  <2>9. NewHandle(n, v, rows, id)
    BY <1>5, <2>1, <2>2, <2>8
  <2>10. WritersInv'
    <3>1. /\ \A w \in DOMAIN disk'[n] : w < v
          /\ \A k \in DOMAIN disk \ {n} : k \in DOMAIN disk' /\ disk'[k] = disk[k]
          /\ \A k \in DOMAIN latestMade \ {n} :
               k \in DOMAIN latestMade' /\ latestMade'[k] = latestMade[k]
      BY <2>4, <2>5, <2>8
    <3>2. n \in DOMAIN disk' /\ DOMAIN disk'[n] # {} /\ n \in DOMAIN latestMade'
      BY <2>4, <2>5
    <3>3. UNCHANGED owner /\ (n \in DOMAIN tables => tables[n] = Unopened)
      BY <1>1
    <3> QED BY <2>5, <2>7, <2>9, <3>1, <3>2, <3>3, NewHandleKnows
  <2>11. DirectoryInv'
    <3>1. DOMAIN tables' = DOMAIN tables \cup {n}
      BY <2>9 DEF NewHandle
    <3>2. ASSUME NEW k \in DOMAIN disk', DOMAIN disk'[k] # {}
          PROVE  /\ k \in DOMAIN latestMade' /\ k \in DOMAIN tables'
                 /\ \A w \in DOMAIN disk'[k] : \A b \in disk'[k][w] :
                      b \in DOMAIN owner' /\ owner'[b] = latestMade'[k]
      <4>1. CASE k = n
        BY <2>2, <2>4, <2>5, <3>1, <4>1
      <4>2. CASE k # n
        BY <1>1, <2>4, <2>5, <3>1, <3>2, <4>2 DEF DataInv, DirectoryInv
      <4> QED BY <4>1, <4>2
    <3> QED BY <3>2 DEF DirectoryInv
  <2>12. AckedInv'
    <3>1. ASSUME NEW b \in acked PROVE b \in DOMAIN owner /\ InTable(b)'
      <4>1. PICK k \in DOMAIN disk :
              k \in DOMAIN latestMade /\ latestMade[k] = owner[b] /\ b \in Visible(k)
        BY DEF DataInv, AckedInv, InTable
      <4>2. k # n
        BY <1>4, <4>1
      <4>3. b \in Visible(k)' /\ k \in DOMAIN disk' /\ k \in DOMAIN latestMade'
            /\ latestMade'[k] = owner'[b]
        BY <1>1, <2>4, <2>5, <4>1, <4>2 DEF Visible
      <4> QED BY <4>3 DEF InTable, DataInv, AckedInv
    <3> QED BY <1>1, <3>1 DEF AckedInv
  <2> QED BY <2>10, <2>11, <2>12 DEF RowsInv
<1>6. CASE /\ \/ UNCHANGED disk
              \/ /\ n \notin DOMAIN disk
                 /\ disk' = [k \in DOMAIN disk \cup {n} |->
                               IF k = n THEN NoVersions ELSE disk[k]]
           /\ UNCHANGED <<handles, tmu, tables, made, latestMade>>
  <2>1. /\ DOMAIN disk \subseteq DOMAIN disk'
        /\ \A k \in DOMAIN disk : disk'[k] = disk[k]
        /\ \A k \in DOMAIN disk' \ DOMAIN disk : DOMAIN disk'[k] = {}
    BY <1>6 DEF NoVersions
  <2>2. DirectoryInv'
    BY <1>1, <1>6, <2>1 DEF DataInv, DirectoryInv
  <2>3. AckedInv'
    <3>1. \A k \in DOMAIN disk : Visible(k)' = Visible(k)
      BY <2>1 DEF Visible
    <3> QED BY <1>1, <1>6, <2>1, <3>1 DEF DataInv, AckedInv, InTable
  <2>4. ASSUME NEW g \in DOMAIN handles, Live(g)' PROVE KnowsDirectory(handles[g])'
    <3>1. KnowsDirectory(handles[g]) /\ handles'[g] = handles[g]
      BY <1>6, <2>4 DEF DataInv, WritersInv, Live
    <3>2. /\ handles[g].name \in DOMAIN disk' /\ handles[g].name \in DOMAIN latestMade'
          /\ disk'[handles[g].name] = disk[handles[g].name]
          /\ latestMade'[handles[g].name] = latestMade[handles[g].name]
      BY <1>6, <2>1, <3>1 DEF KnowsDirectory
    <3> QED BY <1>1, <3>1, <3>2, KnowsKept DEF OwnerGrows
  <2> QED BY <1>6, <2>2, <2>3, <2>4 DEF RowsInv, WritersInv
<1> QED BY <1>5, <1>6 DEF CreateTable

\* DropTable removes a directory that no live handle writes, and with it what
\* was acknowledged there.
LEMMA DropRemoveRows ==
  ASSUME HandlesInv, DataInv, NEW c \in Clients, DropRemove(c)
  PROVE  RowsInv'
<1>1. /\ pc[c] = "closed" /\ arg[c].for = "drop"
      /\ UNCHANGED <<db, handles, tmu, latestMade, owner>>
  BY DEF DropRemove
<1>2. PICK n \in Names : n = arg[c].name
  BY <1>1 DEF HandlesInv, TurnsInv, DropInv, TypeInv, ProcessTyped, Closers
<1>3. tables[n] # Unopened => ~Live(tables[n])
  BY <1>1, <1>2 DEF HandlesInv, TurnsInv, DropInv, Closers, Unopened
<1>4. \/ disk' = Removed(n) /\ Forget(n)
      \/ disk' = Removed(n) /\ UNCHANGED tables
      \/ /\ n \in DOMAIN disk /\ UNCHANGED tables
         /\ \E left \in SUBSET DOMAIN disk[n] :
              disk' = [disk EXCEPT ![n] = [v \in left |-> disk[n][v]]]
  BY <1>2 DEF DropRemove
<1>5. /\ DOMAIN disk' \subseteq DOMAIN disk
      /\ \A k \in DOMAIN disk' \ {n} : disk'[k] = disk[k]
      /\ \A k \in DOMAIN disk \ {n} : k \in DOMAIN disk'
      /\ n \in DOMAIN disk' => /\ DOMAIN disk'[n] \subseteq DOMAIN disk[n]
                               /\ \A v \in DOMAIN disk'[n] : disk'[n][v] = disk[n][v]
  BY <1>4, RemovedTyped DEF HandlesInv, TypeInv
<1>6. \A k \in DOMAIN disk' : k \in DOMAIN tables => k \in DOMAIN tables'
  BY <1>4 DEF Forget, Removed
<1>7. acked' = {b \in acked : n \notin DOMAIN latestMade \/ owner[b] # latestMade[n]}
  BY <1>2 DEF DropRemove
<1>8. DirectoryInv'
  <2>1. ASSUME NEW k \in DOMAIN disk', DOMAIN disk'[k] # {}
        PROVE  /\ k \in DOMAIN latestMade /\ (db = "open" => k \in DOMAIN tables')
               /\ \A v \in DOMAIN disk'[k] : \A b \in disk'[k][v] :
                    b \in DOMAIN owner /\ owner[b] = latestMade[k]
    <3>1. /\ k \in DOMAIN disk /\ DOMAIN disk'[k] \subseteq DOMAIN disk[k]
          /\ \A v \in DOMAIN disk'[k] : disk'[k][v] = disk[k][v]
      BY <1>5
    <3> QED BY <1>6, <2>1, <3>1 DEF DataInv, DirectoryInv
  <2> QED BY <1>1, <2>1 DEF DirectoryInv
<1>9. AckedInv'
  <2>1. ASSUME NEW b \in acked' PROVE b \in DOMAIN owner' /\ InTable(b)'
    <3>1. PICK k \in DOMAIN disk :
            k \in DOMAIN latestMade /\ latestMade[k] = owner[b] /\ b \in Visible(k)
      BY <1>7, <2>1 DEF DataInv, AckedInv, InTable
    <3>2. k # n
      BY <1>7, <2>1, <3>1
    <3>3. k \in DOMAIN disk' /\ b \in Visible(k)'
      BY <1>5, <3>1, <3>2 DEF Visible
    <3> QED BY <1>1, <1>7, <2>1, <3>1, <3>3 DEF DataInv, AckedInv, InTable
  <2> QED BY <2>1 DEF AckedInv
<1>10. WritersInv'
  <2>1. ASSUME NEW g \in DOMAIN handles, Live(g)' PROVE KnowsDirectory(handles[g])'
    <3>1. Live(g) /\ handles'[g] = handles[g]
      BY <1>1, <2>1 DEF Live
    <3>2. handles[g].name # n
      BY <1>3, <3>1, HandleFacts DEF HandlesInv, TurnsInv, LiveInv, Unopened
    <3>3. KnowsDirectory(handles[g])
      BY <3>1 DEF DataInv, WritersInv
    <3>4. /\ handles[g].name \in DOMAIN disk' /\ handles[g].name \in DOMAIN latestMade'
          /\ disk'[handles[g].name] = disk[handles[g].name]
          /\ latestMade'[handles[g].name] = latestMade[handles[g].name]
      BY <1>1, <1>5, <3>2, <3>3 DEF KnowsDirectory
    <3> QED BY <1>1, <3>1, <3>3, <3>4, KnowsKept DEF OwnerGrows
  <2> QED BY <1>1, <2>1 DEF WritersInv
<1> QED BY <1>8, <1>9, <1>10 DEF RowsInv

\* Connect by path knows every directory.
LEMMA ConnectRows ==
  ASSUME DataInv, NEW kind \in ConnectKinds, Connect(kind), ~configured'
  PROVE  RowsInv'
<1>1. /\ kind = "path" /\ UNCHANGED <<disk, latestMade, owner, acked>>
      /\ handles' = <<>> /\ tables' = [n \in Found(kind) |-> Unopened]
  BY DatabaseAssumption DEF Connect
<1>2. DirectoryInv' /\ AckedInv'
  BY <1>1 DEF DataInv, DirectoryInv, AckedInv, InTable, Visible, Found
<1>3. DOMAIN handles' = {}
  BY <1>1
<1>4. WritersInv'
  BY <1>3 DEF WritersInv
<1> QED BY <1>2, <1>4 DEF RowsInv

-----------------------------------------------------------------------------

\* Every step of an application that is quiet and connects by path keeps the
\* part of the invariant that is about data.
LEMMA DataStep ==
  HandlesInv /\ DataInv /\ quiet /\ ~configured' /\ [Next]_vars => DataInv'
<1> SUFFICES ASSUME HandlesInv, DataInv, quiet, ~configured', [Next]_vars PROVE DataInv'
  OBVIOUS
<1>1. QuietInv' /\ ApartInv'
  BY QuietStep, ApartStep DEF DataInv
<1>2. ASSUME NEW c \in Clients, Call(c) PROVE RowsInv'
  BY <1>2, CreateTableRows, OpenTableRows, StartAsyncWriterRows, InsertAsyncRows,
     MovingRows DEF Call
<1>3. ASSUME NEW c \in Clients, Step(c) PROVE RowsInv'
  BY <1>3, InsertRows, FlushRows, CloseWriterRows, DropRemoveRows, MovingRows DEF Step
<1>4. ASSUME UNCHANGED vars PROVE RowsInv'
  <2>1. \A h \in DOMAIN handles : Live(h)' => Live(h) /\ handles'[h] = handles[h]
    BY <1>4 DEF vars, process, Live
  <2>2. UNCHANGED <<disk, latestMade, acked>>
    BY <1>4 DEF vars, hist
  <2>3. OwnerGrows
    BY <1>4 DEF vars, hist, OwnerGrows
  <2>4. DOMAIN handles' = DOMAIN handles
    BY <1>4 DEF vars, process
  <2>5. db' = "open" => db = "open" /\ UNCHANGED tables
    BY <1>4 DEF vars, process
  <2> QED BY <2>1, <2>2, <2>3, <2>4, <2>5, UntouchedRows
<1>5. ASSUME NEW c \in Clients, CloseLock(c) PROVE RowsInv'
  BY <1>5, CloseLockRows
<1>6. ASSUME NEW kind \in ConnectKinds, Connect(kind) PROVE RowsInv'
  BY <1>6, ConnectRows
<1>7. RowsInv'
  BY <1>2, <1>3, <1>4, <1>5, <1>6 DEF Next
<1> QED BY <1>1, <1>7 DEF RowsInv, DataInv

\* quiet is a choice of the application, and configured is for good.
LEMMA ChoicesKept == [Next]_vars => quiet' = quiet /\ (configured => configured')
<1> SUFFICES ASSUME [Next]_vars PROVE UNCHANGED quiet /\ (configured => configured')
  OBVIOUS
<1>1. ASSUME NEW c \in Clients, Call(c) PROVE UNCHANGED <<quiet, configured>>
  BY <1>1 DEF Call, CreateTable, OpenTable, InsertCall, StartAsyncWriter, InsertAsync,
              FlushCall, CloseCall, DropCall, DBClose, hist
<1>2. ASSUME NEW c \in Clients, Step(c) PROVE UNCHANGED <<quiet, configured>>
  BY <1>2 DEF Step, Insert, Flush, CloseWriter, CloseDone, DropRemove, DropFails,
              DBCloseNext, hist
<1>3. ASSUME NEW c \in Clients, CloseLock(c) PROVE UNCHANGED <<quiet, configured>>
  BY <1>3 DEF CloseLock, hist
<1>4. ASSUME NEW kind \in ConnectKinds, Connect(kind)
      PROVE  UNCHANGED quiet /\ (configured => configured')
  BY <1>4 DEF Connect
<1>5. CASE UNCHANGED vars
  BY <1>5 DEF vars, hist
<1> QED BY <1>1, <1>2, <1>3, <1>4, <1>5 DEF Next

\* Initially nothing was written and nobody is at work.
LEMMA DatabaseInit == Init => DatabaseInv
<1> SUFFICES ASSUME Init PROVE DatabaseInv
  OBVIOUS
<1>1. DOMAIN handles = {} /\ DOMAIN disk = {} /\ acked = {}
  BY DEF Init
<1>2. DataInv
  BY <1>1 DEF DataInv, QuietInv, ApartInv, DirectoryInv, WritersInv, AckedInv, Init
<1> QED BY <1>2, HandlesInit DEF DatabaseInv, DataInv

\* Every step keeps the inductive invariant.
LEMMA DatabaseStep == DatabaseInv /\ [Next]_vars => DatabaseInv'
<1> SUFFICES ASSUME DatabaseInv, [Next]_vars PROVE DatabaseInv'
  OBVIOUS
<1>1. HandlesInv'
  BY HandlesStep DEF DatabaseInv
<1>2. (quiet => QuietInv /\ ApartInv)'
  BY QuietStep, ApartStep, ChoicesKept DEF DatabaseInv
<1>3. (quiet /\ ~configured => DataInv)'
  BY DataStep, ChoicesKept DEF DatabaseInv
<1> QED BY <1>1, <1>2, <1>3 DEF DatabaseInv

\* The invariant of handles and, for a quiet application, of rows.
LEMMA DatabaseInvariant == Spec => []DatabaseInv
BY DatabaseInit, DatabaseStep, PTL DEF Spec

\* api/table.go:107-129, 205-219, 279-298; connection.go:206-239.  As long as the
\* application is quiet (among other things it keeps Insert and the async writer
\* of a table apart, which api/table.go:109-129 does not check) and connects by
\* path, what Insert, Flush or Close reported to be in a table stays there, whoever
\* closes, drops, creates and opens other tables, and whichever store calls fail.
THEOREM AcknowledgedStays == Spec => []AckedDurable
<1>1. DatabaseInv => AckedDurable
  BY DEF DatabaseInv, DataInv, AckedInv, AckedDurable
<1> QED BY <1>1, DatabaseInvariant, PTL

\* connection.go:206-239.  For the same applications, no row of a table that was
\* dropped is seen in a table of that name that was created later: an old handle
\* writes nothing there.
THEOREM DroppedStaysDropped == Spec => []NoGhostRows
<1>1. DatabaseInv => NoGhostRows
  <2> SUFFICES ASSUME DatabaseInv, quiet, ~configured,
                      NEW n \in DOMAIN disk \cap DOMAIN latestMade, NEW b \in Visible(n)
               PROVE  owner[b] = latestMade[n]
    BY DEF NoGhostRows
  <2>1. DOMAIN disk[n] # {} /\ b \in disk[n][Newest(disk[n])]
    BY DEF Visible
  <2>2. Newest(disk[n]) \in DOMAIN disk[n]
    BY <2>1, NewestFacts DEF DatabaseInv, HandlesInv, TypeInv, DiskTyped
  <2> QED BY <2>1, <2>2 DEF DatabaseInv, DataInv, DirectoryInv
<1> QED BY <1>1, DatabaseInvariant, PTL
=============================================================================
