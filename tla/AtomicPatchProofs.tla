---------------------------- MODULE AtomicPatchProofs ----------------------------
(***************************************************************************)
(* apply_patch for any number of interventions by other programs.          *)
(***************************************************************************)
EXTENDS AtomicPatch, FiniteSetTheorems, TLAPS

Modes == {"private", "user", "other"}
Tables == [Names -> Inodes \cup {None}]
Stats == [ino : Nat, mtime : Nat, ctime : Nat, mode : Modes]
Snapshots == [stat : Stats, digest : Data]
Tools == [kind : {"modify", "create"}, existed : BOOLEAN, file : Inodes \cup {None},
          snapshot : Snapshots, base : Data, staged : Inodes \cup {None},
          staged_snapshot : Snapshots, dir : {None} \cup Dirs, published : BOOLEAN,
          content : {"none", "verified", "failed"}, policy_before : BOOLEAN]

\* The types of the state; the current name table is one a power loss may keep.
TypesOK ==
    /\ inode \in [Inodes -> Inode]
    /\ name \in Tables
    /\ slot \in {None} \cup Dirs
    /\ tool \in Tools
    /\ exchanged \in [taken : Data, put : Data]
    /\ late \in BOOLEAN
    /\ past \subseteq Tables
    /\ name \in past
    /\ edits \in 0..MaxEdits

-----------------------------------------------------------------------------
(* The directory. *)

Used == {i \in Inodes : inode[i].data # Free}

Whole(i) == inode[i].synced /\ inode[i].data # Torn

\* What every name table that a power loss may bring back promises: entries lead to
\* files, a target to patch stays, it is whole, and no version of the user is lost.
TableOK(t) ==
    /\ \A n \in Names : t[n] # None => inode[t[n]].data # Free
    /\ t["target"] # None => Whole(t["target"])
    /\ tool.existed => t["target"] # None
    /\ \A v \in live : \E n \in Names : t[n] # None /\ inode[t[n]].data = UserData(v)

\* Only the staged file can be unsynced or partly written; versions are numbered in
\* the order they were written; there is an unused inode as long as one is needed.
FilesOK ==
    /\ \A i \in Inodes : inode[i].data.by = "user" => inode[i].synced
    /\ \A i \in Used : i # tool.staged => Whole(i)
    /\ \A i \in Inodes : inode[i].data.v <= edits + 1
    /\ tool.base.v <= edits + 1
    /\ Cardinality(Used) <= edits + (IF tool.staged = None THEN 1 ELSE 2)
    /\ \A t \in past : TableOK(t)

-----------------------------------------------------------------------------
(* The call. *)

Reading == {"open", "read", "read_end"}
BeforeStage == {"resolve", "prepare", "metadata", "namespace", "stage"} \cup Reading
Staging == {"write", "sync", "permissions", "resync", "snapshot"}
BeforeCommit == {"validate_staging", "validate_target", "move", "validate_moved",
                 "validate_namespace", "exchange", "create"}
Cleanup == {"claim", "match", "preserve_dir", "preserve"}
Installed == {"refresh", "validate_installed", "validate_displaced", "confirm_namespace"}
Reporting == {"evidence", "inspect", "policy_after"}
Labels == BeforeStage \cup Staging \cup BeforeCommit \cup Cleanup \cup Installed \cup Reporting
          \cup {"validate_new", "done"}

\* Before the commit nothing was taken from the target, after it something was; an
\* answer exists only at the end.
ProgressOK ==
    /\ pc \in Labels
    /\ pc # "done" => result = NotYet
    /\ pc \in BeforeStage \cup Staging \cup BeforeCommit \cup Cleanup => exchanged = NoExchange
    /\ pc \in Installed \cup {"validate_new"} => exchanged # NoExchange
    /\ pc \in Reporting => (tool.published <=> exchanged # NoExchange)
    /\ pc = "resolve" => past = {name} /\ ~tool.existed
    /\ pc \in BeforeStage => name["stage"] = None

\* What the call knows of the target it read: a file of its own inode number, and
\* once it was read the digest is that of the content patched.
TargetOK ==
    /\ tool.existed /\ pc \notin {"resolve", "open", "done"} =>
          /\ tool.file \in Used
          /\ tool.snapshot.stat.ino = tool.file
    /\ tool.existed /\ pc \notin Reading \cup {"resolve", "done"} =>
          tool.snapshot.digest = tool.base
    /\ ~tool.existed => tool.base = Free
    /\ pc \in Reading \cup Installed \cup {"metadata", "namespace", "validate_target", "move", "validate_moved",
              "validate_namespace", "exchange"} => tool.existed
    /\ pc \in {"create", "validate_new"} => ~tool.existed
    /\ pc \in Reporting /\ tool.published => tool.existed

\* What the call knows of its staged file: until its content is written nobody else
\* can reach it, and it is whole before it can get to the target.
StagedOK ==
    /\ pc \in BeforeStage => tool.staged = None
    /\ pc \notin BeforeStage \cup {"done"} => tool.staged \in Used
    /\ pc = "write" => inode[tool.staged].data = Torn /\ name["target"] # tool.staged
    /\ pc = "sync" => inode[tool.staged].data # Torn
    /\ pc \in BeforeCommit \cup {"permissions", "resync", "snapshot"} => Whole(tool.staged)
    /\ pc \in BeforeCommit \cup Installed \cup {"validate_new"} =>
          /\ tool.staged_snapshot.digest = Patched(tool.base)
          /\ tool.staged_snapshot.stat.ino = tool.staged

\* What the exchange took and put, as far as the names still tell: a later write to
\* either file shows in its content.
TakenSeen == name["recovery"] = tool.file =>
                exchanged.taken = inode[tool.file].data \/ inode[tool.file].data # tool.base
PutSeen == name["target"] = tool.staged =>
                \/ exchanged.put = inode[tool.staged].data
                \/ inode[tool.staged].data # Patched(tool.base)

ExchangeOK ==
    /\ pc \in Installed \/ (pc \in Reporting /\ tool.published) => TakenSeen
    /\ pc \in {"refresh", "validate_new"} => PutSeen
    /\ pc = "validate_new" => exchanged.taken = Free
    /\ pc \in Installed \ {"refresh"} /\ name["recovery"] = tool.file => exchanged.taken = tool.base
    /\ pc = "validate_installed" /\ name["target"] = tool.staged => exchanged.put = Patched(tool.base)
    /\ pc \in {"validate_displaced", "confirm_namespace"} => exchanged.put = Patched(tool.base)
    /\ pc = "confirm_namespace" => exchanged.taken = tool.base /\ (~late => name["recovery"] = tool.file)
    /\ pc = "policy_after" /\ ~late /\ tool.content = "verified" =>
          /\ name["recovery"] = Inspected
          /\ tool.published => exchanged.taken = tool.base

\* The inductive invariant: once the machine has stopped, only the four properties
\* are left to hold.
Properties == UserContentKept /\ TargetAlwaysWhole /\ PatchReportIsTrue /\ RecoveryPathIsTrue

RunningOK == TypesOK /\ FilesOK /\ ProgressOK /\ TargetOK /\ StagedOK /\ ExchangeOK

IInv ==
    /\ PatchReportIsTrue
    /\ RecoveryPathIsTrue
    /\ IF pc = "crashed" THEN UserContentKept /\ TargetAlwaysWhole ELSE RunningOK

-----------------------------------------------------------------------------
(* The data the operators build. *)

USE DEF None

\* Versions, the free mark and the torn mark are told apart.
LEMMA DataFacts ==
    /\ Free \in Data /\ Torn \in Data /\ Free # Torn /\ Free.v = 0 /\ Torn.v = 0
    /\ Free.by # "user" /\ Torn.by # "user"
    /\ \A n \in Nat : /\ UserData(n) \in Data /\ UserData(n) # Free /\ UserData(n) # Torn
                      /\ UserData(n).by = "user" /\ UserData(n).v = n
    /\ \A d \in Data : /\ Patched(d) \in Data /\ Patched(d) # Free /\ Patched(d) # Torn
                       /\ Patched(d).by # "user" /\ Patched(d).v = d.v
                       /\ \A n \in Nat : Patched(d) # UserData(n)
                       /\ d.by = "user" => d = UserData(d.v)
    BY DEF Data, Authors, Free, Torn, UserData, Patched

\* A new inode is well formed, and synced only when the user wrote it.
LEMMA NewInodeFacts ==
    ASSUME NEW d \in Data, NEW m \in Modes
    PROVE  /\ NewInode(d, m) \in Inode
           /\ NewInode(d, m).data = d
           /\ NewInode(d, m).synced = (d.by = "user")
    BY DEF NewInode, Inode, Modes

\* A snapshot is well formed and names its inode and content.
LEMMA SnapshotFacts ==
    ASSUME TypesOK, NEW i \in Inodes
    PROVE  /\ file_snapshot(i) \in Snapshots
           /\ file_stat_snapshot(i) \in Stats
           /\ file_stat_snapshot(i).ino = i
           /\ file_snapshot(i).stat.ino = i
           /\ file_snapshot(i).digest = inode[i].data
<1>1. inode[i] \in Inode /\ i \in Nat
    BY MaxEditsAssumption DEF TypesOK, Inodes
<1>2. /\ inode[i].mtime \in Nat /\ inode[i].ctime \in Nat
      /\ inode[i].mode \in Modes /\ inode[i].data \in Data
    BY <1>1 DEF Inode, Modes
<1> QED
    BY <1>1, <1>2 DEF file_snapshot, file_stat_snapshot, Stats, Snapshots

\* As long as other programs may act, or the call has not staged its file, some
\* inode is unused.
LEMMA UnusedInodeExists ==
    ASSUME TypesOK, FilesOK, edits < MaxEdits \/ tool.staged = None
    PROVE  UnusedInode \in Inodes \ Used
<1>1. MaxEdits \in Nat /\ edits \in Nat /\ edits <= MaxEdits
    BY MaxEditsAssumption DEF TypesOK
<1>2. IsFiniteSet(Inodes) /\ Cardinality(Inodes) = MaxEdits + 2
    <2>1. 1 \in Int /\ MaxEdits + 2 \in Int /\ 1 <= MaxEdits + 2
        BY <1>1
    <2> QED
        BY <1>1, <2>1, FS_Interval DEF Inodes
<1>3. Used \subseteq Inodes
    BY DEF Used
<1>4. Used # Inodes
    <2>1. Cardinality(Used) <= edits + 2 /\ (tool.staged = None => Cardinality(Used) <= edits + 1)
        <3>1. IsFiniteSet(Used)
            BY <1>2, <1>3, FS_Subset
        <3>2. Cardinality(Used) \in Nat
            BY <3>1, FS_CardinalityType
        <3> QED
            BY <1>1, <3>2 DEF FilesOK
    <2> QED
        BY <1>1, <1>2, <2>1
<1>5. \E i \in Inodes : inode[i].data = Free
    BY <1>3, <1>4 DEF Used
<1> QED
    BY <1>5 DEF UnusedInode, Used

\* A name whose file has another link count than one shares its file.
LEMMA OtherLink ==
    ASSUME NEW n \in Names, nlink(name[n]) # 1
    PROVE  \E m \in Names \ {n} : name[m] = name[n]
<1> SUFFICES ASSUME \A m \in Names \ {n} : name[m] # name[n] PROVE nlink(name[n]) = 1
    OBVIOUS
<1>1. {m \in Names : name[m] = name[n]} = {n}
    OBVIOUS
<1> QED
    BY <1>1, FS_Singleton DEF nlink

-----------------------------------------------------------------------------
(* Steps that leave every file's content alone. *)

DataKept ==
    /\ inode' \in [Inodes -> Inode]
    /\ \A i \in Inodes : inode'[i].data = inode[i].data /\ inode'[i].synced = inode[i].synced

\* What a rename does to an inode.
LEMMA TouchKeepsData ==
    ASSUME TypesOK, NEW i \in Inodes, TouchCtime(i)
    PROVE  DataKept
<1>1. inode[i] \in Inode
    BY DEF TypesOK
<1>2. [inode[i] EXCEPT !.ctime = inode[i].ctime + 1] \in Inode
    BY <1>1 DEF Inode
<1>3. inode' = [inode EXCEPT ![i] = [inode[i] EXCEPT !.ctime = inode[i].ctime + 1]]
    BY DEF TouchCtime, TypesOK
<1> QED
    BY <1>1, <1>2, <1>3 DEF DataKept, TypesOK, Inode

\* The directory's invariant depends on contents, names and the call's own files.
LEMMA FilesFrame ==
    ASSUME TypesOK, FilesOK, DataKept, UNCHANGED <<live, edits>>,
           tool'.staged = tool.staged, tool'.base.v <= edits + 1,
           tool.existed = tool'.existed \/ ~tool'.existed,
           past' \subseteq past \cup {name'}, name' \in Tables, TableOK(name)'
    PROVE  FilesOK' /\ Used' = Used
<1>1. Used' = Used
    BY DEF Used, DataKept
<1>2. ASSUME NEW t \in past' PROVE TableOK(t)'
    <2>1. CASE t = name'
        BY <2>1
    <2>2. CASE t \in past
        <3>1. t \in Tables
            BY <2>2 DEF TypesOK
        <3>2. \A n \in Names : t[n] \in Inodes \cup {None}
            BY <3>1 DEF Tables
        <3>3. "target" \in Names
            BY DEF Names
        <3>4. TableOK(t)
            BY <2>2 DEF FilesOK
        <3> QED
            BY <3>2, <3>3, <3>4 DEF TableOK, DataKept, Whole
    <2> QED
        BY <2>1, <2>2
<1>3. \A i \in Inodes : inode'[i].data.by = "user" => inode'[i].synced
    BY DEF FilesOK, DataKept
<1>4. \A i \in Used : i # tool.staged => Whole(i)'
    BY DEF FilesOK, DataKept, Used, Whole
<1>5. \A i \in Inodes : inode'[i].data.v <= edits + 1
    BY DEF FilesOK, DataKept
<1> QED
    BY <1>1, <1>2, <1>3, <1>4, <1>5 DEF FilesOK

\* A rename to a free name keeps what the name tables promise; a rename to the
\* target must bring a whole file.
LEMMA RenameKeepsTable ==
    ASSUME TypesOK, FilesOK, NEW from \in Names \ {"target"}, NEW to \in Names \ {from},
           RenameNoReplace(from, to), to = "target" => Whole(name[from]),
           live' = live, tool'.existed = tool.existed
    PROVE  DataKept /\ name' \in Tables /\ TableOK(name)' /\ name[from] \in Used
<1>1. /\ name[from] # None /\ name[to] = None
      /\ name' = [name EXCEPT ![to] = name[from], ![from] = None]
      /\ TouchCtime(name[from])
    BY DEF RenameNoReplace, Exists
<1>2. name \in Tables /\ name[from] \in Inodes
    BY <1>1 DEF TypesOK, Tables
<1>3. DataKept
    BY <1>1, <1>2, TouchKeepsData
<1>4. /\ name' \in Tables
      /\ name'[from] = None /\ name'[to] = name[from]
      /\ \A n \in Names \ {from, to} : name'[n] = name[n]
    BY <1>1, <1>2 DEF Tables
<1>5. TableOK(name)
    BY DEF FilesOK, TypesOK
<1>6. \A n \in Names : name[n] \in Inodes \cup {None} /\ name'[n] \in Inodes \cup {None}
    BY <1>2, <1>4 DEF Tables
<1>7. ASSUME NEW n \in Names, name'[n] # None PROVE inode'[name'[n]].data # Free
    <2>1. CASE n = to
        <3>1. name'[n] = name[from] /\ inode[name[from]].data # Free
            BY <1>1, <1>4, <1>5, <2>1 DEF TableOK
        <3> QED
            BY <1>2, <1>3, <3>1 DEF DataKept
    <2>2. CASE n # to
        <3>1. name'[n] = name[n] /\ name[n] # None
            BY <1>4, <1>7, <2>2
        <3> QED
            BY <1>3, <1>5, <1>6, <3>1 DEF TableOK, DataKept
    <2> QED
        BY <2>1, <2>2
<1>8. name'["target"] # None => Whole(name["target"])'
    <2>0. "target" \in Names
        BY DEF Names
    <2>1. CASE to = "target"
        <3>1. name'["target"] = name[from] /\ Whole(name[from])
            BY <1>4, <2>1
        <3> QED
            BY <1>2, <1>3, <3>1 DEF DataKept, Whole
    <2>2. CASE to # "target"
        <3>1. name'["target"] = name["target"]
            BY <1>4, <2>0, <2>2
        <3> QED
            BY <1>3, <1>5, <1>6, <2>0, <3>1 DEF TableOK, DataKept, Whole
    <2> QED
        BY <2>1, <2>2
<1>9. tool'.existed => name'["target"] # None
    BY <1>1, <1>4, <1>5 DEF TableOK, Names
<1>10. ASSUME NEW v \in live
       PROVE  \E n \in Names : name'[n] # None /\ inode'[name'[n]].data = UserData(v)
    <2>1. PICK n \in Names : name[n] # None /\ inode[name[n]].data = UserData(v)
        BY <1>5 DEF TableOK
    <2>2. CASE n = from
        BY <1>1, <1>2, <1>3, <1>4, <2>1, <2>2 DEF DataKept
    <2>3. CASE n # from
        <3>1. n # to /\ name'[n] = name[n]
            BY <1>1, <1>4, <2>1, <2>3
        <3> QED
            BY <1>3, <1>6, <2>1, <3>1 DEF DataKept
    <2> QED
        BY <2>2, <2>3
<1>11. TableOK(name)'
    BY <1>7, <1>8, <1>9, <1>10 DEF TableOK
<1>12. name[from] \in Used
    BY <1>1, <1>2, <1>5 DEF TableOK, Used
<1> QED
    BY <1>3, <1>4, <1>11, <1>12

\* The exchange of two names keeps it too, when the left one holds a whole file.
LEMMA ExchangeKeepsTable ==
    ASSUME TypesOK, FilesOK, exchange_files_between("recovery", "target"),
           Whole(name["recovery"]), live' = live, tool'.existed = tool.existed
    PROVE  DataKept /\ name' \in Tables /\ TableOK(name)'
           /\ name'["recovery"] = name["target"] /\ name'["target"] = name["recovery"]
           /\ {name["recovery"], name["target"]} \subseteq Used
<1> DEFINE l == name["recovery"]
           r == name["target"]
<1>1. /\ l # None /\ r # None
      /\ name' = [name EXCEPT !["recovery"] = r, !["target"] = l]
      /\ inode' = [inode EXCEPT ![l].ctime = @ + 1, ![r].ctime = @ + 1]
    BY DEF exchange_files_between, Exists
<1>2. name \in Tables /\ l \in Inodes /\ r \in Inodes
    BY <1>1 DEF TypesOK, Tables, Names
<1>3. DataKept
    <2> HIDE DEF l, r
    <2>1. inode \in [Inodes -> Inode]
        BY DEF TypesOK
    <2>2. inode[l] \in Inode /\ inode[r] \in Inode
        BY <1>2, <2>1
    <2>3. \A i \in Inodes \ {l, r} : inode'[i] = inode[i]
        BY <1>1, <1>2, <2>1
    <2>4. DOMAIN inode' = Inodes
        BY <1>1, <2>1
    <2>5. \A i \in {l, r} : \E c \in Nat : inode'[i] = [inode[i] EXCEPT !.ctime = c]
        <3>1. inode[l].ctime + 1 \in Nat /\ inode[r].ctime + 1 \in Nat
            BY <2>2 DEF Inode
        <3>2. CASE l # r
            <4>1. inode'[l] = [inode[l] EXCEPT !.ctime = inode[l].ctime + 1]
                BY <1>1, <1>2, <2>1, <3>2
            <4>2. inode'[r] = [inode[r] EXCEPT !.ctime = inode[r].ctime + 1]
                BY <1>1, <1>2, <2>1, <3>2
            <4> QED
                BY <3>1, <4>1, <4>2
        <3>3. CASE l = r
            <4>1. PICK c : inode'[l] = [inode[l] EXCEPT !.ctime = c] /\ c \in Nat
                BY <1>1, <1>2, <2>1, <2>2, <3>1, <3>3 DEF Inode
            <4> QED
                BY <3>3, <4>1
        <3> QED
            BY <3>2, <3>3
    <2>6. ASSUME NEW i \in {l, r}
          PROVE  /\ inode'[i] \in Inode
                 /\ inode'[i].data = inode[i].data /\ inode'[i].synced = inode[i].synced
        <3>1. PICK c \in Nat : inode'[i] = [inode[i] EXCEPT !.ctime = c]
            BY <2>5
        <3>2. inode[i] \in Inode
            BY <2>2
        <3> QED
            BY <3>1, <3>2 DEF Inode
    <2>7. \A i \in Inodes : inode'[i] \in Inode
        BY <2>1, <2>3, <2>6
    <2> QED
        BY <1>1, <2>1, <2>3, <2>4, <2>6, <2>7 DEF DataKept
<1>4. /\ name' \in Tables
      /\ name'["recovery"] = r /\ name'["target"] = l
      /\ \A n \in Names \ {"recovery", "target"} : name'[n] = name[n]
    BY <1>1, <1>2 DEF Tables, Names
<1>5. TableOK(name)
    BY DEF FilesOK, TypesOK
<1>6. \A n \in Names : name[n] \in Inodes \cup {None} /\ name'[n] \in Inodes \cup {None}
    BY <1>2, <1>4 DEF Tables
<1>7. \A n \in Names : \E m \in Names : name'[m] = name[n]
    BY <1>4 DEF Names
<1>8. \A n \in Names : \E m \in Names : name'[n] = name[m]
    BY <1>4 DEF Names
<1>9. ASSUME NEW n \in Names, name'[n] # None PROVE inode'[name'[n]].data # Free
    BY <1>3, <1>5, <1>6, <1>8, <1>9 DEF TableOK, DataKept
<1>10. Whole(name["target"])' /\ name'["target"] # None
    <2>1. name'["target"] = l /\ l # None /\ l \in Inodes
        BY ONLY <1>1, <1>2, <1>4
    <2>2. inode[l].synced /\ inode[l].data # Torn
        BY ONLY Whole(name["recovery"]) DEF Whole
    <2>3. inode'[l].data = inode[l].data /\ inode'[l].synced = inode[l].synced
        BY ONLY <1>3, <2>1 DEF DataKept
    <2> HIDE DEF l
    <2> QED
        BY ONLY <2>1, <2>2, <2>3 DEF Whole
<1>11. ASSUME NEW v \in live
       PROVE  \E n \in Names : name'[n] # None /\ inode'[name'[n]].data = UserData(v)
    BY <1>3, <1>5, <1>6, <1>7 DEF TableOK, DataKept
<1>12. TableOK(name)'
    BY <1>9, <1>10, <1>11 DEF TableOK
<1>13. l \in Used /\ r \in Used
    BY <1>1, <1>2, <1>5 DEF TableOK, Used, Names
<1> QED
    BY <1>3, <1>4, <1>12, <1>13

-----------------------------------------------------------------------------
(* Steps of the call that change no file. *)

Early == BeforeStage \cup Staging \cup BeforeCommit \cup Cleanup

\* The call may change its locals without disturbing the directory's invariant.
LEMMA QuietStep ==
    ASSUME RunningOK, UNCHANGED <<inode, name, live, exchanged, past, edits>>,
           tool' \in Tools, tool'.staged = tool.staged, tool'.base.v <= edits + 1,
           tool'.existed => tool.existed \/ (past = {name} /\ name["target"] # None),
           slot' \in {None} \cup Dirs, late' \in BOOLEAN
    PROVE  TypesOK' /\ FilesOK' /\ Used' = Used
<1>1. TypesOK'
    BY DEF RunningOK, TypesOK
<1>2. Used' = Used
    BY DEF Used
<1>3. ASSUME NEW t \in past PROVE TableOK(t)'
    BY DEF RunningOK, FilesOK, TableOK, Whole
<1>4. FilesOK'
    BY <1>2, <1>3 DEF RunningOK, FilesOK, Whole
<1> QED
    BY <1>1, <1>2, <1>4

\* What the lemma asks for, where the step leaves it alone.
LEMMA RunningFacts ==
    ASSUME RunningOK
    PROVE  /\ tool \in Tools /\ slot \in {None} \cup Dirs /\ late \in BOOLEAN
           /\ tool.base.v <= edits + 1
    BY DEF RunningOK, TypesOK, FilesOK

\* While the call is going on there is nothing to report.
LEMMA NothingReported ==
    ASSUME result' = NotYet
    PROVE  PatchReportIsTrue' /\ RecoveryPathIsTrue'
    BY DEF NotYet, PatchReportIsTrue, RecoveryPathIsTrue, ReportsRecoveryFile

\* A step inside the call that keeps the running invariant keeps the whole.
LEMMA StepInside ==
    ASSUME RunningOK', result' = NotYet
    PROVE  IInv'
<1>1. pc' # "crashed"
    BY DEF RunningOK, ProgressOK, Labels, BeforeStage, Reading, Staging, BeforeCommit, Cleanup,
           Installed, Reporting
<1> QED
    BY <1>1, NothingReported DEF IInv

\* The call returns: only the report is left to be true.
LEMMA ReturnStep ==
    ASSUME RunningOK, Keep, pc' = "done", PatchReportIsTrue', RecoveryPathIsTrue'
    PROVE  IInv'
<1>1. TypesOK' /\ FilesOK' /\ Used' = Used
    <2>1. UNCHANGED <<inode, name, slot, tool, live, exchanged, late, past, edits>>
        BY DEF Keep, ghosts, files
    <2> QED
        BY <2>1, RunningFacts, QuietStep
<1>2. tool' = tool /\ name' = name /\ inode' = inode /\ exchanged' = exchanged
    BY DEF Keep, files, ghosts
<1> USE DEF BeforeStage, Reading, Staging, BeforeCommit, Cleanup, Installed, Reporting, Labels
<1>3. ProgressOK'
    BY DEF ProgressOK, RunningOK
<1>4. TargetOK'
    BY <1>2 DEF TargetOK, RunningOK
<1>5. StagedOK'
    BY DEF StagedOK
<1>6. ExchangeOK'
    BY DEF ExchangeOK
<1> QED
    BY <1>1, <1>3, <1>4, <1>5, <1>6 DEF IInv, RunningOK

\* The call gives up with the target untouched.
LEMMA GiveUpStep ==
    ASSUME RunningOK, pc \in Early, GiveUp
    PROVE  IInv'
<1>1. Keep /\ pc' = "done" /\ result' = [state |-> "failed", recovery |-> "none"]
    BY DEF GiveUp, Return
<1>2. exchanged' = NoExchange
    BY <1>1 DEF Keep, ghosts, RunningOK, ProgressOK, Early
<1>3. PatchReportIsTrue' /\ RecoveryPathIsTrue'
    BY <1>1, <1>2 DEF PatchReportIsTrue, RecoveryPathIsTrue, ReportsRecoveryFile
<1> QED
    BY <1>1, <1>3, ReturnStep

\* Before the commit there is no exchange to speak of.
LEMMA EarlyExchange ==
    ASSUME pc' \in Early
    PROVE  ExchangeOK'
    BY DEF ExchangeOK, Early, BeforeStage, Reading, Staging, BeforeCommit, Cleanup, Installed, Reporting

\* The call moves on without changing anything of its own.
LEMMA GotoStep ==
    ASSUME RunningOK, Keep, UNCHANGED result, result = NotYet,
           ProgressOK', TargetOK', StagedOK', ExchangeOK'
    PROVE  IInv'
<1>1. TypesOK' /\ FilesOK'
    <2>1. UNCHANGED <<inode, name, slot, tool, live, exchanged, late, past, edits>>
        BY DEF Keep, ghosts, files
    <2> QED
        BY <2>1, RunningFacts, QuietStep
<1> QED
    BY <1>1, StepInside DEF RunningOK

-----------------------------------------------------------------------------
(* Reading the target and preparing the change. *)

\* The target is found or not; nothing is known of it yet.
LEMMA ResolveStep == RunningOK /\ Resolve => IInv'
<1> SUFFICES ASSUME RunningOK, Resolve PROVE IInv'
    OBVIOUS
<1> USE DEF BeforeStage, Reading, Staging, BeforeCommit, Cleanup, Installed, Reporting, Labels, Early
<1>1. CASE /\ Goto(IF Exists("target") THEN "open" ELSE "prepare")
           /\ Set("existed", Exists("target"))
           /\ UNCHANGED <<files, ghosts>>
    <2>1. tool \in Tools /\ pc = "resolve" /\ tool.staged = None /\ ~tool.existed /\ past = {name}
          /\ tool.base = Free
        BY DEF Resolve, At, RunningOK, ProgressOK, StagedOK, TargetOK, TypesOK
    <2>2. /\ tool' \in Tools /\ tool'.existed = (name["target"] # None)
          /\ tool'.staged = tool.staged /\ tool'.base = tool.base
        BY <1>1, <2>1 DEF Set, Exists, Tools
    <2>3. UNCHANGED <<inode, name, slot, live, exchanged, late, past, edits>>
        BY <1>1 DEF files, ghosts
    <2>4. TypesOK' /\ FilesOK' /\ Used' = Used
        BY <2>1, <2>2, <2>3, RunningFacts, QuietStep
    <2>5. pc' = (IF tool'.existed THEN "open" ELSE "prepare") /\ result' = result
        BY <1>1, <2>2 DEF Goto, Exists
    <2>6. ProgressOK'
        BY <2>1, <2>3, <2>5 DEF ProgressOK, RunningOK
    <2>7. TargetOK'
        BY <2>1, <2>2, <2>5 DEF TargetOK
    <2>8. StagedOK'
        BY <2>1, <2>2, <2>5 DEF StagedOK
    <2>9. ExchangeOK'
        BY <2>5, EarlyExchange
    <2> QED
        BY <2>1, <2>4, <2>5, <2>6, <2>7, <2>8, <2>9, StepInside DEF RunningOK, ProgressOK
<1> QED
    BY <1>1, GiveUpStep DEF Resolve, At

\* The opened file is a used inode, and its stat names it.
LEMMA OpenTargetStep == RunningOK /\ OpenTarget => IInv'
<1> SUFFICES ASSUME RunningOK, OpenTarget PROVE IInv'
    OBVIOUS
<1> USE DEF BeforeStage, Reading, Staging, BeforeCommit, Cleanup, Installed, Reporting, Labels, Early
<1>1. CASE /\ Exists("target")
           /\ tool' = [tool EXCEPT !.file = name["target"],
                                  !.snapshot = file_snapshot(name["target"])]
           /\ Goto("read")
           /\ UNCHANGED <<files, ghosts>>
    <2>1. tool \in Tools /\ pc = "open" /\ tool.existed /\ tool.staged = None
        BY DEF OpenTarget, At, RunningOK, ProgressOK, StagedOK, TargetOK, TypesOK
    <2>2. name["target"] \in Used
        BY <1>1 DEF RunningOK, TypesOK, FilesOK, TableOK, Exists, Used, Tables, Names
    <2>3. name["target"] \in Inodes
        BY <2>2 DEF Used
    <2>4. file_snapshot(name["target"]) \in Snapshots /\ file_snapshot(name["target"]).stat.ino = name["target"]
        BY <2>3, SnapshotFacts DEF RunningOK
    <2>5. /\ tool' \in Tools /\ tool'.existed = tool.existed
          /\ tool'.staged = tool.staged /\ tool'.base = tool.base
          /\ tool'.file = name["target"] /\ tool'.snapshot = file_snapshot(name["target"])
        BY <1>1, <2>1, <2>3, <2>4 DEF Tools
    <2>6. UNCHANGED <<inode, name, slot, live, exchanged, late, past, edits>>
        BY <1>1 DEF files, ghosts
    <2>7. TypesOK' /\ FilesOK' /\ Used' = Used
        BY <2>1, <2>5, <2>6, RunningFacts, QuietStep
    <2>8. pc' = "read" /\ result' = result
        BY <1>1 DEF Goto
    <2>9. ProgressOK'
        BY <2>1, <2>6, <2>8 DEF ProgressOK, RunningOK
    <2>10. TargetOK'
        BY <2>1, <2>2, <2>4, <2>5, <2>7, <2>8 DEF TargetOK
    <2>11. StagedOK'
        BY <2>1, <2>5, <2>8 DEF StagedOK
    <2>12. ExchangeOK'
        BY <2>8, EarlyExchange
    <2> QED
        BY <2>1, <2>7, <2>8, <2>9, <2>10, <2>11, <2>12, StepInside DEF RunningOK, ProgressOK
<1> QED
    BY <1>1, GiveUpStep DEF OpenTarget, At

\* What is read becomes the content to patch, whatever it is by now.
LEMMA ReadTargetStep == RunningOK /\ ReadTarget => IInv'
<1> SUFFICES ASSUME RunningOK, ReadTarget PROVE IInv'
    OBVIOUS
<1> USE DEF BeforeStage, Reading, Staging, BeforeCommit, Cleanup, Installed, Reporting, Labels, Early
<1>1. CASE Set("base", inode[tool.file].data) /\ Goto("read_end") /\ UNCHANGED <<files, ghosts>>
    <2>1. /\ tool \in Tools /\ pc = "read" /\ tool.existed /\ tool.staged = None
          /\ tool.file \in Used /\ tool.snapshot.stat.ino = tool.file
        BY DEF ReadTarget, At, RunningOK, ProgressOK, StagedOK, TargetOK, TypesOK
    <2>2. inode[tool.file].data \in Data /\ inode[tool.file].data.v <= edits + 1
        BY <2>1 DEF Used, RunningOK, TypesOK, FilesOK, Inode
    <2>3. /\ tool' \in Tools /\ tool'.existed = tool.existed
          /\ tool'.staged = tool.staged /\ tool'.base = inode[tool.file].data
          /\ tool'.file = tool.file /\ tool'.snapshot = tool.snapshot
        BY <1>1, <2>1, <2>2 DEF Tools, Set
    <2>4. UNCHANGED <<inode, name, slot, live, exchanged, late, past, edits>>
        BY <1>1 DEF files, ghosts
    <2>5. TypesOK' /\ FilesOK' /\ Used' = Used
        BY <2>2, <2>3, <2>4, RunningFacts, QuietStep
    <2>6. pc' = "read_end" /\ result' = result
        BY <1>1 DEF Goto
    <2>7. ProgressOK'
        BY <2>1, <2>4, <2>6 DEF ProgressOK, RunningOK
    <2>8. TargetOK'
        BY <2>1, <2>3, <2>5, <2>6 DEF TargetOK
    <2>9. StagedOK'
        BY <2>1, <2>3, <2>6 DEF StagedOK
    <2>10. ExchangeOK'
        BY <2>6, EarlyExchange
    <2> QED
        BY <2>1, <2>5, <2>6, <2>7, <2>8, <2>9, <2>10, StepInside DEF RunningOK, ProgressOK
<1> QED
    BY <1>1, GiveUpStep DEF ReadTarget, At

\* From here on the digest is that of the content to patch.
LEMMA FinishReadStep == RunningOK /\ FinishRead => IInv'
<1> SUFFICES ASSUME RunningOK, FinishRead PROVE IInv'
    OBVIOUS
<1> USE DEF BeforeStage, Reading, Staging, BeforeCommit, Cleanup, Installed, Reporting, Labels, Early
<1>1. CASE /\ tool' = [tool EXCEPT !.snapshot.digest = tool.base]
           /\ Goto("prepare")
           /\ UNCHANGED <<files, ghosts>>
    <2>1. /\ tool \in Tools /\ pc = "read_end" /\ tool.existed /\ tool.staged = None
          /\ tool.file \in Used /\ tool.snapshot.stat.ino = tool.file
        BY DEF FinishRead, At, RunningOK, ProgressOK, StagedOK, TargetOK, TypesOK
    <2>2. tool.snapshot \in Snapshots /\ tool.base \in Data
        BY <2>1 DEF Tools
    <2>3. /\ [tool.snapshot EXCEPT !.digest = tool.base] \in Snapshots
          /\ [tool.snapshot EXCEPT !.digest = tool.base].stat = tool.snapshot.stat
          /\ [tool.snapshot EXCEPT !.digest = tool.base].digest = tool.base
        BY <2>2 DEF Snapshots
    <2>4. /\ tool' \in Tools /\ tool'.existed = tool.existed
          /\ tool'.staged = tool.staged /\ tool'.base = tool.base
          /\ tool'.file = tool.file /\ tool'.snapshot = [tool.snapshot EXCEPT !.digest = tool.base]
        BY <1>1, <2>1, <2>3 DEF Tools
    <2>5. UNCHANGED <<inode, name, slot, live, exchanged, late, past, edits>>
        BY <1>1 DEF files, ghosts
    <2>6. TypesOK' /\ FilesOK' /\ Used' = Used
        BY <2>4, <2>5, RunningFacts, QuietStep
    <2>7. pc' = "prepare" /\ result' = result
        BY <1>1 DEF Goto
    <2>8. ProgressOK'
        BY <2>1, <2>5, <2>7 DEF ProgressOK, RunningOK
    <2>9. TargetOK'
        BY <2>1, <2>3, <2>4, <2>6, <2>7 DEF TargetOK
    <2>10. StagedOK'
        BY <2>1, <2>4, <2>7 DEF StagedOK
    <2>11. ExchangeOK'
        BY <2>7, EarlyExchange
    <2> QED
        BY <2>1, <2>6, <2>7, <2>8, <2>9, <2>10, <2>11, StepInside DEF RunningOK, ProgressOK
<1> QED
    BY <1>1, GiveUpStep DEF FinishRead, At

\* A patch that does not fit the target gives up with nothing done.
LEMMA PrepareStep == RunningOK /\ Prepare => IInv'
<1> SUFFICES ASSUME RunningOK, Prepare PROVE IInv'
    OBVIOUS
<1> USE DEF BeforeStage, Reading, Staging, BeforeCommit, Cleanup, Installed, Reporting, Labels, Early
<1>1. CASE Goto(IF tool.existed THEN "metadata" ELSE "stage") /\ Keep
    <2>1. pc = "prepare" /\ tool.staged = None /\ exchanged = NoExchange /\ result = NotYet
        BY DEF Prepare, At, RunningOK, ProgressOK, StagedOK
    <2>2. /\ UNCHANGED <<inode, name, tool, exchanged, past, result>>
          /\ pc' = (IF tool.existed THEN "metadata" ELSE "stage")
        BY <1>1 DEF Keep, Goto, files, ghosts
    <2>3. ProgressOK'
        BY <2>1, <2>2 DEF ProgressOK, RunningOK
    <2>4. TargetOK'
        BY <2>1, <2>2 DEF TargetOK, RunningOK, Used
    <2>5. StagedOK'
        BY <2>1, <2>2 DEF StagedOK
    <2>6. ExchangeOK'
        BY <2>2, EarlyExchange
    <2> QED
        BY <1>1, <2>1, <2>2, <2>3, <2>4, <2>5, <2>6, GotoStep
<1> QED
    BY <1>1, GiveUpStep DEF Prepare, At

\* The file at the target, opened again, is the one that was read.
LEMMA MetadataStep == RunningOK /\ replacement_metadata => IInv'
<1> SUFFICES ASSUME RunningOK, replacement_metadata PROVE IInv'
    OBVIOUS
<1> USE DEF BeforeStage, Reading, Staging, BeforeCommit, Cleanup, Installed, Reporting, Labels, Early
<1>1. CASE /\ Exists("target")
           /\ file_stat_snapshot(name["target"]) = tool.snapshot.stat
           /\ Set("file", name["target"])
           /\ Goto("namespace")
           /\ UNCHANGED <<files, ghosts>>
    <2>1. /\ tool \in Tools /\ pc = "metadata" /\ tool.existed /\ tool.staged = None
          /\ tool.file \in Used /\ tool.snapshot.stat.ino = tool.file
          /\ tool.snapshot.digest = tool.base
        BY DEF replacement_metadata, At, RunningOK, ProgressOK, StagedOK, TargetOK, TypesOK
    <2>2. name["target"] \in Inodes
        BY <1>1 DEF RunningOK, TypesOK, Exists, Tables, Names
    <2>3. name["target"] = tool.file
        BY <1>1, <2>1, <2>2, SnapshotFacts DEF RunningOK
    <2>4. tool' = tool
        BY <1>1, <2>1, <2>3 DEF Set, Tools
    <2>5. UNCHANGED <<inode, name, tool, exchanged, past, result>> /\ Keep
          /\ pc' = "namespace" /\ exchanged = NoExchange /\ result = NotYet
        BY <1>1, <2>1, <2>4 DEF Keep, Goto, files, ghosts, RunningOK, ProgressOK
    <2>6. ProgressOK'
        BY <2>1, <2>5 DEF ProgressOK, RunningOK
    <2>7. TargetOK'
        BY <2>1, <2>5 DEF TargetOK, Used
    <2>8. StagedOK'
        BY <2>1, <2>5 DEF StagedOK
    <2>9. ExchangeOK'
        BY <2>5, EarlyExchange
    <2> QED
        BY <2>5, <2>6, <2>7, <2>8, <2>9, GotoStep
<1> QED
    BY <1>1, GiveUpStep DEF replacement_metadata, At

\* Opening the namespace changes only the recovery directory and where the call
\* remembers it.
LEMMA NamespaceStep ==
    ASSUME RunningOK, NEW next, OpenNamespace(next), UNCHANGED <<inode, name, ghosts>>
    PROVE  /\ TypesOK' /\ FilesOK' /\ Used' = Used /\ pc' = next /\ result' = result
           /\ UNCHANGED <<inode, name, exchanged, past>>
           /\ (tool'.existed <=> tool.existed) /\ tool'.staged = tool.staged /\ tool'.base = tool.base
           /\ tool'.file = tool.file /\ tool'.snapshot = tool.snapshot
<1>1. slot' \in {None} \cup Dirs /\ slot' \in Dirs
    BY RunningFacts DEF OpenNamespace, Dirs
<1>2. /\ tool' \in Tools /\ tool'.existed = tool.existed
      /\ tool'.staged = tool.staged /\ tool'.base = tool.base
      /\ tool'.file = tool.file /\ tool'.snapshot = tool.snapshot
    BY <1>1, RunningFacts DEF OpenNamespace, Set, Tools
<1>3. UNCHANGED <<live, exchanged, late, past, edits>>
    BY DEF ghosts
<1>4. TypesOK' /\ FilesOK' /\ Used' = Used
    BY <1>1, <1>2, <1>3, RunningFacts, QuietStep
<1> QED
    BY <1>2, <1>3, <1>4 DEF OpenNamespace, Goto

\* The recovery directory is opened before anything is staged.
LEMMA OpenRecoveryStep == RunningOK /\ open_recovery_namespace => IInv'
<1> SUFFICES ASSUME RunningOK, open_recovery_namespace PROVE IInv'
    OBVIOUS
<1> USE DEF BeforeStage, Reading, Staging, BeforeCommit, Cleanup, Installed, Reporting, Labels, Early
<1>1. CASE OpenNamespace("stage") /\ UNCHANGED <<inode, name, ghosts>>
    <2>1. pc = "namespace" /\ tool.staged = None /\ exchanged = NoExchange /\ result = NotYet
        BY DEF open_recovery_namespace, At, RunningOK, ProgressOK, StagedOK
    <2>2. /\ TypesOK' /\ FilesOK' /\ Used' = Used /\ pc' = "stage" /\ result' = result
          /\ UNCHANGED <<inode, name, exchanged, past>>
          /\ (tool'.existed <=> tool.existed) /\ tool'.staged = tool.staged /\ tool'.base = tool.base
          /\ tool'.file = tool.file /\ tool'.snapshot = tool.snapshot
        BY <1>1, NamespaceStep
    <2>3. ProgressOK'
        BY <2>1, <2>2 DEF ProgressOK, RunningOK
    <2>4. TargetOK'
        BY <2>1, <2>2 DEF TargetOK, RunningOK
    <2>5. StagedOK'
        BY <2>1, <2>2 DEF StagedOK
    <2>6. ExchangeOK'
        BY <2>2, EarlyExchange
    <2> QED
        BY <2>1, <2>2, <2>3, <2>4, <2>5, <2>6, StepInside DEF RunningOK
<1> QED
    BY <1>1, GiveUpStep DEF open_recovery_namespace, At

-----------------------------------------------------------------------------
(* Staging the new content. *)

\* A fresh file at a free name: the tables that a power loss may bring back know
\* nothing of it.
LEMMA StageCreateStep == RunningOK /\ StageCreate => IInv'
<1> SUFFICES ASSUME RunningOK, StageCreate PROVE IInv'
    OBVIOUS
<1> USE DEF BeforeStage, Reading, Staging, BeforeCommit, Cleanup, Installed, Reporting, Labels, Early
<1>1. CASE /\ inode' = [inode EXCEPT ![UnusedInode] = NewInode(Torn, "private")]
           /\ name' = [name EXCEPT !["stage"] = UnusedInode]
           /\ Set("staged", UnusedInode)
           /\ Journal
           /\ Goto("write")
           /\ UNCHANGED <<slot, policy, exchanged>>
    <2> DEFINE u == UnusedInode
               new == NewInode(Torn, "private")
    <2>1. /\ tool \in Tools /\ pc = "stage" /\ tool.staged = None /\ name["stage"] = None
          /\ exchanged = NoExchange /\ result = NotYet
        BY DEF StageCreate, At, RunningOK, ProgressOK, StagedOK, TypesOK
    <2>2. TypesOK /\ FilesOK
        BY DEF RunningOK
    <2>3. u \in Inodes /\ u \notin Used /\ u # None
        <3>1. u \in Inodes \ Used
            BY <2>1, <2>2, UnusedInodeExists
        <3> QED
            BY <3>1, MaxEditsAssumption DEF Inodes
    <2>4. new \in Inode /\ new.data = Torn /\ ~new.synced
        BY NewInodeFacts, DataFacts DEF Modes
    <2>5. /\ inode' = [inode EXCEPT ![u] = new] /\ name' = [name EXCEPT !["stage"] = u]
          /\ past' = past \cup {name'} /\ pc' = "write" /\ result' = NotYet
          /\ UNCHANGED <<slot, live, exchanged, late, edits>>
        BY <1>1, <2>1 DEF Journal, Goto
    <2>6. /\ tool' \in Tools /\ tool'.existed = tool.existed
          /\ tool'.staged = u /\ tool'.base = tool.base
          /\ tool'.file = tool.file /\ tool'.snapshot = tool.snapshot
        BY <1>1, <2>1, <2>3 DEF Set, Tools
    <2> HIDE DEF u, new
    <2>7. /\ inode' \in [Inodes -> Inode] /\ inode'[u] = new
          /\ \A i \in Inodes \ {u} : inode'[i] = inode[i]
        BY <2>2, <2>3, <2>4, <2>5 DEF TypesOK
    <2>8. /\ name' \in Tables /\ name'["stage"] = u
          /\ \A n \in Names \ {"stage"} : name'[n] = name[n]
        BY <2>2, <2>3, <2>5 DEF TypesOK, Tables, Names
    <2>9. TypesOK'
        BY <2>2, <2>5, <2>6, <2>7, <2>8 DEF TypesOK
    <2>10. Used' = Used \cup {u} /\ Used \subseteq Inodes
        BY <2>3, <2>4, <2>7, DataFacts DEF Used
    <2>11. Cardinality(Used') <= edits + 2
        <3>1. IsFiniteSet(Used) /\ Cardinality(Used) \in Nat
            <4>1. IsFiniteSet(Inodes)
                BY FS_Interval, MaxEditsAssumption DEF Inodes
            <4> QED
                BY <2>10, <4>1, FS_Subset, FS_CardinalityType
        <3>2. Cardinality(Used') = Cardinality(Used) + 1
            BY <2>3, <2>10, <3>1, FS_AddElement
        <3>3. Cardinality(Used) <= edits + 1 /\ edits \in Nat
            BY <2>1, <2>2, MaxEditsAssumption DEF FilesOK, TypesOK
        <3> QED
            BY <3>1, <3>2, <3>3
    <2>12. ASSUME NEW t \in past PROVE TableOK(t)'
        <3>1. t \in Tables /\ TableOK(t)
            BY <2>2 DEF TypesOK, FilesOK
        <3>2. \A n \in Names : t[n] # None => t[n] \in Inodes \ {u}
            BY <2>3, <3>1 DEF Tables, TableOK, Used
        <3>3. "target" \in Names
            BY DEF Names
        <3> QED
            BY <2>5, <2>6, <2>7, <3>1, <3>2, <3>3 DEF TableOK, Whole
    <2>13. TableOK(name)'
        <3>1. name \in Tables /\ TableOK(name)
            BY <2>2 DEF TypesOK, FilesOK
        <3>2. \A n \in Names : name[n] # None => name[n] \in Inodes \ {u}
            BY <2>3, <3>1 DEF Tables, TableOK, Used
        <3>3. "target" \in Names \ {"stage"} /\ "stage" \in Names
            BY DEF Names
        <3>4. \A n \in Names : name'[n] # None => inode'[name'[n]].data # Free
            BY <2>4, <2>7, <2>8, <3>1, <3>2, DataFacts DEF TableOK
        <3>5. (name'["target"] # None => Whole(name["target"])') /\ (tool'.existed => name'["target"] # None)
            BY <2>6, <2>7, <2>8, <3>1, <3>2, <3>3 DEF TableOK, Whole
        <3>6. ASSUME NEW v \in live
              PROVE  \E n \in Names : name'[n] # None /\ inode'[name'[n]].data = UserData(v)
            <4>1. PICK n \in Names : name[n] # None /\ inode[name[n]].data = UserData(v)
                BY <3>1 DEF TableOK
            <4>2. n # "stage" /\ name'[n] = name[n]
                BY <2>1, <2>8, <4>1
            <4> QED
                BY <2>7, <3>2, <4>1, <4>2
        <3> QED
            BY <2>5, <3>4, <3>5, <3>6 DEF TableOK
    <2>14. FilesOK'
        <3>1. \A i \in Inodes : inode'[i].data.by = "user" => inode'[i].synced
            BY <2>2, <2>4, <2>7, DataFacts DEF FilesOK
        <3>2. \A i \in Used' : i # tool'.staged => Whole(i)'
            <4>1. \A i \in Used : i \in Inodes \ {u} /\ i # None
                BY <2>3, <2>10, MaxEditsAssumption DEF Inodes
            <4>2. \A i \in Used : i # tool.staged => Whole(i)
                BY <2>2 DEF FilesOK
            <4> QED
                BY <2>1, <2>6, <2>7, <2>10, <4>1, <4>2 DEF Whole
        <3>3. \A i \in Inodes : inode'[i].data.v <= edits' + 1
            BY <2>2, <2>4, <2>5, <2>7, DataFacts, MaxEditsAssumption DEF FilesOK, TypesOK
        <3>4. tool'.base.v <= edits' + 1
            BY <2>2, <2>5, <2>6 DEF FilesOK
        <3>5. \A t \in past' : TableOK(t)'
            BY <2>5, <2>12, <2>13
        <3>6. Cardinality(Used') <= edits' + (IF tool'.staged = None THEN 1 ELSE 2)
            BY <2>3, <2>5, <2>6, <2>11
        <3> QED
            BY <3>1, <3>2, <3>3, <3>4, <3>5, <3>6 DEF FilesOK
    <2>15. ProgressOK'
        BY <2>1, <2>5 DEF ProgressOK
    <2>16. TargetOK'
        BY <2>1, <2>5, <2>6, <2>10 DEF TargetOK, RunningOK
    <2>17. StagedOK'
        <3>1. name'["target"] # u
            BY <2>2, <2>3, <2>8 DEF TypesOK, FilesOK, TableOK, Tables, Used, Names
        <3> QED
            BY <2>4, <2>5, <2>6, <2>7, <2>10, <3>1 DEF StagedOK
    <2>18. ExchangeOK'
        BY <2>5, EarlyExchange
    <2> QED
        BY <2>5, <2>9, <2>14, <2>15, <2>16, <2>17, <2>18, StepInside DEF RunningOK
<1> QED
    BY <1>1, GiveUpStep DEF StageCreate, At

\* The staged file is changed in place, by the call that owns it: nothing else of
\* the directory changes, and no version of the user's was in it.
LEMMA StagedFileChanges ==
    ASSUME RunningOK, tool.staged \in Used, NEW f \in Inode,
           f.data # Free, f.data # Torn, f.data.by = "user" => f.synced, f.data.v <= edits + 1,
           \/ f.data = inode[tool.staged].data
           \/ \A v \in live : inode[tool.staged].data # UserData(v),
           inode' = [inode EXCEPT ![tool.staged] = f],
           f.synced \/ ~inode[tool.staged].synced,
           UNCHANGED <<name, slot, tool, live, exchanged, late, past, edits>>
    PROVE  TypesOK' /\ FilesOK' /\ Used' = Used /\ inode'[tool.staged] = f
<1> DEFINE s == tool.staged
<1>1. TypesOK /\ FilesOK /\ s \in Inodes
    BY DEF RunningOK, Used
<1>2. /\ inode' \in [Inodes -> Inode] /\ inode'[s] = f
      /\ \A i \in Inodes \ {s} : inode'[i] = inode[i]
    BY <1>1 DEF TypesOK
<1> HIDE DEF s
<1>3. TypesOK'
    BY <1>1, <1>2 DEF TypesOK
<1>4. Used' = Used
    <2>1. s \in Used
        BY DEF s
    <2> QED
        BY <1>1, <1>2, <2>1 DEF Used
<1>5. ASSUME NEW t \in past PROVE TableOK(t)'
    <2>1. t \in Tables /\ TableOK(t)
        BY <1>1 DEF TypesOK, FilesOK
    <2>2. \A n \in Names : t[n] # None => t[n] \in Inodes
        BY <2>1 DEF Tables
    <2>3. "target" \in Names
        BY DEF Names
    <2>4. \A n \in Names : t[n] # None => inode'[t[n]].data # Free
        BY <1>2, <2>1, <2>2 DEF TableOK
    <2>5. t["target"] # None => Whole(t["target"])'
        BY <1>2, <2>1, <2>2, <2>3 DEF TableOK, Whole, s
    <2>6. ASSUME NEW v \in live
          PROVE  \E n \in Names : t[n] # None /\ inode'[t[n]].data = UserData(v)
        <3>1. PICK n \in Names : t[n] # None /\ inode[t[n]].data = UserData(v)
            BY <2>1 DEF TableOK
        <3>2. inode'[t[n]].data = inode[t[n]].data
            BY <1>2, <2>2, <3>1 DEF s
        <3> QED
            BY <3>1, <3>2
    <2> QED
        BY <2>1, <2>4, <2>5, <2>6 DEF TableOK
<1>6. FilesOK'
    <2>1. \A i \in Inodes : inode'[i].data.by = "user" => inode'[i].synced
        BY <1>1, <1>2 DEF FilesOK
    <2>2. \A i \in Used : i # s => Whole(i)'
        BY <1>1, <1>2 DEF FilesOK, Whole, Used, s
    <2>3. \A i \in Inodes : inode'[i].data.v <= edits' + 1
        BY <1>1, <1>2 DEF FilesOK
    <2> QED
        BY <1>1, <1>4, <1>5, <2>1, <2>2, <2>3 DEF FilesOK, s
<1> QED
    BY <1>2, <1>3, <1>4, <1>6 DEF s

\* A failed staging leaves the file to the cleanup.
LEMMA CleanupOpenStep ==
    ASSUME RunningOK, pc \in Staging, CleanupOpenStaging
    PROVE  IInv'
<1> USE DEF BeforeStage, Reading, Staging, BeforeCommit, Cleanup, Installed, Reporting, Labels, Early
<1>1. CASE /\ Set("staged_snapshot", file_snapshot(tool.staged))
           /\ Goto("claim")
           /\ UNCHANGED <<files, ghosts>>
    <2>1. tool \in Tools /\ tool.staged \in Used /\ exchanged = NoExchange /\ result = NotYet
        BY DEF RunningOK, ProgressOK, StagedOK, TypesOK
    <2>2. file_snapshot(tool.staged) \in Snapshots
        BY <2>1, SnapshotFacts DEF RunningOK, Used
    <2>3. /\ tool' \in Tools /\ tool'.existed = tool.existed
          /\ tool'.staged = tool.staged /\ tool'.base = tool.base
          /\ tool'.file = tool.file /\ tool'.snapshot = tool.snapshot
        BY <1>1, <2>1, <2>2 DEF Set, Tools
    <2>4. UNCHANGED <<inode, name, slot, live, exchanged, late, past, edits>> /\ pc' = "claim" /\ result' = NotYet
        BY <1>1, <2>1 DEF files, ghosts, Goto
    <2>5. TypesOK' /\ FilesOK' /\ Used' = Used
        BY <2>3, <2>4, RunningFacts, QuietStep
    <2>6. ProgressOK'
        BY <2>1, <2>4 DEF ProgressOK
    <2>7. TargetOK'
        BY <2>3, <2>4, <2>5 DEF TargetOK, RunningOK
    <2>8. StagedOK'
        BY <2>1, <2>3, <2>4, <2>5 DEF StagedOK
    <2>9. ExchangeOK'
        BY <2>4, EarlyExchange
    <2> QED
        BY <2>4, <2>5, <2>6, <2>7, <2>8, <2>9, StepInside DEF RunningOK
<1> QED
    BY <1>1, GiveUpStep DEF CleanupOpenStaging

\* The staged content is written while only the stage name leads to it.
LEMMA StageWriteStep == RunningOK /\ StageWrite => IInv'
<1> SUFFICES ASSUME RunningOK, StageWrite PROVE IInv'
    OBVIOUS
<1> USE DEF BeforeStage, Reading, Staging, BeforeCommit, Cleanup, Installed, Reporting, Labels, Early
<1>1. CASE /\ inode' = [inode EXCEPT ![tool.staged].data = Patched(tool.base),
                                     ![tool.staged].mtime = @ + 1,
                                     ![tool.staged].ctime = @ + 1]
           /\ Goto("sync")
           /\ UNCHANGED <<name, slot, policy, tool, ghosts>>
    <2> DEFINE s == tool.staged
               f == inode'[tool.staged]
    <2>1. /\ tool \in Tools /\ pc = "write" /\ s \in Used /\ inode[s].data = Torn
          /\ exchanged = NoExchange /\ result = NotYet
        BY DEF StageWrite, At, RunningOK, ProgressOK, StagedOK, TypesOK
    <2>2. inode \in [Inodes -> Inode] /\ s \in Inodes /\ inode[s] \in Inode /\ tool.base \in Data
        BY <2>1 DEF RunningOK, TypesOK, Used, Tools
    <2>3. /\ Patched(tool.base) \in Data /\ Patched(tool.base) # Free /\ Patched(tool.base) # Torn
          /\ Patched(tool.base).by # "user" /\ Patched(tool.base).v <= edits + 1
        BY <2>2, DataFacts, RunningFacts
    <2>4. /\ f \in Inode /\ f.data = Patched(tool.base)
          /\ f.synced = inode[s].synced
          /\ inode' = [inode EXCEPT ![s] = f]
        BY <1>1, <2>2, <2>3 DEF Inode
    <2>5. /\ UNCHANGED <<name, slot, tool, live, exchanged, late, past, edits>>
          /\ pc' = "sync" /\ result' = NotYet
        BY <1>1, <2>1 DEF ghosts, Goto
    <2>6. \A v \in live : inode[s].data # UserData(v)
        <3>1. \A v \in live : UserData(v).by = "user"
            BY DEF UserData
        <3> QED
            BY <2>1, <3>1, DataFacts
    <2> HIDE DEF f
    <2>7. TypesOK' /\ FilesOK' /\ Used' = Used /\ inode'[s] = f
        BY <2>1, <2>3, <2>4, <2>5, <2>6, StagedFileChanges
    <2>8. ProgressOK'
        BY <2>1, <2>5 DEF ProgressOK
    <2>9. TargetOK'
        BY <2>1, <2>5, <2>7 DEF TargetOK, RunningOK
    <2>10. StagedOK'
        BY <2>1, <2>3, <2>4, <2>5, <2>7 DEF StagedOK
    <2>11. ExchangeOK'
        BY <2>5, EarlyExchange
    <2> QED
        BY <2>5, <2>7, <2>8, <2>9, <2>10, <2>11, StepInside DEF RunningOK
<1> QED
    BY <1>1, CleanupOpenStep DEF StageWrite, At

\* A step that only flushes the staged file or changes its mode leaves it whole.
LEMMA StagedWholeStep ==
    ASSUME RunningOK, pc \in {"sync", "permissions", "resync"}, NEW f \in Inode,
           f.data = inode[tool.staged].data, f.synced, NEW label \in {"permissions", "resync", "snapshot"},
           inode' = [inode EXCEPT ![tool.staged] = f], Goto(label),
           UNCHANGED <<name, slot, policy, tool, ghosts>>
    PROVE  IInv'
<1> USE DEF BeforeStage, Reading, Staging, BeforeCommit, Cleanup, Installed, Reporting, Labels, Early
<1> DEFINE s == tool.staged
<1>1. /\ tool \in Tools /\ s \in Used /\ inode[s].data # Torn
      /\ exchanged = NoExchange /\ result = NotYet
    BY DEF RunningOK, ProgressOK, StagedOK, TypesOK, Whole
<1>2. inode \in [Inodes -> Inode] /\ s \in Inodes /\ inode[s] \in Inode /\ inode[s].data # Free
    BY <1>1 DEF RunningOK, TypesOK, Used
<1>3. /\ UNCHANGED <<name, slot, tool, live, exchanged, late, past, edits>>
      /\ pc' = label /\ result' = NotYet
    BY <1>1 DEF ghosts, Goto
<1>4. inode[s].data.v <= edits + 1
    BY <1>2 DEF RunningOK, FilesOK
<1>5. TypesOK' /\ FilesOK' /\ Used' = Used /\ inode'[s] = f
    BY <1>1, <1>2, <1>3, <1>4, StagedFileChanges
<1>6. ProgressOK'
    BY <1>1, <1>3 DEF RunningOK, ProgressOK
<1>7. TargetOK'
    BY <1>1, <1>3, <1>5 DEF TargetOK, RunningOK
<1>8. StagedOK'
    BY <1>1, <1>3, <1>5 DEF StagedOK, Whole
<1>9. ExchangeOK'
    BY <1>3, EarlyExchange
<1> QED
    BY <1>3, <1>5, <1>6, <1>7, <1>8, <1>9, StepInside DEF RunningOK

\* sync_all.
LEMMA FlushStagedStep ==
    ASSUME RunningOK, pc \in {"sync", "resync"}, NEW label \in {"permissions", "resync", "snapshot"}, FlushStaged(label)
    PROVE  IInv'
<1> DEFINE f == [inode[tool.staged] EXCEPT !.synced = TRUE]
<1>1. inode[tool.staged] \in Inode
    BY DEF RunningOK, TypesOK, StagedOK, BeforeStage, Reading, Used
<1>2. f \in Inode /\ f.data = inode[tool.staged].data /\ f.synced
    BY <1>1 DEF Inode
<1>3. /\ inode' = [inode EXCEPT ![tool.staged] = f] /\ Goto(label)
      /\ UNCHANGED <<name, slot, policy, tool, ghosts>>
    BY DEF FlushStaged
<1> HIDE DEF f
<1> QED
    BY <1>2, <1>3, StagedWholeStep

\* After the sync the staged file is whole.
LEMMA StageSyncStep == RunningOK /\ StageSync => IInv'
<1> SUFFICES ASSUME RunningOK, StageSync PROVE IInv'
    OBVIOUS
<1>1. pc = "sync"
    BY DEF StageSync, At
<1>2. CASE FlushStaged(IF tool.kind = "modify" THEN "permissions" ELSE "snapshot")
    BY <1>1, <1>2, FlushStagedStep
<1> QED
    BY <1>1, <1>2, CleanupOpenStep DEF StageSync, Staging

\* A change of its mode leaves it whole.
LEMMA StagePermissionsStep == RunningOK /\ StagePermissions => IInv'
<1> SUFFICES ASSUME RunningOK, StagePermissions PROVE IInv'
    OBVIOUS
<1>1. pc = "permissions" /\ pc \in Staging
    BY DEF StagePermissions, At, Staging
<1>2. CASE /\ inode' = [inode EXCEPT ![tool.staged].mode = tool.snapshot.stat.mode,
                                     ![tool.staged].ctime = @ + 1]
           /\ Goto("resync")
           /\ UNCHANGED <<name, slot, policy, tool, ghosts>>
    <2> DEFINE f == inode'[tool.staged]
    <2>1. /\ inode \in [Inodes -> Inode] /\ tool.staged \in Inodes /\ inode[tool.staged] \in Inode
          /\ inode[tool.staged].synced /\ tool.snapshot.stat.mode \in Modes
        BY <1>1 DEF RunningOK, TypesOK, StagedOK, BeforeStage, Reading, Used, Whole, Tools,
                    Snapshots, Stats
    <2>2. /\ f \in Inode /\ f.data = inode[tool.staged].data /\ f.synced
          /\ inode' = [inode EXCEPT ![tool.staged] = f]
        BY <1>2, <2>1 DEF Inode, Modes
    <2> HIDE DEF f
    <2> QED
        BY <1>1, <1>2, <2>2, StagedWholeStep
<1> QED
    BY <1>1, <1>2, CleanupOpenStep DEF StagePermissions

\* The second sync_all.
LEMMA StageResyncStep == RunningOK /\ StageResync => IInv'
<1> SUFFICES ASSUME RunningOK, StageResync PROVE IInv'
    OBVIOUS
<1>1. pc = "resync" /\ pc \in Staging
    BY DEF StageResync, At, Staging
<1> QED
    BY <1>1, FlushStagedStep, CleanupOpenStep DEF StageResync

\* The snapshot names the staged file and the patched content.
LEMMA StageSnapshotStep == RunningOK /\ StageSnapshot => IInv'
<1> SUFFICES ASSUME RunningOK, StageSnapshot PROVE IInv'
    OBVIOUS
<1> USE DEF BeforeStage, Reading, Staging, BeforeCommit, Cleanup, Installed, Reporting, Labels, Early
<1>1. CASE /\ Set("staged_snapshot",
                  [stat |-> file_stat_snapshot(tool.staged), digest |-> Patched(tool.base)])
           /\ Goto("validate_staging")
           /\ UNCHANGED <<files, ghosts>>
    <2> DEFINE snap == [stat |-> file_stat_snapshot(tool.staged), digest |-> Patched(tool.base)]
    <2>1. /\ tool \in Tools /\ pc = "snapshot" /\ tool.staged \in Used /\ Whole(tool.staged)
          /\ exchanged = NoExchange /\ result = NotYet
        BY DEF StageSnapshot, At, RunningOK, ProgressOK, StagedOK, TypesOK
    <2>2. tool.staged \in Inodes /\ tool.base \in Data
        BY <2>1 DEF Used, Tools
    <2>3. /\ file_stat_snapshot(tool.staged) \in Stats /\ file_stat_snapshot(tool.staged).ino = tool.staged
          /\ Patched(tool.base) \in Data
        BY <2>2, SnapshotFacts, DataFacts DEF RunningOK
    <2>4. /\ snap \in Snapshots /\ snap.digest = Patched(tool.base) /\ snap.stat.ino = tool.staged
        BY <2>3 DEF Snapshots
    <2> HIDE DEF snap
    <2>5. /\ tool' \in Tools /\ tool'.existed = tool.existed
          /\ tool'.staged = tool.staged /\ tool'.base = tool.base
          /\ tool'.file = tool.file /\ tool'.snapshot = tool.snapshot /\ tool'.staged_snapshot = snap
        BY <1>1, <2>1, <2>4 DEF Set, Tools, snap
    <2>6. /\ UNCHANGED <<inode, name, slot, live, exchanged, late, past, edits>>
          /\ pc' = "validate_staging" /\ result' = NotYet
        BY <1>1, <2>1 DEF files, ghosts, Goto
    <2>7. TypesOK' /\ FilesOK' /\ Used' = Used
        BY <2>5, <2>6, RunningFacts, QuietStep
    <2>8. ProgressOK'
        BY <2>1, <2>6 DEF ProgressOK
    <2>9. TargetOK'
        BY <2>1, <2>5, <2>6, <2>7 DEF TargetOK, RunningOK
    <2>10. StagedOK'
        BY <2>1, <2>4, <2>5, <2>6, <2>7 DEF StagedOK, Whole
    <2>11. ExchangeOK'
        BY <2>6, EarlyExchange
    <2> QED
        BY <2>6, <2>7, <2>8, <2>9, <2>10, <2>11, StepInside DEF RunningOK
<1> QED
    BY <1>1, CleanupOpenStep DEF StageSnapshot, At

-----------------------------------------------------------------------------
(* The commit. *)

\* A slot check ties the name to the inode of the snapshot.
LEMMA SlotNamesInode ==
    ASSUME TypesOK, NEW n \in Names, NEW snapshot, validate_snapshot_slot(n, snapshot)
    PROVE  name[n] = snapshot.stat.ino
<1>1. name[n] \in Inodes
    BY DEF validate_snapshot_slot, Exists, TypesOK, Tables
<1> QED
    BY <1>1, SnapshotFacts DEF validate_snapshot_slot

\* A refresh ties the content of the inode to the digest of the snapshot.
LEMMA RefreshSeesContent ==
    ASSUME TypesOK, NEW i \in Inodes, NEW snapshot, RefreshSucceeds(i, snapshot)
    PROVE  inode[i].data = snapshot.digest
    BY SnapshotFacts DEF RefreshSucceeds, same_payload_and_metadata

\* A rename by the call keeps the directory's invariant and moves one entry.
LEMMA RenameStep ==
    ASSUME RunningOK, NEW from \in Names \ {"target"}, NEW to \in Names \ {from},
           RenameNoReplace(from, to), to = "target" => Whole(name[from]), Journal,
           UNCHANGED slot, exchanged' \in [taken : Data, put : Data],
           tool' \in Tools, (tool'.existed <=> tool.existed), tool'.existed = tool.existed,
           tool'.staged = tool.staged, tool'.base = tool.base
    PROVE  /\ TypesOK' /\ FilesOK' /\ Used' = Used /\ DataKept /\ name[from] \in Used
           /\ name'[to] = name[from] /\ name'[from] = None
           /\ \A n \in Names \ {from, to} : name'[n] = name[n]
<1>1. TypesOK /\ FilesOK
    BY DEF RunningOK
<1>2. past' = past \cup {name'} /\ UNCHANGED <<live, late, edits>>
    BY DEF Journal
<1>3. DataKept /\ name' \in Tables /\ TableOK(name)' /\ name[from] \in Used
    BY <1>1, <1>2, RenameKeepsTable
<1>4. FilesOK' /\ Used' = Used
    BY <1>1, <1>2, <1>3, RunningFacts, FilesFrame
<1>5. TypesOK'
    BY <1>1, <1>2, <1>3 DEF TypesOK, DataKept
<1>6. name' = [name EXCEPT ![to] = name[from], ![from] = None] /\ name \in Tables
    BY <1>1 DEF RenameNoReplace, TypesOK
<1>7. /\ name'[to] = name[from] /\ name'[from] = None
      /\ \A n \in Names \ {from, to} : name'[n] = name[n]
    BY <1>6 DEF Tables
<1> QED
    BY <1>3, <1>4, <1>5, <1>7

\* Every file is whole by the time the commit can move it.
LEMMA CommitMovesWhole ==
    ASSUME RunningOK, pc \in BeforeCommit, NEW n \in Names, Exists(n)
    PROVE  name[n] \in Used /\ Whole(name[n])
<1>1. name[n] \in Used
    BY DEF RunningOK, TypesOK, FilesOK, TableOK, Tables, Exists, Used
<1>2. CASE name[n] = tool.staged
    BY <1>1, <1>2 DEF RunningOK, StagedOK
<1>3. CASE name[n] # tool.staged
    BY <1>1, <1>3 DEF RunningOK, FilesOK
<1> QED
    BY <1>1, <1>2, <1>3

\* A failure before the commit goes on to claim the staged file.
LEMMA CleanupOwnedStep ==
    ASSUME RunningOK, pc \in BeforeCommit, CleanupOwnedStaging
    PROVE  IInv'
<1> USE DEF BeforeStage, Reading, Staging, BeforeCommit, Cleanup, Installed, Reporting, Labels, Early
<1>1. tool.staged \in Used /\ exchanged = NoExchange /\ result = NotYet
    BY DEF RunningOK, ProgressOK, StagedOK
<1>2. Keep /\ UNCHANGED <<inode, name, tool, exchanged, past, result>> /\ pc' = "claim"
    BY DEF CleanupOwnedStaging, Keep, Goto, files, ghosts
<1>3. ProgressOK'
    BY <1>1, <1>2 DEF ProgressOK
<1>4. TargetOK'
    BY <1>2 DEF TargetOK, RunningOK, Used
<1>5. StagedOK'
    BY <1>1, <1>2 DEF StagedOK, Used
<1>6. ExchangeOK'
    BY <1>2, EarlyExchange
<1> QED
    BY <1>1, <1>2, <1>3, <1>4, <1>5, <1>6, GotoStep

\* The evidence is gathered for the file the failure is about.
LEMMA EvidenceStep ==
    ASSUME RunningOK, NEW published \in BOOLEAN, Evidence(published),
           \/ pc \in BeforeCommit /\ ~published
           \/ pc \in Installed /\ published
    PROVE  IInv'
<1> USE DEF BeforeStage, Reading, Staging, BeforeCommit, Cleanup, Installed, Reporting, Labels, Early
<1>1. /\ tool \in Tools /\ tool.staged \in Used /\ result = NotYet
      /\ (published <=> exchanged # NoExchange) /\ (published => TakenSeen /\ tool.existed)
    BY DEF RunningOK, ProgressOK, StagedOK, TypesOK, ExchangeOK, TargetOK
<1>2. /\ tool' \in Tools /\ tool'.existed = tool.existed /\ tool'.published = published
      /\ tool'.staged = tool.staged /\ tool'.base = tool.base
      /\ tool'.file = tool.file /\ tool'.snapshot = tool.snapshot
    BY <1>1 DEF Evidence, Set, Tools
<1>3. /\ UNCHANGED <<inode, name, slot, live, exchanged, late, past, edits>>
      /\ pc' = "evidence" /\ result' = NotYet
    BY <1>1 DEF Evidence, files, ghosts, Goto
<1>4. TypesOK' /\ FilesOK' /\ Used' = Used
    BY <1>2, <1>3, RunningFacts, QuietStep
<1>5. ProgressOK'
    BY <1>1, <1>2, <1>3 DEF ProgressOK
<1>6. TargetOK'
    BY <1>1, <1>2, <1>3, <1>4 DEF TargetOK, RunningOK
<1>7. StagedOK'
    BY <1>1, <1>2, <1>3, <1>4 DEF StagedOK
<1>8. ExchangeOK'
    BY <1>1, <1>2, <1>3 DEF ExchangeOK, TakenSeen
<1> QED
    BY <1>3, <1>4, <1>5, <1>6, <1>7, <1>8, StepInside DEF RunningOK

\* The checks before the commit change nothing.
LEMMA ValidateStagingStep == RunningOK /\ (ValidateStaging \/ ValidateTarget) => IInv'
<1> SUFFICES ASSUME RunningOK, ValidateStaging \/ ValidateTarget PROVE IInv'
    OBVIOUS
<1> USE DEF BeforeStage, Reading, Staging, BeforeCommit, Cleanup, Installed, Reporting, Labels, Early
<1>1. CASE /\ Keep /\ UNCHANGED result /\ pc \in {"validate_staging", "validate_target"}
           /\ \/ pc' \in {"validate_target", "move"} /\ tool.existed
              \/ pc' = "create" /\ ~tool.existed
    <2>1. tool.staged \in Used /\ exchanged = NoExchange /\ result = NotYet
        BY <1>1 DEF RunningOK, ProgressOK, StagedOK
    <2>2. UNCHANGED <<inode, name, tool, exchanged, past, result>>
        BY <1>1 DEF Keep, files, ghosts
    <2>3. ProgressOK'
        BY <1>1, <2>1, <2>2 DEF ProgressOK
    <2>4. TargetOK'
        BY <1>1, <2>2 DEF TargetOK, RunningOK, Used
    <2>5. StagedOK'
        BY <1>1, <2>1, <2>2 DEF StagedOK, RunningOK, Used, Whole
    <2>6. ExchangeOK'
        BY <1>1, EarlyExchange
    <2> QED
        BY <1>1, <2>1, <2>3, <2>4, <2>5, <2>6, GotoStep
<1>2. CASE pc \in BeforeCommit /\ CleanupOwnedStaging
    BY <1>2, CleanupOwnedStep
<1> QED
    BY <1>1, <1>2 DEF ValidateStaging, ValidateTarget, At, Goto, RunningOK, TargetOK

\* The staged file moves into the recovery directory; the target stays.
LEMMA MoveStep == RunningOK /\ MoveToRecovery => IInv'
<1> SUFFICES ASSUME RunningOK, MoveToRecovery PROVE IInv'
    OBVIOUS
<1> USE DEF BeforeStage, Reading, Staging, BeforeCommit, Cleanup, Installed, Reporting, Labels, Early
<1>1. CASE /\ RenameNoReplace("stage", "recovery")
           /\ Journal
           /\ Goto("validate_moved")
           /\ UNCHANGED <<slot, policy, tool, exchanged>>
    <2>1. tool.staged \in Used /\ exchanged = NoExchange /\ result = NotYet /\ pc = "move"
        BY DEF MoveToRecovery, At, RunningOK, ProgressOK, StagedOK
    <2>2. UNCHANGED <<slot, tool, exchanged>> /\ pc' = "validate_moved" /\ result' = NotYet
        BY <1>1, <2>1 DEF Goto
    <2>3. exchanged \in [taken : Data, put : Data] /\ tool \in Tools
        BY DEF RunningOK, TypesOK
    <2>4. TypesOK' /\ FilesOK' /\ Used' = Used /\ DataKept
        <3>1. "stage" \in Names \ {"target"} /\ "recovery" \in Names \ {"stage"}
            BY DEF Names
        <3> QED
            BY <1>1, <2>2, <2>3, <3>1, RenameStep
    <2>5. ProgressOK'
        BY <2>1, <2>2 DEF ProgressOK
    <2>6. TargetOK'
        BY <2>1, <2>2, <2>4 DEF TargetOK, RunningOK
    <2>7. StagedOK'
        <3>1. Whole(tool.staged)'
            BY <2>1, <2>2, <2>4 DEF RunningOK, StagedOK, Whole, DataKept, Used
        <3> QED
            BY <2>1, <2>2, <2>4, <3>1 DEF StagedOK, RunningOK
    <2>8. ExchangeOK'
        BY <2>2, EarlyExchange
    <2> QED
        BY <2>2, <2>4, <2>5, <2>6, <2>7, <2>8, StepInside DEF RunningOK
<1>2. CASE pc \in BeforeCommit /\ CleanupOwnedStaging
    BY <1>2, CleanupOwnedStep
<1> QED
    BY <1>1, <1>2 DEF MoveToRecovery, At

\* The refreshed snapshot still names the staged file and its content.
LEMMA ValidateMovedStep == RunningOK /\ ValidateMoved => IInv'
<1> SUFFICES ASSUME RunningOK, ValidateMoved PROVE IInv'
    OBVIOUS
<1> USE DEF BeforeStage, Reading, Staging, BeforeCommit, Cleanup, Installed, Reporting, Labels, Early
<1>1. CASE /\ RefreshSucceeds(tool.staged, tool.staged_snapshot)
           /\ Set("staged_snapshot", file_snapshot(tool.staged))
           /\ Goto("validate_namespace")
           /\ UNCHANGED <<files, ghosts>>
    <2>1. /\ tool \in Tools /\ pc = "validate_moved" /\ tool.staged \in Used /\ Whole(tool.staged)
          /\ tool.staged_snapshot.digest = Patched(tool.base)
          /\ exchanged = NoExchange /\ result = NotYet
        BY DEF ValidateMoved, At, RunningOK, ProgressOK, StagedOK, TypesOK
    <2>2. tool.staged \in Inodes /\ TypesOK
        BY <2>1 DEF Used, RunningOK
    <2>3. inode[tool.staged].data = Patched(tool.base)
        BY <1>1, <2>1, <2>2, RefreshSeesContent
    <2>4. /\ file_snapshot(tool.staged) \in Snapshots
          /\ file_snapshot(tool.staged).stat.ino = tool.staged
          /\ file_snapshot(tool.staged).digest = Patched(tool.base)
        BY <2>2, <2>3, SnapshotFacts
    <2>5. /\ tool' \in Tools /\ tool'.existed = tool.existed
          /\ tool'.staged = tool.staged /\ tool'.base = tool.base
          /\ tool'.file = tool.file /\ tool'.snapshot = tool.snapshot
          /\ tool'.staged_snapshot = file_snapshot(tool.staged)
        BY <1>1, <2>1, <2>4 DEF Set, Tools
    <2>6. /\ UNCHANGED <<inode, name, slot, live, exchanged, late, past, edits>>
          /\ pc' = "validate_namespace" /\ result' = NotYet
        BY <1>1, <2>1 DEF files, ghosts, Goto
    <2>7. TypesOK' /\ FilesOK' /\ Used' = Used
        BY <2>5, <2>6, RunningFacts, QuietStep
    <2>8. ProgressOK'
        BY <2>1, <2>6 DEF ProgressOK
    <2>9. TargetOK'
        BY <2>1, <2>5, <2>6, <2>7 DEF TargetOK, RunningOK
    <2>10. StagedOK'
        BY <2>1, <2>4, <2>5, <2>6, <2>7 DEF StagedOK, Whole
    <2>11. ExchangeOK'
        BY <2>6, EarlyExchange
    <2> QED
        BY <2>6, <2>7, <2>8, <2>9, <2>10, <2>11, StepInside DEF RunningOK
<1>2. CASE pc \in BeforeCommit /\ Evidence(FALSE)
    BY <1>2, EvidenceStep
<1> QED
    BY <1>1, <1>2 DEF ValidateMoved, At

\* The last check before the exchange changes nothing.
LEMMA ValidateNamespaceStep == RunningOK /\ ValidateNamespace => IInv'
<1> SUFFICES ASSUME RunningOK, ValidateNamespace PROVE IInv'
    OBVIOUS
<1> USE DEF BeforeStage, Reading, Staging, BeforeCommit, Cleanup, Installed, Reporting, Labels, Early
<1>1. CASE Goto("exchange") /\ Keep
    <2>1. tool.staged \in Used /\ exchanged = NoExchange /\ result = NotYet /\ pc = "validate_namespace"
        BY DEF ValidateNamespace, At, RunningOK, ProgressOK, StagedOK
    <2>2. UNCHANGED <<inode, name, tool, exchanged, past, result>> /\ pc' = "exchange"
        BY <1>1 DEF Keep, files, ghosts, Goto
    <2>3. ProgressOK'
        BY <2>1, <2>2 DEF ProgressOK
    <2>4. TargetOK'
        BY <2>1, <2>2 DEF TargetOK, RunningOK, Used
    <2>5. StagedOK'
        BY <2>1, <2>2 DEF StagedOK, RunningOK, Used, Whole
    <2>6. ExchangeOK'
        BY <2>2, EarlyExchange
    <2> QED
        BY <1>1, <2>1, <2>2, <2>3, <2>4, <2>5, <2>6, GotoStep
<1>2. CASE pc \in BeforeCommit /\ Evidence(FALSE)
    BY <1>2, EvidenceStep
<1> QED
    BY <1>1, <1>2 DEF ValidateNamespace, At

\* Both entries are whole files, and each stays under a name: the commit point.
LEMMA ExchangeStep == RunningOK /\ Exchange => IInv'
<1> SUFFICES ASSUME RunningOK, Exchange PROVE IInv'
    OBVIOUS
<1> USE DEF BeforeStage, Reading, Staging, BeforeCommit, Cleanup, Installed, Reporting, Labels, Early
<1>1. CASE /\ exchange_files_between("recovery", "target")
           /\ exchanged' = [taken |-> inode[name["target"]].data,
                            put |-> inode[name["recovery"]].data]
           /\ Journal
           /\ Goto("refresh")
           /\ UNCHANGED <<slot, policy, tool>>
    <2>1. TypesOK /\ FilesOK /\ tool.staged \in Used /\ tool.existed /\ tool.file \in Used
          /\ result = NotYet /\ pc = "exchange"
        BY DEF Exchange, At, RunningOK, ProgressOK, StagedOK, TargetOK
    <2>2. /\ UNCHANGED <<slot, tool, live, late, edits>> /\ past' = past \cup {name'}
          /\ pc' = "refresh" /\ result' = NotYet
        BY <1>1, <2>1 DEF Goto, Journal
    <2>3. Whole(name["recovery"]) /\ name["recovery"] \in Used /\ name["target"] \in Used
        BY <1>1, <2>1, CommitMovesWhole DEF exchange_files_between, Names
    <2>4. /\ DataKept /\ name' \in Tables /\ TableOK(name)'
          /\ name'["recovery"] = name["target"] /\ name'["target"] = name["recovery"]
        BY <1>1, <2>1, <2>2, <2>3, ExchangeKeepsTable
    <2>5. FilesOK' /\ Used' = Used
        BY <2>1, <2>2, <2>4, RunningFacts, FilesFrame
    <2>6. /\ exchanged' \in [taken : Data, put : Data] /\ exchanged'.put # Free
          /\ exchanged'.taken = inode[name["target"]].data
          /\ exchanged'.put = inode[name["recovery"]].data
        BY <1>1, <2>1, <2>3 DEF TypesOK, Used, Inode
    <2>7. TypesOK'
        BY <2>1, <2>2, <2>4, <2>6 DEF TypesOK, DataKept
    <2>8. ProgressOK'
        <3>1. exchanged' # NoExchange
            BY <2>6 DEF NoExchange
        <3> QED
            BY <2>2, <3>1 DEF ProgressOK
    <2>9. TargetOK'
        BY <2>1, <2>2, <2>5 DEF TargetOK, RunningOK
    <2>10. StagedOK'
        BY <2>1, <2>2, <2>5 DEF StagedOK, RunningOK
    <2>11. ExchangeOK'
        <3>1. tool.file \in Inodes /\ tool.staged \in Inodes
            BY <2>1 DEF Used
        <3>2. TakenSeen' /\ PutSeen'
            BY <2>2, <2>4, <2>6, <3>1 DEF TakenSeen, PutSeen, DataKept
        <3> QED
            BY <2>2, <3>2 DEF ExchangeOK
    <2> QED
        BY <2>2, <2>5, <2>7, <2>8, <2>9, <2>10, <2>11, StepInside DEF RunningOK
<1>2. CASE pc \in BeforeCommit /\ Evidence(FALSE)
    BY <1>2, EvidenceStep
<1> QED
    BY <1>1, <1>2 DEF Exchange, At

\* The digests of both files tell what was taken and what was put, even when the
\* clock does not.
LEMMA RefreshStep == RunningOK /\ RefreshExchanged => IInv'
<1> SUFFICES ASSUME RunningOK, RefreshExchanged PROVE IInv'
    OBVIOUS
<1> USE DEF BeforeStage, Reading, Staging, BeforeCommit, Cleanup, Installed, Reporting, Labels, Early
<1>1. CASE /\ RefreshSucceeds(tool.staged, tool.staged_snapshot)
           /\ RefreshSucceeds(tool.file, tool.snapshot)
           /\ tool' = [tool EXCEPT !.staged_snapshot = file_snapshot(tool.staged),
                                   !.snapshot = file_snapshot(tool.file)]
           /\ Goto("validate_installed")
           /\ UNCHANGED <<files, ghosts>>
    <2>1. /\ tool \in Tools /\ pc = "refresh" /\ tool.staged \in Used /\ tool.file \in Used /\ tool.existed
          /\ tool.staged_snapshot.digest = Patched(tool.base)
          /\ tool.snapshot.digest = tool.base
          /\ exchanged # NoExchange /\ result = NotYet
          /\ TakenSeen /\ PutSeen
        BY DEF RefreshExchanged, At, RunningOK, ProgressOK, StagedOK, TypesOK, TargetOK, ExchangeOK
    <2>2. tool.staged \in Inodes /\ tool.file \in Inodes /\ TypesOK
        BY <2>1 DEF Used, RunningOK
    <2>3. inode[tool.staged].data = Patched(tool.base) /\ inode[tool.file].data = tool.base
        BY <1>1, <2>1, <2>2, RefreshSeesContent
    <2>4. /\ file_snapshot(tool.staged) \in Snapshots
          /\ file_snapshot(tool.staged).stat.ino = tool.staged
          /\ file_snapshot(tool.staged).digest = Patched(tool.base)
          /\ file_snapshot(tool.file) \in Snapshots
          /\ file_snapshot(tool.file).stat.ino = tool.file
          /\ file_snapshot(tool.file).digest = tool.base
        BY <2>2, <2>3, SnapshotFacts
    <2>5. /\ tool' \in Tools /\ tool'.existed = tool.existed
          /\ tool'.staged = tool.staged /\ tool'.base = tool.base
          /\ tool'.file = tool.file /\ tool'.snapshot = file_snapshot(tool.file)
          /\ tool'.staged_snapshot = file_snapshot(tool.staged)
        BY <1>1, <2>1, <2>4 DEF Tools
    <2>6. /\ UNCHANGED <<inode, name, slot, live, exchanged, late, past, edits>>
          /\ pc' = "validate_installed" /\ result' = NotYet
        BY <1>1, <2>1 DEF files, ghosts, Goto
    <2>7. TypesOK' /\ FilesOK' /\ Used' = Used
        BY <2>5, <2>6, RunningFacts, QuietStep
    <2>8. ProgressOK'
        BY <2>1, <2>6 DEF ProgressOK
    <2>9. TargetOK'
        BY <2>1, <2>4, <2>5, <2>6, <2>7 DEF TargetOK
    <2>10. StagedOK'
        BY <2>1, <2>4, <2>5, <2>6, <2>7 DEF StagedOK
    <2>11. ExchangeOK'
        BY <2>1, <2>3, <2>5, <2>6 DEF ExchangeOK, TakenSeen, PutSeen
    <2> QED
        BY <2>6, <2>7, <2>8, <2>9, <2>10, <2>11, StepInside DEF RunningOK
<1>2. CASE pc \in Installed /\ Evidence(TRUE)
    BY <1>2, EvidenceStep
<1> QED
    BY <1>1, <1>2 DEF RefreshExchanged, At

\* The staged file is at the target, so what was put there is the patch.
LEMMA ValidateInstalledStep == RunningOK /\ ValidateInstalled => IInv'
<1> SUFFICES ASSUME RunningOK, ValidateInstalled PROVE IInv'
    OBVIOUS
<1> USE DEF BeforeStage, Reading, Staging, BeforeCommit, Cleanup, Installed, Reporting, Labels, Early
<1>1. CASE validate_snapshot_slot("target", tool.staged_snapshot) /\ Goto("validate_displaced") /\ Keep
    <2>1. /\ tool.staged \in Used /\ exchanged # NoExchange /\ result = NotYet
          /\ pc = "validate_installed" /\ tool.staged_snapshot.stat.ino = tool.staged
        BY DEF ValidateInstalled, At, RunningOK, ProgressOK, StagedOK
    <2>2. UNCHANGED <<inode, name, tool, exchanged, past, late, result>> /\ pc' = "validate_displaced"
        BY <1>1 DEF Keep, files, ghosts, Goto
    <2>3. name["target"] = tool.staged
        BY <1>1, <2>1, SlotNamesInode DEF RunningOK, Names
    <2>4. ProgressOK'
        BY <2>1, <2>2 DEF ProgressOK
    <2>5. TargetOK'
        BY <2>1, <2>2 DEF TargetOK, RunningOK, Used
    <2>6. StagedOK'
        BY <2>1, <2>2 DEF StagedOK, RunningOK, Used, Whole
    <2>7. ExchangeOK'
        BY <2>1, <2>2, <2>3 DEF ExchangeOK, RunningOK, TakenSeen
    <2> QED
        BY <1>1, <2>1, <2>2, <2>4, <2>5, <2>6, <2>7, GotoStep
<1>2. CASE pc \in Installed /\ Evidence(TRUE)
    BY <1>2, EvidenceStep
<1> QED
    BY <1>1, <1>2 DEF ValidateInstalled, At

\* The displaced file is in the recovery entry, so what was taken is the base.
LEMMA ValidateDisplacedStep == RunningOK /\ ValidateDisplaced => IInv'
<1> SUFFICES ASSUME RunningOK, ValidateDisplaced PROVE IInv'
    OBVIOUS
<1> USE DEF BeforeStage, Reading, Staging, BeforeCommit, Cleanup, Installed, Reporting, Labels, Early
<1>1. CASE /\ validate_snapshot_slot("recovery", tool.snapshot)
           /\ late' = FALSE
           /\ Goto("confirm_namespace")
           /\ UNCHANGED <<files, tool, live, exchanged, past, edits>>
    <2>1. /\ tool.staged \in Used /\ exchanged # NoExchange /\ result = NotYet /\ tool.existed
          /\ pc = "validate_displaced" /\ tool.snapshot.stat.ino = tool.file
        BY DEF ValidateDisplaced, At, RunningOK, ProgressOK, StagedOK, TargetOK
    <2>2. /\ UNCHANGED <<inode, name, slot, tool, live, exchanged, past, edits>>
          /\ pc' = "confirm_namespace" /\ result' = NotYet
        BY <1>1, <2>1 DEF files, Goto
    <2>3. name["recovery"] = tool.file
        BY <1>1, <2>1, SlotNamesInode DEF RunningOK, Names
    <2>4. TypesOK' /\ FilesOK' /\ Used' = Used
        BY <1>1, <2>2, RunningFacts, QuietStep
    <2>5. ProgressOK'
        BY <2>1, <2>2 DEF ProgressOK
    <2>6. TargetOK'
        BY <2>1, <2>2, <2>4 DEF TargetOK, RunningOK
    <2>7. StagedOK'
        BY <2>1, <2>2, <2>4 DEF StagedOK, RunningOK
    <2>8. ExchangeOK'
        BY <2>1, <2>2, <2>3 DEF ExchangeOK, RunningOK, TakenSeen
    <2> QED
        BY <2>2, <2>4, <2>5, <2>6, <2>7, <2>8, StepInside DEF RunningOK
<1>2. CASE pc \in Installed /\ Evidence(TRUE)
    BY <1>2, EvidenceStep
<1> QED
    BY <1>1, <1>2 DEF ValidateDisplaced, At

\* Success is reported with the file still where the report says, unless
\* another program came late.
LEMMA ConfirmNamespaceStep == RunningOK /\ ConfirmNamespace => IInv'
<1> SUFFICES ASSUME RunningOK, ConfirmNamespace PROVE IInv'
    OBVIOUS
<1> USE DEF BeforeStage, Reading, Staging, BeforeCommit, Cleanup, Installed, Reporting, Labels, Early
<1>1. CASE NamespaceState(tool.dir) = "ok" /\ Return("applied", "located_verified") /\ Keep
    <2>1. /\ pc = "confirm_namespace" /\ exchanged \in [taken : Data, put : Data]
          /\ exchanged.put = Patched(tool.base) /\ exchanged.taken = tool.base
          /\ (~late => name["recovery"] = tool.file) /\ exchanged # NoExchange
        BY DEF ConfirmNamespace, At, RunningOK, ExchangeOK, TypesOK, ProgressOK
    <2>2. exchanged = [taken |-> tool.base, put |-> Patched(tool.base)]
        BY <2>1
    <2>3. slot = tool.dir
        BY <1>1 DEF NamespaceState
    <2>4. /\ UNCHANGED <<inode, name, slot, tool, exchanged, late>> /\ pc' = "done"
          /\ result' = [state |-> "applied", recovery |-> "located_verified"]
        BY <1>1 DEF Return, Keep, files, ghosts
    <2>5. PatchReportIsTrue'
        BY <2>1, <2>2, <2>4 DEF PatchReportIsTrue
    <2>6. RecoveryPathIsTrue'
        BY <2>1, <2>3, <2>4 DEF RecoveryPathIsTrue
    <2> QED
        BY <1>1, <2>4, <2>5, <2>6, ReturnStep
<1>2. CASE pc \in Installed /\ Evidence(TRUE)
    BY <1>2, EvidenceStep
<1> QED
    BY <1>1, <1>2 DEF ConfirmNamespace, At

\* A new file is renamed to a free target; nothing is taken.
LEMMA RenameNewStep == RunningOK /\ RenameNew => IInv'
<1> SUFFICES ASSUME RunningOK, RenameNew PROVE IInv'
    OBVIOUS
<1> USE DEF BeforeStage, Reading, Staging, BeforeCommit, Cleanup, Installed, Reporting, Labels, Early
<1>1. CASE /\ RenameNoReplace("stage", "target")
           /\ exchanged' = [taken |-> Free, put |-> inode[name["stage"]].data]
           /\ Journal
           /\ Goto("validate_new")
           /\ UNCHANGED <<slot, policy, tool>>
    <2>1. /\ TypesOK /\ FilesOK /\ tool.staged \in Used /\ ~tool.existed /\ tool \in Tools
          /\ result = NotYet /\ pc = "create"
        BY DEF RenameNew, At, RunningOK, ProgressOK, StagedOK, TargetOK, TypesOK
    <2>2. UNCHANGED <<slot, tool>> /\ pc' = "validate_new" /\ result' = NotYet
        BY <1>1, <2>1 DEF Goto
    <2>3. "stage" \in Names \ {"target"} /\ "target" \in Names \ {"stage"}
        BY DEF Names
    <2>4. Whole(name["stage"]) /\ name["stage"] \in Used
        BY <1>1, <2>1, <2>3, CommitMovesWhole DEF RenameNoReplace
    <2>5. /\ exchanged' \in [taken : Data, put : Data] /\ exchanged'.put # Free
          /\ exchanged'.taken = Free /\ exchanged'.put = inode[name["stage"]].data
        BY <1>1, <2>1, <2>4, DataFacts DEF TypesOK, Used, Inode
    <2>6. TypesOK' /\ FilesOK' /\ Used' = Used /\ DataKept /\ name'["target"] = name["stage"]
        BY <1>1, <2>1, <2>2, <2>3, <2>4, <2>5, RenameStep
    <2>7. ProgressOK'
        <3>1. exchanged' # NoExchange
            BY <2>5 DEF NoExchange
        <3> QED
            BY <2>2, <3>1 DEF ProgressOK
    <2>8. TargetOK'
        BY <2>1, <2>2, <2>6 DEF TargetOK, RunningOK
    <2>9. StagedOK'
        BY <2>1, <2>2, <2>6 DEF StagedOK, RunningOK
    <2>10. ExchangeOK'
        <3>1. tool.staged \in Inodes
            BY <2>1 DEF Used
        <3>2. PutSeen'
            BY <2>2, <2>5, <2>6, <3>1 DEF PutSeen, DataKept
        <3> QED
            BY <2>2, <2>5, <3>2 DEF ExchangeOK
    <2> QED
        BY <2>2, <2>6, <2>7, <2>8, <2>9, <2>10, StepInside DEF RunningOK
<1>2. CASE pc \in BeforeCommit /\ CleanupOwnedStaging
    BY <1>2, CleanupOwnedStep
<1> QED
    BY <1>1, <1>2 DEF RenameNew, At

\* A new file is reported as applied only if it holds the patch.
LEMMA ValidateNewStep == RunningOK /\ ValidateNew => IInv'
<1> SUFFICES ASSUME RunningOK, ValidateNew PROVE IInv'
    OBVIOUS
<1> USE DEF BeforeStage, Reading, Staging, BeforeCommit, Cleanup, Installed, Reporting, Labels, Early
<1>1. /\ pc = "validate_new" /\ Keep /\ TypesOK /\ exchanged # NoExchange
      /\ UNCHANGED <<inode, name, tool, exchanged>>
    BY DEF ValidateNew, At, Keep, files, ghosts, RunningOK, ProgressOK
<1>2. CASE /\ RefreshSucceeds(tool.staged, tool.staged_snapshot)
           /\ validate_snapshot_slot("target", file_snapshot(tool.staged))
           /\ Return("applied", "none")
    <2>1. /\ tool.staged \in Used /\ tool.base = Free /\ exchanged.taken = Free /\ PutSeen
          /\ tool.staged_snapshot.digest = Patched(tool.base)
          /\ exchanged \in [taken : Data, put : Data]
        BY <1>1 DEF RunningOK, StagedOK, TargetOK, ExchangeOK, TypesOK
    <2>2. tool.staged \in Inodes
        BY <2>1 DEF Used
    <2>3. inode[tool.staged].data = Patched(tool.base)
        BY <1>1, <1>2, <2>1, <2>2, RefreshSeesContent
    <2>4. name["target"] = tool.staged
        BY <1>1, <1>2, <2>2, SlotNamesInode, SnapshotFacts DEF Names
    <2>5. exchanged.put = Patched(tool.base)
        BY <2>1, <2>3, <2>4 DEF PutSeen
    <2>6. exchanged = [taken |-> tool.base, put |-> Patched(tool.base)]
        BY <2>1, <2>5
    <2>7. result' = [state |-> "applied", recovery |-> "none"] /\ pc' = "done"
        BY <1>2 DEF Return
    <2>8. PatchReportIsTrue'
        BY <1>1, <2>6, <2>7 DEF PatchReportIsTrue
    <2>9. RecoveryPathIsTrue'
        BY <2>7 DEF RecoveryPathIsTrue, ReportsRecoveryFile
    <2> QED
        BY <1>1, <2>7, <2>8, <2>9, ReturnStep
<1>3. CASE Return("published", "not_applicable_new_file")
    <2>1. result' = [state |-> "published", recovery |-> "not_applicable_new_file"] /\ pc' = "done"
        BY <1>3 DEF Return
    <2>2. PatchReportIsTrue'
        BY <1>1, <2>1 DEF PatchReportIsTrue
    <2>3. RecoveryPathIsTrue'
        BY <2>1 DEF RecoveryPathIsTrue, ReportsRecoveryFile
    <2> QED
        BY <1>1, <2>1, <2>2, <2>3, ReturnStep
<1> QED
    BY <1>2, <1>3 DEF ValidateNew

-----------------------------------------------------------------------------
(* The cleanup of a failed commit. *)

\* Claiming renames whatever is at the stage name and destroys nothing.
LEMMA ClaimStep == RunningOK /\ ClaimStaging => IInv'
<1> SUFFICES ASSUME RunningOK, ClaimStaging PROVE IInv'
    OBVIOUS
<1> USE DEF BeforeStage, Reading, Staging, BeforeCommit, Cleanup, Installed, Reporting, Labels, Early
<1>1. CASE /\ RenameNoReplace("stage", "claim")
           /\ Journal
           /\ Goto("match")
           /\ UNCHANGED <<slot, policy, tool, exchanged>>
    <2>1. /\ tool.staged \in Used /\ exchanged = NoExchange /\ result = NotYet /\ pc = "claim"
          /\ exchanged \in [taken : Data, put : Data] /\ tool \in Tools
        BY DEF ClaimStaging, At, RunningOK, ProgressOK, StagedOK, TypesOK
    <2>2. UNCHANGED <<slot, tool, exchanged>> /\ pc' = "match" /\ result' = NotYet
        BY <1>1, <2>1 DEF Goto
    <2>3. TypesOK' /\ FilesOK' /\ Used' = Used
        <3>1. "stage" \in Names \ {"target"} /\ "claim" \in Names \ {"stage"}
            BY DEF Names
        <3> QED
            BY <1>1, <2>1, <2>2, <3>1, RenameStep
    <2>4. ProgressOK'
        BY <2>1, <2>2 DEF ProgressOK
    <2>5. TargetOK'
        BY <2>1, <2>2, <2>3 DEF TargetOK, RunningOK
    <2>6. StagedOK'
        BY <2>1, <2>2, <2>3 DEF StagedOK
    <2>7. ExchangeOK'
        BY <2>2, EarlyExchange
    <2> QED
        BY <2>2, <2>3, <2>4, <2>5, <2>6, <2>7, StepInside DEF RunningOK
<1> QED
    BY <1>1, GiveUpStep DEF ClaimStaging, At

\* An entry that is not the staged file goes back or stays under the claim.
LEMMA MatchStep == RunningOK /\ MatchClaimed => IInv'
<1> SUFFICES ASSUME RunningOK, MatchClaimed PROVE IInv'
    OBVIOUS
<1> USE DEF BeforeStage, Reading, Staging, BeforeCommit, Cleanup, Installed, Reporting, Labels, Early
<1>0. /\ tool.staged \in Used /\ exchanged = NoExchange /\ result = NotYet /\ pc = "match"
      /\ exchanged \in [taken : Data, put : Data] /\ tool \in Tools
    BY DEF MatchClaimed, At, RunningOK, ProgressOK, StagedOK, TypesOK
<1>1. CASE Goto("preserve_dir") /\ Keep
    <2>1. UNCHANGED <<inode, name, tool, exchanged, past, result>> /\ pc' = "preserve_dir"
        BY <1>1 DEF Keep, files, ghosts, Goto
    <2>2. ProgressOK'
        BY <1>0, <2>1 DEF ProgressOK
    <2>3. TargetOK'
        BY <1>0, <2>1 DEF TargetOK, RunningOK, Used
    <2>4. StagedOK'
        BY <1>0, <2>1 DEF StagedOK, Used
    <2>5. ExchangeOK'
        BY <2>1, EarlyExchange
    <2> QED
        BY <1>0, <1>1, <2>1, <2>2, <2>3, <2>4, <2>5, GotoStep
<1>2. CASE /\ RenameNoReplace("claim", "stage")
           /\ Journal
           /\ Return("failed", "none")
           /\ UNCHANGED <<slot, policy, tool, exchanged>>
    <2>1. /\ UNCHANGED <<slot, tool, exchanged>> /\ pc' = "done"
          /\ result' = [state |-> "failed", recovery |-> "none"]
        BY <1>2 DEF Return
    <2>2. TypesOK' /\ FilesOK' /\ Used' = Used
        <3>1. "claim" \in Names \ {"target"} /\ "stage" \in Names \ {"claim"}
            BY DEF Names
        <3> QED
            BY <1>0, <1>2, <2>1, <3>1, RenameStep
    <2>3. ProgressOK' /\ StagedOK' /\ ExchangeOK'
        BY <2>1 DEF ProgressOK, StagedOK, ExchangeOK
    <2>4. TargetOK'
        BY <2>1 DEF TargetOK, RunningOK
    <2>5. PatchReportIsTrue' /\ RecoveryPathIsTrue'
        BY <1>0, <2>1 DEF PatchReportIsTrue, RecoveryPathIsTrue, ReportsRecoveryFile
    <2> QED
        BY <2>1, <2>2, <2>3, <2>4, <2>5 DEF IInv, RunningOK
<1> QED
    BY <1>0, <1>1, <1>2, GiveUpStep DEF MatchClaimed, RestoreClaimed

\* The recovery directory is opened again for the claimed file.
LEMMA PreserveOpenStep == RunningOK /\ PreserveOpen => IInv'
<1> SUFFICES ASSUME RunningOK, PreserveOpen PROVE IInv'
    OBVIOUS
<1> USE DEF BeforeStage, Reading, Staging, BeforeCommit, Cleanup, Installed, Reporting, Labels, Early
<1>1. CASE OpenNamespace("preserve") /\ UNCHANGED <<inode, name, ghosts>>
    <2>1. pc = "preserve_dir" /\ tool.staged \in Used /\ exchanged = NoExchange /\ result = NotYet
        BY DEF PreserveOpen, At, RunningOK, ProgressOK, StagedOK
    <2>2. /\ TypesOK' /\ FilesOK' /\ Used' = Used /\ pc' = "preserve" /\ result' = result
          /\ UNCHANGED <<inode, name, exchanged, past>>
          /\ (tool'.existed <=> tool.existed) /\ tool'.staged = tool.staged /\ tool'.base = tool.base
          /\ tool'.file = tool.file /\ tool'.snapshot = tool.snapshot
        BY <1>1, NamespaceStep
    <2>3. ProgressOK'
        BY <2>1, <2>2 DEF ProgressOK
    <2>4. TargetOK'
        BY <2>1, <2>2 DEF TargetOK, RunningOK
    <2>5. StagedOK'
        BY <2>1, <2>2 DEF StagedOK
    <2>6. ExchangeOK'
        BY <2>2, EarlyExchange
    <2> QED
        BY <2>1, <2>2, <2>3, <2>4, <2>5, <2>6, StepInside DEF RunningOK
<1> QED
    BY <1>1, GiveUpStep DEF PreserveOpen, At

\* The claimed file moves on to the recovery directory, nothing published.
LEMMA PreserveStep == RunningOK /\ PreserveClaimed => IInv'
<1> SUFFICES ASSUME RunningOK, PreserveClaimed PROVE IInv'
    OBVIOUS
<1> USE DEF BeforeStage, Reading, Staging, BeforeCommit, Cleanup, Installed, Reporting, Labels, Early
<1>1. CASE /\ RenameNoReplace("claim", "recovery")
           /\ Journal
           /\ Set("published", FALSE)
           /\ Goto("evidence")
           /\ UNCHANGED <<slot, policy, exchanged>>
    <2>1. /\ tool.staged \in Used /\ exchanged = NoExchange /\ result = NotYet /\ pc = "preserve"
          /\ exchanged \in [taken : Data, put : Data] /\ tool \in Tools
        BY DEF PreserveClaimed, At, RunningOK, ProgressOK, StagedOK, TypesOK
    <2>2. UNCHANGED <<slot, exchanged>> /\ pc' = "evidence" /\ result' = NotYet
        BY <1>1, <2>1 DEF Goto
    <2>3. /\ tool' \in Tools /\ tool'.existed = tool.existed /\ ~tool'.published
          /\ tool'.staged = tool.staged /\ tool'.base = tool.base
          /\ tool'.file = tool.file /\ tool'.snapshot = tool.snapshot
        BY <1>1, <2>1 DEF Set, Tools
    <2>4. TypesOK' /\ FilesOK' /\ Used' = Used
        <3>1. "claim" \in Names \ {"target"} /\ "recovery" \in Names \ {"claim"}
            BY DEF Names
        <3> QED
            BY <1>1, <2>1, <2>2, <2>3, <3>1, RenameStep
    <2>5. ProgressOK'
        BY <2>1, <2>2, <2>3 DEF ProgressOK
    <2>6. TargetOK'
        BY <2>1, <2>2, <2>3, <2>4 DEF TargetOK, RunningOK
    <2>7. StagedOK'
        BY <2>1, <2>2, <2>3, <2>4 DEF StagedOK
    <2>8. ExchangeOK'
        BY <2>2, <2>3 DEF ExchangeOK
    <2> QED
        BY <2>2, <2>4, <2>5, <2>6, <2>7, <2>8, StepInside DEF RunningOK
<1> QED
    BY <1>1, GiveUpStep DEF PreserveClaimed, At

-----------------------------------------------------------------------------
(* The recovery evidence. *)

\* What the answers of the inspection mean.
LEMMA InspectionFacts ==
    ASSUME NEW i, NEW snapshot
    PROVE  /\ InspectContent(i, snapshot) \in {"failed", "mismatch", "verified"}
           /\ InspectContent(i, snapshot) = "verified" =>
                 /\ name["recovery"] = i
                 /\ same_payload_and_metadata(file_snapshot(i), snapshot)
    BY DEF InspectContent

\* A report without a located file is true of the exchange alone.
LEMMA UnlocatedStep ==
    ASSUME RunningOK, pc \in Reporting, Return(Outcome, "unlocated"), Keep
    PROVE  IInv'
<1>1. /\ result' = [state |-> Outcome, recovery |-> "unlocated"] /\ pc' = "done"
      /\ tool' = tool /\ exchanged' = exchanged
    BY DEF Return, Keep, files, ghosts
<1>2. tool.published <=> exchanged # NoExchange
    BY DEF RunningOK, ProgressOK
<1>3. PatchReportIsTrue'
    BY <1>1, <1>2 DEF PatchReportIsTrue, Outcome
<1>4. RecoveryPathIsTrue'
    BY <1>1 DEF RecoveryPathIsTrue, ReportsRecoveryFile
<1> QED
    BY <1>1, <1>3, <1>4, ReturnStep

\* A directory that is not the one opened leaves the file unlocated.
LEMMA PolicyBeforeStep == RunningOK /\ PolicyBefore => IInv'
<1> SUFFICES ASSUME RunningOK, PolicyBefore PROVE IInv'
    OBVIOUS
<1> USE DEF BeforeStage, Reading, Staging, BeforeCommit, Cleanup, Installed, Reporting, Labels, Early
<1>0. /\ tool.staged \in Used /\ result = NotYet /\ pc = "evidence" /\ tool \in Tools
      /\ (tool.published <=> exchanged # NoExchange) /\ (tool.published => TakenSeen)
    BY DEF PolicyBefore, At, RunningOK, ProgressOK, StagedOK, TypesOK, ExchangeOK
<1>1. CASE Return(Outcome, "unlocated") /\ Keep
    BY <1>0, <1>1, UnlocatedStep
<1>2. ASSUME NEW look, Set("policy_before", look = "ok"), Goto("inspect"), UNCHANGED <<files, ghosts>>
      PROVE  IInv'
    <2>1. /\ tool' \in Tools /\ tool'.existed = tool.existed /\ tool'.published = tool.published
          /\ tool'.staged = tool.staged /\ tool'.base = tool.base
          /\ tool'.file = tool.file /\ tool'.snapshot = tool.snapshot
        BY <1>0, <1>2 DEF Set, Tools
    <2>2. /\ UNCHANGED <<inode, name, slot, live, exchanged, late, past, edits>>
          /\ pc' = "inspect" /\ result' = NotYet
        BY <1>0, <1>2 DEF files, ghosts, Goto
    <2>3. TypesOK' /\ FilesOK' /\ Used' = Used
        BY <2>1, <2>2, RunningFacts, QuietStep
    <2>4. ProgressOK'
        BY <1>0, <2>1, <2>2 DEF ProgressOK
    <2>5. TargetOK'
        BY <1>0, <2>1, <2>2, <2>3 DEF TargetOK, RunningOK
    <2>6. StagedOK'
        BY <1>0, <2>1, <2>2, <2>3 DEF StagedOK
    <2>7. ExchangeOK'
        BY <1>0, <2>1, <2>2 DEF ExchangeOK, TakenSeen
    <2> QED
        BY <2>2, <2>3, <2>4, <2>5, <2>6, <2>7, StepInside DEF RunningOK
<1> QED
    BY <1>1, <1>2 DEF PolicyBefore

\* Verified content means that the entry is the file the report speaks of.
LEMMA InspectStep == RunningOK /\ Inspect => IInv'
<1> SUFFICES ASSUME RunningOK, Inspect PROVE IInv'
    OBVIOUS
<1> USE DEF BeforeStage, Reading, Staging, BeforeCommit, Cleanup, Installed, Reporting, Labels, Early
<1>0. /\ tool.staged \in Used /\ result = NotYet /\ pc = "inspect" /\ tool \in Tools /\ TypesOK
      /\ (tool.published <=> exchanged # NoExchange)
      /\ (tool.published => /\ TakenSeen /\ tool.existed /\ tool.file \in Used
                            /\ tool.snapshot.digest = tool.base)
    BY DEF Inspect, At, RunningOK, ProgressOK, StagedOK, TypesOK, ExchangeOK, TargetOK
<1>1. CASE Return(Outcome, "unlocated") /\ Keep
    BY <1>0, <1>1, UnlocatedStep
<1>2. ASSUME NEW content \in {InspectContent(Inspected, InspectedSnapshot), "failed"},
             content # "mismatch", Set("content", content), late' = FALSE, Goto("policy_after"),
             UNCHANGED <<files, live, exchanged, past, edits>>
      PROVE  IInv'
    <2>1. content \in {"verified", "failed"}
        BY <1>2, InspectionFacts
    <2>2. /\ tool' \in Tools /\ tool'.existed = tool.existed /\ tool'.published = tool.published
          /\ tool'.staged = tool.staged /\ tool'.base = tool.base
          /\ tool'.file = tool.file /\ tool'.snapshot = tool.snapshot /\ tool'.content = content
        BY <1>0, <1>2, <2>1 DEF Set, Tools
    <2>3. /\ UNCHANGED <<inode, name, slot, live, exchanged, past, edits>>
          /\ pc' = "policy_after" /\ result' = NotYet
        BY <1>0, <1>2 DEF files, Goto
    <2>4. TypesOK' /\ FilesOK' /\ Used' = Used
        BY <1>2, <2>2, <2>3, RunningFacts, QuietStep
    <2>5. ProgressOK'
        BY <1>0, <2>2, <2>3 DEF ProgressOK
    <2>6. TargetOK'
        BY <1>0, <2>2, <2>3, <2>4 DEF TargetOK, RunningOK
    <2>7. StagedOK'
        BY <1>0, <2>2, <2>3, <2>4 DEF StagedOK
    <2>8. ASSUME content = "verified"
          PROVE  name["recovery"] = Inspected /\ (tool.published => exchanged.taken = tool.base)
        <3>1. /\ name["recovery"] = Inspected
              /\ same_payload_and_metadata(file_snapshot(Inspected), InspectedSnapshot)
            BY <1>2, <2>8, InspectionFacts
        <3>2. ASSUME tool.published PROVE exchanged.taken = tool.base
            <4>1. Inspected = tool.file /\ InspectedSnapshot = tool.snapshot /\ tool.file \in Inodes
                BY <1>0, <3>2 DEF Inspected, InspectedSnapshot, Used
            <4>2. inode[tool.file].data = tool.base
                BY <1>0, <3>1, <3>2, <4>1, SnapshotFacts DEF same_payload_and_metadata
            <4> QED
                BY <1>0, <3>1, <3>2, <4>1, <4>2 DEF TakenSeen
        <3> QED
            BY <3>1, <3>2
    <2>9. Inspected' = Inspected
        BY <2>2 DEF Inspected
    <2>10. ExchangeOK'
        BY <1>0, <2>2, <2>3, <2>8, <2>9 DEF ExchangeOK, TakenSeen
    <2> QED
        BY <2>3, <2>4, <2>5, <2>6, <2>7, <2>10, StepInside DEF RunningOK
<1> QED
    BY <1>1, <1>2 DEF Inspect

\* The recovery path is reported only for a directory still in place.
LEMMA PolicyAfterStep == RunningOK /\ PolicyAfter => IInv'
<1> SUFFICES ASSUME RunningOK, PolicyAfter PROVE IInv'
    OBVIOUS
<1> USE DEF BeforeStage, Reading, Staging, BeforeCommit, Cleanup, Installed, Reporting, Labels, Early
<1>0. /\ pc = "policy_after" /\ Keep /\ tool \in Tools
      /\ (tool.published <=> exchanged # NoExchange)
      /\ (~late /\ tool.content = "verified" =>
             name["recovery"] = Inspected /\ (tool.published => exchanged.taken = tool.base))
    BY DEF PolicyAfter, At, RunningOK, ProgressOK, TypesOK, ExchangeOK
<1>1. PICK look \in NamespaceLooks :
         Return(Outcome, IF look = "identity" THEN "unlocated"
                         ELSE Located(tool.content, tool.policy_before /\ look = "ok"))
    BY DEF PolicyAfter
<1>2. CASE look = "identity"
    BY <1>0, <1>1, <1>2, UnlocatedStep
<1>3. CASE look # "identity"
    <2>1. slot = tool.dir
        BY <1>3 DEF NamespaceLooks, NamespaceState
    <2> DEFINE where == Located(tool.content, tool.policy_before /\ look = "ok")
    <2>2. where \in {"located_verified", "located_policy_unverified"} => tool.content = "verified"
        BY DEF Located
    <2> HIDE DEF where
    <2>3. /\ result' = [state |-> Outcome, recovery |-> where] /\ pc' = "done"
          /\ UNCHANGED <<inode, name, slot, tool, exchanged, late>>
        BY <1>0, <1>1, <1>3 DEF Return, where, Keep, files, ghosts
    <2>4. PatchReportIsTrue'
        BY <1>0, <2>3 DEF PatchReportIsTrue, Outcome
    <2>5. RecoveryPathIsTrue'
        BY <1>0, <2>1, <2>2, <2>3 DEF RecoveryPathIsTrue, ReportsRecoveryFile, Outcome, Inspected
    <2> QED
        BY <1>0, <2>3, <2>4, <2>5, ReturnStep
<1> QED
    BY <1>2, <1>3

-----------------------------------------------------------------------------
(* Other programs. *)

SameData(i) == inode'[i].data = inode[i].data /\ inode'[i].synced = inode[i].synced
Rewritten(i) == inode'[i].data = UserData(edits + 2) /\ inode'[i].synced

\* What another program does to the directory: it writes new versions, in place or
\* in at most one new file, and keeps its promises about names.
LEMMA OthersFiles ==
    ASSUME RunningOK, MayAct, Acted, NEW u \in Inodes \ Used,
           inode' \in [Inodes -> Inode], name' \in Tables, slot' \in {None} \cup Dirs,
           \A i \in Inodes : SameData(i) \/ Rewritten(i),
           \A i \in Inodes \ {u} : i \in Used' => i \in Used,
           TableOK(name)'
    PROVE  TypesOK' /\ FilesOK' /\ Used \subseteq Used'
<1>1. TypesOK /\ FilesOK
    BY DEF RunningOK
<1>2. /\ edits' = edits + 1 /\ late' = TRUE /\ past' = {name'} /\ UNCHANGED <<pc, tool, result, exchanged>>
      /\ edits \in Nat /\ MaxEdits \in Nat /\ edits < MaxEdits
    BY <1>1, MaxEditsAssumption DEF Acted, MayAct, TypesOK
<1>3. TypesOK'
    BY <1>1, <1>2 DEF TypesOK
<1>4. UserData(edits + 2) # Free /\ UserData(edits + 2) # Torn /\ UserData(edits + 2).v = edits + 2
    BY <1>2, DataFacts
<1>5. Used \subseteq Used' /\ Used' \subseteq Used \cup {u} /\ Used \subseteq Inodes
    BY <1>4 DEF Used, SameData, Rewritten
<1>6. Cardinality(Used') <= Cardinality(Used) + 1 /\ Cardinality(Used') \in Nat /\ Cardinality(Used) \in Nat
    <2>1. IsFiniteSet(Inodes)
        BY <1>2, FS_Interval DEF Inodes
    <2>2. IsFiniteSet(Used)
        BY <1>5, <2>1, FS_Subset
    <2>3. IsFiniteSet(Used \cup {u}) /\ Cardinality(Used \cup {u}) = Cardinality(Used) + 1
        BY <2>2, FS_AddElement
    <2>4. IsFiniteSet(Used') /\ Cardinality(Used') <= Cardinality(Used \cup {u})
        BY <1>5, <2>3, FS_Subset
    <2> QED
        BY <2>2, <2>3, <2>4, FS_CardinalityType
<1>7. FilesOK'
    <2>1. \A i \in Inodes : inode'[i].data.by = "user" => inode'[i].synced
        BY <1>1 DEF FilesOK, SameData, Rewritten
    <2>2. ASSUME NEW i \in Used', i # tool.staged PROVE Whole(i)'
        <3>1. i \in Inodes
            BY DEF Used
        <3>2. CASE Rewritten(i)
            BY <1>4, <3>2 DEF Rewritten, Whole
        <3>3. CASE SameData(i)
            <4>1. i \in Used
                BY <3>1, <3>3 DEF Used, SameData
            <4> QED
                BY <1>1, <2>2, <3>3, <4>1 DEF FilesOK, SameData, Whole
        <3> QED
            BY <3>1, <3>2, <3>3
    <2>3. ASSUME NEW i \in Inodes PROVE inode'[i].data.v <= edits' + 1
        <3>1. inode[i].data.v <= edits + 1 /\ inode[i].data.v \in Nat
            BY <1>1 DEF FilesOK, TypesOK, Inode, Data
        <3> QED
            BY <1>2, <1>4, <3>1 DEF SameData, Rewritten
    <2>4. tool'.base.v <= edits' + 1
        <3>1. tool.base.v <= edits + 1 /\ tool.base.v \in Nat
            BY <1>1 DEF FilesOK, TypesOK, Tools, Data
        <3> QED
            BY <1>2, <3>1
    <2>5. Cardinality(Used') <= edits' + (IF tool'.staged = None THEN 1 ELSE 2)
        BY <1>1, <1>2, <1>6 DEF FilesOK
    <2>6. \A t \in past' : TableOK(t)'
        BY <1>2
    <2> QED
        BY <1>2, <2>1, <2>2, <2>3, <2>4, <2>5, <2>6 DEF FilesOK
<1> QED
    BY <1>3, <1>5, <1>7

\* No such act can make the call's knowledge wrong: a file of the call's is written
\* only through the target or as a version of the user's, and a name leads to one
\* of the call's files only if it did before.
LEMMA OthersStep ==
    ASSUME RunningOK, MayAct, Acted, TypesOK', FilesOK', Used \subseteq Used',
           \A i \in Inodes : SameData(i) \/ Rewritten(i),
           \A i \in Used : SameData(i) \/ i = name["target"] \/ inode[i].data.by = "user",
           name'["target"] = name["target"] \/ name'["target"] \notin Used,
           name'["recovery"] = name["recovery"] \/ name'["recovery"] \notin Used,
           name["stage"] = None => name'["stage"] = None
    PROVE  IInv'
<1> USE DEF BeforeStage, Reading, Staging, BeforeCommit, Cleanup, Installed, Reporting, Labels, Early
<1>1. /\ edits' = edits + 1 /\ late' = TRUE /\ past' = {name'} /\ UNCHANGED <<pc, tool, result, exchanged>>
      /\ edits \in Nat /\ pc # "done" /\ TypesOK
    BY MaxEditsAssumption DEF Acted, MayAct, TypesOK, RunningOK, At
<1>2. result' = NotYet /\ result = NotYet
    BY <1>1 DEF RunningOK, ProgressOK
<1>3. /\ UserData(edits + 2) # Torn /\ UserData(edits + 2) # tool.base
      /\ UserData(edits + 2) # Patched(tool.base)
    <2>1. tool.base \in Data /\ tool.base.v <= edits + 1
        BY <1>1, RunningFacts DEF Tools
    <2>2. tool.base.v \in Nat
        BY <2>1 DEF Data
    <2>3. UserData(edits + 2).v = edits + 2
        BY <1>1, DataFacts
    <2> QED
        BY <1>1, <2>1, <2>2, <2>3, DataFacts
<1>4. ProgressOK'
    BY <1>1, <1>2 DEF ProgressOK, RunningOK
<1>5. TargetOK'
    BY <1>1 DEF TargetOK, RunningOK
<1>6. StagedOK'
    <2>1. tool.staged \in Used => tool.staged \in Used' /\ tool.staged \in Inodes
        BY DEF Used
    <2>2. pc = "write" => inode'[tool.staged].data = Torn /\ name'["target"] # tool.staged
        BY <2>1, DataFacts DEF RunningOK, StagedOK, SameData
    <2>3. pc = "sync" => inode'[tool.staged].data # Torn
        BY <1>3, <2>1 DEF RunningOK, StagedOK, SameData, Rewritten
    <2>4. pc \in BeforeCommit \cup {"permissions", "resync", "snapshot"} => Whole(tool.staged)'
        <3>1. pc \in BeforeCommit \cup {"permissions", "resync", "snapshot"} => Whole(tool.staged) /\ tool.staged \in Inodes
            BY <2>1 DEF RunningOK, StagedOK
        <3> QED
            BY <1>1, <1>3, <3>1 DEF SameData, Rewritten, Whole
    <2> QED
        BY <1>1, <2>1, <2>2, <2>3, <2>4 DEF StagedOK, RunningOK
<1>7. ExchangeOK'
    <2>1. ASSUME TakenSeen, tool.file \in Used PROVE TakenSeen'
        <3>1. tool.file \in Inodes
            BY <2>1 DEF Used
        <3>2. name'["recovery"] = tool.file => name["recovery"] = tool.file
            BY <2>1
        <3> QED
            BY <1>1, <1>3, <2>1, <3>1, <3>2 DEF TakenSeen, SameData, Rewritten
    <2>2. ASSUME PutSeen, tool.staged \in Used PROVE PutSeen'
        <3>1. tool.staged \in Inodes
            BY <2>2 DEF Used
        <3>2. name'["target"] = tool.staged => name["target"] = tool.staged
            BY <2>2
        <3> QED
            BY <1>1, <1>3, <2>2, <3>1, <3>2 DEF PutSeen, SameData, Rewritten
    <2>3. /\ pc \in Installed \/ (pc \in Reporting /\ tool.published) => TakenSeen /\ tool.file \in Used
          /\ pc \in {"refresh", "validate_new"} => PutSeen
          /\ pc \in Installed \cup {"validate_new"} => tool.staged \in Used
        BY DEF RunningOK, ExchangeOK, TargetOK, StagedOK
    <2>4. /\ pc \in Installed \/ (pc \in Reporting /\ tool.published) => TakenSeen'
          /\ pc \in {"refresh", "validate_new"} => PutSeen'
        BY <2>1, <2>2, <2>3
    <2>5. /\ pc \in Installed => (name'["recovery"] = tool.file => name["recovery"] = tool.file)
          /\ pc \in Installed => (name'["target"] = tool.staged => name["target"] = tool.staged)
        BY <2>3
    <2> QED
        BY <1>1, <2>4, <2>5 DEF ExchangeOK, RunningOK
<1> QED
    BY <1>2, <1>4, <1>5, <1>6, <1>7, StepInside DEF RunningOK

\* A version is found again by its number.
LEMMA UserDataIsExact ==
    ASSUME NEW v, NEW w
    PROVE  UserData(v).by = "user" /\ UserData(v).v = v /\ (UserData(v) = UserData(w) => v = w)
    BY DEF UserData

\* A write in place replaces one version of the user by the next.
LEMMA EditStep ==
    ASSUME RunningOK, NEW i \in Inodes, NEW tick \in {0, 1}, EditInPlace(i, tick)
    PROVE  IInv'
<1>1. TypesOK /\ FilesOK /\ MayAct /\ Acted /\ name' = name /\ slot' = slot /\ tool' = tool
    BY DEF RunningOK, EditInPlace, Acted
<1>2. inode \in [Inodes -> Inode] /\ inode[i] \in Inode /\ edits \in Nat /\ edits < MaxEdits
    BY <1>1, MaxEditsAssumption DEF TypesOK, MayAct
<1>3. UserData(edits + 2) \in Data /\ UserData(edits + 2) # Free /\ UserData(edits + 2) # Torn
    BY <1>2, DataFacts
<1>4. /\ inode'[i] \in Inode /\ Rewritten(i)
      /\ inode' = [inode EXCEPT ![i] = inode'[i]]
    <2> DEFINE d == UserData(edits + 2)
    <2>1. inode' = [inode EXCEPT ![i].data = d, ![i].synced = TRUE,
                                 ![i].mtime = @ + tick, ![i].ctime = @ + tick]
        BY DEF EditInPlace, Version
    <2>2. d \in Data
        BY <1>3
    <2> HIDE DEF d
    <2>3. PICK m \in Nat, c \in Nat : m = inode[i].mtime + tick /\ c = inode[i].ctime + tick
        BY <1>2 DEF Inode
    <2>4. inode' = [inode EXCEPT ![i] = [inode[i] EXCEPT !.data = d, !.synced = TRUE,
                                                        !.mtime = m, !.ctime = c]]
        BY <1>2, <2>1, <2>3 DEF Inode
    <2>5. [inode[i] EXCEPT !.data = d, !.synced = TRUE, !.mtime = m, !.ctime = c] \in Inode
        BY <1>2, <2>2 DEF Inode
    <2>6. /\ inode'[i] \in Inode /\ inode'[i].data = d /\ inode'[i].synced
          /\ inode' = [inode EXCEPT ![i] = inode'[i]]
        BY <1>2, <2>2, <2>4, <2>5 DEF Inode
    <2> QED
        BY <2>6 DEF Rewritten, d
<1>5. inode' \in [Inodes -> Inode] /\ \A j \in Inodes \ {i} : inode'[j] = inode[j]
    BY <1>2, <1>4
<1>6. name \in Tables /\ TableOK(name)
    BY <1>1 DEF TypesOK, FilesOK
<1>7. i = name["target"] \/ (inode[i].data.by = "user" /\ \E n \in Names : name[n] = i)
    <2>1. ASSUME i = 1, nlink(1) > 0 PROVE \E n \in Names : name[n] = i
        <3>1. {n \in Names : name[n] = 1} # {}
            BY <2>1, FS_EmptySet DEF nlink
        <3> QED
            BY <2>1, <3>1
    <2> QED
        BY <2>1 DEF EditInPlace
<1>8. PICK m \in Names : name[m] = i
    BY <1>7 DEF Names
<1>9. i \in Used
    BY <1>6, <1>8, MaxEditsAssumption DEF TableOK, Used, Inodes
<1>10. \A n \in Names : name[n] # None => name[n] \in Inodes
    BY <1>6 DEF Tables
<1>11. TableOK(name)'
    <2>1. "target" \in Names
        BY DEF Names
    <2>2. \A n \in Names : name'[n] # None => inode'[name'[n]].data # Free
        BY <1>1, <1>3, <1>4, <1>5, <1>6, <1>10 DEF TableOK, Rewritten
    <2>3. name'["target"] # None => Whole(name["target"])'
        BY <1>1, <1>3, <1>4, <1>5, <1>6, <1>10, <2>1 DEF TableOK, Rewritten, Whole
    <2>4. ASSUME NEW v \in live'
          PROVE  \E n \in Names : name'[n] # None /\ inode'[name'[n]].data = UserData(v)
        <3>1. CASE v = edits + 2
            BY <1>1, <1>4, <1>8, <3>1, MaxEditsAssumption DEF Rewritten, Inodes
        <3>2. CASE v \in live \ Destroyed(i)
            <4>1. PICK n \in Names : name[n] # None /\ inode[name[n]].data = UserData(v)
                BY <1>6, <3>2 DEF TableOK
            <4>2. name[n] # i
                BY <3>2, <4>1, UserDataIsExact DEF Destroyed
            <4> QED
                BY <1>1, <1>5, <1>10, <4>1, <4>2
        <3> QED
            BY <3>1, <3>2 DEF EditInPlace, Version
    <2> QED
        BY <1>1, <1>6, <2>2, <2>3, <2>4 DEF TableOK
<1>12. PICK u \in Inodes \ Used : TRUE
    BY <1>1, <1>2, UnusedInodeExists
<1>13. \A j \in Inodes : SameData(j) \/ Rewritten(j)
    BY <1>4, <1>5 DEF SameData
<1>14. \A j \in Inodes : j \in Used' => j \in Used
    BY <1>5, <1>9 DEF Used
<1>15. TypesOK' /\ FilesOK' /\ Used \subseteq Used'
    <2>1. name' \in Tables /\ slot' \in {None} \cup Dirs
        BY <1>1, <1>6 DEF TypesOK
    <2> QED
        BY <1>1, <1>5, <1>11, <1>12, <1>13, <1>14, <2>1, OthersFiles
<1>16. \A j \in Used : SameData(j) \/ j = name["target"] \/ inode[j].data.by = "user"
    BY <1>5, <1>7 DEF SameData, Used
<1> QED
    BY <1>1, <1>13, <1>15, <1>16, OthersStep

\* A rename over the target destroys at most the version that was only there.
LEMMA ReplaceTargetStep == RunningOK /\ ReplaceTarget => IInv'
<1> SUFFICES ASSUME RunningOK, ReplaceTarget PROVE IInv'
    OBVIOUS
<1> DEFINE u == UnusedInode
           new == NewInode(UserData(Version), "user")
<1>1. TypesOK /\ FilesOK /\ MayAct /\ Acted /\ slot' = slot /\ tool' = tool
    BY DEF RunningOK, ReplaceTarget, Acted
<1>2. inode \in [Inodes -> Inode] /\ edits \in Nat /\ edits < MaxEdits
    BY <1>1, MaxEditsAssumption DEF TypesOK, MayAct
<1>3. u \in Inodes /\ u \notin Used /\ u # None
    <2>1. u \in Inodes \ Used
        BY <1>1, <1>2, UnusedInodeExists
    <2> QED
        BY <2>1, MaxEditsAssumption DEF Inodes
<1>4. UserData(edits + 2) \in Data /\ UserData(edits + 2) # Free /\ UserData(edits + 2) # Torn
      /\ UserData(edits + 2).by = "user"
    BY <1>2, DataFacts
<1>5. new \in Inode /\ new.data = UserData(edits + 2) /\ new.synced
    BY <1>4, NewInodeFacts DEF Modes, Version
<1>6. inode' = [inode EXCEPT ![u] = new] /\ name' = [name EXCEPT !["target"] = u]
    BY DEF ReplaceTarget
<1> HIDE DEF u, new
<1>7. /\ inode' \in [Inodes -> Inode] /\ inode'[u] = new /\ \A j \in Inodes \ {u} : inode'[j] = inode[j]
    BY <1>2, <1>3, <1>5, <1>6
<1>8. name \in Tables /\ TableOK(name)
    BY <1>1 DEF TypesOK, FilesOK
<1>9. /\ name' \in Tables /\ name'["target"] = u
      /\ \A n \in Names \ {"target"} : name'[n] = name[n]
    BY <1>3, <1>6, <1>8 DEF Tables, Names
<1>10. \A n \in Names : name[n] # None => name[n] \in Inodes \ {u}
    BY <1>3, <1>8 DEF Tables, TableOK, Used
<1>11. TableOK(name)'
    <2>1. "target" \in Names
        BY DEF Names
    <2>2. \A n \in Names : name'[n] # None => inode'[name'[n]].data # Free
        BY <1>4, <1>5, <1>7, <1>8, <1>9, <1>10 DEF TableOK
    <2>3. name'["target"] # None /\ Whole(name["target"])'
        BY <1>3, <1>4, <1>5, <1>7, <1>9 DEF Whole
    <2>4. ASSUME NEW v \in live'
          PROVE  \E n \in Names : name'[n] # None /\ inode'[name'[n]].data = UserData(v)
        <3>1. CASE v = edits + 2
            BY <1>3, <1>5, <1>7, <1>9, <2>1, <3>1
        <3>2. CASE /\ v \in live
                   /\ v \notin (IF Exists("target") /\ nlink(name["target"]) = 1
                                THEN Destroyed(name["target"]) ELSE {})
            <4>1. PICK n \in Names : name[n] # None /\ inode[name[n]].data = UserData(v)
                BY <1>8, <3>2 DEF TableOK
            <4>2. \E m \in Names \ {"target"} : name[m] = name[n]
                <5>1. CASE n # "target"
                    BY <5>1
                <5>2. CASE n = "target"
                    <6>1. nlink(name["target"]) # 1
                        BY <3>2, <4>1, <5>2, UserDataIsExact DEF Destroyed, Exists
                    <6> QED
                        BY <2>1, <5>2, <6>1, OtherLink
                <5> QED
                    BY <5>1, <5>2
            <4> QED
                BY <1>7, <1>9, <1>10, <4>1, <4>2
        <3> QED
            BY <3>1, <3>2 DEF ReplaceTarget, Version
    <2> QED
        BY <2>2, <2>3, <2>4 DEF TableOK
<1>12. \A j \in Inodes : SameData(j) \/ Rewritten(j)
    BY <1>5, <1>7 DEF SameData, Rewritten
<1>13. \A j \in Inodes \ {u} : j \in Used' => j \in Used
    BY <1>7 DEF Used
<1>14. TypesOK' /\ FilesOK' /\ Used \subseteq Used'
    <2>1. slot' \in {None} \cup Dirs /\ u \in Inodes \ Used
        BY <1>1, <1>3 DEF TypesOK
    <2> QED
        BY <1>1, <1>7, <1>9, <1>11, <1>12, <1>13, <2>1, OthersFiles
<1>15. \A j \in Used : SameData(j)
    BY <1>3, <1>7 DEF SameData, Used
<1>16. name'["target"] \notin Used /\ name'["recovery"] = name["recovery"] /\ name'["stage"] = name["stage"]
    BY <1>3, <1>9 DEF Names
<1> QED
    BY <1>1, <1>12, <1>14, <1>15, <1>16, OthersStep

\* An act that leaves all contents and the call's names alone.
LEMMA HarmlessStep ==
    ASSUME RunningOK, MayAct, Acted, DataKept, live' = live, slot' \in {None} \cup Dirs,
           name' \in Tables, \A n \in Names \ {"link"} : name'[n] = name[n],
           name'["link"] = name["link"] \/ (name["link"] = None /\ name'["link"] = name["target"])
    PROVE  IInv'
<1>1. TypesOK /\ FilesOK /\ tool' = tool
    BY DEF RunningOK, Acted
<1>2. name \in Tables /\ TableOK(name)
    BY <1>1 DEF TypesOK, FilesOK
<1>3. \A n \in Names : name'[n] # None => \E m \in Names : name'[n] = name[m]
    BY DEF Names
<1>4. /\ \A n \in Names : name[n] # None => name'[n] = name[n]
      /\ name'["target"] = name["target"] /\ "target" \in Names
    BY DEF Names
<1>5. \A n \in Names : name[n] # None => name[n] \in Inodes
    BY <1>2 DEF Tables
<1>6. TableOK(name)'
    <2>1. ASSUME NEW n \in Names, name'[n] # None PROVE inode'[name'[n]].data # Free
        BY <1>2, <1>3, <1>5, <2>1 DEF TableOK, DataKept
    <2>2. name'["target"] # None => Whole(name["target"])'
        BY <1>2, <1>4, <1>5 DEF TableOK, DataKept, Whole
    <2>3. ASSUME NEW v \in live
          PROVE  \E n \in Names : name'[n] # None /\ inode'[name'[n]].data = UserData(v)
        BY <1>2, <1>4, <1>5 DEF TableOK, DataKept
    <2> QED
        BY <1>1, <1>2, <1>4, <2>1, <2>2, <2>3 DEF TableOK
<1>7. PICK u \in Inodes \ Used : TRUE
    BY <1>1, UnusedInodeExists, MaxEditsAssumption DEF MayAct, TypesOK
<1>8. (\A j \in Inodes : SameData(j)) /\ Used' = Used
    BY DEF SameData, DataKept, Used
<1>9. TypesOK' /\ FilesOK' /\ Used \subseteq Used'
    BY <1>6, <1>7, <1>8, OthersFiles DEF DataKept
<1>10. /\ \A j \in Used : SameData(j)
       /\ name'["recovery"] = name["recovery"] /\ name'["stage"] = name["stage"]
    BY <1>8 DEF Used, Names
<1> QED
    BY <1>4, <1>8, <1>9, <1>10, OthersStep

\* Modes, attributes and links leave contents and versions alone.
LEMMA ChangeMetadataStep == RunningOK /\ ChangeMetadata => IInv'
<1> SUFFICES ASSUME RunningOK, ChangeMetadata PROVE IInv'
    OBVIOUS
<1> DEFINE i == name["target"]
<1>1. MayAct /\ Acted /\ slot' = slot /\ live' = live /\ i # None /\ TypesOK
    BY DEF RunningOK, ChangeMetadata, Exists
<1>2. /\ i \in Inodes /\ name \in Tables /\ slot \in {None} \cup Dirs
      /\ inode \in [Inodes -> Inode] /\ inode[i] \in Inode
    BY <1>1 DEF TypesOK, Tables, Names
<1>3. CASE inode' = [inode EXCEPT ![i].mode = "other", ![i].ctime = @ + 1] /\ UNCHANGED name
    <2>1. DataKept
        BY <1>2, <1>3 DEF DataKept, Inode
    <2> QED
        BY <1>1, <1>2, <1>3, <2>1, HarmlessStep
<1>4. CASE inode' = [inode EXCEPT ![i].xattr = TRUE, ![i].ctime = @ + 1] /\ UNCHANGED name
    <2>1. DataKept
        BY <1>2, <1>4 DEF DataKept, Inode
    <2> QED
        BY <1>1, <1>2, <1>4, <2>1, HarmlessStep
<1>5. CASE name' = [name EXCEPT !["link"] = i] /\ ~Exists("link") /\ TouchCtime(i)
    <2>1. DataKept
        BY <1>1, <1>2, <1>5, TouchKeepsData
    <2>2. /\ name' \in Tables /\ name["link"] = None /\ name'["link"] = i
          /\ \A n \in Names \ {"link"} : name'[n] = name[n]
        BY <1>2, <1>5 DEF Exists, Tables, Names
    <2> QED
        BY <1>1, <1>2, <2>1, <2>2, HarmlessStep
<1> QED
    BY <1>3, <1>4, <1>5 DEF ChangeMetadata

\* The recovery directory may change; the files do not.
LEMMA ChangeNamespaceStep == RunningOK /\ ChangeNamespace => IInv'
<1> SUFFICES ASSUME RunningOK, ChangeNamespace PROVE IInv'
    OBVIOUS
<1>1. MayAct /\ Acted /\ UNCHANGED <<inode, name, live>> /\ slot' \in {None} \cup Dirs /\ TypesOK
    BY RunningFacts DEF RunningOK, ChangeNamespace, Dirs
<1>2. DataKept /\ name' \in Tables
    BY <1>1 DEF TypesOK, DataKept
<1> QED
    BY <1>1, <1>2, HarmlessStep

\* An entry of the call that is renamed away stays under another name.
LEMMA ReplaceEntryStep ==
    ASSUME RunningOK, NEW e \in {"stage", "recovery"}, ReplaceEntry(e)
    PROVE  IInv'
<1> DEFINE u == UnusedInode
           new == NewInode(UserData(Version), "user")
           o == name[e]
<1>1. /\ TypesOK /\ FilesOK /\ MayAct /\ Acted /\ slot' = slot /\ tool' = tool
      /\ o # None /\ name["moved"] = None /\ live' = live \cup {edits + 2}
    BY DEF RunningOK, ReplaceEntry, Acted, Exists, Version
<1>2. inode \in [Inodes -> Inode] /\ edits \in Nat /\ edits < MaxEdits
    BY <1>1, MaxEditsAssumption DEF TypesOK, MayAct
<1>3. u \in Inodes /\ u \notin Used /\ u # None
    <2>1. u \in Inodes \ Used
        BY <1>1, <1>2, UnusedInodeExists
    <2> QED
        BY <2>1, MaxEditsAssumption DEF Inodes
<1>4. UserData(edits + 2) \in Data /\ UserData(edits + 2) # Free /\ UserData(edits + 2) # Torn
      /\ UserData(edits + 2).by = "user"
    BY <1>2, DataFacts
<1>5. new \in Inode /\ new.data = UserData(edits + 2) /\ new.synced
    BY <1>4, NewInodeFacts DEF Modes, Version
<1>6. /\ inode' = [inode EXCEPT ![u] = new, ![o].ctime = @ + 1]
      /\ name' = [name EXCEPT !["moved"] = o, ![e] = u]
    BY DEF ReplaceEntry
<1>7. name \in Tables /\ TableOK(name)
    BY <1>1 DEF TypesOK, FilesOK
<1>8. /\ "target" \in Names \ {e, "moved"} /\ e \in Names \ {"moved"} /\ "moved" \in Names
      /\ {"stage", "recovery"} \subseteq Names \ {"moved"}
    BY DEF Names
<1>9. o \in Inodes /\ o \in Used
    BY <1>1, <1>7, <1>8 DEF Tables, TableOK, Used
<1> HIDE DEF u, new, o
<1>10. /\ inode' \in [Inodes -> Inode] /\ inode'[u] = new
       /\ \A j \in Inodes \ {u} : SameData(j)
    <2>1. u # o
        BY <1>3, <1>9
    <2>2. inode[o] \in Inode
        BY <1>2, <1>9
    <2>3. [inode[o] EXCEPT !.ctime = inode[o].ctime + 1] \in Inode
        BY <2>2 DEF Inode
    <2>4. inode' = [inode EXCEPT ![u] = new, ![o] = [inode[o] EXCEPT !.ctime = inode[o].ctime + 1]]
        BY <1>2, <1>3, <1>6, <1>9, <2>1
    <2>5. /\ inode'[u] = new /\ inode'[o] = [inode[o] EXCEPT !.ctime = inode[o].ctime + 1]
          /\ \A j \in Inodes \ {u, o} : inode'[j] = inode[j]
        BY <1>2, <1>3, <1>9, <2>1, <2>4
    <2>6. inode' \in [Inodes -> Inode]
        BY <1>2, <1>3, <1>5, <1>9, <2>3, <2>4
    <2>7. SameData(o)
        BY <2>2, <2>5 DEF SameData, Inode
    <2> QED
        BY <2>5, <2>6, <2>7 DEF SameData
<1>11. /\ name' \in Tables /\ name'["moved"] = o /\ name'[e] = u
       /\ \A n \in Names \ {"moved", e} : name'[n] = name[n]
    BY <1>3, <1>6, <1>7, <1>8, <1>9 DEF Tables
<1>12. \A n \in Names : name[n] # None => name[n] \in Inodes \ {u}
    BY <1>3, <1>7 DEF Tables, TableOK, Used
<1>13. TableOK(name)'
    <2>1. ASSUME NEW n \in Names, name'[n] # None PROVE inode'[name'[n]].data # Free
        <3>1. CASE n = e
            BY <1>4, <1>5, <1>10, <1>11, <3>1
        <3>2. CASE n = "moved"
            BY <1>3, <1>9, <1>10, <1>11, <3>2 DEF SameData, Used
        <3>3. CASE n \in Names \ {"moved", e}
            BY <1>7, <1>10, <1>11, <1>12, <2>1, <3>3 DEF TableOK, SameData
        <3> QED
            BY <3>1, <3>2, <3>3
    <2>2. /\ name'["target"] # None => Whole(name["target"])'
          /\ tool'.existed => name'["target"] # None
        BY <1>1, <1>7, <1>8, <1>10, <1>11, <1>12 DEF TableOK, SameData, Whole
    <2>3. ASSUME NEW v \in live'
          PROVE  \E n \in Names : name'[n] # None /\ inode'[name'[n]].data = UserData(v)
        <3>1. CASE v = edits + 2
            BY <1>3, <1>5, <1>8, <1>10, <1>11, <3>1
        <3>2. CASE v \in live
            <4>1. PICK n \in Names : name[n] # None /\ inode[name[n]].data = UserData(v)
                BY <1>7, <3>2 DEF TableOK
            <4>2. CASE n = e
                <5>1. name[n] = o
                    BY <4>2 DEF o
                <5>2. name'["moved"] # None /\ inode'[name'["moved"]].data = UserData(v)
                    BY <1>1, <1>3, <1>9, <1>10, <1>11, <4>1, <5>1 DEF SameData
                <5> QED
                    BY <1>8, <5>2
            <4>3. CASE n # e
                <5>1. n # "moved" /\ name'[n] = name[n]
                    BY <1>1, <1>11, <4>1, <4>3
                <5> QED
                    BY <1>10, <1>12, <4>1, <5>1 DEF SameData
            <4> QED
                BY <4>2, <4>3
        <3> QED
            BY <1>1, <3>1, <3>2
    <2> QED
        BY <2>1, <2>2, <2>3 DEF TableOK
<1>14. \A j \in Inodes : SameData(j) \/ Rewritten(j)
    BY <1>5, <1>10 DEF Rewritten
<1>15. \A j \in Inodes \ {u} : j \in Used' => j \in Used
    BY <1>10 DEF Used, SameData
<1>16. TypesOK' /\ FilesOK' /\ Used \subseteq Used'
    <2>1. slot' \in {None} \cup Dirs /\ u \in Inodes \ Used
        BY <1>1, <1>3 DEF TypesOK
    <2> QED
        BY <1>1, <1>10, <1>11, <1>13, <1>14, <1>15, <2>1, OthersFiles
<1>17. \A j \in Used : SameData(j)
    BY <1>3, <1>10 DEF Used
<1>18. /\ name'["target"] = name["target"]
       /\ name'["recovery"] = name["recovery"] \/ name'["recovery"] \notin Used
       /\ name["stage"] = None => name'["stage"] = None
    BY <1>1, <1>3, <1>8, <1>11 DEF o
<1> QED
    BY <1>1, <1>14, <1>16, <1>17, <1>18, OthersStep

-----------------------------------------------------------------------------
(* Power loss. *)

\* Every name table that can come back leads to synced user content and a whole
\* target, and synced content survives.
LEMMA PowerLossStep ==
    ASSUME RunningOK, PatchReportIsTrue, PowerLoss
    PROVE  IInv'
<1>1. /\ TypesOK /\ FilesOK /\ pc' = "crashed" /\ name' \in past
      /\ UNCHANGED <<tool, result, live, exchanged>>
    BY DEF RunningOK, PowerLoss
<1>2. ASSUME NEW i \in Inodes, inode[i].synced PROVE inode'[i] = inode[i]
    BY <1>2 DEF PowerLoss
<1>3. TableOK(name')
    BY <1>1 DEF FilesOK
<1>4. \A n \in Names : name'[n] \in Inodes \cup {None}
    BY <1>1 DEF TypesOK, Tables
<1>5. UserContentKept'
    <2>1. SUFFICES ASSUME NEW v \in live
                   PROVE  \E n \in Names : name'[n] # None /\ inode'[name'[n]].data = UserData(v)
        BY <1>1 DEF UserContentKept, Exists
    <2>2. PICK n \in Names : name'[n] # None /\ inode[name'[n]].data = UserData(v)
        BY <1>3 DEF TableOK
    <2>3. name'[n] \in Inodes /\ inode[name'[n]].data.by = "user"
        BY <1>4, <2>2, UserDataIsExact
    <2>4. inode[name'[n]].synced
        BY <1>1, <2>3 DEF FilesOK
    <2> QED
        BY <1>2, <2>2, <2>3, <2>4
<1>6. TargetAlwaysWhole'
    <2>1. "target" \in Names
        BY DEF Names
    <2>2. tool'.existed => name'["target"] # None
        BY <1>1, <1>3 DEF TableOK
    <2>3. ASSUME name'["target"] # None PROVE inode'[name'["target"]].data # Torn
        BY <1>2, <1>3, <1>4, <2>1, <2>3 DEF TableOK, Whole
    <2> QED
        BY <2>2, <2>3 DEF TargetAlwaysWhole, Exists
<1>7. PatchReportIsTrue' /\ RecoveryPathIsTrue'
    BY <1>1 DEF PatchReportIsTrue, RecoveryPathIsTrue
<1> QED
    BY <1>1, <1>5, <1>6, <1>7 DEF IInv

-----------------------------------------------------------------------------
(* The invariant holds. *)

\* The call starts with a target or without one, and nothing else.
LEMMA InitIInv == Init => IInv
<1> SUFFICES ASSUME Init PROVE IInv
    OBVIOUS
<1> USE DEF BeforeStage, Reading, Staging, BeforeCommit, Cleanup, Installed, Reporting, Labels
<1>1. PICK kind \in {"modify", "create"}, exists \in BOOLEAN, dir \in {None, 1} :
        /\ inode = [i \in Inodes |->
                      NewInode(IF i = 1 /\ exists THEN UserData(1) ELSE Free, "user")]
        /\ name = [n \in Names |-> IF n = "target" /\ exists THEN 1 ELSE None]
        /\ slot = dir
        /\ tool = [kind |-> kind, existed |-> FALSE, file |-> None, snapshot |-> NoSnapshot,
                   base |-> Free, staged |-> None, staged_snapshot |-> NoSnapshot, dir |-> None,
                   published |-> FALSE, content |-> "none", policy_before |-> FALSE]
        /\ live = IF exists THEN {1} ELSE {}
    BY DEF Init
<1>2. pc = "resolve" /\ result = NotYet /\ exchanged = NoExchange /\ late = FALSE
      /\ past = {name} /\ edits = 0
    BY DEF Init
<1>3. 1 \in Inodes /\ MaxEdits \in Nat
    BY MaxEditsAssumption DEF Inodes
<1>4. ASSUME NEW i \in Inodes
      PROVE  /\ inode[i] \in Inode
             /\ inode[i].data = IF i = 1 /\ exists THEN UserData(1) ELSE Free
             /\ inode[i].synced <=> (i = 1 /\ exists)
    <2> DEFINE d == IF i = 1 /\ exists THEN UserData(1) ELSE Free
    <2>1. d \in Data /\ (d.by = "user" <=> (i = 1 /\ exists))
        BY DataFacts
    <2>2. inode[i] = NewInode(d, "user") /\ "user" \in Modes
        BY <1>1 DEF Modes
    <2>3. /\ NewInode(d, "user") \in Inode
          /\ NewInode(d, "user").data = d
          /\ NewInode(d, "user").synced = (d.by = "user")
        <3> HIDE DEF d
        <3> QED
            BY <2>1, <2>2, NewInodeFacts
    <2>4. inode[i].synced <=> d.by = "user"
        BY <2>2, <2>3
    <2> QED
        BY <2>1, <2>2, <2>3, <2>4
<1>5. inode \in [Inodes -> Inode]
    BY <1>1, <1>4
<1>6. name \in Tables
    BY <1>1, <1>3 DEF Tables
<1>7. NoSnapshot \in Snapshots
    BY DataFacts DEF NoSnapshot, Snapshots, Stats, Modes
<1>8. tool \in Tools
    BY <1>1, <1>7, DataFacts DEF Tools
<1>9. TypesOK
    <2>1. exchanged \in [taken : Data, put : Data]
        BY <1>2, DataFacts DEF NoExchange
    <2>2. slot \in {None} \cup Dirs
        BY <1>1 DEF Dirs
    <2> QED
        BY <1>2, <1>3, <1>5, <1>6, <1>8, <2>1, <2>2, 0 \in 0..MaxEdits DEF TypesOK
<1>10. Used \subseteq {1}
    BY <1>4 DEF Used
<1>11. Cardinality(Used) \in Nat /\ Cardinality(Used) <= 1
    <2>1. IsFiniteSet({1}) /\ Cardinality({1}) = 1
        BY FS_Singleton
    <2>2. IsFiniteSet(Used) /\ Cardinality(Used) <= 1
        BY <1>10, <2>1, FS_Subset
    <2> QED
        BY <2>2, FS_CardinalityType
<1>12. TableOK(name)
    <2>1. \A n \in Names : name[n] = IF n = "target" /\ exists THEN 1 ELSE None
        BY <1>1
    <2>2. "target" \in Names /\ ~tool.existed
        BY <1>1 DEF Names
    <2>3. exists => inode[1].data = UserData(1) /\ inode[1].synced
        BY <1>3, <1>4
    <2>4. UserData(1) # Free /\ UserData(1) # Torn
        BY DataFacts
    <2>5. ASSUME NEW v \in live
          PROVE  \E n \in Names : name[n] # None /\ inode[name[n]].data = UserData(v)
        <3>1. exists /\ v = 1
            BY <1>1
        <3>2. name["target"] = 1
            BY <2>1, <2>2, <3>1
        <3> QED
            BY <2>2, <2>3, <3>1, <3>2
    <2> QED
        BY <2>1, <2>2, <2>3, <2>4, <2>5 DEF TableOK, Whole
<1>13. FilesOK
    <2>1. tool.base.v = 0 /\ tool.staged = None
        BY <1>1, DataFacts
    <2>2. \A i \in Inodes : inode[i].data.by = "user" => inode[i].synced
        BY <1>4, DataFacts
    <2>3. \A i \in Used : Whole(i)
        BY <1>4, DataFacts DEF Used, Whole
    <2>4. \A i \in Inodes : inode[i].data.v <= 1
        BY <1>4, DataFacts
    <2> QED
        BY <1>2, <1>11, <1>12, <2>1, <2>2, <2>3, <2>4 DEF FilesOK
<1>14. ProgressOK /\ TargetOK /\ StagedOK /\ ExchangeOK
    <2>1. tool.existed = FALSE /\ tool.staged = None /\ tool.base = Free /\ name["stage"] = None
        BY <1>1 DEF Names
    <2> QED
        BY <1>2, <2>1 DEF ProgressOK, TargetOK, StagedOK, ExchangeOK
<1>15. PatchReportIsTrue /\ RecoveryPathIsTrue
    BY <1>2 DEF NotYet, PatchReportIsTrue, RecoveryPathIsTrue, ReportsRecoveryFile
<1> QED
    BY <1>2, <1>9, <1>13, <1>14, <1>15 DEF IInv, RunningOK

\* Nothing happens once the machine has stopped.
LEMMA CrashedIsFinal == pc = "crashed" => ~Next
    BY DEF Next, Tool, Others, At, MayAct, PowerLoss, EditInPlace, ReplaceTarget, ChangeMetadata,
           ReplaceEntry, ChangeNamespace, Resolve, OpenTarget, ReadTarget, FinishRead, Prepare,
           replacement_metadata, open_recovery_namespace, StageCreate, StageWrite, StageSync,
           StagePermissions, StageResync, StageSnapshot, ValidateStaging, ValidateTarget, MoveToRecovery, ValidateMoved,
           ValidateNamespace, Exchange, RefreshExchanged, ValidateInstalled, ValidateDisplaced,
           ConfirmNamespace, RenameNew, ValidateNew, ClaimStaging, MatchClaimed, PreserveOpen,
           PreserveClaimed, PolicyBefore, Inspect, PolicyAfter

\* Every step of the call, of other programs and of the machine keeps the invariant.
LEMMA StepIInv == IInv /\ [Next]_vars => IInv'
<1> SUFFICES ASSUME IInv, [Next]_vars PROVE IInv'
    OBVIOUS
<1>1. CASE UNCHANGED vars
    <2>1. UNCHANGED <<inode, name, slot, policy, pc, tool, result, live, exchanged, late, past, edits>>
        BY <1>1 DEF vars, files
    <2>2. UNCHANGED <<PatchReportIsTrue, RecoveryPathIsTrue, UserContentKept, TargetAlwaysWhole>>
        BY <2>1 DEF PatchReportIsTrue, RecoveryPathIsTrue, UserContentKept, TargetAlwaysWhole,
                    ReportsRecoveryFile, Exists
    <2>3. UNCHANGED <<TypesOK, ProgressOK, TargetOK, StagedOK, ExchangeOK>>
        BY <2>1 DEF TypesOK, ProgressOK, TargetOK, StagedOK, ExchangeOK, Used, Whole, TakenSeen,
                    PutSeen, Inspected
    <2>4. UNCHANGED FilesOK
        BY <2>1 DEF FilesOK, TableOK, Used, Whole
    <2> QED
        BY <2>1, <2>2, <2>3, <2>4 DEF IInv, RunningOK
<1>2. CASE Next
    <2>1. RunningOK /\ PatchReportIsTrue
        BY <1>2, CrashedIsFinal DEF IInv
    <2>2. CASE Tool
        BY <2>1, <2>2, ResolveStep, OpenTargetStep, ReadTargetStep, FinishReadStep, PrepareStep,
           MetadataStep, OpenRecoveryStep, StageCreateStep, StageWriteStep, StageSyncStep,
           StagePermissionsStep, StageResyncStep, StageSnapshotStep, ValidateStagingStep, MoveStep, ValidateMovedStep,
           ValidateNamespaceStep, ExchangeStep, RefreshStep, ValidateInstalledStep,
           ValidateDisplacedStep, ConfirmNamespaceStep, RenameNewStep, ValidateNewStep, ClaimStep,
           MatchStep, PreserveOpenStep, PreserveStep, PolicyBeforeStep, InspectStep,
           PolicyAfterStep DEF Tool
    <2>3. CASE Others
        BY <2>1, <2>3, EditStep, ReplaceTargetStep, ChangeMetadataStep, ReplaceEntryStep,
           ChangeNamespaceStep DEF Others
    <2>4. CASE PowerLoss
        BY <2>1, <2>4, PowerLossStep
    <2> QED
        BY <1>2, <2>2, <2>3, <2>4 DEF Next
<1> QED
    BY <1>1, <1>2

\* The invariant holds in every reachable state, for every number of edits.
LEMMA Invariance == Spec => []IInv
    BY InitIInv, StepIInv, PTL DEF Spec

\* The current name table is one of those a power loss may bring back.
LEMMA InvariantSuffices == IInv => Properties
<1> SUFFICES ASSUME IInv PROVE Properties
    OBVIOUS
<1>1. CASE pc = "crashed"
    BY <1>1 DEF IInv, Properties
<1>2. CASE pc # "crashed"
    <2>1. RunningOK /\ TableOK(name)
        BY <1>2 DEF IInv, RunningOK, TypesOK, FilesOK
    <2>2. UserContentKept
        BY <2>1 DEF TableOK, UserContentKept, Exists
    <2>3. TargetAlwaysWhole
        BY <2>1 DEF TableOK, TargetAlwaysWhole, Exists, Whole
    <2> QED
        BY <2>2, <2>3 DEF IInv, Properties
<1> QED
    BY <1>1, <1>2

-----------------------------------------------------------------------------
(* The theorems. *)

\* Whatever the call does, fails at or is cut off in, and however often other programs
\* write the target or replace the call's entries meanwhile, every version the user
\* wrote and no other program destroyed is under some name.
THEOREM UserContentTheorem == Spec => []UserContentKept
    BY Invariance, InvariantSuffices, PTL DEF Properties

\* A target that was there to be patched never disappears, and nobody ever sees a
\* partly written staging file at its name, not even after a power loss.
THEOREM TargetWholeTheorem == Spec => []TargetAlwaysWhole
    BY Invariance, InvariantSuffices, PTL DEF Properties

\* What apply_patch reports is what happened to the target, and success means that it
\* took away exactly the content it had patched.
THEOREM PatchReportTheorem == Spec => []PatchReportIsTrue
    BY Invariance, InvariantSuffices, PTL DEF Properties

\* A path listed in recovery_files leads to the displaced or the staged file, unless
\* another program acted after the last check.
THEOREM RecoveryPathTheorem == Spec => []RecoveryPathIsTrue
    BY Invariance, InvariantSuffices, PTL DEF Properties
=============================================================================
