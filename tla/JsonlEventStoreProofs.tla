------------------------- MODULE JsonlEventStoreProofs -------------------------
(***************************************************************************)
(* The JSONL event store for any number of stores, files and records: its  *)
(* invariants, what reconcile establishes, and that the file it maintains  *)
(* is a canonical log.                                                     *)
(***************************************************************************)
EXTENDS JsonlEventStore, SequenceTheorems, TLAPS

-----------------------------------------------------------------------------
(* The inductive invariant *)

Files == [records : Seq(Records), torn : {"no", "writing", "left", "cut"}, synced : Nat]
Handles == [inode : Inodes \cup {0}, parent_directory_needs_sync : BOOLEAN,
            fully_validated : BOOLEAN]
Requests == [op : {"append", "reconcile"}, record : Records, durable : BOOLEAN]

TypesOK ==
    /\ files \in [Inodes -> Files]
    /\ path \in Inodes \cup {0}
    /\ linked \in BOOLEAN
    /\ locks \in [Inodes -> {{}} \cup {{s} : s \in Stores}]
    /\ append_file \in [Stores -> Handles]
    /\ pc \in [Stores -> Labels]
    /\ job \in [Stores -> Requests \cup {RepairJob, NoJob}]

\* Only the file the path names was ever written or locked, and its records are
\* numbered as the store numbers them.
DiskOK ==
    /\ \A i \in Inodes \ {path} : files[i] = EmptyFile /\ locks[i] = {}
    /\ AtPath.synced <= Len(AtPath.records)
    /\ Contiguous(AtPath.records)

\* The steps of an append, and the ones under the exclusive lock.
Holding == {"validate", "write", "writing", "sync", "sync_directory", "done"}
Appending == Holding \cup {"lock"}

\* The steps of reconcile outside the lock, after the repair it starts with.
Recovery == {"decide", "resync", "resync_directory"}

\* A store appends to the file the path names, holds the lock exactly while it
\* should, and knows the directory entry flushed once it has flushed it; nobody is
\* inside a call while a store repairs or reconciles.
StoreOK(s) ==
    /\ Handle(s) \in {0, path}
    /\ Handle(s) # 0 /\ ~append_file[s].parent_directory_needs_sync => linked
    /\ pc[s] \in Holding <=> path # 0 /\ s \in locks[path]
    /\ pc[s] \in Appending => Handle(s) # 0
    /\ pc[s] \in Recovery => Reconciling(s)
    /\ pc[s] = "repair" => Recovering(s) /\ path # 0
    /\ job[s] = RepairJob => pc[s] = "repair"
    /\ Idle(s) <=> job[s] = NoJob
    /\ Recovering(s) => Alone(s)

\* The attempted event is in the log, in its place and alone.
Established(s) ==
    LET records == AtPath.records
        attempted == job[s].record
    IN  /\ attempted.seq \in 1..Len(records)
        /\ records[attempted.seq] = attempted
        /\ job[s].durable =>
              \A i \in 1..Len(records) :
                  SameDurableIdentity(records[i], attempted) => i = attempted.seq

\* What a store inside a call may rely on until it returns: nobody else changes
\* the log under its lock, or while it reconciles.
ViewOK(s) ==
    /\ pc[s] \in {"write", "writing"} => Follows(AtPath.records, job[s].record)
    /\ pc[s] \in {"sync", "sync_directory", "done"} =>
          /\ AtPath.records # <<>>
          /\ AtPath.records[Len(AtPath.records)] = job[s].record
    /\ pc[s] = "sync_directory" => AtPath.synced = Len(AtPath.records)
    /\ pc[s] = "done" /\ job[s].durable => AtPath.synced = Len(AtPath.records) /\ linked
    /\ Reconciling(s) =>
          /\ pc[s] \in {"lock", "validate", "write", "writing"} => JobVerdict(s) = "missing"
          /\ pc[s] \in {"sync", "sync_directory", "done"} => Established(s)
          /\ pc[s] \in {"resync", "resync_directory"} =>
                JobVerdict(s) = "present" /\ job[s].durable
          /\ pc[s] = "resync_directory" => AtPath.synced = Len(AtPath.records)

\* A record is only half written while its writer is at it.
TornOK == AtPath.torn = "writing" => \E s \in Stores : pc[s] = "writing"

\* What was acknowledged as durable is flushed, and so is the directory entry.
AckOK ==
    \A a \in acked :
        /\ path # 0 /\ linked
        /\ a.position \in 1..AtPath.synced
        /\ AtPath.records[a.position] = a.record

IInv ==
    /\ TypesOK
    /\ DiskOK
    /\ \A s \in Stores : StoreOK(s)
    /\ \A s \in Stores : ViewOK(s)
    /\ TornOK
    /\ AckOK

-----------------------------------------------------------------------------
(* Lemmas *)

\* What every step lemma shows besides the invariant: the file changed as a
\* canonical log may.
LogStep == [Canonical!Next]_(Canonical!vars)

\* The file the path names, typed.
LEMMA FileAtPath ==
    ASSUME TypesOK
    PROVE  /\ AtPath \in Files /\ EmptyFile \in Files /\ 0 \notin Inodes
           /\ AtPath.records \in Seq(Records) /\ Len(AtPath.records) \in Nat
           /\ AtPath.synced \in Nat /\ AtPath.torn \in {"no", "writing", "left", "cut"}
<1>1. EmptyFile \in Files /\ 0 \notin Inodes
    BY StoreAssumption DEF EmptyFile, Files
<1>2. AtPath \in Files
    BY <1>1 DEF AtPath, TypesOK
<1> QED
    BY <1>1, <1>2 DEF Files

\* A step that leaves the disk alone.
LEMMA DiskAlone ==
    ASSUME UNCHANGED <<files, path>>
    PROVE  AtPath' = AtPath
    BY DEF AtPath

\* A step that changes the file at the path.
LEMMA DiskChange ==
    ASSUME TypesOK, DiskOK, path # 0, UNCHANGED path, NEW f \in Files,
           files' = [files EXCEPT ![path] = f]
    PROVE  /\ AtPath' = f /\ files' \in [Inodes -> Files]
           /\ \A i \in Inodes \ {path} : files'[i] = EmptyFile
<1>1. files'[path] = f
    BY DEF TypesOK
<1> QED
    BY <1>1 DEF TypesOK, DiskOK, AtPath

\* Nobody repairs or reconciles while another store is inside a call.
LEMMA NoneRecovers ==
    ASSUME IInv, NEW s \in Stores, ~Idle(s), NEW t \in Stores \ {s}
    PROVE  ~Recovering(t)
    BY DEF IInv, StoreOK, Alone

\* While one store is inside its lock, no other store is, nor recovers.
LEMMA Exclusive ==
    ASSUME IInv, NEW s \in Stores, pc[s] \in Holding, NEW t \in Stores \ {s}
    PROVE  pc[t] \notin Holding /\ ~Recovering(t)
<1>1. path # 0 /\ s \in locks[path] /\ path \in Inodes
    BY DEF IInv, StoreOK, TypesOK
<1>2. locks[path] = {s}
    BY <1>1 DEF IInv, TypesOK
<1>3. pc[t] \notin Holding
    BY <1>2 DEF IInv, StoreOK
<1>4. ~Idle(s)
    BY DEF Holding, Idle
<1> QED
    BY <1>3, <1>4, NoneRecovers

\* A store that takes no step keeps its part of the invariant.
LEMMA Bystander ==
    ASSUME NEW t \in Stores, StoreOK(t), ViewOK(t),
           pc'[t] = pc[t], job'[t] = job[t], append_file'[t] = append_file[t],
           (path' # 0 /\ t \in locks'[path']) <=> (path # 0 /\ t \in locks[path]),
           path # 0 => path' = path /\ (linked => linked'),
           Recovering(t) => Alone(t)',
           pc[t] \in Holding \/ Recovering(t) =>
              AtPath'.records = AtPath.records /\ AtPath'.synced = AtPath.synced
    PROVE  StoreOK(t)' /\ ViewOK(t)'
<1>1. /\ Handle(t)' = Handle(t) /\ Reconciling(t)' = Reconciling(t) /\ Idle(t)' = Idle(t)
      /\ Recovering(t)' = Recovering(t) /\ (Reconciling(t) => Recovering(t))
    BY DEF Handle, Reconciling, Recovering, Idle
<1>2. StoreOK(t)'
    BY <1>1 DEF StoreOK
<1>3. pc[t] \in {"write", "writing", "sync", "sync_directory", "done"} => pc[t] \in Holding
    BY DEF Holding
<1>4. AtPath'.records = AtPath.records => JobVerdict(t)' = JobVerdict(t) /\ Established(t)' = Established(t)
    BY DEF JobVerdict, Established
<1>5. pc[t] \in Holding => path # 0
    BY DEF StoreOK
<1>6. ViewOK(t)'
    BY <1>1, <1>3, <1>4, <1>5 DEF ViewOK
<1> QED
    BY <1>2, <1>6

\* A step of one store, and what it must leave of the others.
LEMMA OneStore ==
    ASSUME IInv, NEW s \in Stores, TypesOK', DiskOK', TornOK', AckOK', StoreOK(s)', ViewOK(s)',
           \A t \in Stores \ {s} :
              /\ pc'[t] = pc[t] /\ job'[t] = job[t] /\ append_file'[t] = append_file[t]
              /\ (path' # 0 /\ t \in locks'[path']) <=> (path # 0 /\ t \in locks[path]),
           path # 0 => path' = path /\ (linked => linked'),
           \/ pc'[s] \in {"ok", "idle"}
           \/ \A t \in Stores \ {s} : ~Recovering(t),
           \/ AtPath'.records = AtPath.records /\ AtPath'.synced = AtPath.synced
           \/ \A t \in Stores \ {s} : pc[t] \notin Holding /\ ~Recovering(t)
    PROVE  IInv'
<1>1. ASSUME NEW t \in Stores \ {s} PROVE StoreOK(t)' /\ ViewOK(t)'
    <2>1. StoreOK(t) /\ ViewOK(t)
        BY DEF IInv
    <2>2. Recovering(t) => Alone(t)'
        <3>1. SUFFICES ASSUME Recovering(t), NEW u \in Stores \ {t} PROVE Idle(u)'
            BY DEF Alone
        <3>2. Idle(u)
            BY <2>1, <3>1 DEF StoreOK, Alone
        <3>3. CASE u = s
            BY <3>1, <3>3, <1>1 DEF Idle
        <3>4. CASE u # s
            BY <3>2, <3>4 DEF Idle
        <3> QED
            BY <3>3, <3>4
    <2> QED
        BY <2>1, <2>2, Bystander
<1> QED
    BY <1>1 DEF IInv

\* Acknowledged records stay where they are flushed.
LEMMA AcksKept ==
    ASSUME AckOK, UNCHANGED acked, path # 0 => path' # 0 /\ (linked => linked'),
           AtPath.synced \in Nat, AtPath'.synced \in Nat, AtPath'.synced >= AtPath.synced,
           \A i \in 1..AtPath.synced : AtPath'.records[i] = AtPath.records[i]
    PROVE  AckOK'
    BY DEF AckOK

\* A torn record is still being written, or no longer half written.
LEMMA TornKept ==
    ASSUME TornOK, NEW s \in Stores, AtPath'.torn # "writing" \/ AtPath'.torn = AtPath.torn,
           pc[s] = "writing" => pc'[s] = "writing" \/ AtPath'.torn # "writing",
           \A t \in Stores \ {s} : pc'[t] = pc[t]
    PROVE  TornOK'
    BY DEF TornOK

\* A step that keeps the records, flushes at most more of them and keeps the
\* directory entry is a step of the canonical log.
LEMMA HardenStep ==
    ASSUME TypesOK, TypesOK', AtPath'.records = AtPath.records, AtPath.synced <= Len(AtPath.records),
           AtPath'.synced >= AtPath.synced, AtPath'.synced <= Len(AtPath.records),
           linked => linked' \/ AtPath.synced = 0
    PROVE  LogStep
<1>1. /\ AtPath.synced \in Nat /\ AtPath'.synced \in Nat /\ Len(AtPath.records) \in Nat
      /\ linked \in BOOLEAN /\ linked' \in BOOLEAN
    BY FileAtPath DEF TypesOK, Files, AtPath
<1> DEFINE durable == IF linked THEN AtPath.synced ELSE 0
           after == IF linked' THEN AtPath'.synced ELSE 0
<1>2. after \in durable..Len(AtPath.records)
    BY <1>1
<1>3. Canonical!Harden
    BY <1>2 DEF Canonical!Harden
<1> QED
    BY <1>3 DEF LogStep, Canonical!Next

\* A store inside a call has a request; one that appends does so to the path.
LEMMA Caller ==
    ASSUME IInv, NEW s \in Stores, ~Idle(s)
    PROVE  /\ pc[s] # "repair" => job[s] \in Requests
           /\ pc[s] \in Appending =>
                 /\ job[s] \in Requests /\ job[s].record \in Records /\ job[s].durable \in BOOLEAN
                 /\ Handle(s) = path /\ path \in Inodes /\ path # 0 /\ AtPath = files[path]
                 /\ files = [files EXCEPT ![path] = AtPath]
                 /\ append_file[s] \in Handles /\ append_file[s].inode = path
                 /\ append_file = [append_file EXCEPT ![s] = append_file[s]]
                 /\ ~append_file[s].parent_directory_needs_sync => linked
<1>1. /\ pc[s] # "repair" => job[s] \in Requests
      /\ pc[s] \in Appending => pc[s] # "repair"
    BY DEF IInv, StoreOK, TypesOK, Appending, Holding
<1>2. ASSUME pc[s] \in Appending
      PROVE  /\ Handle(s) = path /\ path \in Inodes /\ path # 0 /\ AtPath = files[path]
             /\ append_file[s].inode = path
             /\ ~append_file[s].parent_directory_needs_sync => linked
    BY <1>2 DEF IInv, StoreOK, TypesOK, AtPath, Handle
<1>3. append_file[s] \in Handles /\ append_file = [append_file EXCEPT ![s] = append_file[s]]
    BY DEF IInv, TypesOK
<1>4. path \in Inodes => files = [files EXCEPT ![path] = files[path]]
    BY DEF IInv, TypesOK
<1> QED
    BY <1>1, <1>2, <1>3, <1>4 DEF Requests

\* Under the lock only its holder can be writing.
LEMMA NotTorn ==
    ASSUME IInv, NEW s \in Stores, pc[s] \in Holding, pc[s] # "writing"
    PROVE  AtPath.torn # "writing"
<1>1. ASSUME NEW t \in Stores PROVE pc[t] # "writing"
    BY Exclusive DEF Holding
<1> QED
    BY <1>1 DEF IInv, TornOK

\* A step under the lock that keeps it.
LEMMA HeldStep ==
    ASSUME IInv, NEW s \in Stores, pc[s] \in Holding,
           NEW label \in Holding, NEW f \in Files, NEW h \in Handles,
           pc' = [pc EXCEPT ![s] = label], append_file' = [append_file EXCEPT ![s] = h],
           files' = [files EXCEPT ![path] = f],
           UNCHANGED <<job, path, locks, acked>>, linked' \in BOOLEAN, linked => linked',
           h.inode = path, ~h.parent_directory_needs_sync => linked',
           f.synced <= Len(f.records), f.synced >= AtPath.synced, Contiguous(f.records),
           \A i \in 1..AtPath.synced : f.records[i] = AtPath.records[i],
           f.torn = "writing" => label = "writing",
           ViewOK(s)'
    PROVE  IInv'
<1>1. path # 0 /\ path \in Inodes /\ s \in locks[path] /\ ~Idle(s)
    BY DEF IInv, StoreOK, TypesOK, Holding, Idle
<1>2. /\ AtPath' = f /\ files' \in [Inodes -> Files]
      /\ \A i \in Inodes \ {path} : files'[i] = EmptyFile
    BY <1>1, DiskChange DEF IInv
<1>3. label \in Labels
    BY DEF Holding, Labels
<1>4. TypesOK'
    BY <1>2, <1>3 DEF IInv, TypesOK
<1>5. DiskOK'
    BY <1>2 DEF IInv, DiskOK
<1>6. pc'[s] = label /\ append_file'[s] = h /\ job'[s] = job[s]
    BY DEF IInv, TypesOK
<1>7. TornOK'
    BY <1>2, <1>6 DEF TornOK
<1>8. AckOK'
    BY <1>1, <1>2, FileAtPath, AcksKept DEF IInv, Files
<1>9. \A t \in Stores \ {s} : pc[t] \notin Holding /\ ~Recovering(t)
    BY Exclusive
<1>10. \A t \in Stores \ {s} : pc'[t] = pc[t] /\ append_file'[t] = append_file[t]
    BY DEF IInv, TypesOK
<1>11. StoreOK(s)'
    <2>1. label \notin {"ok", "idle", "repair"} \cup Recovery /\ label \in Appending
        BY DEF Holding, Appending, Recovery
    <2>2. Handle(s)' = path /\ Recovering(s)' = Recovering(s) /\ ~Idle(s)'
        BY <1>6, <2>1 DEF Handle, Reconciling, Recovering, Idle
    <2>3. job[s] \notin {NoJob, RepairJob} /\ (Recovering(s) => Alone(s))
        BY <1>1 DEF IInv, StoreOK, Holding
    <2>4. Recovering(s) => Alone(s)'
        BY <2>3, <1>10 DEF Alone, Idle
    <2> QED
        BY <1>1, <1>6, <2>1, <2>2, <2>3, <2>4 DEF StoreOK
<1> QED
    BY <1>1, <1>4, <1>5, <1>7, <1>8, <1>9, <1>10, <1>11, OneStore

\* The end of a call under the lock, well or badly.
LEMMA ReleaseStep ==
    ASSUME IInv, NEW s \in Stores, pc[s] \in Holding, NEW result \in {"ok", "idle"},
           NEW f \in Files, NEW h \in Handles,
           Unlock(s), Return(s, result), append_file' = [append_file EXCEPT ![s] = h],
           files' = [files EXCEPT ![path] = f], UNCHANGED <<path, linked>>,
           h.inode \in {0, path}, h.inode # 0 /\ ~h.parent_directory_needs_sync => linked,
           f.records = AtPath.records, f.synced = AtPath.synced, f.torn # "writing",
           AtPath' = f => AckOK'
    PROVE  IInv' /\ LogStep
<1>1. path # 0 /\ path \in Inodes /\ s \in locks[path] /\ locks[path] = {s}
    BY DEF IInv, StoreOK, TypesOK
<1>2. /\ AtPath' = f /\ files' \in [Inodes -> Files]
      /\ \A i \in Inodes \ {path} : files'[i] = EmptyFile
    BY <1>1, DiskChange DEF IInv
<1>3. /\ pc' = [pc EXCEPT ![s] = result] /\ job' = [job EXCEPT ![s] = NoJob]
    BY DEF Return, Call
<1>4. locks' = [i \in Inodes |-> {}]
    BY <1>1 DEF Unlock, IInv, DiskOK
<1>5. TypesOK'
    BY <1>2, <1>3, <1>4 DEF IInv, TypesOK, Labels
<1>6. DiskOK'
    BY <1>2, <1>4 DEF IInv, DiskOK
<1>7. pc'[s] = result /\ append_file'[s] = h /\ job'[s] = NoJob
    BY <1>3 DEF IInv, TypesOK
<1>8. TornOK'
    BY <1>2 DEF TornOK
<1>9. \A t \in Stores \ {s} : pc[t] \notin Holding /\ ~Recovering(t)
    BY Exclusive
<1>10. \A t \in Stores \ {s} : pc'[t] = pc[t] /\ job'[t] = job[t] /\ append_file'[t] = append_file[t]
    BY <1>3 DEF IInv, TypesOK
<1>11. StoreOK(s)' /\ ViewOK(s)'
    <2>1. Handle(s)' = h.inode /\ ~Recovering(s)' /\ Idle(s)' /\ result \notin Appending \cup Recovery
              /\ ~Reconciling(s)' /\ NoJob # RepairJob
        BY <1>7 DEF Handle, Recovering, Reconciling, Idle, NoJob, RepairJob, Appending, Holding, Recovery
    <2>2. StoreOK(s)'
        BY <1>1, <1>4, <1>7, <2>1 DEF StoreOK, Appending
    <2> QED
        BY <1>7, <2>1, <2>2 DEF ViewOK
<1>12. IInv'
    BY <1>1, <1>2, <1>4, <1>5, <1>6, <1>7, <1>8, <1>9, <1>10, <1>11, OneStore
<1>13. LogStep
    BY <1>2, <1>5, HardenStep, FileAtPath DEF IInv, DiskOK
<1> QED
    BY <1>12, <1>13

\* The end of a call, or of a store's process, outside the lock.
LEMMA QuitStep ==
    ASSUME IInv, NEW s \in Stores, pc[s] \notin Holding, NEW result \in {"ok", "idle"},
           NEW h \in Handles, Return(s, result), append_file' = [append_file EXCEPT ![s] = h],
           UNCHANGED <<disk, locks, acked>>,
           h.inode \in {0, path}, h.inode # 0 /\ ~h.parent_directory_needs_sync => linked
    PROVE  IInv' /\ LogStep
<1> USE DEF disk
<1>1. pc' = [pc EXCEPT ![s] = result] /\ job' = [job EXCEPT ![s] = NoJob]
    BY DEF Return, Call
<1>2. AtPath' = AtPath
    BY DiskAlone
<1>3. TypesOK' /\ DiskOK'
    BY <1>1, <1>2 DEF IInv, TypesOK, Labels, DiskOK
<1>4. pc'[s] = result /\ append_file'[s] = h /\ job'[s] = NoJob
    BY <1>1 DEF IInv, TypesOK
<1>5. \A t \in Stores \ {s} : pc'[t] = pc[t] /\ job'[t] = job[t] /\ append_file'[t] = append_file[t]
    BY <1>1 DEF IInv, TypesOK
<1>6. TornOK'
    BY <1>2, <1>5, TornKept DEF IInv, Holding
<1>7. AckOK'
    BY <1>2, AcksKept, FileAtPath DEF IInv
<1>8. StoreOK(s)' /\ ViewOK(s)'
    <2>1. Handle(s)' = h.inode /\ ~Recovering(s)' /\ Idle(s)' /\ result \notin Appending \cup Recovery
              /\ ~Reconciling(s)' /\ NoJob # RepairJob
        BY <1>4 DEF Handle, Recovering, Reconciling, Idle, NoJob, RepairJob, Appending, Holding, Recovery
    <2>2. StoreOK(s)'
        BY <1>4, <2>1 DEF IInv, StoreOK, Appending
    <2> QED
        BY <1>4, <2>1, <2>2 DEF ViewOK
<1>9. IInv'
    BY <1>2, <1>3, <1>4, <1>5, <1>6, <1>7, <1>8, OneStore
<1>10. LogStep
    BY <1>2, <1>3, HardenStep, FileAtPath DEF IInv, DiskOK
<1> QED
    BY <1>9, <1>10

-----------------------------------------------------------------------------
(* Appending *)

\* A record that follows a contiguous log leaves it contiguous.
LEMMA AppendedFacts ==
    ASSUME NEW s \in Seq(Records), NEW r \in Records
    PROVE  /\ Append(s, r) \in Seq(Records) /\ Len(s) \in Nat /\ Len(Append(s, r)) = Len(s) + 1
           /\ Append(s, r)[Len(s) + 1] = r
           /\ \A i \in 1..Len(s) : Append(s, r)[i] = s[i]
           /\ Append(s, r) # <<>>
    OBVIOUS

\* A record that follows the last one keeps the log contiguous.
LEMMA FollowsKeepsContiguous ==
    ASSUME NEW s \in Seq(Records), Contiguous(s), NEW r \in Records, Follows(s, r)
    PROVE  Contiguous(Append(s, r))
<1>1. CASE s = <<>>
    BY <1>1, AppendedFacts DEF Follows, Contiguous
<1>2. CASE s # <<>>
    <2>1. Len(s) \in 1..Len(s) /\ Last(s) = s[Len(s)]
        BY <1>2 DEF Last
    <2> QED
        BY AppendedFacts, <1>2, <2>1 DEF Follows, Contiguous
<1> QED
    BY <1>1, <1>2

\* open_append_file leaves the store with the file the path names, which is a new
\* and empty one if there was none.
LEMMA OpenFacts ==
    ASSUME IInv, NEW s \in Stores, Open(s)
    PROVE  /\ path' \in Inodes /\ path' # 0 /\ (path # 0 => path' = path)
           /\ linked' \in BOOLEAN /\ (path # 0 => linked' = linked)
           /\ append_file' \in [Stores -> Handles] /\ append_file'[s].inode = path'
           /\ append_file'[s].parent_directory_needs_sync \/ linked'
           /\ \A t \in Stores \ {s} : append_file'[t] = append_file[t]
           /\ files' = files /\ AtPath' = AtPath
           /\ \A i \in Inodes \ {path'} : files[i] = EmptyFile
           /\ path = 0 => AtPath = EmptyFile
<1> USE StoreAssumption
<1>1. CASE Handle(s) # 0
    <2>1. UNCHANGED <<disk, append_file>> /\ Handle(s) = path
        BY <1>1 DEF Open, IInv, StoreOK
    <2> QED
        BY <1>1, <2>1 DEF disk, IInv, StoreOK, TypesOK, Handle, DiskOK, AtPath
<1>2. CASE Handle(s) = 0
    <2>1. PICK i \in IF path = 0 THEN Fresh ELSE {path} :
            /\ path' = i
            /\ linked' = IF path = 0 THEN FALSE ELSE linked
            /\ append_file' = [append_file EXCEPT ![s] =
                   [inode |-> i, parent_directory_needs_sync |-> TRUE, fully_validated |-> FALSE]]
            /\ UNCHANGED files
        BY <1>2 DEF Open
    <2>2. i \in Inodes /\ i # 0 /\ (path # 0 => i = path) /\ (path = 0 => files[i] = EmptyFile)
        BY <2>1 DEF Fresh, IInv, TypesOK
    <2> DEFINE h == [inode |-> i, parent_directory_needs_sync |-> TRUE, fully_validated |-> FALSE]
    <2>3. h \in Handles /\ h.inode = i /\ h.parent_directory_needs_sync
        BY <2>2 DEF Handles
    <2>4. append_file' = [append_file EXCEPT ![s] = h]
        BY <2>1
    <2> HIDE DEF h
    <2>5. /\ append_file' \in [Stores -> Handles] /\ append_file'[s] = h
          /\ \A t \in Stores \ {s} : append_file'[t] = append_file[t]
        BY <2>3, <2>4 DEF IInv, TypesOK
    <2>6. AtPath' = AtPath /\ (path = 0 => AtPath = EmptyFile)
        BY <2>1, <2>2 DEF AtPath
    <2>7. \A j \in Inodes \ {path'} : files[j] = EmptyFile
        BY <2>1, <2>2 DEF IInv, DiskOK
    <2> QED
        BY <2>1, <2>2, <2>3, <2>5, <2>6, <2>7 DEF IInv, TypesOK
<1> QED
    BY <1>1, <1>2

\* A call goes for the lock of the file it opened.
LEMMA OpenStep ==
    ASSUME IInv, NEW s \in Stores, Open(s), UNCHANGED <<locks, acked>>, pc[s] \notin Holding,
           pc' = [pc EXCEPT ![s] = "lock"], NEW j \in Requests, job' = [job EXCEPT ![s] = j],
           \A t \in Stores \ {s} : ~Recovering(t),
           j.op = "reconcile" => Alone(s),
           j.op = "reconcile" =>
              Verdict(AtPath.records, j.record, IF j.durable THEN "Durable" ELSE "Buffered") = "missing"
    PROVE  IInv' /\ LogStep
<1>1. /\ path' \in Inodes /\ path' # 0 /\ (path # 0 => path' = path)
      /\ linked' \in BOOLEAN /\ (path # 0 => linked' = linked)
      /\ append_file' \in [Stores -> Handles] /\ append_file'[s].inode = path'
      /\ append_file'[s].parent_directory_needs_sync \/ linked'
      /\ \A t \in Stores \ {s} : append_file'[t] = append_file[t]
      /\ files' = files /\ AtPath' = AtPath
      /\ \A i \in Inodes \ {path'} : files[i] = EmptyFile
      /\ path = 0 => AtPath = EmptyFile
    BY OpenFacts
<1>2. \A i \in Inodes : i # path => locks'[i] = {}
    BY DEF IInv, DiskOK
<1>3. TypesOK'
    BY <1>1 DEF IInv, TypesOK, Labels
<1>4. DiskOK'
    BY <1>1, <1>2, StoreAssumption DEF IInv, DiskOK
<1>5. pc'[s] = "lock" /\ job'[s] = j
    BY DEF IInv, TypesOK
<1>6. \A t \in Stores \ {s} : pc'[t] = pc[t] /\ job'[t] = job[t]
    BY DEF IInv, TypesOK
<1>7. TornOK'
    BY <1>1, <1>6, TornKept DEF IInv, Holding
<1>8. AckOK'
    BY <1>1, AcksKept, FileAtPath DEF IInv
<1>9. StoreOK(s)'
    <2>1. Handle(s)' = path' /\ (Recovering(s)' <=> j.op = "reconcile") /\ ~Idle(s)'
              /\ j \notin {NoJob, RepairJob}
        BY <1>1, <1>5 DEF Handle, Recovering, Reconciling, Idle, Requests, NoJob, RepairJob
    <2>2. ~(path # 0 /\ s \in locks[path])
        BY DEF IInv, StoreOK
    <2>3. s \notin locks'[path']
        BY <1>1, <1>2, <2>2
    <2>4. Alone(s) => Alone(s)'
        BY <1>6 DEF Alone, Idle
    <2> QED
        BY <1>1, <1>5, <2>1, <2>3, <2>4 DEF StoreOK, Appending, Holding, Recovery
<1>10. ViewOK(s)'
    <2>1. j.op = "reconcile" => JobVerdict(s)' = "missing"
        BY <1>1, <1>5 DEF JobVerdict
    <2> QED
        BY <1>5, <2>1 DEF ViewOK, Reconciling
<1>11. \A t \in Stores : (path' # 0 /\ t \in locks'[path']) <=> (path # 0 /\ t \in locks[path])
    BY <1>1, <1>2
<1>12. IInv'
    BY <1>1, <1>3, <1>4, <1>5, <1>6, <1>7, <1>8, <1>9, <1>10, <1>11, OneStore
<1>13. LogStep
    <2>1. path = 0 => AtPath.synced = 0
        BY <1>1 DEF EmptyFile
    <2> QED
        BY <1>1, <1>3, <2>1, HardenStep, FileAtPath DEF IInv, DiskOK
<1> QED
    BY <1>12, <1>13

\* A new file is empty, which is a log with no records.
LEMMA StepCreateNew ==
    ASSUME IInv, NEW s \in Stores, CreateNew(s)
    PROVE  IInv' /\ LogStep
<1>1. PICK i \in Fresh :
          /\ path' = i
          /\ append_file' = [append_file EXCEPT ![s] =
                 [inode |-> i, parent_directory_needs_sync |-> TRUE, fully_validated |-> TRUE]]
    BY DEF CreateNew
<1>2. /\ Idle(s) /\ path = 0 /\ linked' = FALSE
      /\ UNCHANGED <<files, locks, pc, job, acked>>
    BY DEF CreateNew
<1>3. i \in Inodes /\ i # 0 /\ files[i] = EmptyFile
    BY <1>1, StoreAssumption DEF Fresh
<1> DEFINE h == [inode |-> i, parent_directory_needs_sync |-> TRUE, fully_validated |-> TRUE]
<1>4. h \in Handles /\ h.inode = i /\ h.parent_directory_needs_sync
    BY <1>3 DEF Handles
<1>5. append_file' = [append_file EXCEPT ![s] = h]
    BY <1>1
<1> HIDE DEF h
<1>6. /\ append_file' \in [Stores -> Handles] /\ append_file'[s] = h
      /\ \A t \in Stores \ {s} : append_file'[t] = append_file[t]
    BY <1>4, <1>5 DEF IInv, TypesOK
<1>7. AtPath' = AtPath /\ AtPath = EmptyFile
    BY <1>1, <1>2, <1>3 DEF AtPath
<1>8. \A j \in Inodes : files[j] = EmptyFile /\ locks[j] = {}
    BY <1>2, StoreAssumption DEF IInv, DiskOK
<1>9. TypesOK' /\ DiskOK'
    BY <1>1, <1>2, <1>3, <1>6, <1>7, <1>8 DEF IInv, TypesOK, DiskOK
<1>10. TornOK' /\ AckOK'
    BY <1>2, <1>7 DEF IInv, TornOK, AckOK
<1>11. StoreOK(s)'
    <2>1. Handle(s)' = i /\ ~Recovering(s) /\ ~Recovering(s)' /\ Idle(s)'
        BY <1>2, <1>4, <1>6 DEF IInv, StoreOK, Handle, Recovering, Reconciling, Idle, NoJob, RepairJob
    <2>2. pc'[s] \notin Appending \cup Recovery \cup {"repair"}
        BY <1>2 DEF Idle, Appending, Holding, Recovery
    <2> QED
        BY <1>1, <1>2, <1>3, <1>4, <1>6, <1>8, <2>1, <2>2 DEF IInv, StoreOK, Appending
<1>12. ViewOK(s)'
    <2>1. ~Reconciling(s)' /\ pc'[s] \in {"ok", "idle"}
        BY <1>2 DEF IInv, StoreOK, Reconciling, NoJob, Idle
    <2> QED
        BY <2>1 DEF ViewOK
<1>13. IInv'
    <2>1. \A t \in Stores : ~(path' # 0 /\ t \in locks'[path']) /\ ~(path # 0 /\ t \in locks[path])
        BY <1>1, <1>2, <1>3, <1>8
    <2> QED
        BY <1>2, <1>6, <1>7, <1>9, <1>10, <1>11, <1>12, <2>1, OneStore DEF Idle
<1>14. LogStep
    <2>1. AtPath.synced = 0
        BY <1>7 DEF EmptyFile
    <2> QED
        BY <1>7, <1>9, <2>1, HardenStep, FileAtPath DEF IInv, DiskOK
<1> QED
    BY <1>13, <1>14

\* A call only records what it was asked to do.
LEMMA StepCallAppend ==
    ASSUME IInv, NEW s \in Stores, NEW seq \in 0..MaxRecords, NEW body \in Bodies,
           NEW durable \in BOOLEAN, CallAppend(s, seq, body, durable)
    PROVE  IInv' /\ LogStep
<1> DEFINE j == [op |-> "append", record |-> Numbered(seq, body), durable |-> durable]
<1>1. Numbered(seq, body) \in Records
    BY DEF Records
<1>2. j \in Requests /\ j.op # "reconcile"
    BY <1>1 DEF Requests
<1>3. /\ Open(s) /\ pc' = [pc EXCEPT ![s] = "lock"] /\ job' = [job EXCEPT ![s] = j]
      /\ UNCHANGED <<locks, acked>> /\ pc[s] \notin Holding
      /\ \A t \in Stores \ {s} : ~Recovering(t)
    BY DEF CallAppend, Call, caller, Idle, Holding
<1> HIDE DEF j
<1> QED
    BY <1>2, <1>3, OpenStep

\* The lock is granted to one store at a time.
LEMMA StepLock ==
    ASSUME IInv, NEW s \in Stores, Lock(s)
    PROVE  IInv' /\ LogStep
<1>1. /\ pc[s] = "lock" /\ UNCHANGED <<disk, append_file, acked>> /\ ~Idle(s)
      /\ pc[s] \in Appending /\ pc[s] \notin Holding
    BY DEF Lock, caller, Idle, Appending, Holding
<1>2. /\ Handle(s) = path /\ path \in Inodes /\ path # 0 /\ job[s] \in Requests
      /\ append_file[s] \in Handles /\ append_file[s].inode = path
      /\ append_file = [append_file EXCEPT ![s] = append_file[s]]
      /\ ~append_file[s].parent_directory_needs_sync => linked
    BY <1>1, Caller
<1>3. CASE Return(s, "idle") /\ UNCHANGED locks
    BY <1>1, <1>2, <1>3, QuitStep
<1>4. CASE locks[path] = {} /\ locks' = [locks EXCEPT ![path] = {s}] /\ Goto(s, "validate")
    <2>1. pc' = [pc EXCEPT ![s] = "validate"] /\ UNCHANGED <<job, files, path, linked>>
        BY <1>1, <1>4 DEF Goto, disk
    <2>2. AtPath' = AtPath
        BY <2>1, DiskAlone
    <2>3. locks'[path] = {s} /\ \A i \in Inodes \ {path} : locks'[i] = locks[i]
        BY <1>2, <1>4 DEF IInv, TypesOK
    <2>4. TypesOK' /\ DiskOK'
        BY <1>1, <1>2, <1>4, <2>1, <2>2, <2>3 DEF IInv, TypesOK, DiskOK, Labels
    <2>5. \A t \in Stores \ {s} : pc'[t] = pc[t]
        BY <2>1 DEF IInv, TypesOK
    <2>6. pc'[s] = "validate"
        BY <2>1 DEF IInv, TypesOK
    <2>7. TornOK' /\ AckOK'
        BY <1>1, <2>1, <2>2, <2>5, TornKept, AcksKept, FileAtPath DEF IInv
    <2>8. StoreOK(s)'
        <3>1. Handle(s)' = Handle(s) /\ Recovering(s)' = Recovering(s) /\ ~Idle(s)'
            BY <1>1, <2>1, <2>6 DEF Handle, Recovering, Reconciling, Idle
        <3>2. Recovering(s) => Alone(s)'
            BY <2>5 DEF IInv, StoreOK, Alone, Idle
        <3>3. /\ Handle(s) \in {0, path}
              /\ Handle(s) # 0 /\ ~append_file[s].parent_directory_needs_sync => linked
              /\ job[s] \notin {NoJob, RepairJob}
            BY <1>1 DEF IInv, StoreOK
        <3> QED
            BY <1>1, <1>2, <2>1, <2>3, <2>6, <3>1, <3>2, <3>3 DEF StoreOK, Appending, Holding, Recovery
    <2>9. ViewOK(s)'
        <3>1. Reconciling(s)' => JobVerdict(s)' = "missing"
            BY <1>1, <2>1, <2>2 DEF IInv, ViewOK, JobVerdict, Reconciling
        <3> QED
            BY <2>6, <3>1 DEF ViewOK
    <2>10. IInv'
        BY <1>1, <1>2, <1>4, <2>1, <2>2, <2>3, <2>4, <2>5, <2>7, <2>8, <2>9, OneStore, NoneRecovers
    <2>11. LogStep
        BY <2>1, <2>2, <2>4, HardenStep, FileAtPath DEF IInv, DiskOK
    <2> QED
        BY <2>10, <2>11
<1> QED
    BY <1>2, <1>3, <1>4 DEF Lock

\* The record admitted under the lock follows the log the path names.
LEMMA AdmissibleFollows ==
    ASSUME IInv, NEW s \in Stores, pc[s] = "validate", Admissible(s)
    PROVE  Follows(AtPath.records, job[s].record)
<1>1. Handle(s) = path /\ AtPath = files[path]
    BY Caller DEF Idle, Appending, Holding
<1>2. Position(s) = AtPath.records
    BY <1>1 DEF Position
<1> QED
    BY <1>1, <1>2 DEF Admissible

\* A record that passes validation follows the last record of the log.
LEMMA StepValidate ==
    ASSUME IInv, NEW s \in Stores, Validate(s)
    PROVE  IInv' /\ LogStep
<1>1. /\ pc[s] = "validate" /\ UNCHANGED <<disk, acked>> /\ ~Idle(s)
      /\ pc[s] \in Appending /\ pc[s] \in Holding
    BY DEF Validate, caller, Idle, Appending, Holding
<1>2. /\ Handle(s) = path /\ path \in Inodes /\ path # 0 /\ AtPath = files[path]
      /\ files = [files EXCEPT ![path] = AtPath]
      /\ append_file[s] \in Handles /\ append_file[s].inode = path
      /\ ~append_file[s].parent_directory_needs_sync => linked
    BY <1>1, Caller
<1>3. AtPath \in Files /\ AtPath.torn # "writing" /\ AtPath' = AtPath
    BY <1>1, FileAtPath, NotTorn, DiskAlone DEF IInv, disk
<1> DEFINE f == AtPath
<1>4. CASE FailAppend(s)
    <2>1. NoHandle \in Handles /\ NoHandle.inode = 0
        BY DEF NoHandle, Handles
    <2>2. /\ Unlock(s) /\ Return(s, "idle") /\ append_file' = [append_file EXCEPT ![s] = NoHandle]
          /\ files' = [files EXCEPT ![path] = f] /\ UNCHANGED <<path, linked>>
        BY <1>1, <1>2, <1>4 DEF FailAppend, disk
    <2>3. AckOK'
        BY <1>1, <1>3, AcksKept, FileAtPath DEF IInv, disk
    <2> QED
        BY <1>1, <1>3, <2>1, <2>2, <2>3, ReleaseStep
<1>5. CASE /\ Admissible(s) /\ Goto(s, "write") /\ UNCHANGED locks
           /\ append_file' = [append_file EXCEPT ![s].fully_validated = TRUE]
    <2> DEFINE h == [append_file[s] EXCEPT !.fully_validated = TRUE]
    <2>1. /\ h \in Handles /\ h.inode = path
          /\ h.parent_directory_needs_sync = append_file[s].parent_directory_needs_sync
        BY <1>2 DEF Handles
    <2>2. append_file' = [append_file EXCEPT ![s] = h]
        BY <1>5
    <2> HIDE DEF h
    <2>3. /\ pc' = [pc EXCEPT ![s] = "write"] /\ UNCHANGED <<job, path, locks, acked, linked>>
          /\ files' = [files EXCEPT ![path] = f]
        BY <1>1, <1>2, <1>5 DEF Goto, disk
    <2>4. pc'[s] = "write" /\ "write" \in Holding
        BY <2>3 DEF IInv, TypesOK, Holding
    <2>5. ViewOK(s)'
        <3>1. Follows(AtPath.records, job[s].record)
            BY <1>1, <1>5, AdmissibleFollows
        <3>2. Reconciling(s)' => JobVerdict(s)' = "missing"
            BY <1>1, <1>3, <2>3 DEF IInv, ViewOK, JobVerdict, Reconciling
        <3> QED
            BY <1>3, <2>3, <2>4, <3>1, <3>2 DEF ViewOK
    <2>6. f.synced <= Len(f.records) /\ Contiguous(f.records) /\ f.synced >= AtPath.synced
        BY FileAtPath DEF IInv, DiskOK
    <2>7. IInv'
        BY <1>1, <1>2, <1>3, <2>1, <2>2, <2>3, <2>4, <2>5, <2>6, HeldStep DEF IInv, TypesOK
    <2>8. LogStep
        BY <1>3, <2>3, <2>6, <2>7, HardenStep DEF IInv
    <2> QED
        BY <2>7, <2>8
<1> QED
    BY <1>4, <1>5 DEF Validate

\* A partial write leaves a torn tail and no record.
LEMMA StepWriteSome ==
    ASSUME IInv, NEW s \in Stores, WriteSome(s)
    PROVE  IInv' /\ LogStep
<1>1. /\ pc[s] = "write" /\ ~Idle(s) /\ pc[s] \in Appending /\ pc[s] \in Holding
      /\ pc' = [pc EXCEPT ![s] = "writing"] /\ UNCHANGED <<job, path, locks, acked, linked, append_file>>
    BY DEF WriteSome, Goto, caller, Idle, Appending, Holding
<1>2. /\ Handle(s) = path /\ path \in Inodes /\ path # 0 /\ AtPath = files[path]
      /\ append_file[s] \in Handles /\ append_file[s].inode = path
      /\ append_file = [append_file EXCEPT ![s] = append_file[s]]
      /\ ~append_file[s].parent_directory_needs_sync => linked
    BY <1>1, Caller
<1> DEFINE f == [AtPath EXCEPT !.torn = "writing"]
<1>3. f \in Files /\ f.records = AtPath.records /\ f.synced = AtPath.synced
    BY FileAtPath DEF IInv, Files
<1>4. files' = [files EXCEPT ![path] = f]
    BY <1>2 DEF WriteSome
<1> HIDE DEF f
<1>5. AtPath' = f
    BY <1>1, <1>2, <1>3, <1>4, DiskChange DEF IInv
<1>6. pc'[s] = "writing" /\ "writing" \in Holding
    BY <1>1 DEF IInv, TypesOK, Holding
<1>7. ViewOK(s)'
    <2>1. Follows(AtPath.records, job[s].record)
        BY <1>1 DEF IInv, ViewOK
    <2>2. Reconciling(s)' => JobVerdict(s)' = "missing"
        BY <1>1, <1>3, <1>5 DEF IInv, ViewOK, JobVerdict, Reconciling
    <2> QED
        BY <1>1, <1>3, <1>5, <1>6, <2>1, <2>2 DEF ViewOK
<1>8. f.synced <= Len(f.records) /\ Contiguous(f.records) /\ f.synced >= AtPath.synced
    BY <1>3, FileAtPath DEF IInv, DiskOK
<1>9. IInv'
    BY <1>1, <1>2, <1>3, <1>4, <1>6, <1>7, <1>8, HeldStep DEF IInv, TypesOK
<1>10. LogStep
    BY <1>1, <1>3, <1>5, <1>8, <1>9, HardenStep DEF IInv
<1> QED
    BY <1>9, <1>10

\* A missing event that is appended in its turn is the only one of its step.
LEMMA MissingThenAppended ==
    ASSUME NEW log \in Seq(Records), NEW r \in Records, NEW durability,
           Verdict(log, r, durability) = "missing"
    PROVE  /\ r.seq = Len(log) + 1
           /\ durability = "Durable" => \A i \in 1..Len(log) : ~SameDurableIdentity(log[i], r)
<1>1. Persisted(log, r, durability) = {} /\ r.seq = Len(log) + 1
    BY DEF Verdict
<1> QED
    BY <1>1 DEF Persisted

\* The last byte of the write makes the record part of the log: the abstract append.
LEMMA StepWriteRest ==
    ASSUME IInv, NEW s \in Stores, WriteRest(s)
    PROVE  IInv' /\ LogStep
<1> DEFINE label == IF job[s].durable THEN "sync" ELSE "done"
           r == job[s].record
           log == AtPath.records
<1>1. /\ pc[s] = "writing" /\ ~Idle(s) /\ pc[s] \in Appending /\ pc[s] \in Holding
      /\ pc' = [pc EXCEPT ![s] = label] /\ UNCHANGED <<job, path, locks, acked, linked, append_file>>
    BY DEF WriteRest, Goto, caller, Idle, Appending, Holding
<1>2. /\ Handle(s) = path /\ path \in Inodes /\ path # 0 /\ AtPath = files[path]
      /\ append_file[s] \in Handles /\ append_file[s].inode = path
      /\ append_file = [append_file EXCEPT ![s] = append_file[s]]
      /\ ~append_file[s].parent_directory_needs_sync => linked
      /\ r \in Records /\ job[s].durable \in BOOLEAN
    BY <1>1, Caller
<1> DEFINE f == [AtPath EXCEPT !.torn = "no", !.records = Append(log, r)]
<1>3. /\ log \in Seq(Records) /\ Len(log) \in Nat /\ AtPath.synced \in Nat /\ AtPath \in Files
      /\ AtPath.synced <= Len(log) /\ Contiguous(log)
    BY FileAtPath DEF IInv, DiskOK
<1>4. /\ Append(log, r) \in Seq(Records) /\ Len(Append(log, r)) = Len(log) + 1
      /\ Append(log, r)[Len(log) + 1] = r /\ Append(log, r) # <<>>
      /\ \A i \in 1..Len(log) : Append(log, r)[i] = log[i]
    BY <1>2, <1>3, AppendedFacts
<1>5. f \in Files /\ f.records = Append(log, r) /\ f.synced = AtPath.synced /\ f.torn = "no"
    BY <1>3, <1>4 DEF Files
<1>6. files' = [files EXCEPT ![path] = f]
    BY <1>2 DEF WriteRest
<1> HIDE DEF f
<1>7. AtPath' = f
    BY <1>1, <1>2, <1>5, <1>6, DiskChange DEF IInv
<1>8. pc'[s] = label /\ label \in Holding
    BY <1>1 DEF IInv, TypesOK, Holding
<1>9. Follows(log, r)
    BY <1>1 DEF IInv, ViewOK
<1>10. Contiguous(f.records)
    BY <1>2, <1>3, <1>5, <1>9, FollowsKeepsContiguous
<1>11. ViewOK(s)'
    <2>1. ASSUME Reconciling(s) PROVE Established(s)'
        <3>1. Verdict(log, r, IF job[s].durable THEN "Durable" ELSE "Buffered") = "missing"
            BY <1>1, <2>1 DEF IInv, ViewOK, JobVerdict
        <3>2. /\ r.seq = Len(log) + 1
              /\ job[s].durable => \A i \in 1..Len(log) : ~SameDurableIdentity(log[i], r)
            BY <1>2, <1>3, <3>1, MissingThenAppended
        <3> HIDE DEF r, log
        <3>3. \A i \in 1..(Len(log) + 1) : i \in 1..Len(log) \/ i = Len(log) + 1
            BY <1>3
        <3>4. job[s].durable =>
                 \A i \in 1..Len(f.records) : SameDurableIdentity(f.records[i], r) => i = r.seq
            BY <1>4, <1>5, <3>2, <3>3
        <3>5. r.seq \in 1..Len(f.records) /\ f.records[r.seq] = r
            BY <1>3, <1>4, <1>5, <3>2
        <3> QED
            BY <1>1, <1>7, <3>4, <3>5 DEF Established, r
    <2>2. f.records # <<>> /\ f.records[Len(f.records)] = r
        BY <1>4, <1>5
    <2>3. pc'[s] = "done" => ~job[s].durable
        BY <1>8
    <2>4. pc'[s] \in {"sync", "done"}
        BY <1>8
    <2> QED
        BY <1>1, <1>7, <2>1, <2>2, <2>3, <2>4 DEF ViewOK, Reconciling
<1> HIDE DEF label
<1>12. /\ f.synced <= Len(f.records) /\ f.synced >= AtPath.synced
       /\ \A i \in 1..AtPath.synced : f.records[i] = AtPath.records[i]
    BY <1>3, <1>4, <1>5
<1>13. IInv'
    BY <1>1, <1>2, <1>5, <1>6, <1>8, <1>10, <1>11, <1>12, HeldStep DEF IInv, TypesOK
<1>14. LogStep
    <2>1. Canonical!Follows(log, r)
        BY <1>9 DEF Follows, Canonical!Follows, Last, Canonical!Last
    <2>2. Canonical!AppendRecord
        BY <1>1, <1>2, <1>5, <1>7, <2>1 DEF Canonical!AppendRecord
    <2> QED
        BY <2>2 DEF LogStep, Canonical!Next
<1> QED
    BY <1>13, <1>14

\* A failure under the lock, whatever is left of the record.
LEMMA FailStep ==
    ASSUME IInv, NEW s \in Stores, pc[s] \in Holding, FailAppend(s),
           UNCHANGED <<path, linked, acked>>, NEW f \in Files,
           files' = [files EXCEPT ![path] = f],
           f.records = AtPath.records, f.synced = AtPath.synced, f.torn # "writing"
    PROVE  IInv' /\ LogStep
<1>1. NoHandle \in Handles /\ NoHandle.inode = 0
    BY DEF NoHandle, Handles
<1>2. Unlock(s) /\ Return(s, "idle") /\ append_file' = [append_file EXCEPT ![s] = NoHandle]
    BY DEF FailAppend
<1>3. AtPath' = f => AckOK'
    BY AcksKept, FileAtPath DEF IInv
<1> QED
    BY <1>1, <1>2, <1>3, ReleaseStep

\* A failure under the lock that leaves the file alone.
LEMMA CleanFail ==
    ASSUME IInv, NEW s \in Stores, pc[s] \in Holding, pc[s] # "writing", FailAppend(s),
           UNCHANGED <<files, path, linked, acked>>
    PROVE  IInv' /\ LogStep
<1> DEFINE f == AtPath
<1>1. f \in Files /\ f.torn # "writing" /\ ~Idle(s) /\ pc[s] \in Appending
    BY FileAtPath, NotTorn DEF IInv, Idle, Holding, Appending
<1>2. files' = [files EXCEPT ![path] = f]
    BY <1>1, Caller
<1> QED
    BY <1>1, <1>2, FailStep

\* A failed write drops the handle and leaves the records as they are.
LEMMA StepWriteFails ==
    ASSUME IInv, NEW s \in Stores, WriteFails(s)
    PROVE  IInv' /\ LogStep
<1>1. /\ pc[s] \in {"write", "writing"} /\ FailAppend(s) /\ UNCHANGED <<path, linked, acked>>
      /\ ~Idle(s) /\ pc[s] \in Appending /\ pc[s] \in Holding
    BY DEF WriteFails, caller, Idle, Appending, Holding
<1>2. Handle(s) = path /\ path \in Inodes /\ AtPath = files[path] /\ AtPath \in Files
    BY <1>1, Caller, FileAtPath DEF IInv
<1> DEFINE torn == IF pc[s] = "writing" THEN "left" ELSE AtPath.torn
           f == [AtPath EXCEPT !.torn = torn]
<1>3. torn \in {"no", "left", "cut"}
    BY <1>1, <1>2, NotTorn DEF Files
<1>4. files' = [files EXCEPT ![path] = f]
    BY <1>2 DEF WriteFails
<1> HIDE DEF torn
<1>5. /\ f \in Files /\ f.records = AtPath.records /\ f.synced = AtPath.synced /\ f.torn # "writing"
    BY <1>2, <1>3 DEF Files
<1> QED
    BY <1>1, <1>4, <1>5, FailStep

\* A flush makes the file durable up to its last record.
LEMMA StepSyncData ==
    ASSUME IInv, NEW s \in Stores, SyncData(s)
    PROVE  IInv' /\ LogStep
<1>1. /\ pc[s] = "sync" /\ UNCHANGED <<path, linked, acked>>
      /\ ~Idle(s) /\ pc[s] \in Appending /\ pc[s] \in Holding
    BY DEF SyncData, caller, Idle, Appending, Holding
<1>2. CASE FailAppend(s) /\ UNCHANGED files
    BY <1>1, <1>2, CleanFail
<1>3. CASE /\ files' = [files EXCEPT ![Handle(s)].synced = Len(files[Handle(s)].records)]
           /\ Goto(s, "sync_directory")
           /\ UNCHANGED <<locks, append_file>>
    <2>1. /\ Handle(s) = path /\ path \in Inodes /\ path # 0 /\ AtPath = files[path]
          /\ append_file[s] \in Handles /\ append_file[s].inode = path
          /\ append_file = [append_file EXCEPT ![s] = append_file[s]]
          /\ ~append_file[s].parent_directory_needs_sync => linked
        BY <1>1, Caller
    <2>2. /\ AtPath \in Files /\ Len(AtPath.records) \in Nat /\ AtPath.synced \in Nat
          /\ AtPath.torn # "writing" /\ AtPath.synced <= Len(AtPath.records)
          /\ Contiguous(AtPath.records)
        BY <1>1, FileAtPath, NotTorn DEF IInv, DiskOK
    <2> DEFINE f == [AtPath EXCEPT !.synced = Len(AtPath.records)]
    <2>3. /\ f \in Files /\ f.records = AtPath.records /\ f.synced = Len(AtPath.records)
          /\ f.torn # "writing"
        BY <2>2 DEF Files
    <2>4. files' = [files EXCEPT ![path] = f]
        BY <1>3, <2>1
    <2> HIDE DEF f
    <2>5. AtPath' = f
        BY <1>1, <2>1, <2>3, <2>4, DiskChange DEF IInv
    <2>6. /\ pc' = [pc EXCEPT ![s] = "sync_directory"] /\ UNCHANGED <<job, locks, append_file>>
          /\ "sync_directory" \in Holding
        BY <1>3 DEF Goto, Holding
    <2>7. pc'[s] = "sync_directory"
        BY <2>6 DEF IInv, TypesOK
    <2>8. ViewOK(s)'
        <3>1. ViewOK(s)
            BY DEF IInv
        <3>2. Reconciling(s)' => Established(s)'
            BY <1>1, <2>3, <2>5, <2>6, <3>1 DEF ViewOK, Established, Reconciling
        <3> QED
            BY <1>1, <2>3, <2>5, <2>6, <2>7, <3>1, <3>2 DEF ViewOK
    <2>9. f.synced <= Len(f.records) /\ f.synced >= AtPath.synced /\ Contiguous(f.records)
        BY <2>2, <2>3
    <2>10. IInv'
        BY <1>1, <2>1, <2>3, <2>4, <2>6, <2>8, <2>9, HeldStep DEF IInv, TypesOK
    <2>11. LogStep
        BY <1>1, <2>2, <2>3, <2>5, <2>9, <2>10, HardenStep DEF IInv
    <2> QED
        BY <2>10, <2>11
<1> QED
    BY <1>2, <1>3 DEF SyncData

\* The file and its directory entry are on disk before a durable answer.
LEMMA StepSyncParentDirectory ==
    ASSUME IInv, NEW s \in Stores, SyncParentDirectory(s)
    PROVE  IInv' /\ LogStep
<1>1. /\ pc[s] = "sync_directory" /\ UNCHANGED <<files, path, acked>>
      /\ ~Idle(s) /\ pc[s] \in Appending /\ pc[s] \in Holding
    BY DEF SyncParentDirectory, caller, Idle, Appending, Holding
<1>2. CASE FailAppend(s) /\ UNCHANGED linked
    BY <1>1, <1>2, CleanFail
<1>3. ASSUME UNCHANGED locks, Goto(s, "done"), linked',
             NEW h \in Handles, h.inode = path, append_file' = [append_file EXCEPT ![s] = h]
      PROVE  IInv' /\ LogStep
    <2> DEFINE f == AtPath
    <2>1. files' = [files EXCEPT ![path] = f] /\ linked' \in BOOLEAN
        BY <1>1, <1>3, Caller DEF SyncParentDirectory, IInv, TypesOK
    <2>2. /\ f \in Files /\ f.torn # "writing" /\ f.synced <= Len(f.records)
          /\ Contiguous(f.records) /\ f.synced >= AtPath.synced /\ AtPath' = f
        BY <1>1, FileAtPath, NotTorn, DiskAlone DEF IInv, DiskOK
    <2>3. pc' = [pc EXCEPT ![s] = "done"] /\ UNCHANGED job /\ "done" \in Holding
        BY <1>3 DEF Goto, Holding
    <2>4. pc'[s] = "done"
        BY <2>3 DEF IInv, TypesOK
    <2>5. ViewOK(s)'
        <3>1. ViewOK(s)
            BY DEF IInv
        <3>2. Reconciling(s)' => Established(s)'
            BY <1>1, <2>2, <2>3, <3>1 DEF ViewOK, Established, Reconciling
        <3> QED
            BY <1>1, <1>3, <2>2, <2>3, <2>4, <3>1, <3>2 DEF ViewOK
    <2>6. IInv'
        BY <1>1, <1>3, <2>1, <2>2, <2>3, <2>5, HeldStep
    <2>7. LogStep
        BY <1>3, <2>2, <2>6, HardenStep DEF IInv
    <2> QED
        BY <2>6, <2>7
<1>4. /\ append_file[s] \in Handles /\ append_file[s].inode = path
      /\ append_file = [append_file EXCEPT ![s] = append_file[s]]
      /\ ~append_file[s].parent_directory_needs_sync => linked
    BY <1>1, Caller
<1>5. CASE /\ linked' = TRUE /\ Goto(s, "done") /\ UNCHANGED locks
           /\ append_file' = [append_file EXCEPT ![s].parent_directory_needs_sync = FALSE]
    <2> DEFINE h == [append_file[s] EXCEPT !.parent_directory_needs_sync = FALSE]
    <2>1. h \in Handles /\ h.inode = path
        BY <1>4 DEF Handles
    <2>2. append_file' = [append_file EXCEPT ![s] = h]
        BY <1>5
    <2> HIDE DEF h
    <2> QED
        BY <1>3, <1>5, <2>1, <2>2
<1>6. CASE /\ ~append_file[s].parent_directory_needs_sync /\ Goto(s, "done")
           /\ UNCHANGED <<linked, locks, append_file>>
    BY <1>3, <1>4, <1>6
<1> QED
    BY <1>2, <1>5, <1>6 DEF SyncParentDirectory

\* A durable append is acknowledged once its record and the directory entry are
\* flushed.
LEMMA StepEndAppend ==
    ASSUME IInv, NEW s \in Stores, EndAppend(s)
    PROVE  IInv' /\ LogStep
<1>1. /\ pc[s] = "done" /\ UNCHANGED <<files, path, linked>>
      /\ ~Idle(s) /\ pc[s] \in Appending /\ pc[s] \in Holding
    BY DEF EndAppend, disk, Idle, Appending, Holding
<1>2. CASE FailAppend(s) /\ UNCHANGED acked
    BY <1>1, <1>2, CleanFail
<1>3. CASE /\ Unlock(s)
           /\ Return(s, "ok")
           /\ acked' = IF job[s].durable THEN acked \cup {Written(s)} ELSE acked
           /\ UNCHANGED append_file
    <2> DEFINE f == AtPath
    <2>1. /\ files' = [files EXCEPT ![path] = f] /\ Handle(s) = path /\ AtPath = files[path]
          /\ append_file[s] \in Handles /\ append_file[s].inode = path /\ path # 0
          /\ append_file = [append_file EXCEPT ![s] = append_file[s]]
          /\ ~append_file[s].parent_directory_needs_sync => linked
        BY <1>1, Caller
    <2>2. /\ f \in Files /\ f.torn # "writing" /\ AtPath' = f
          /\ AtPath.synced \in Nat /\ Len(AtPath.records) \in Nat /\ AtPath.records \in Seq(Records)
        BY <1>1, FileAtPath, NotTorn, DiskAlone DEF IInv, DiskOK
    <2>3. AckOK'
        <3>1. CASE ~job[s].durable
            BY <1>1, <1>3, <2>2, <3>1, AcksKept DEF IInv
        <3>2. CASE job[s].durable
            <4>1. /\ AtPath.synced = Len(AtPath.records) /\ linked
                  /\ AtPath.records # <<>> /\ AtPath.records[Len(AtPath.records)] = job[s].record
                BY <1>1, <3>2 DEF IInv, ViewOK
            <4>2. Written(s) = [position |-> Len(AtPath.records), record |-> job[s].record]
                BY <2>1 DEF Written
            <4>3. acked' = acked \cup {[position |-> Len(AtPath.records), record |-> job[s].record]}
                BY <1>3, <3>2, <4>2
            <4>4. Len(AtPath.records) \in 1..AtPath.synced
                BY <2>2, <4>1
            <4> QED
                BY <1>1, <2>1, <2>2, <4>1, <4>3, <4>4 DEF IInv, AckOK
        <3> QED
            BY <3>1, <3>2
    <2> QED
        BY <1>1, <1>3, <2>1, <2>2, <2>3, ReleaseStep
<1> QED
    BY <1>2, <1>3 DEF EndAppend

-----------------------------------------------------------------------------
(* Recovery *)

\* A step of a store that repairs or reconciles: it is alone, and nobody else can
\* be in the way.
LEMMA AloneStep ==
    ASSUME IInv, NEW s \in Stores, pc[s] \notin Holding, Alone(s),
           NEW label \in {"ok", "idle", "repair"} \cup Recovery,
           NEW j \in Requests \cup {RepairJob, NoJob}, NEW h \in Handles,
           label \in {"ok", "idle"} <=> j = NoJob,
           label \in Recovery => j.op = "reconcile",
           label = "repair" => path # 0 /\ (j = RepairJob \/ j.op = "reconcile"),
           j = RepairJob => label = "repair",
           h.inode \in {0, path}, h.inode # 0 /\ ~h.parent_directory_needs_sync => linked',
           pc' = [pc EXCEPT ![s] = label], job' = [job EXCEPT ![s] = j],
           append_file' = [append_file EXCEPT ![s] = h],
           UNCHANGED <<path, locks>>, linked' \in BOOLEAN, linked => linked',
           files' \in [Inodes -> Files], \A i \in Inodes \ {path} : files'[i] = EmptyFile,
           AtPath'.records = AtPath.records, AtPath'.torn \in {"no", "cut", AtPath.torn},
           AtPath'.synced >= AtPath.synced, AtPath'.synced <= Len(AtPath.records),
           UNCHANGED acked \/ AckOK',
           label \in {"resync", "resync_directory"} => ViewOK(s)'
    PROVE  IInv' /\ LogStep
<1>1. ASSUME NEW t \in Stores PROVE pc[t] \notin Holding
    BY DEF Alone, Idle, Holding
<1>2. ASSUME NEW t \in Stores \ {s} PROVE ~Recovering(t)
    BY DEF Alone, IInv, StoreOK, Recovering, Reconciling, NoJob, RepairJob
<1>3. label \in Labels
    BY DEF Recovery, Labels
<1>4. TypesOK' /\ DiskOK'
    BY <1>3 DEF IInv, TypesOK, DiskOK
<1>5. pc'[s] = label /\ job'[s] = j /\ append_file'[s] = h
    BY DEF IInv, TypesOK
<1>6. \A t \in Stores \ {s} : pc'[t] = pc[t] /\ job'[t] = job[t] /\ append_file'[t] = append_file[t]
    BY DEF IInv, TypesOK
<1>7. TornOK'
    BY <1>1 DEF IInv, TornOK, Holding
<1>8. AckOK'
    <2>1. AtPath.synced \in Nat
        BY FileAtPath DEF IInv
    <2>2. AtPath'.synced \in Nat
        BY <1>4, FileAtPath DEF AtPath, TypesOK, Files, EmptyFile
    <2> QED
        BY <2>1, <2>2, AcksKept DEF IInv
<1>9. StoreOK(s)'
    <2>1. Handle(s)' = h.inode /\ label \notin Appending /\ label \notin Holding
        BY <1>5 DEF Handle, Appending, Holding, Recovery
    <2>2. (Idle(s)' <=> j = NoJob) /\ (label \in Recovery => Reconciling(s)')
          /\ (label = "repair" => Recovering(s)')
        BY <1>5 DEF Idle, Recovering, Reconciling
    <2>3. Alone(s)'
        BY <1>6 DEF Alone, Idle
    <2>4. ~(path # 0 /\ s \in locks[path])
        BY <1>1 DEF IInv, StoreOK
    <2> QED
        BY <1>5, <2>1, <2>2, <2>3, <2>4 DEF StoreOK
<1>10. ViewOK(s)'
    <2>1. CASE label \in {"resync", "resync_directory"}
        BY <2>1
    <2>2. CASE label \in {"ok", "idle", "repair", "decide"}
        BY <1>5, <2>2 DEF ViewOK
    <2> QED
        BY <2>1, <2>2 DEF Recovery
<1>11. IInv'
    BY <1>1, <1>2, <1>4, <1>5, <1>6, <1>7, <1>8, <1>9, <1>10, OneStore
<1>12. LogStep
    BY <1>4, HardenStep DEF IInv, DiskOK
<1> QED
    BY <1>11, <1>12

\* The disk as AloneStep wants it when nothing is written.
LEMMA DiskSame ==
    ASSUME IInv, UNCHANGED <<files, path>>
    PROVE  /\ files' \in [Inodes -> Files] /\ \A i \in Inodes \ {path} : files'[i] = EmptyFile
           /\ AtPath'.records = AtPath.records /\ AtPath'.torn \in {"no", "cut", AtPath.torn}
           /\ AtPath'.synced >= AtPath.synced /\ AtPath'.synced <= Len(AtPath.records)
    BY DiskAlone, FileAtPath DEF IInv, TypesOK, DiskOK

\* A repair or a flush keeps every record that was committed.
LEMMA DiskRewritten ==
    ASSUME IInv, path # 0, UNCHANGED path, NEW torn \in {"no", "cut"}, NEW synced,
           synced = AtPath.synced \/ synced = Len(AtPath.records),
           files' = [files EXCEPT ![path] = [AtPath EXCEPT !.torn = torn, !.synced = synced]]
    PROVE  /\ files' \in [Inodes -> Files] /\ \A i \in Inodes \ {path} : files'[i] = EmptyFile
           /\ AtPath'.records = AtPath.records /\ AtPath'.torn \in {"no", "cut", AtPath.torn}
           /\ AtPath'.synced >= AtPath.synced /\ AtPath'.synced <= Len(AtPath.records)
           /\ AtPath'.synced = synced
<1>1. /\ path \in Inodes /\ AtPath \in Files /\ Len(AtPath.records) \in Nat
      /\ AtPath.synced \in Nat /\ AtPath.synced <= Len(AtPath.records)
    BY FileAtPath DEF IInv, TypesOK, DiskOK
<1> DEFINE f == [AtPath EXCEPT !.torn = torn, !.synced = synced]
<1>2. f \in Files /\ f.records = AtPath.records /\ f.torn = torn /\ f.synced = synced
    BY <1>1 DEF Files
<1> HIDE DEF f
<1>3. /\ AtPath' = f /\ files' \in [Inodes -> Files]
      /\ \A i \in Inodes \ {path} : files'[i] = EmptyFile
    BY <1>2, DiskChange DEF IInv, f
<1> QED
    BY <1>1, <1>2, <1>3

\* The flush that ends a repair and the one reconcile repeats are such rewrites.
LEMMA FlushedRewrites ==
    ASSUME IInv, path # 0, UNCHANGED path, files' = [files EXCEPT ![path] = Flushed(files[path])]
    PROVE  /\ files' \in [Inodes -> Files] /\ \A i \in Inodes \ {path} : files'[i] = EmptyFile
           /\ AtPath'.records = AtPath.records /\ AtPath'.torn \in {"no", "cut", AtPath.torn}
           /\ AtPath'.synced >= AtPath.synced /\ AtPath'.synced <= Len(AtPath.records)
           /\ AtPath'.synced = Len(AtPath.records)
<1> DEFINE n == Len(AtPath.records)
<1>1. files' = [files EXCEPT ![path] = [AtPath EXCEPT !.torn = "no", !.synced = n]]
    BY DEF AtPath, Flushed
<1> QED
    BY <1>1, DiskRewritten

\* What a store may keep of its handle while it recovers.
LEMMA OwnHandle ==
    ASSUME IInv, NEW s \in Stores
    PROVE  /\ append_file[s] \in Handles /\ append_file = [append_file EXCEPT ![s] = append_file[s]]
           /\ append_file[s].inode \in {0, path}
           /\ append_file[s].inode # 0 /\ ~append_file[s].parent_directory_needs_sync => linked
           /\ job = [job EXCEPT ![s] = job[s]]
           /\ NoHandle \in Handles /\ NoHandle.inode = 0
<1>1. NoHandle \in Handles /\ NoHandle.inode = 0
    BY DEF NoHandle, Handles
<1> QED
    BY <1>1 DEF IInv, TypesOK, StoreOK, Handle

\* The repair both operations start with truncates the torn tail and never a record.
LEMMA StepStartRepair ==
    ASSUME IInv, NEW s \in Stores, Idle(s), Alone(s), path # 0, UNCHANGED <<path, linked, locks, acked>>,
           NEW next \in {"ok", "decide"}, NEW j \in Requests \cup {RepairJob, NoJob},
           StartRepair(s, next, j),
           \/ j \in Requests /\ j.op = "reconcile" /\ next = "decide"
           \/ next = "ok" /\ j = (IF AtPath.torn = "left" THEN RepairJob ELSE NoJob)
    PROVE  IInv' /\ LogStep
<1>1. /\ append_file' = [append_file EXCEPT ![s] = NoHandle] /\ pc[s] \notin Holding
      /\ NoHandle \in Handles /\ NoHandle.inode = 0 /\ linked' \in BOOLEAN
      /\ files \in [Inodes -> Files] /\ path \in Inodes /\ AtPath = files[path]
    BY OwnHandle DEF StartRepair, IInv, TypesOK, Idle, Holding, AtPath
<1>2. NoJob # RepairJob /\ NoJob \notin Requests /\ RepairJob \notin Requests
      /\ NoJob.op # "reconcile" /\ RepairJob.op # "reconcile"
    BY DEF NoJob, RepairJob, Requests
<1>3. ASSUME NEW label \in {"ok", "idle", "repair"} \cup Recovery,
             NEW k \in Requests \cup {RepairJob, NoJob}, Call(s, label, k),
             label \in {"ok", "idle", "repair", "decide"},
             label \in {"ok", "idle"} <=> k = NoJob,
             label = "decide" => k.op = "reconcile",
             label = "repair" => k = RepairJob \/ k.op = "reconcile",
             k = RepairJob => label = "repair",
             files' \in [Inodes -> Files], \A i \in Inodes \ {path} : files'[i] = EmptyFile,
             AtPath'.records = AtPath.records, AtPath'.torn \in {"no", "cut", AtPath.torn},
             AtPath'.synced >= AtPath.synced, AtPath'.synced <= Len(AtPath.records)
      PROVE  IInv' /\ LogStep
    BY <1>1, <1>3, AloneStep DEF Call, Recovery
<1>4. CASE AtPath.torn \in {"no", "cut"} /\ Call(s, next, j) /\ UNCHANGED files
    <2>1. (next = "ok" <=> j = NoJob) /\ j # RepairJob
        BY <1>2, <1>4
    <2> QED
        BY <1>3, <1>4, <2>1, DiskSame DEF Recovery
<1>5. CASE /\ AtPath.torn = "left"
           /\ files' = [files EXCEPT ![path].torn = "cut"]
           /\ Call(s, "repair", j)
    <2> DEFINE n == AtPath.synced
    <2>1. [AtPath EXCEPT !.torn = "cut", !.synced = n] = [AtPath EXCEPT !.torn = "cut"]
        BY <1>1 DEF Files
    <2>2. files' = [files EXCEPT ![path] = [AtPath EXCEPT !.torn = "cut", !.synced = n]]
        BY <1>1, <1>5, <2>1
    <2>3. j # NoJob /\ (j = RepairJob \/ j.op = "reconcile")
        BY <1>2, <1>5
    <2> HIDE DEF n
    <2>4. /\ files' \in [Inodes -> Files] /\ \A i \in Inodes \ {path} : files'[i] = EmptyFile
          /\ AtPath'.records = AtPath.records /\ AtPath'.torn \in {"no", "cut", AtPath.torn}
          /\ AtPath'.synced >= AtPath.synced /\ AtPath'.synced <= Len(AtPath.records)
        BY <2>2, DiskRewritten DEF n
    <2> QED
        BY <1>3, <1>5, <2>3, <2>4
<1>6. CASE Return(s, "idle") /\ UNCHANGED files
    BY <1>2, <1>3, <1>6, DiskSame DEF Return
<1> QED
    BY <1>4, <1>5, <1>6 DEF StartRepair

\* Repair truncates the torn tail and never a record.
LEMMA StepRepairTruncatedTail ==
    ASSUME IInv, NEW s \in Stores, RepairTruncatedTail(s)
    PROVE  IInv' /\ LogStep
<1> DEFINE j == IF AtPath.torn = "left" THEN RepairJob ELSE NoJob
<1>1. /\ Idle(s) /\ Alone(s) /\ path # 0 /\ UNCHANGED <<path, linked, locks, acked>>
      /\ StartRepair(s, "ok", j) /\ j \in Requests \cup {RepairJob, NoJob}
    BY DEF RepairTruncatedTail, caller
<1> QED
    BY <1>1, StepStartRepair

\* Reconcile starts with the repair, which loses no record.
LEMMA StepCallReconcile ==
    ASSUME IInv, NEW s \in Stores, NEW seq \in 1..MaxRecords, NEW body \in Bodies,
           NEW durable \in BOOLEAN, CallReconcile(s, seq, body, durable)
    PROVE  IInv' /\ LogStep
<1> DEFINE request == [op |-> "reconcile", record |-> Numbered(seq, body), durable |-> durable]
<1>1. /\ Idle(s) /\ Alone(s) /\ UNCHANGED <<path, linked, locks, acked>>
      /\ \/ path # 0 /\ StartRepair(s, "decide", request)
         \/ path = 0 /\ Call(s, "decide", request) /\ UNCHANGED <<files, append_file>>
    BY DEF CallReconcile, caller
<1>2. Numbered(seq, body) \in Records
    BY StoreAssumption DEF Records
<1>3. /\ request \in Requests /\ request.op = "reconcile"
      /\ request \notin {NoJob, RepairJob}
    BY <1>2 DEF Requests, NoJob, RepairJob
<1> HIDE DEF request
<1>4. CASE path # 0 /\ StartRepair(s, "decide", request)
    BY <1>1, <1>3, <1>4, StepStartRepair
<1>5. CASE path = 0 /\ Call(s, "decide", request) /\ UNCHANGED <<files, append_file>>
    <2>1. pc[s] \notin Holding /\ linked' \in BOOLEAN
        BY <1>1 DEF Idle, Holding, IInv, TypesOK
    <2>2. /\ append_file[s] \in Handles /\ append_file' = [append_file EXCEPT ![s] = append_file[s]]
          /\ append_file[s].inode \in {0, path}
          /\ append_file[s].inode # 0 /\ ~append_file[s].parent_directory_needs_sync => linked'
        BY <1>1, <1>5, OwnHandle
    <2>3. /\ files' \in [Inodes -> Files] /\ \A i \in Inodes \ {path} : files'[i] = EmptyFile
          /\ AtPath'.records = AtPath.records /\ AtPath'.torn \in {"no", "cut", AtPath.torn}
          /\ AtPath'.synced >= AtPath.synced /\ AtPath'.synced <= Len(AtPath.records)
        BY <1>1, <1>5, DiskSame
    <2>4. pc' = [pc EXCEPT ![s] = "decide"] /\ job' = [job EXCEPT ![s] = request]
        BY <1>5 DEF Call
    <2> QED
        BY <1>1, <1>3, <2>1, <2>2, <2>3, <2>4, AloneStep DEF Recovery
<1> QED
    BY <1>1, <1>4, <1>5

\* The flush of the truncation leaves the records alone.
LEMMA StepSyncRepaired ==
    ASSUME IInv, NEW s \in Stores, SyncRepaired(s)
    PROVE  IInv' /\ LogStep
<1>1. /\ pc[s] = "repair" /\ UNCHANGED <<path, linked, locks, append_file, acked>>
      /\ pc[s] \notin Holding /\ linked' \in BOOLEAN
    BY DEF SyncRepaired, caller, Holding, IInv, TypesOK
<1>2. Alone(s) /\ path # 0 /\ job[s] \in Requests \cup {RepairJob, NoJob}
    BY <1>1 DEF IInv, StoreOK, TypesOK
<1>3. /\ append_file[s] \in Handles /\ append_file' = [append_file EXCEPT ![s] = append_file[s]]
      /\ append_file[s].inode \in {0, path}
      /\ append_file[s].inode # 0 /\ ~append_file[s].parent_directory_needs_sync => linked'
      /\ job = [job EXCEPT ![s] = job[s]]
    BY <1>1, OwnHandle
<1>4. NoJob # RepairJob
    BY DEF NoJob, RepairJob
<1>5. /\ files' \in [Inodes -> Files] /\ \A i \in Inodes \ {path} : files'[i] = EmptyFile
      /\ AtPath'.records = AtPath.records /\ AtPath'.torn \in {"no", "cut", AtPath.torn}
      /\ AtPath'.synced >= AtPath.synced /\ AtPath'.synced <= Len(AtPath.records)
    BY <1>1, <1>2, DiskSame, FlushedRewrites DEF SyncRepaired
<1>6. ASSUME NEW result \in {"ok", "idle"}, Return(s, result) PROVE IInv' /\ LogStep
    <2>1. pc' = [pc EXCEPT ![s] = result] /\ job' = [job EXCEPT ![s] = NoJob]
        BY <1>6 DEF Return, Call
    <2> QED
        BY <1>1, <1>2, <1>3, <1>4, <1>5, <2>1, AloneStep DEF Recovery
<1>7. CASE Reconciling(s) /\ Goto(s, "decide")
    <2> DEFINE j == job[s]
    <2>1. /\ pc' = [pc EXCEPT ![s] = "decide"] /\ job' = [job EXCEPT ![s] = j]
          /\ j.op = "reconcile" /\ j \in Requests \cup {RepairJob, NoJob}
        BY <1>2, <1>3, <1>7 DEF Goto, Reconciling
    <2>2. j # NoJob /\ j # RepairJob
        BY <2>1 DEF NoJob, RepairJob
    <2> HIDE DEF j
    <2> QED
        BY <1>1, <1>2, <1>3, <1>5, <2>1, <2>2, AloneStep DEF Recovery
<1> QED
    BY <1>6, <1>7 DEF SyncRepaired

\* An event found present is in its place, and alone.
LEMMA PresentFacts ==
    ASSUME NEW log \in Seq(Records), Contiguous(log), NEW r, NEW durability,
           Verdict(log, r, durability) = "present"
    PROVE  /\ log # <<>> /\ r.seq \in 1..Len(log) /\ log[r.seq] = r
           /\ durability = "Durable" =>
                 \A i \in 1..Len(log) : SameDurableIdentity(log[i], r) => i = r.seq
<1>1. ~ \E i \in 1..Len(log) : log[i].seq = 0
    BY DEF Verdict
<1>2. PICK i \in Persisted(log, r, durability) :
        Persisted(log, r, durability) = {i} /\ log[i] = r
    BY <1>1 DEF Verdict
<1>3. i \in 1..Len(log) /\ Len(log) \in Nat
    BY <1>2 DEF Persisted
<1>4. r.seq = i
    BY <1>1, <1>2, <1>3 DEF Contiguous
<1>5. log # <<>>
    BY <1>3
<1>6. durability = "Durable" =>
         \A k \in 1..Len(log) : SameDurableIdentity(log[k], r) => k \in Persisted(log, r, durability)
    BY DEF Persisted
<1> QED
    BY <1>2, <1>3, <1>4, <1>5, <1>6

\* A store that reconciles outside the lock and the repair.
LEMMA InRecovery ==
    ASSUME IInv, NEW s \in Stores, pc[s] \in Recovery
    PROVE  /\ job[s] \in Requests /\ job[s].op = "reconcile" /\ job[s] \notin {NoJob, RepairJob}
           /\ Reconciling(s) /\ Alone(s) /\ ~Idle(s) /\ pc[s] \notin Holding
<1>1. Reconciling(s) /\ ~Idle(s) /\ pc[s] \notin Holding /\ pc[s] # "repair"
    BY DEF IInv, StoreOK, Recovery, Idle, Holding
<1>2. job[s] \in Requests /\ Alone(s)
    BY <1>1, Caller DEF IInv, StoreOK, Recovering
<1> QED
    BY <1>1, <1>2 DEF Reconciling, NoJob, RepairJob

\* A step from one of these to another, which keeps the call and its handle.
LEMMA RecoveryGoesOn ==
    ASSUME IInv, NEW s \in Stores, pc[s] \in Recovery, NEW label \in Recovery, Goto(s, label),
           UNCHANGED <<path, linked, locks, append_file, acked>>,
           files' \in [Inodes -> Files], \A i \in Inodes \ {path} : files'[i] = EmptyFile,
           AtPath'.records = AtPath.records, AtPath'.torn \in {"no", "cut", AtPath.torn},
           AtPath'.synced >= AtPath.synced, AtPath'.synced <= Len(AtPath.records),
           ViewOK(s)'
    PROVE  IInv' /\ LogStep
<1> DEFINE j == job[s]
           h == append_file[s]
<1>1. /\ j \in Requests /\ j.op = "reconcile" /\ j # NoJob /\ j # RepairJob
      /\ Alone(s) /\ pc[s] \notin Holding
    BY InRecovery
<1>2. /\ h \in Handles /\ h.inode \in {0, path}
      /\ h.inode # 0 /\ ~h.parent_directory_needs_sync => linked'
      /\ append_file' = [append_file EXCEPT ![s] = h]
      /\ pc' = [pc EXCEPT ![s] = label] /\ job' = [job EXCEPT ![s] = j]
    BY OwnHandle DEF Goto
<1>3. label \notin {"ok", "idle", "repair"} /\ label \in {"ok", "idle", "repair"} \cup Recovery
    BY DEF Recovery
<1>4. linked' \in BOOLEAN /\ (linked => linked')
    BY DEF IInv, TypesOK
<1> HIDE DEF j, h
<1> QED
    BY <1>1, <1>2, <1>3, <1>4, AloneStep

\* Reconcile appends only what the log misses, and acknowledges only what it has.
LEMMA StepDecide ==
    ASSUME IInv, NEW s \in Stores, Decide(s)
    PROVE  IInv' /\ LogStep
<1>1. /\ pc[s] = "decide" /\ UNCHANGED <<locks, acked>> /\ pc[s] \in Recovery
    BY DEF Decide, caller, Recovery
<1>2. /\ job[s] \in Requests /\ job[s].op = "reconcile" /\ job[s] \notin {NoJob, RepairJob}
      /\ Reconciling(s) /\ Alone(s) /\ ~Idle(s) /\ pc[s] \notin Holding
    BY <1>1, InRecovery
<1>3. /\ append_file[s] \in Handles /\ append_file = [append_file EXCEPT ![s] = append_file[s]]
      /\ append_file[s].inode \in {0, path}
      /\ append_file[s].inode # 0 /\ ~append_file[s].parent_directory_needs_sync => linked
      /\ job = [job EXCEPT ![s] = job[s]]
    BY OwnHandle
<1> DEFINE j == job[s]
<1>4. CASE JobVerdict(s) = "missing" /\ Open(s) /\ Goto(s, "lock")
    <2>1. /\ pc' = [pc EXCEPT ![s] = "lock"] /\ job' = [job EXCEPT ![s] = j] /\ j \in Requests
          /\ Verdict(AtPath.records, j.record, IF j.durable THEN "Durable" ELSE "Buffered") = "missing"
          /\ \A t \in Stores \ {s} : ~Recovering(t)
        BY <1>2, <1>3, <1>4, NoneRecovers DEF Goto, JobVerdict
    <2> HIDE DEF j
    <2> QED
        BY <1>1, <1>2, <1>4, <2>1, OpenStep
<1>5. ASSUME NEW result \in {"ok", "idle"}, Return(s, result), UNCHANGED <<disk, append_file>>
      PROVE  IInv' /\ LogStep
    BY <1>1, <1>2, <1>3, <1>5, QuitStep
<1>6. CASE JobVerdict(s) = "present" /\ job[s].durable /\ Goto(s, "resync")
           /\ UNCHANGED <<disk, append_file>>
    <2>1. /\ pc' = [pc EXCEPT ![s] = "resync"] /\ "resync" \in Recovery
          /\ UNCHANGED <<job, files, path, linked, append_file>>
        BY <1>6 DEF Goto, disk, Recovery
    <2>2. ViewOK(s)'
        <3>1. AtPath' = AtPath
            BY <2>1, DiskAlone
        <3>2. JobVerdict(s)' = "present"
            BY <1>6, <2>1, <3>1 DEF JobVerdict
        <3>3. pc'[s] = "resync"
            BY <2>1 DEF IInv, TypesOK
        <3> QED
            BY <1>6, <2>1, <3>2, <3>3 DEF ViewOK
    <2>3. /\ files' \in [Inodes -> Files] /\ \A i \in Inodes \ {path} : files'[i] = EmptyFile
          /\ AtPath'.records = AtPath.records /\ AtPath'.torn \in {"no", "cut", AtPath.torn}
          /\ AtPath'.synced >= AtPath.synced /\ AtPath'.synced <= Len(AtPath.records)
        BY <2>1, DiskSame
    <2> QED
        BY <1>1, <1>6, <2>1, <2>2, <2>3, RecoveryGoesOn
<1> QED
    BY <1>4, <1>5, <1>6 DEF Decide

\* What reconcile found and is about to flush again is at the path.
LEMMA FoundAtPath ==
    ASSUME IInv, NEW s \in Stores, pc[s] \in {"resync", "resync_directory"}
    PROVE  LET r == job[s].record
           IN  /\ path # 0 /\ JobVerdict(s) = "present" /\ job[s].durable
               /\ r.seq \in 1..Len(AtPath.records) /\ AtPath.records[r.seq] = r
<1>1. JobVerdict(s) = "present" /\ job[s].durable
    BY InRecovery DEF IInv, ViewOK, Recovery
<1>2. AtPath.records \in Seq(Records) /\ Contiguous(AtPath.records)
    BY FileAtPath DEF IInv, DiskOK
<1> DEFINE r == job[s].record
<1>3. AtPath.records # <<>> /\ r.seq \in 1..Len(AtPath.records) /\ AtPath.records[r.seq] = r
    BY <1>1, <1>2, PresentFacts DEF JobVerdict
<1>4. path # 0
    BY <1>3 DEF AtPath, EmptyFile
<1> QED
    BY <1>1, <1>3, <1>4

\* The second flush covers the record that was found.
LEMMA StepSyncExistingLog ==
    ASSUME IInv, NEW s \in Stores, SyncExistingLog(s)
    PROVE  IInv' /\ LogStep
<1>1. /\ pc[s] = "resync" /\ UNCHANGED <<path, linked, locks, append_file, acked>>
      /\ pc[s] \in Recovery
    BY DEF SyncExistingLog, caller, Recovery
<1>2. /\ job[s] \in Requests /\ job[s].op = "reconcile" /\ job[s] \notin {NoJob, RepairJob}
      /\ Reconciling(s) /\ Alone(s) /\ ~Idle(s) /\ pc[s] \notin Holding
    BY <1>1, InRecovery
<1>3. /\ append_file[s] \in Handles /\ append_file = [append_file EXCEPT ![s] = append_file[s]]
      /\ append_file[s].inode \in {0, path}
      /\ append_file[s].inode # 0 /\ ~append_file[s].parent_directory_needs_sync => linked
      /\ job = [job EXCEPT ![s] = job[s]]
    BY OwnHandle
<1>4. CASE Return(s, "idle") /\ UNCHANGED files
    BY <1>1, <1>2, <1>3, <1>4, QuitStep DEF disk
<1>5. CASE /\ files' = [files EXCEPT ![path] = Flushed(files[path])]
           /\ Goto(s, "resync_directory")
    <2>1. /\ pc' = [pc EXCEPT ![s] = "resync_directory"] /\ "resync_directory" \in Recovery
          /\ UNCHANGED job
        BY <1>5 DEF Goto, Recovery
    <2>2. path # 0 /\ JobVerdict(s) = "present" /\ job[s].durable
        BY <1>1, FoundAtPath
    <2>3. /\ files' \in [Inodes -> Files] /\ \A i \in Inodes \ {path} : files'[i] = EmptyFile
          /\ AtPath'.records = AtPath.records /\ AtPath'.torn \in {"no", "cut", AtPath.torn}
          /\ AtPath'.synced >= AtPath.synced /\ AtPath'.synced <= Len(AtPath.records)
          /\ AtPath'.synced = Len(AtPath.records)
        BY <1>1, <1>5, <2>2, FlushedRewrites
    <2>4. ViewOK(s)'
        <3>1. JobVerdict(s)' = "present"
            BY <2>1, <2>2, <2>3 DEF JobVerdict
        <3>2. pc'[s] = "resync_directory"
            BY <2>1 DEF IInv, TypesOK
        <3> QED
            BY <2>1, <2>2, <2>3, <3>1, <3>2 DEF ViewOK
    <2> QED
        BY <1>1, <1>5, <2>1, <2>3, <2>4, RecoveryGoesOn
<1> QED
    BY <1>4, <1>5 DEF SyncExistingLog

\* The directory entry follows, and only then is the event acknowledged.
LEMMA StepSyncExistingDirectory ==
    ASSUME IInv, NEW s \in Stores, SyncExistingDirectory(s)
    PROVE  IInv' /\ LogStep
<1> DEFINE r == job[s].record
<1>1. /\ pc[s] = "resync_directory" /\ UNCHANGED <<files, path, locks, append_file>>
      /\ pc[s] \in Recovery
    BY DEF SyncExistingDirectory, Recovery
<1>2. Alone(s) /\ pc[s] \notin Holding /\ Reconciling(s)
    BY <1>1, InRecovery
<1>3. /\ append_file[s] \in Handles /\ append_file = [append_file EXCEPT ![s] = append_file[s]]
      /\ append_file[s].inode \in {0, path}
      /\ append_file[s].inode # 0 /\ ~append_file[s].parent_directory_needs_sync => linked
    BY OwnHandle
<1>4. CASE Return(s, "idle") /\ UNCHANGED <<linked, acked>>
    BY <1>1, <1>2, <1>3, <1>4, QuitStep DEF disk
<1>5. CASE /\ linked' = TRUE
           /\ acked' = acked \cup {[position |-> r.seq, record |-> r]}
           /\ Return(s, "ok")
    <2>1. path # 0 /\ r.seq \in 1..Len(AtPath.records) /\ AtPath.records[r.seq] = r
        BY <1>1, FoundAtPath
    <2>2. AtPath.synced = Len(AtPath.records)
        BY <1>1, <1>2 DEF IInv, ViewOK
    <2>3. AtPath' = AtPath
        BY <1>1, DiskAlone
    <2>4. AckOK'
        BY <1>1, <1>5, <2>1, <2>2, <2>3 DEF IInv, AckOK
    <2>5. /\ files' \in [Inodes -> Files] /\ \A i \in Inodes \ {path} : files'[i] = EmptyFile
          /\ AtPath'.records = AtPath.records /\ AtPath'.torn \in {"no", "cut", AtPath.torn}
          /\ AtPath'.synced >= AtPath.synced /\ AtPath'.synced <= Len(AtPath.records)
        BY <1>1, DiskSame
    <2>6. /\ pc' = [pc EXCEPT ![s] = "ok"] /\ job' = [job EXCEPT ![s] = NoJob]
          /\ NoJob # RepairJob
        BY <1>5 DEF Return, Call, NoJob, RepairJob
    <2> QED
        BY <1>1, <1>2, <1>3, <1>5, <2>4, <2>5, <2>6, AloneStep DEF Recovery
<1> QED
    BY <1>4, <1>5 DEF SyncExistingDirectory

-----------------------------------------------------------------------------
(* The environment *)

\* A process that dies gives its lock up and leaves a torn tail at most.
LEMMA StepProcessDies ==
    ASSUME IInv, NEW s \in Stores, ProcessDies(s)
    PROVE  IInv' /\ LogStep
<1>1. /\ append_file' = [append_file EXCEPT ![s] = NoHandle] /\ Return(s, "idle") /\ Unlock(s)
      /\ UNCHANGED <<path, linked, acked>>
      /\ files' = [i \in Inodes |-> IF pc[s] = "writing" /\ i = Handle(s)
                                    THEN [files[i] EXCEPT !.torn = "left"] ELSE files[i]]
    BY DEF ProcessDies, Forgotten
<1>2. NoHandle \in Handles /\ NoHandle.inode = 0
    BY DEF NoHandle, Handles
<1>3. CASE pc[s] = "writing"
    <2>1. /\ Handle(s) = path /\ path \in Inodes /\ AtPath = files[path] /\ AtPath \in Files
          /\ pc[s] \in Holding
        BY <1>3, Caller, FileAtPath DEF IInv, Idle, Appending, Holding
    <2> DEFINE f == [AtPath EXCEPT !.torn = "left"]
    <2>2. f \in Files /\ f.records = AtPath.records /\ f.synced = AtPath.synced /\ f.torn # "writing"
        BY <2>1 DEF Files
    <2>3. files' = [files EXCEPT ![path] = f]
        BY <1>1, <1>3, <2>1 DEF IInv, TypesOK
    <2> HIDE DEF f
    <2> QED
        BY <1>1, <2>1, <2>2, <2>3, FailStep DEF FailAppend
<1>4. CASE pc[s] # "writing"
    <2>1. files' = files
        BY <1>1, <1>4 DEF IInv, TypesOK
    <2>2. CASE pc[s] \in Holding
        BY <1>1, <1>4, <2>1, <2>2, CleanFail DEF FailAppend
    <2>3. CASE pc[s] \notin Holding
        <3>1. \A i \in Inodes : s \notin locks[i]
            BY <2>3, StoreAssumption DEF IInv, StoreOK, DiskOK
        <3>2. locks' = locks
            BY <1>1, <3>1 DEF Unlock, IInv, TypesOK
        <3> QED
            BY <1>1, <1>2, <2>1, <2>3, <3>2, QuitStep DEF disk
    <2> QED
        BY <2>2, <2>3
<1> QED
    BY <1>3, <1>4

\* A prefix of a log, and what it keeps.
LEMMA PrefixOfLog ==
    ASSUME NEW s \in Seq(Records), NEW n \in 0..Len(s)
    PROVE  /\ SubSeq(s, 1, n) \in Seq(Records)
           /\ Len(SubSeq(s, 1, n)) = n
           /\ \A i \in 1..n : SubSeq(s, 1, n)[i] = s[i]
    BY SubSeqProperties

\* After a power loss every store starts again.
LEMMA RestartStep ==
    ASSUME IInv, path' \in Inodes \cup {0}, linked' \in BOOLEAN, UNCHANGED acked,
           files' \in [Inodes -> Files], \A i \in Inodes \ {path'} : files'[i] = EmptyFile,
           append_file' = [s \in Stores |-> NoHandle],
           pc' = [s \in Stores |-> "idle"],
           job' = [s \in Stores |-> NoJob],
           locks' = [i \in Inodes |-> {}],
           AtPath'.synced <= Len(AtPath'.records), Contiguous(AtPath'.records),
           AtPath'.torn # "writing", AckOK'
    PROVE  IInv'
<1>1. NoHandle \in Handles /\ NoHandle.inode = 0
    BY DEF NoHandle, Handles
<1>2. TypesOK'
    BY <1>1 DEF TypesOK, Labels
<1>3. DiskOK'
    BY DEF DiskOK
<1>4. TornOK'
    BY DEF TornOK
<1>5. ASSUME NEW s \in Stores PROVE StoreOK(s)' /\ ViewOK(s)'
    <2>1. /\ pc'[s] = "idle" /\ job'[s] = NoJob /\ append_file'[s] = NoHandle
          /\ path' # 0 => locks'[path'] = {}
        OBVIOUS
    <2>2. Handle(s)' = 0 /\ ~Recovering(s)' /\ ~Reconciling(s)' /\ Idle(s)' /\ job'[s] # RepairJob
        BY <1>1, <2>1 DEF Handle, Recovering, Reconciling, Idle, NoJob, RepairJob
    <2>3. StoreOK(s)'
        BY <2>1, <2>2 DEF StoreOK, Appending, Holding, Recovery
    <2> QED
        BY <2>1, <2>2, <2>3 DEF ViewOK
<1> QED
    BY <1>2, <1>3, <1>4, <1>5 DEF IInv

\* A power loss keeps every durable record.
LEMMA StepPowerLoss ==
    ASSUME IInv, PowerLoss
    PROVE  IInv' /\ LogStep
<1>1. /\ path # 0 /\ UNCHANGED acked
      /\ append_file' = [s \in Stores |-> NoHandle]
      /\ pc' = [s \in Stores |-> "idle"]
      /\ job' = [s \in Stores |-> NoJob]
      /\ locks' = [i \in Inodes |-> {}]
    BY DEF PowerLoss
<1>2. /\ path \in Inodes /\ AtPath = files[path] /\ AtPath.records \in Seq(Records)
      /\ AtPath.synced \in Nat /\ Len(AtPath.records) \in Nat
      /\ AtPath.synced <= Len(AtPath.records) /\ Contiguous(AtPath.records)
    BY <1>1, FileAtPath DEF IInv, TypesOK, DiskOK, AtPath
<1>3. CASE /\ \E n \in AtPath.synced..Len(AtPath.records), torn \in {"no", "left"} :
                 files' = [files EXCEPT ![path] =
                       [records |-> SubSeq(AtPath.records, 1, n), torn |-> torn, synced |-> n]]
           /\ path' = path
           /\ linked' = TRUE
    <2>1. PICK n \in AtPath.synced..Len(AtPath.records), torn \in {"no", "left"} :
                 files' = [files EXCEPT ![path] =
                       [records |-> SubSeq(AtPath.records, 1, n), torn |-> torn, synced |-> n]]
        BY <1>3
    <2> DEFINE prefix == SubSeq(AtPath.records, 1, n)
               f == [records |-> prefix, torn |-> torn, synced |-> n]
    <2>2. /\ n \in 0..Len(AtPath.records) /\ n \in Nat /\ n >= AtPath.synced
        BY <1>2, <2>1
    <2>3. prefix \in Seq(Records) /\ Len(prefix) = n /\ \A i \in 1..n : prefix[i] = AtPath.records[i]
        BY <1>2, <2>2, PrefixOfLog
    <2> HIDE DEF prefix
    <2>4. f \in Files /\ f.records = prefix /\ f.synced = n /\ f.torn # "writing"
        BY <2>2, <2>3 DEF Files
    <2>5. files' = [files EXCEPT ![path] = f]
        BY <2>1 DEF prefix
    <2> HIDE DEF f
    <2>6. /\ AtPath' = f /\ files' \in [Inodes -> Files]
          /\ \A i \in Inodes \ {path} : files'[i] = EmptyFile
        BY <1>1, <1>3, <2>4, <2>5, DiskChange DEF IInv
    <2>7. Contiguous(prefix)
        BY <1>2, <2>2, <2>3 DEF Contiguous
    <2>8. AckOK'
        <3>1. \A i \in 1..AtPath.synced : AtPath'.records[i] = AtPath.records[i]
            BY <1>2, <2>2, <2>3, <2>4, <2>6
        <3> QED
            BY <1>1, <1>2, <1>3, <2>2, <2>4, <2>6, <3>1, AcksKept DEF IInv
    <2>9. IInv'
        BY <1>1, <1>2, <1>3, <2>2, <2>3, <2>4, <2>6, <2>7, <2>8, RestartStep
    <2>10. LogStep
        <3> DEFINE durable == IF linked THEN AtPath.synced ELSE 0
        <3>1. linked \in BOOLEAN
            BY DEF IInv, TypesOK
        <3>2. n \in durable..Len(AtPath.records) /\ n \in durable..n
            BY <1>2, <2>2, <3>1
        <3>3. AtPath'.records = SubSeq(AtPath.records, 1, n)
              /\ (IF linked' THEN AtPath'.synced ELSE 0) = n
            BY <1>3, <2>4, <2>6 DEF prefix
        <3>4. Canonical!Crash
            BY <3>2, <3>3 DEF Canonical!Crash
        <3> QED
            BY <3>4 DEF LogStep, Canonical!Next
    <2> QED
        BY <2>9, <2>10
<1>4. CASE /\ ~linked /\ path' = 0
           /\ files' = [files EXCEPT ![path] = EmptyFile]
           /\ linked' = FALSE
    <2>1. files' \in [Inodes -> Files] /\ \A i \in Inodes : files'[i] = EmptyFile
        BY <1>2, <1>4, FileAtPath DEF IInv, TypesOK, DiskOK
    <2>2. AtPath' = EmptyFile
        BY <1>4 DEF AtPath
    <2>3. AtPath'.records = <<>> /\ AtPath'.synced = 0 /\ AtPath'.torn = "no"
        BY <2>2 DEF EmptyFile
    <2>4. AckOK'
        BY <1>1, <1>4 DEF IInv, AckOK
    <2>5. Contiguous(AtPath'.records) /\ AtPath'.synced <= Len(AtPath'.records)
        BY <2>3 DEF Contiguous
    <2>6. IInv'
        BY <1>1, <1>4, <2>1, <2>3, <2>4, <2>5, RestartStep
    <2>7. LogStep
        <3>1. SubSeq(AtPath.records, 1, 0) = <<>>
            BY <1>2
        <3>2. 0 \in 0..Len(AtPath.records) /\ 0 \in 0..0
            BY <1>2
        <3>3. Canonical!Crash
            BY <1>4, <2>3, <3>1, <3>2 DEF Canonical!Crash
        <3> QED
            BY <3>3 DEF LogStep, Canonical!Next
    <2> QED
        BY <2>6, <2>7
<1> QED
    BY <1>3, <1>4 DEF PowerLoss

-----------------------------------------------------------------------------
(* The theorems *)

\* The store starts without a file, the abstract log without records.
LEMMA InitIInv ==
    ASSUME Init
    PROVE  IInv /\ Canonical!Init
<1> USE DEF Init
<1>1. EmptyFile \in Files /\ NoHandle \in Handles /\ NoHandle.inode = 0
    BY DEF EmptyFile, Files, NoHandle, Handles
<1>2. TypesOK
    BY <1>1 DEF TypesOK, Labels
<1>3. AtPath = EmptyFile
    BY DEF AtPath
<1>4. AtPath.records = <<>> /\ AtPath.synced = 0 /\ AtPath.torn = "no"
    BY <1>3 DEF EmptyFile
<1>5. DiskOK
    BY <1>4 DEF DiskOK, Contiguous
<1>6. TornOK /\ AckOK
    BY <1>4 DEF TornOK, AckOK
<1>7. ASSUME NEW s \in Stores PROVE StoreOK(s) /\ ViewOK(s)
    <2>1. Handle(s) = 0 /\ ~Reconciling(s) /\ ~Recovering(s) /\ Idle(s) /\ job[s] # RepairJob
        BY <1>1 DEF Handle, Recovering, Reconciling, Idle, NoJob, RepairJob
    <2>2. StoreOK(s)
        BY <2>1 DEF StoreOK, Appending, Holding, Recovery
    <2> QED
        BY <2>1, <2>2 DEF ViewOK
<1> QED
    BY <1>2, <1>4, <1>5, <1>6, <1>7 DEF IInv, Canonical!Init

\* Every step keeps the invariant and is a step of the abstract log or a stutter.
LEMMA NextIInv ==
    ASSUME IInv, Next
    PROVE  IInv' /\ LogStep
<1>1. ASSUME NEW s \in Stores,
             \/ CreateNew(s) \/ Lock(s) \/ Validate(s) \/ WriteSome(s) \/ WriteRest(s)
             \/ WriteFails(s) \/ SyncData(s) \/ SyncParentDirectory(s) \/ EndAppend(s)
             \/ RepairTruncatedTail(s) \/ SyncRepaired(s) \/ Decide(s) \/ SyncExistingLog(s)
             \/ SyncExistingDirectory(s) \/ ProcessDies(s)
      PROVE  IInv' /\ LogStep
    BY <1>1, StepCreateNew, StepLock, StepValidate, StepWriteSome, StepWriteRest, StepWriteFails,
       StepSyncData, StepSyncParentDirectory, StepEndAppend, StepRepairTruncatedTail,
       StepSyncRepaired, StepDecide, StepSyncExistingLog, StepSyncExistingDirectory, StepProcessDies
<1>2. ASSUME NEW s \in Stores, NEW seq \in 0..MaxRecords, NEW body \in Bodies,
             NEW durable \in BOOLEAN, CallAppend(s, seq, body, durable)
      PROVE  IInv' /\ LogStep
    BY <1>2, StepCallAppend
<1>3. ASSUME NEW s \in Stores, NEW seq \in 1..MaxRecords, NEW body \in Bodies,
             NEW durable \in BOOLEAN, CallReconcile(s, seq, body, durable)
      PROVE  IInv' /\ LogStep
    BY <1>3, StepCallReconcile
<1> QED
    BY <1>1, <1>2, <1>3, StepPowerLoss DEF Next

\* So does a step that changes nothing.
LEMMA StutterIInv ==
    ASSUME IInv, UNCHANGED vars
    PROVE  IInv' /\ LogStep
<1> USE DEF vars
<1>1. AtPath' = AtPath
    BY DiskAlone
<1>2. ASSUME NEW s \in Stores PROVE StoreOK(s)' /\ ViewOK(s)'
    BY <1>1, Bystander DEF IInv, StoreOK, Alone, Idle
<1>3. TypesOK' /\ DiskOK' /\ TornOK' /\ AckOK'
    BY <1>1 DEF IInv, TypesOK, DiskOK, TornOK, AckOK
<1>4. LogStep
    BY <1>1 DEF LogStep, Canonical!vars
<1> QED
    BY <1>2, <1>3, <1>4 DEF IInv

\* The invariant holds in every reachable state, for every number of stores.
LEMMA Inductive == Spec => []IInv
<1>1. IInv /\ [Next]_vars => IInv'
    BY NextIInv, StutterIInv
<1>2. Init => IInv
    BY InitIInv
<1> QED
    BY <1>1, <1>2, PTL DEF Spec

\* The stores' state keeps its types; in particular a lock has one holder at most.
THEOREM TypeCorrect == Spec => []TypeOK
<1>1. ASSUME IInv PROVE TypeOK
    <2>1. \A i \in Inodes : files[i] \in Files
        BY <1>1 DEF IInv, TypesOK
    <2>2. ASSUME NEW i \in Inodes PROVE files[i].synced \in 0..Len(files[i].records)
        <3>1. CASE i = path
            <4>1. files[i] = AtPath
                BY <3>1, StoreAssumption DEF AtPath
            <4> QED
                BY <1>1, <4>1, FileAtPath DEF IInv, DiskOK
        <3>2. CASE i # path
            <4>1. files[i] = EmptyFile
                BY <1>1, <3>2 DEF IInv, DiskOK
            <4> QED
                BY <4>1 DEF EmptyFile
        <3> QED
            BY <3>1, <3>2
    <2>3. \A i \in Inodes :
            files[i].records \in Seq(Records) /\ files[i].torn \in {"no", "writing", "left", "cut"}
        BY <2>1 DEF Files
    <2> QED
        BY <1>1, <2>2, <2>3 DEF IInv, TypesOK, TypeOK, Handles
<1> QED
    BY <1>1, Inductive, PTL

\* The exclusive lock spans write_all, also when the writer fails or dies: whoever
\* gets the shared lock never meets a record in the middle of being written.
THEOREM WholeRecordsTheorem == Spec => []ReadersSeeWholeRecords
<1>1. ASSUME IInv PROVE ReadersSeeWholeRecords
    <2>1. SUFFICES ASSUME path # 0, locks[path] = {}, AtPath.torn = "writing" PROVE FALSE
        BY DEF ReadersSeeWholeRecords
    <2>2. PICK s \in Stores : pc[s] = "writing"
        BY <1>1, <2>1 DEF IInv, TornOK
    <2> QED
        BY <1>1, <2>1, <2>2 DEF IInv, StoreOK, Holding
<1> QED
    BY <1>1, Inductive, PTL

\* What a durable append or reconcile acknowledged survives every crash.
THEOREM DurableAcksTheorem == Spec => []DurableAcksSurvive
<1>1. ASSUME IInv PROVE DurableAcksSurvive
    <2>1. /\ AtPath.synced \in Nat /\ Len(AtPath.records) \in Nat
          /\ AtPath.synced <= Len(AtPath.records)
        BY <1>1, FileAtPath DEF IInv, DiskOK
    <2> QED
        BY <1>1, <2>1 DEF IInv, AckOK, DurableAcksSurvive
<1> QED
    BY <1>1, Inductive, PTL

\* Whatever the stores do, the file the path names behaves as a canonical log.
THEOREM Refinement == Spec => ImplementsCanonicalLog
<1>1. IInv /\ [Next]_vars => [Canonical!Next]_(Canonical!vars)
    BY NextIInv, StutterIInv DEF LogStep
<1>2. Init => Canonical!Init
    BY InitIInv
<1> QED
    BY <1>1, <1>2, Inductive, PTL DEF Spec, ImplementsCanonicalLog, Canonical!Spec

\* validate_append_sequence and the exclusive lock are enough: the file the path
\* names is numbered from 1 without a gap, or not numbered at all, and never
\* shorter than what was flushed of it.
THEOREM FileStaysContiguous == Spec => [](Canonical!LogTypeOK /\ Canonical!LogIsContiguous)
<1>1. IInv => Canonical!LogIsContiguous
    BY DEF IInv, DiskOK, Contiguous, Canonical!LogIsContiguous, Canonical!Contiguous
<1>2. IInv => Canonical!LogTypeOK
    BY FileAtPath DEF IInv, DiskOK, Canonical!LogTypeOK
<1> QED
    BY <1>1, <1>2, Inductive, PTL

\* No step of a store, a failed append, a repair, the death of a process or a power
\* loss takes back or rewrites a record that is flushed in a linked file.
THEOREM FlushedRecordsSurvive == Spec => Canonical!DurablePrefixIsStable
<1> DEFINE durable == IF linked THEN AtPath.synced ELSE 0
           Stable == SubSeq(AtPath.records', 1, durable) = SubSeq(AtPath.records, 1, durable) /\ durable' >= durable
<1>1. ASSUME IInv, IInv', [Canonical!Next]_(Canonical!vars) PROVE Stable
    <2>1. /\ AtPath.records \in Seq(Records) /\ Len(AtPath.records) \in Nat
          /\ durable \in 0..Len(AtPath.records)
        BY <1>1, FileAtPath DEF IInv, DiskOK
    <2>2. CASE Canonical!AppendRecord
        <3>1. PICK r \in Records : AtPath.records' = Append(AtPath.records, r)
            BY <2>2 DEF Canonical!AppendRecord
        <3>2. durable' = durable
            BY <2>2 DEF Canonical!AppendRecord
        <3> HIDE DEF durable
        <3>3. SubSeq(Append(AtPath.records, r), 1, durable) = SubSeq(AtPath.records, 1, durable)
            BY <2>1
        <3> QED
            BY <2>1, <3>1, <3>2, <3>3
    <2>3. CASE Canonical!Harden
        BY <2>1, <2>3 DEF Canonical!Harden
    <2>4. CASE Canonical!Crash
        <3>1. PICK n \in durable..Len(AtPath.records) :
                  AtPath.records' = SubSeq(AtPath.records, 1, n) /\ durable' \in durable..n
            BY <2>4 DEF Canonical!Crash
        <3> HIDE DEF durable
        <3>2. SubSeq(SubSeq(AtPath.records, 1, n), 1, durable) = SubSeq(AtPath.records, 1, durable)
            BY <2>1
        <3> QED
            BY <2>1, <3>1, <3>2
    <2>5. CASE UNCHANGED Canonical!vars
        BY <2>1, <2>5 DEF Canonical!vars
    <2> QED
        BY <1>1, <2>2, <2>3, <2>4, <2>5 DEF Canonical!Next
<1>2. IInv /\ IInv' /\ [Next]_vars => [Stable]_(Canonical!vars)
    BY <1>1, NextIInv, StutterIInv DEF LogStep
<1> QED
    BY <1>2, Inductive, PTL DEF Spec, Canonical!DurablePrefixIsStable

\* Only the store itself ends its call, and with success only in three places.
LEMMA WhoReturnsOk ==
    ASSUME IInv, Next, NEW s \in Stores, Reconciling(s), pc'[s] = "ok"
    PROVE  \/ EndAppend(s) /\ pc[s] = "done" /\ UNCHANGED <<files, path>>
           \/ Decide(s) /\ JobVerdict(s) = "present" /\ ~job[s].durable /\ UNCHANGED <<files, path>>
           \/ SyncExistingDirectory(s) /\ pc[s] = "resync_directory" /\ UNCHANGED <<files, path>>
<1>1. ~Idle(s) /\ pc[s] # "ok" /\ pc \in [Stores -> Labels]
    BY DEF IInv, StoreOK, TypesOK, Reconciling, NoJob, Idle
<1>2. ASSUME NEW t \in Stores, NEW label, pc' = [pc EXCEPT ![t] = label]
      PROVE  t = s /\ label = "ok"
    BY <1>1, <1>2
<1>3. ASSUME NEW t \in Stores, Idle(t), NEW label, pc' = [pc EXCEPT ![t] = label]
      PROVE  FALSE
    BY <1>1, <1>2, <1>3
<1>4. ASSUME NEW t \in Stores,
             \/ CreateNew(t)
             \/ \E seq \in 0..MaxRecords, body \in Bodies, durable \in BOOLEAN :
                   CallAppend(t, seq, body, durable)
             \/ RepairTruncatedTail(t)
             \/ \E seq \in 1..MaxRecords, body \in Bodies, durable \in BOOLEAN :
                   CallReconcile(t, seq, body, durable)
      PROVE  FALSE
    BY <1>1, <1>3, <1>4 DEF CreateNew, CallAppend, RepairTruncatedTail, CallReconcile,
       StartRepair, Call, Return
<1>5. ASSUME NEW t \in Stores, \/ Lock(t) \/ Validate(t) \/ WriteSome(t) \/ WriteRest(t)
                               \/ WriteFails(t) \/ SyncData(t) \/ SyncParentDirectory(t)
                               \/ SyncExistingLog(t) \/ ProcessDies(t)
      PROVE  FALSE
    <2>1. \E label \in {"idle", "validate", "write", "writing", "sync", "sync_directory", "done",
                      "resync_directory"} :
            pc' = [pc EXCEPT ![t] = label]
        BY <1>5 DEF Lock, Validate, WriteSome, WriteRest, WriteFails, SyncData, SyncParentDirectory,
           SyncExistingLog, ProcessDies, FailAppend, Goto, Return, Call
    <2> QED
        BY <1>2, <2>1
<1>6. ASSUME NEW t \in Stores,
             EndAppend(t) \/ SyncRepaired(t) \/ Decide(t) \/ SyncExistingDirectory(t)
      PROVE  t = s
    <2>1. \E label : pc' = [pc EXCEPT ![t] = label]
        BY <1>6 DEF EndAppend, SyncRepaired, Decide, SyncExistingDirectory, FailAppend, Goto, Return,
           Call
    <2> QED
        BY <1>2, <2>1
<1>7. ~SyncRepaired(s)
    <2>1. ASSUME SyncRepaired(s) PROVE \E label \in {"decide", "idle"} : pc' = [pc EXCEPT ![s] = label]
        BY <2>1 DEF SyncRepaired, Goto, Return, Call
    <2> QED
        BY <1>2, <2>1
<1>8. ~PowerLoss
    BY DEF PowerLoss
<1>9. EndAppend(s) \/ Decide(s) \/ SyncExistingDirectory(s)
    BY <1>4, <1>5, <1>6, <1>7, <1>8 DEF Next
<1>10. ASSUME Decide(s)
      PROVE  JobVerdict(s) = "present" /\ ~job[s].durable /\ UNCHANGED <<files, path>>
    BY <1>1, <1>10 DEF Decide, Goto, Return, Call, disk
<1> QED
    BY <1>9, <1>10 DEF EndAppend, SyncExistingDirectory, disk

\* reconcile returns Ok only when the log holds the attempted event in its place,
\* once, and for a durable event no other record of the same lifecycle step.
THEOREM ReconcileTheorem == Spec => ReconcileEstablishes
<1> DEFINE Holds(s) ==
        LET records == AtPath'.records
            attempted == job[s].record
        IN  /\ attempted.seq \in 1..Len(records)
            /\ records[attempted.seq] = attempted
            /\ job[s].durable =>
                  \A i \in 1..Len(records) :
                      SameDurableIdentity(records[i], attempted) => i = attempted.seq
<1>1. ASSUME IInv, Next, NEW s \in Stores, Reconciling(s), pc'[s] = "ok" PROVE Holds(s)
    <2>1. AtPath.records \in Seq(Records) /\ Contiguous(AtPath.records) /\ job[s].durable \in BOOLEAN
        <3>1. job[s] \in Requests
            BY <1>1 DEF IInv, TypesOK, Reconciling, NoJob, RepairJob
        <3> QED
            BY <1>1, <3>1, FileAtPath DEF IInv, DiskOK, Requests
    <2>2. CASE pc[s] = "done" /\ UNCHANGED <<files, path>>
        <3>1. Established(s) /\ AtPath' = AtPath
            BY <1>1, <2>2, DiskAlone DEF IInv, ViewOK
        <3> QED
            BY <3>1 DEF Established
    <2>3. CASE JobVerdict(s) = "present" /\ AtPath'.records = AtPath.records
        <3>1. LET log == AtPath.records
                  r == job[s].record
              IN  /\ r.seq \in 1..Len(log) /\ log[r.seq] = r
                  /\ job[s].durable =>
                        \A i \in 1..Len(log) : SameDurableIdentity(log[i], r) => i = r.seq
            BY <2>1, <2>3, PresentFacts DEF JobVerdict
        <3> QED
            BY <2>3, <3>1
    <2>4. CASE pc[s] = "resync_directory" /\ UNCHANGED <<files, path>>
        BY <1>1, <2>3, <2>4, FoundAtPath, DiskAlone
    <2> QED
        BY <1>1, <2>2, <2>3, <2>4, WhoReturnsOk, DiskAlone
<1>2. IInv /\ [Next]_vars =>
        [\A s \in Stores : Reconciling(s) /\ pc'[s] = "ok" => Holds(s)]_vars
    BY <1>1
<1> QED
    BY <1>2, Inductive, PTL DEF Spec, ReconcileEstablishes

=============================================================================
