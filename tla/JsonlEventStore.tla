----------------------------- MODULE JsonlEventStore -----------------------------
(***************************************************************************)
(* JsonlEventStore (event-store/src/jsonl.rs): several stores, in one or   *)
(* more processes, append to the JSONL file at one path under its          *)
(* exclusive lock.  Any step of an append may fail, a process may die in   *)
(* the middle of one, and the machine may lose power; then the log is      *)
(* repaired and the ambiguous append reconciled.                           *)
(*                                                                         *)
(* A record is an event with its sequence (0: a legacy record without      *)
(* one); its bytes are left out, except that the last record of a file may *)
(* be torn, that is, lack the newline that commits it: one that is being   *)
(* written, one left behind, and one cut off by a repair that has not been *)
(* flushed yet, which a power loss may bring back.                         *)
(***************************************************************************)
EXTENDS LogRecords

CONSTANTS Stores,       \* JsonlEventStore values with the same path
          Bodies,       \* events, as records without their sequence
          Inodes,       \* bound: files the path may come to name
          MaxRecords    \* bound: records of a file

ASSUME StoreAssumption ==
    /\ Inodes \subseteq Nat \ {0}
    /\ MaxRecords \in Nat

VARIABLES files,       \* inode -> its records, torn tail and flushed prefix
          path,        \* the inode the path names, 0 if none
          linked,      \* has the directory entry been flushed?
          locks,       \* inode -> {} or {the store holding the exclusive lock}
          append_file, \* store -> its Option<AppendFile>
          pc,          \* store -> where it is inside a call; outside, "ok" after success, else "idle"
          job,         \* store -> the arguments of its call
          created,     \* store -> the inode create_new made, 0 if none
          acked        \* records acknowledged as durable, with their position

vars == <<files, path, linked, locks, append_file, pc, job, created, acked>>
caller == <<created, acked>>
disk == <<files, path, linked>>

Numbered(seq, body) == body @@ [seq |-> seq]
Records == {Numbered(seq, body) : seq \in 0..MaxRecords, body \in Bodies}

NoHandle == [inode |-> 0, parent_directory_needs_sync |-> FALSE, fully_validated |-> FALSE]
NoJob == [op |-> "none"]
RepairJob == [op |-> "repair"]
EmptyFile == [records |-> <<>>, torn |-> "no", synced |-> 0]
Fresh == {i \in Inodes : i # path /\ files[i] = EmptyFile
                         /\ \A s \in Stores : append_file[s].inode # i /\ created[s] # i}

\* The file a store appends to, and the one the path names.
Handle(s) == append_file[s].inode
AtPath == IF path = 0 THEN EmptyFile ELSE files[path]

Init ==
    /\ files = [i \in Inodes |-> EmptyFile]
    /\ path = 0
    /\ linked = FALSE
    /\ locks = [i \in Inodes |-> {}]
    /\ append_file = [s \in Stores |-> NoHandle]
    /\ pc = [s \in Stores |-> "idle"]
    /\ job = [s \in Stores |-> NoJob]
    /\ created = [s \in Stores |-> 0]
    /\ acked = {}

-----------------------------------------------------------------------------
(* Steps shared by the operations *)

Idle(s) == pc[s] \in {"ok", "idle"}
Goto(s, label) == pc' = [pc EXCEPT ![s] = label] /\ UNCHANGED job
Call(s, label, args) == pc' = [pc EXCEPT ![s] = label] /\ job' = [job EXCEPT ![s] = args]
Return(s, result) == Call(s, result, NoJob)
Unlock(s) == locks' = [i \in Inodes |-> locks[i] \ {s}]

\* Any failure under the lock: the lock is released and the handle forgotten, so
\* that the next append opens the path again and validates it from the start.
FailAppend(s) ==
    /\ Unlock(s)
    /\ append_file' = [append_file EXCEPT ![s] = NoHandle]
    /\ Return(s, "idle")

\* open_append_file, when the store has no handle: the path is created if absent.
Open(s) ==
    IF Handle(s) # 0
    THEN UNCHANGED <<disk, append_file>>
    ELSE \E i \in IF path = 0 THEN Fresh ELSE {path} :
            /\ path' = i
            /\ linked' = IF path = 0 THEN FALSE ELSE linked
            /\ append_file' = [append_file EXCEPT ![s] =
                   [inode |-> i, parent_directory_needs_sync |-> TRUE, fully_validated |-> FALSE]]
            /\ UNCHANGED files

\* No other store is inside a call: what reconcile and repair ask of their caller.
Alone(s) == \A t \in Stores \ {s} : Idle(t)

Reconciling(s) == job[s].op = "reconcile"
Recovering(s) == Reconciling(s) \/ job[s] = RepairJob

-----------------------------------------------------------------------------
(* Appending *)

\* create_new, which a store for a new run starts with.
CreateNew(s) ==
    /\ Idle(s) /\ Handle(s) = 0 /\ created[s] = 0
    /\ path = 0
    /\ \E i \in Fresh :
          /\ path' = i
          /\ created' = [created EXCEPT ![s] = i]
          /\ append_file' = [append_file EXCEPT ![s] =
                 [inode |-> i, parent_directory_needs_sync |-> TRUE, fully_validated |-> TRUE]]
    /\ linked' = FALSE
    /\ UNCHANGED <<files, locks, pc, job, acked>>

CallAppend(s, seq, body, durable) ==
    /\ Idle(s)
    /\ \A t \in Stores : ~Recovering(t)
    /\ Len(AtPath.records) < MaxRecords
    /\ Call(s, "lock", [op |-> "append", record |-> Numbered(seq, body), durable |-> durable])
    /\ Open(s)
    /\ UNCHANGED <<locks, caller>>

\* Mutant: appends are not excluded from each other, or from readers.
MutantLock(s) ==
    /\ pc[s] = "lock"
    /\ Goto(s, "validate")
    /\ UNCHANGED <<disk, locks, append_file, caller>>

\* A lock error leaves the handle in place.
Lock(s) ==
    /\ pc[s] = "lock"
    /\ \/ /\ locks[Handle(s)] = {}
          /\ locks' = [locks EXCEPT ![Handle(s)] = {s}]
          /\ Goto(s, "validate")
       \/ /\ Return(s, "idle")
          /\ UNCHANGED locks
    /\ UNCHANGED <<disk, append_file, caller>>

\* inspect_append_position: a handle that has not validated the log yet reads the
\* whole log again, through the path; otherwise only its own last record counts.
Position(s) ==
    IF append_file[s].fully_validated THEN files[Handle(s)].records ELSE AtPath.records

\* An empty file takes a first record, a torn one nothing, any other the record
\* that follows its last.
Admissible(s) ==
    LET file == files[Handle(s)]
    IN  /\ file.torn \in {"no", "cut"}
        /\ IF file.records = <<>> THEN Follows(<<>>, job[s].record)
           ELSE /\ append_file[s].fully_validated \/ Contiguous(Position(s))
                /\ Position(s) # <<>>
                /\ Follows(Position(s), job[s].record)

Validate(s) ==
    /\ pc[s] = "validate"
    /\ \/ /\ Admissible(s)
          /\ append_file' = [append_file EXCEPT ![s].fully_validated = TRUE]
          /\ Goto(s, "write")
          /\ UNCHANGED locks
       \/ /\ ~Admissible(s)
          /\ FailAppend(s)
    /\ UNCHANGED <<disk, caller>>

\* write_all: the record appears piecemeal, and the write may fail on the way.
WriteSome(s) ==
    /\ pc[s] = "write"
    /\ files' = [files EXCEPT ![Handle(s)].torn = "writing"]
    /\ Goto(s, "writing")
    /\ UNCHANGED <<path, linked, locks, append_file, caller>>

WriteRest(s) ==
    /\ pc[s] = "writing"
    /\ files' = [files EXCEPT ![Handle(s)].torn = "no",
                              ![Handle(s)].records = Append(@, job[s].record)]
    /\ Goto(s, IF job[s].durable THEN "sync" ELSE "done")
    /\ UNCHANGED <<path, linked, locks, append_file, caller>>

WriteFails(s) ==
    /\ pc[s] \in {"write", "writing"}
    /\ files' = [files EXCEPT ![Handle(s)].torn = IF pc[s] = "writing" THEN "left" ELSE @]
    /\ FailAppend(s)
    /\ UNCHANGED <<path, linked, caller>>

SyncData(s) ==
    /\ pc[s] = "sync"
    /\ \/ /\ files' = [files EXCEPT ![Handle(s)].synced = Len(files[Handle(s)].records)]
          /\ Goto(s, "sync_directory")
          /\ UNCHANGED <<locks, append_file>>
       \/ FailAppend(s) /\ UNCHANGED files
    /\ UNCHANGED <<path, linked, caller>>

\* Mutant: the directory entry of a new log is never flushed.
MutantSyncParentDirectory(s) ==
    /\ pc[s] = "sync_directory"
    /\ Goto(s, "done")
    /\ UNCHANGED <<disk, locks, append_file, caller>>

\* The first durable append through a handle also flushes the directory entry.
SyncParentDirectory(s) ==
    /\ pc[s] = "sync_directory"
    /\ \/ /\ append_file[s].parent_directory_needs_sync
          /\ linked' = TRUE
          /\ append_file' = [append_file EXCEPT ![s].parent_directory_needs_sync = FALSE]
          /\ Goto(s, "done")
          /\ UNCHANGED locks
       \/ /\ append_file[s].parent_directory_needs_sync
          /\ FailAppend(s)
          /\ UNCHANGED linked
       \/ /\ ~append_file[s].parent_directory_needs_sync
          /\ Goto(s, "done")
          /\ UNCHANGED <<linked, locks, append_file>>
    /\ UNCHANGED <<files, path, caller>>

\* Where the record that was just written stands in its file.
Written(s) == [position |-> Len(files[Handle(s)].records), record |-> job[s].record]

\* Releasing the lock may fail after everything else succeeded.
EndAppend(s) ==
    /\ pc[s] = "done"
    /\ \/ /\ Unlock(s)
          /\ Return(s, "ok")
          /\ acked' = IF job[s].durable THEN acked \cup {Written(s)} ELSE acked
          /\ UNCHANGED append_file
       \/ FailAppend(s) /\ UNCHANGED acked
    /\ UNCHANGED <<disk, created>>

-----------------------------------------------------------------------------
(* Recovery *)

\* repair_truncated_tail, which reconcile starts with too: the handle is dropped
\* first, and an intact file is left alone; a torn one is truncated to its last
\* newline.  Any call to the file may fail.
StartRepair(s, next, args) ==
    /\ append_file' = [append_file EXCEPT ![s] = NoHandle]
    /\ \/ AtPath.torn \in {"no", "cut"} /\ Call(s, next, args) /\ UNCHANGED files
       \/ /\ AtPath.torn = "left"
          /\ files' = [files EXCEPT ![path].torn = "cut"]
          /\ Call(s, "repair", args)
       \/ Return(s, "idle") /\ UNCHANGED files

RepairTruncatedTail(s) ==
    /\ Idle(s) /\ Alone(s)
    /\ path # 0
    /\ StartRepair(s, "ok", IF AtPath.torn = "left" THEN RepairJob ELSE NoJob)
    /\ UNCHANGED <<path, linked, locks, caller>>

\* reconcile repairs the file unless there is none.
CallReconcile(s, seq, body, durable) ==
    LET attempt == [op |-> "reconcile", record |-> Numbered(seq, body), durable |-> durable]
    IN  /\ Idle(s) /\ Alone(s)
        /\ \/ path # 0 /\ StartRepair(s, "decide", attempt)
           \/ path = 0 /\ Call(s, "decide", attempt) /\ UNCHANGED <<files, append_file>>
        /\ UNCHANGED <<path, linked, locks, caller>>

Flushed(file) == [file EXCEPT !.torn = "no", !.synced = Len(file.records)]

\* The truncation is flushed.
SyncRepaired(s) ==
    /\ pc[s] = "repair"
    /\ \/ /\ files' = [files EXCEPT ![path] = Flushed(files[path])]
          /\ IF Reconciling(s) THEN Goto(s, "decide") ELSE Return(s, "ok")
       \/ Return(s, "idle") /\ UNCHANGED files
    /\ UNCHANGED <<path, linked, locks, append_file, caller>>

JobVerdict(s) ==
    Verdict(AtPath.records, job[s].record, IF job[s].durable THEN "Durable" ELSE "Buffered")

\* A present event is only flushed again, a missing one appended; a conflict,
\* which the caller must settle, or a read error ends the call.
Decide(s) ==
    /\ pc[s] = "decide"
    /\ \/ JobVerdict(s) = "missing" /\ Open(s) /\ Goto(s, "lock")
       \/ /\ JobVerdict(s) = "present"
          /\ IF job[s].durable THEN Goto(s, "resync") ELSE Return(s, "ok")
          /\ UNCHANGED <<disk, append_file>>
       \/ Return(s, "idle") /\ UNCHANGED <<disk, append_file>>
    /\ UNCHANGED <<locks, caller>>

\* sync_existing_log flushes the file and then its directory entry.
SyncExistingLog(s) ==
    /\ pc[s] = "resync"
    /\ \/ /\ files' = [files EXCEPT ![path] = Flushed(files[path])]
          /\ Goto(s, "resync_directory")
       \/ Return(s, "idle") /\ UNCHANGED files
    /\ UNCHANGED <<path, linked, locks, append_file, caller>>

SyncExistingDirectory(s) ==
    /\ pc[s] = "resync_directory"
    /\ \/ /\ linked' = TRUE
          /\ acked' = acked \cup {[position |-> job[s].record.seq, record |-> job[s].record]}
          /\ Return(s, "ok")
       \/ Return(s, "idle") /\ UNCHANGED <<linked, acked>>
    /\ UNCHANGED <<files, path, locks, append_file, created>>

-----------------------------------------------------------------------------
(* The environment *)

Forgotten(s) ==
    /\ append_file' = [append_file EXCEPT ![s] = NoHandle]
    /\ created' = [created EXCEPT ![s] = 0]

\* A process dies, perhaps inside a call; the kernel keeps what it wrote and drops its lock.
ProcessDies(s) ==
    /\ files' = [i \in Inodes |->
                    IF pc[s] = "writing" /\ i = Handle(s)
                    THEN [files[i] EXCEPT !.torn = "left"] ELSE files[i]]
    /\ Forgotten(s)
    /\ Return(s, "idle")
    /\ Unlock(s)
    /\ UNCHANGED <<path, linked, acked>>

\* Power loss: a prefix no shorter than the flushed one survives, perhaps with a
\* torn record behind it; a file whose directory entry was not flushed may go.
PowerLoss ==
    /\ path # 0
    /\ \/ /\ \E n \in AtPath.synced..Len(AtPath.records), torn \in {"no", "left"} :
                /\ torn = "left" => n < Len(AtPath.records) \/ AtPath.torn # "no"
                /\ files' = [files EXCEPT ![path] =
                       [records |-> SubSeq(AtPath.records, 1, n), torn |-> torn, synced |-> n]]
          /\ path' = path
          /\ linked' = TRUE
       \/ /\ ~linked
          /\ path' = 0
          /\ files' = [files EXCEPT ![path] = EmptyFile]
          /\ linked' = FALSE
    /\ append_file' = [s \in Stores |-> NoHandle]
    /\ pc' = [s \in Stores |-> "idle"]
    /\ job' = [s \in Stores |-> NoJob]
    /\ created' = [s \in Stores |-> 0]
    /\ locks' = [i \in Inodes |-> {}]
    /\ UNCHANGED acked

Next ==
    \/ \E s \in Stores :
          \/ CreateNew(s)
          \/ \E seq \in 0..MaxRecords, body \in Bodies, durable \in BOOLEAN :
                CallAppend(s, seq, body, durable)
          \/ Lock(s) \/ Validate(s) \/ WriteSome(s) \/ WriteRest(s) \/ WriteFails(s)
          \/ SyncData(s) \/ SyncParentDirectory(s) \/ EndAppend(s)
          \/ RepairTruncatedTail(s)
          \/ \E seq \in 1..MaxRecords, body \in Bodies, durable \in BOOLEAN :
                CallReconcile(s, seq, body, durable)
          \/ SyncRepaired(s) \/ Decide(s) \/ SyncExistingLog(s) \/ SyncExistingDirectory(s)
          \/ ProcessDies(s)
    \/ PowerLoss

Spec == Init /\ [][Next]_vars

-----------------------------------------------------------------------------
(* Properties *)

Labels == {"ok", "idle", "lock", "validate", "write", "writing", "sync", "sync_directory",
           "done", "repair", "decide", "resync", "resync_directory"}

\* The types of the stores' state; a file's exclusive lock has at most one holder.
TypeOK ==
    /\ \A i \in Inodes :
          /\ files[i].records \in Seq(Records)
          /\ files[i].torn \in {"no", "writing", "left", "cut"}
          /\ files[i].synced \in 0..Len(files[i].records)
    /\ path \in Inodes \cup {0}
    /\ linked \in BOOLEAN
    /\ locks \in [Inodes -> {{}} \cup {{s} : s \in Stores}]
    /\ append_file \in [Stores -> [inode : Inodes \cup {0},
                                   parent_directory_needs_sync : BOOLEAN,
                                   fully_validated : BOOLEAN]]
    /\ pc \in [Stores -> Labels]

Canonical == INSTANCE CanonicalLog WITH
    log <- AtPath.records,
    durable <- IF linked THEN AtPath.synced ELSE 0

\* The file is a canonical log: whatever the interleaving of appends through
\* cached handles, failed writes, crashes and repairs, it grows by the record
\* that follows, and a crash loses no record that was flushed.
ImplementsCanonicalLog == Canonical!Spec

\* A durable append or reconcile that returned Ok survives every crash, the loss
\* of a directory entry that was never flushed included.
DurableAcksSurvive ==
    \A a \in acked :
        /\ a.position <= Len(AtPath.records)
        /\ AtPath.records[a.position] = a.record

\* A reader that gets the shared lock never sees the half of a record that a
\* live writer is still writing.
ReadersSeeWholeRecords ==
    path # 0 /\ locks[path] = {} => AtPath.torn # "writing"

\* reconcile returns Ok only when the log holds exactly the attempted event: at
\* its sequence, once, and with no other record of the same lifecycle step.
ReconcileEstablishes ==
    [][\A s \in Stores :
         Reconciling(s) /\ pc'[s] = "ok" =>
            LET records == AtPath'.records
                attempted == job[s].record
            IN  /\ attempted.seq \in 1..Len(records)
                /\ records[attempted.seq] = attempted
                /\ job[s].durable =>
                      \A i \in 1..Len(records) :
                          SameDurableIdentity(records[i], attempted) => i = attempted.seq]_vars

=============================================================================
