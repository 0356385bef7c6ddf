----------------------------- MODULE WorkspaceFiles -----------------------------
(***************************************************************************)
(* The part of a directory that one apply_patch call touches: inodes, the  *)
(* names that lead to them, the recovery namespace, and the snapshots and  *)
(* slot checks of capability-coding/src/workspace.rs.                      *)
(*                                                                         *)
(* An inode's data is who wrote it and which version of the file it is: the*)
(* versions of the user are numbered, and a patch of version v is          *)
(* [by |-> "patch", v |-> v].  Sizes are left out (every write keeps the   *)
(* size, the case a stat cannot tell apart), owner and group are part of   *)
(* mode, and xattr stands for extended attributes and ACLs.                *)
(***************************************************************************)
EXTENDS Naturals, FiniteSets

CONSTANTS MaxEdits        \* how often other programs touch the directory

ASSUME MaxEditsAssumption == MaxEdits \in Nat

VARIABLES inode,          \* inode number -> what the inode holds
          name,           \* name -> inode number, or None
          slot,           \* the directory at RECOVERY_DIRECTORY, or None
          policy          \* directory -> the state of its .gitignore

files == <<inode, name, slot, policy>>

None == 0
Inodes == 1 .. (MaxEdits + 2)     \* the original, the staged, one per edit
Dirs == 1 .. 2
\* "recovery" is the entry inside the recovery directory that the call opened;
\* "moved" and "link" are names only other programs make.
Names == {"target", "stage", "claim", "recovery", "moved", "link"}

Authors == {"user", "patch", "torn", "free"}
Data == [by : Authors, v : Nat]
Free == [by |-> "free", v |-> 0]
Torn == [by |-> "torn", v |-> 0]
UserData(n) == [by |-> "user", v |-> n]
Patched(data) == [by |-> "patch", v |-> data.v]

Inode == [data : Data, synced : BOOLEAN, mtime : Nat, ctime : Nat,
          mode : {"private", "user", "other"}, xattr : BOOLEAN]
NewInode(data, mode) ==
    [data |-> data, synced |-> data.by = "user", mtime |-> 0, ctime |-> 0,
     mode |-> mode, xattr |-> FALSE]

nlink(i) == Cardinality({n \in Names : name[n] = i})
UnusedInode == CHOOSE i \in Inodes : inode[i].data = Free
Exists(n) == name[n] # None

-----------------------------------------------------------------------------
\* Snapshots.

file_stat_snapshot(i) ==
    [ino |-> i, mtime |-> inode[i].mtime, ctime |-> inode[i].ctime, mode |-> inode[i].mode]

file_snapshot(i) == [stat |-> file_stat_snapshot(i), digest |-> inode[i].data]

NoSnapshot ==
    [stat |-> [ino |-> None, mtime |-> 0, ctime |-> 0, mode |-> "private"],
     digest |-> Free]

\* Mutant: the digest is not compared.
mutant_same_payload_and_metadata(a, b) ==
    /\ a.stat.ino = b.stat.ino
    /\ a.stat.mtime = b.stat.mtime
    /\ a.stat.mode = b.stat.mode

\* Everything but the change time, which a rename moves.
same_payload_and_metadata(a, b) ==
    /\ a.digest = b.digest
    /\ a.stat.ino = b.stat.ino
    /\ a.stat.mtime = b.stat.mtime
    /\ a.stat.mode = b.stat.mode

validate_security_metadata(i) == ~inode[i].xattr

RefreshSucceeds(i, snapshot) ==
    /\ validate_security_metadata(i)
    /\ same_payload_and_metadata(file_snapshot(i), snapshot)

\* The checks of a slot end in one fstat of the opened entry: a rename after the
\* lstat shows in nlink or ctime there, so the whole is one step.
validate_snapshot_slot(n, snapshot) ==
    /\ Exists(n)
    /\ nlink(name[n]) = 1
    /\ validate_security_metadata(name[n])
    /\ file_stat_snapshot(name[n]) = snapshot.stat

validate_staging_slot(i, snapshot) ==
    /\ validate_security_metadata(i)
    /\ file_stat_snapshot(i) = snapshot.stat
    /\ validate_snapshot_slot("stage", snapshot)

validate_replacement_slot(i, snapshot) ==
    /\ validate_security_metadata(i)
    /\ file_snapshot(i) = snapshot
    /\ validate_snapshot_slot("target", snapshot)

claimed_staging_matches(i, snapshot) ==
    /\ validate_security_metadata(i)
    /\ validate_security_metadata(name["claim"])
    /\ same_payload_and_metadata(file_snapshot(i), snapshot)
    /\ same_payload_and_metadata(file_snapshot(name["claim"]), snapshot)

\* Mutant: any directory at the path will do.
MutantNamespaceState(dir) == IF policy[dir] = "bad" THEN "policy" ELSE "ok"

\* What validate_recovery_namespace_slot says of the directory opened as dir.
NamespaceState(dir) ==
    IF slot # dir THEN "identity" ELSE IF policy[dir] = "bad" THEN "policy" ELSE "ok"

\* inspect_preserved_recovery_content: an entry or a payload that is another
\* one is a mismatch, a check that could not be made is only a failure.
InspectContent(i, snapshot) ==
    CASE ~validate_security_metadata(i) -> "failed"
      [] validate_security_metadata(i)
           /\ ~same_payload_and_metadata(file_snapshot(i), snapshot) -> "mismatch"
      [] OTHER ->
           CASE ~Exists("recovery") -> "mismatch"
             [] Exists("recovery")
                  /\ (nlink(name["recovery"]) # 1 \/ inode[name["recovery"]].xattr)
                    -> "failed"
             [] OTHER -> IF name["recovery"] = i THEN "verified" ELSE "mismatch"

-----------------------------------------------------------------------------
\* Changes of the directory.

\* The kernel moves the change time of a renamed inode.
TouchCtime(i) == inode' = [inode EXCEPT ![i].ctime = @ + 1]

\* renameat2 with NOREPLACE: nothing may be at the new name.
RenameNoReplace(from, to) ==
    /\ Exists(from) /\ ~Exists(to)
    /\ name' = [name EXCEPT ![to] = name[from], ![from] = None]
    /\ TouchCtime(name[from])

\* Mutant: the staged file is renamed over the target.
mutant_exchange_files_between(left, right) ==
    /\ Exists(left) /\ Exists(right)
    /\ name' = [name EXCEPT ![right] = name[left], ![left] = None]
    /\ inode' = [inode EXCEPT ![name[left]].ctime = @ + 1]

\* renameat2 with EXCHANGE: both names exist and change places at once.
exchange_files_between(left, right) ==
    /\ Exists(left) /\ Exists(right)
    /\ name' = [name EXCEPT ![left] = name[right], ![right] = name[left]]
    /\ inode' = [inode EXCEPT ![name[left]].ctime = @ + 1, ![name[right]].ctime = @ + 1]

\* ensure_recovery_gitignore writes the file when there is none.
WithPolicy(dir) ==
    policy' = [policy EXCEPT ![dir] = IF @ = "none" THEN "ok" ELSE @]
=============================================================================
