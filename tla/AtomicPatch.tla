------------------------------ MODULE AtomicPatch ------------------------------
(***************************************************************************)
(* One apply_patch call (capability-coding/src/patch.rs) and the atomic    *)
(* commit below it (workspace.rs), one action per system call that matters,*)
(* while an editor and other programs work in the same directory.  Every   *)
(* call of the tool may fail, and the machine may lose power between any   *)
(* two of its steps.                                                       *)
(*                                                                         *)
(* What the hunks do to a file is in PatchHunks; here a patch of version v *)
(* is a value of its own.  Retries after a clash of random names are left  *)
(* out: a name drawn from 128 random bits is new.                          *)
(***************************************************************************)
EXTENDS WorkspaceFiles

VARIABLES pc,          \* where the call is
          tool,        \* its locals
          result,      \* what it reported
          \* What the properties are about, not state of the program:
          live,        \* the user's versions that no other program destroyed
          exchanged,   \* what the commit took from the target and put there
          late,        \* another program acted after the last check of the recovery entry
          past,        \* the name tables a power loss may bring back
          edits        \* how often other programs acted

vars == <<files, pc, tool, result, live, exchanged, late, past, edits>>
ghosts == <<live, exchanged, late, past, edits>>

NoExchange == [taken |-> Free, put |-> Free]
NotYet == [state |-> "none", recovery |-> "none"]

Init ==
    /\ \E kind \in {"modify", "create"}, exists \in BOOLEAN, dir \in {None, 1} :
        /\ inode = [i \in Inodes |->
                      NewInode(IF i = 1 /\ exists THEN UserData(1) ELSE Free, "user")]
        /\ name = [n \in Names |-> IF n = "target" /\ exists THEN 1 ELSE None]
        /\ slot = dir
        /\ policy = [d \in Dirs |-> IF d = dir THEN "ok" ELSE "none"]
        /\ tool = [kind |-> kind,             \* with or without an old path
                   existed |-> FALSE,         \* resolved.existed
                   file |-> None,             \* the target, as opened
                   snapshot |-> NoSnapshot,   \* and as read
                   base |-> Free,             \* the content that was patched
                   staged |-> None,           \* StagedFile
                   staged_snapshot |-> NoSnapshot,
                   dir |-> None,              \* RecoveryNamespace
                   published |-> FALSE,       \* which failure the evidence is for
                   content |-> "none",        \* RecoveryContentEvidence
                   policy_before |-> FALSE]
        /\ live = IF exists THEN {1} ELSE {}
    /\ pc = "resolve"
    /\ result = NotYet
    /\ exchanged = NoExchange
    /\ late = FALSE
    /\ past = {name}
    /\ edits = 0

At(label) == pc = label
Goto(label) == pc' = label /\ UNCHANGED result
Return(state, recovery) ==
    /\ pc' = "done"
    /\ result' = [state |-> state, recovery |-> recovery]
Set(field, value) == tool' = [tool EXCEPT ![field] = value]
Keep == UNCHANGED <<files, tool, ghosts>>
\* The name table after a change by this call: a power loss may still undo it.
Journal == past' = past \cup {name'} /\ UNCHANGED <<live, late, edits>>

\* PatchError::Io, Conflict, Workspace, Limit, InvalidPatch and Cancelled: the
\* call gives up before anything of it is in the directory.
GiveUp == Return("failed", "none") /\ Keep

-----------------------------------------------------------------------------
\* apply_unified_patch: read the target and prepare the new content.

\* resolve_for_write.
Resolve ==
    /\ At("resolve")
    /\ \/ /\ Goto(IF Exists("target") THEN "open" ELSE "prepare")
          /\ Set("existed", Exists("target"))
          /\ UNCHANGED <<files, ghosts>>
       \/ GiveUp

\* open_regular_file and begin_file_snapshot.
OpenTarget ==
    /\ At("open")
    /\ \/ /\ Exists("target")
          /\ tool' = [tool EXCEPT !.file = name["target"],
                                  !.snapshot = file_snapshot(name["target"])]
          /\ Goto("read")
          /\ UNCHANGED <<files, ghosts>>
       \/ GiveUp

\* The read loop of read_patch_target.
ReadTarget ==
    /\ At("read")
    /\ \/ Set("base", inode[tool.file].data) /\ Goto("read_end") /\ UNCHANGED <<files, ghosts>>
       \/ GiveUp

\* finish_file_snapshot_from_content: the digest is that of the bytes read.
FinishRead ==
    /\ At("read_end")
    /\ \/ /\ file_stat_snapshot(tool.file) = tool.snapshot.stat
          /\ tool' = [tool EXCEPT !.snapshot.digest = tool.base]
          /\ Goto("prepare")
          /\ UNCHANGED <<files, ghosts>>
       \/ GiveUp

\* prepare_change: the patch fits what was found, and its hunks apply.
Prepare ==
    /\ At("prepare")
    /\ \/ /\ tool.existed = (tool.kind = "modify")
          /\ Goto(IF tool.existed THEN "metadata" ELSE "stage")
          /\ Keep
       \/ GiveUp

-----------------------------------------------------------------------------
\* replace_existing_atomically and create_new up to the commit.

replacement_metadata ==
    /\ At("metadata")
    /\ \/ /\ Exists("target")
          /\ LET i == name["target"] IN
               /\ nlink(i) = 1
               /\ validate_security_metadata(i)
               /\ file_stat_snapshot(i) = tool.snapshot.stat
               /\ Set("file", i)
          /\ Goto("namespace")
          /\ UNCHANGED <<files, ghosts>>
       \/ GiveUp

\* create_dir, or the directory that is there, and its .gitignore.
OpenNamespace(next) ==
    /\ slot' = IF slot = None THEN 1 ELSE slot
    /\ policy[slot'] # "bad"
    /\ WithPolicy(slot')
    /\ Set("dir", slot')
    /\ Goto(next)

open_recovery_namespace ==
    /\ At("namespace")
    /\ \/ OpenNamespace("stage") /\ UNCHANGED <<inode, name, ghosts>>
       \/ GiveUp

\* stage_content creates the file with create_new and mode 0600.
StageCreate ==
    /\ At("stage")
    /\ \/ /\ inode' = [inode EXCEPT ![UnusedInode] = NewInode(Torn, "private")]
          /\ name' = [name EXCEPT !["stage"] = UnusedInode]
          /\ Set("staged", UnusedInode)
          /\ Journal
          /\ Goto("write")
          /\ UNCHANGED <<slot, policy, exchanged>>
       \/ GiveUp

\* cleanup_open_staging_after_error: a staging file that cannot be read stays.
CleanupOpenStaging ==
    \/ /\ Set("staged_snapshot", file_snapshot(tool.staged))
       /\ Goto("claim")
       /\ UNCHANGED <<files, ghosts>>
    \/ GiveUp

\* The owner, group and xattr checks, then write_all.
StageWrite ==
    /\ At("write")
    /\ \/ /\ inode' = [inode EXCEPT ![tool.staged].data = Patched(tool.base),
                                    ![tool.staged].mtime = @ + 1,
                                    ![tool.staged].ctime = @ + 1]
          /\ Goto("sync")
          /\ UNCHANGED <<name, slot, policy, tool, ghosts>>
       \/ CleanupOpenStaging

\* Mutant: the staged bytes are left to the kernel.
MutantFlushStaged(next) == Goto(next) /\ Keep

\* sync_all.
FlushStaged(next) ==
    /\ inode' = [inode EXCEPT ![tool.staged].synced = TRUE]
    /\ Goto(next)
    /\ UNCHANGED <<name, slot, policy, tool, ghosts>>

StageSync ==
    /\ At("sync")
    /\ \/ FlushStaged(IF tool.kind = "modify" THEN "permissions" ELSE "snapshot")
       \/ CleanupOpenStaging

\* A replacement gets the mode of the file it replaces, which is read back.
StagePermissions ==
    /\ At("permissions")
    /\ \/ /\ inode' = [inode EXCEPT ![tool.staged].mode = tool.snapshot.stat.mode,
                                    ![tool.staged].ctime = @ + 1]
          /\ Goto("resync")
          /\ UNCHANGED <<name, slot, policy, tool, ghosts>>
       \/ CleanupOpenStaging

\* The second sync_all.
StageResync ==
    /\ At("resync")
    /\ FlushStaged("snapshot") \/ CleanupOpenStaging

\* The security metadata is checked, then the bytes written are its digest.
StageSnapshot ==
    /\ At("snapshot")
    /\ \/ /\ validate_security_metadata(tool.staged)
          /\ Set("staged_snapshot",
                 [stat |-> file_stat_snapshot(tool.staged), digest |-> Patched(tool.base)])
          /\ Goto("validate_staging")
          /\ UNCHANGED <<files, ghosts>>
       \/ CleanupOpenStaging

-----------------------------------------------------------------------------
\* commit_existing_file and commit_new_file.

\* cleanup_owned_staging_after_error.
CleanupOwnedStaging == Goto("claim") /\ Keep

ValidateStaging ==
    /\ At("validate_staging")
    /\ \/ /\ validate_staging_slot(tool.staged, tool.staged_snapshot)
          /\ Goto(IF tool.existed THEN "validate_target" ELSE "create")
          /\ Keep
       \/ CleanupOwnedStaging

ValidateTarget ==
    /\ At("validate_target")
    /\ \/ validate_replacement_slot(tool.file, tool.snapshot) /\ Goto("move") /\ Keep
       \/ CleanupOwnedStaging

\* move_to_recovery_namespace of whatever is at the staging name.
MoveToRecovery ==
    /\ At("move")
    /\ \/ /\ RenameNoReplace("stage", "recovery")
          /\ Journal
          /\ Goto("validate_moved")
          /\ UNCHANGED <<slot, policy, tool, exchanged>>
       \/ CleanupOwnedStaging

\* The evidence behind a failure: BeforePublication names the staged file,
\* Published the displaced one.
Evidence(published) ==
    /\ Set("published", published)
    /\ Goto("evidence")
    /\ UNCHANGED <<files, ghosts>>

ValidateMoved ==
    /\ At("validate_moved")
    /\ \/ /\ RefreshSucceeds(tool.staged, tool.staged_snapshot)
          /\ validate_snapshot_slot("recovery", file_snapshot(tool.staged))
          /\ Set("staged_snapshot", file_snapshot(tool.staged))
          /\ Goto("validate_namespace")
          /\ UNCHANGED <<files, ghosts>>
       \/ Evidence(FALSE)

ValidateNamespace ==
    /\ At("validate_namespace")
    /\ \/ NamespaceState(tool.dir) = "ok" /\ Goto("exchange") /\ Keep
       \/ Evidence(FALSE)

Exchange ==
    /\ At("exchange")
    /\ \/ /\ exchange_files_between("recovery", "target")
          /\ exchanged' = [taken |-> inode[name["target"]].data,
                           put |-> inode[name["recovery"]].data]
          /\ Journal
          /\ Goto("refresh")
          /\ UNCHANGED <<slot, policy, tool>>
       \/ Evidence(FALSE)

\* refresh_snapshot_after_rename, refresh_replacement_after_rename.
RefreshExchanged ==
    /\ At("refresh")
    /\ \/ /\ RefreshSucceeds(tool.staged, tool.staged_snapshot)
          /\ RefreshSucceeds(tool.file, tool.snapshot)
          /\ tool' = [tool EXCEPT !.staged_snapshot = file_snapshot(tool.staged),
                                  !.snapshot = file_snapshot(tool.file)]
          /\ Goto("validate_installed")
          /\ UNCHANGED <<files, ghosts>>
       \/ Evidence(TRUE)

ValidateInstalled ==
    /\ At("validate_installed")
    /\ \/ validate_snapshot_slot("target", tool.staged_snapshot)
            /\ Goto("validate_displaced") /\ Keep
       \/ Evidence(TRUE)

\* validate_replacement_slot_identity on the recovery entry; from here on a
\* change of the entry goes unseen.
ValidateDisplaced ==
    /\ At("validate_displaced")
    /\ \/ /\ validate_snapshot_slot("recovery", tool.snapshot)
          /\ late' = FALSE
          /\ Goto("confirm_namespace")
          /\ UNCHANGED <<files, tool, live, exchanged, past, edits>>
       \/ Evidence(TRUE)

ConfirmNamespace ==
    /\ At("confirm_namespace")
    /\ \/ NamespaceState(tool.dir) = "ok" /\ Return("applied", "located_verified") /\ Keep
       \/ Evidence(TRUE)

\* renameat NOREPLACE of a new file.
RenameNew ==
    /\ At("create")
    /\ \/ /\ RenameNoReplace("stage", "target")
          /\ exchanged' = [taken |-> Free, put |-> inode[name["stage"]].data]
          /\ Journal
          /\ Goto("validate_new")
          /\ UNCHANGED <<slot, policy, tool>>
       \/ CleanupOwnedStaging

ValidateNew ==
    /\ At("validate_new")
    /\ Keep
    /\ \/ /\ RefreshSucceeds(tool.staged, tool.staged_snapshot)
          /\ validate_snapshot_slot("target", file_snapshot(tool.staged))
          /\ Return("applied", "none")
       \/ Return("published", "not_applicable_new_file")

-----------------------------------------------------------------------------
\* cleanup_expected_staging_after_error.

\* claim_path; a staging name that is gone leaves the first error as it is.
ClaimStaging ==
    /\ At("claim")
    /\ \/ /\ RenameNoReplace("stage", "claim")
          /\ Journal
          /\ Goto("match")
          /\ UNCHANGED <<slot, policy, tool, exchanged>>
       \/ GiveUp

\* A foreign or unreadable entry goes back to its name, if the name is free.
RestoreClaimed ==
    \/ /\ RenameNoReplace("claim", "stage")
       /\ Journal
       /\ Return("failed", "none")
       /\ UNCHANGED <<slot, policy, tool, exchanged>>
    \/ GiveUp

MatchClaimed ==
    /\ At("match")
    /\ \/ claimed_staging_matches(tool.staged, tool.staged_snapshot)
            /\ Goto("preserve_dir") /\ Keep
       \/ RestoreClaimed

\* move_claimed_to_recovery_namespace opens the namespace again.
PreserveOpen ==
    /\ At("preserve_dir")
    /\ \/ OpenNamespace("preserve") /\ UNCHANGED <<inode, name, ghosts>>
       \/ GiveUp

PreserveClaimed ==
    /\ At("preserve")
    /\ \/ /\ RenameNoReplace("claim", "recovery")
          /\ Journal
          /\ Set("published", FALSE)
          /\ Goto("evidence")
          /\ UNCHANGED <<slot, policy, exchanged>>
       \/ GiveUp

-----------------------------------------------------------------------------
\* preserved_recovery_evidence.

Outcome == IF tool.published THEN "published" ELSE "preserved"

\* validate_recovery_namespace_slot, which may also fail to look.
NamespaceLooks ==
    {NamespaceState(tool.dir), "identity"} \cup
        (IF NamespaceState(tool.dir) = "ok" THEN {"policy"} ELSE {})

PolicyBefore ==
    /\ At("evidence")
    /\ \E look \in NamespaceLooks :
         IF look = "identity"
         THEN Return(Outcome, "unlocated") /\ Keep
         ELSE /\ Set("policy_before", look = "ok")
              /\ Goto("inspect")
              /\ UNCHANGED <<files, ghosts>>

Inspected == IF tool.published THEN tool.file ELSE tool.staged
InspectedSnapshot == IF tool.published THEN tool.snapshot ELSE tool.staged_snapshot

Inspect ==
    /\ At("inspect")
    /\ \E content \in {InspectContent(Inspected, InspectedSnapshot), "failed"} :
         IF content = "mismatch"
         THEN Return(Outcome, "unlocated") /\ Keep
         ELSE /\ Set("content", content)
              /\ late' = FALSE
              /\ Goto("policy_after")
              /\ UNCHANGED <<files, live, exchanged, past, edits>>

Located(content, policy_verified) ==
    CASE content = "verified" /\ policy_verified -> "located_verified"
      [] content = "failed" /\ policy_verified -> "located_content_unverified"
      [] content = "verified" /\ ~policy_verified -> "located_policy_unverified"
      [] OTHER -> "located_content_and_policy_unverified"

PolicyAfter ==
    /\ At("policy_after")
    /\ \E look \in NamespaceLooks :
         Return(Outcome,
                IF look = "identity" THEN "unlocated"
                ELSE Located(tool.content, tool.policy_before /\ look = "ok"))
    /\ Keep

\* What into_output and execute list as recovery_files.
ReportsRecoveryFile ==
    result.recovery \in {"located_verified", "located_policy_unverified"}

Tool ==
    \/ Resolve \/ OpenTarget \/ ReadTarget \/ FinishRead \/ Prepare
    \/ replacement_metadata \/ open_recovery_namespace
    \/ StageCreate \/ StageWrite \/ StageSync \/ StagePermissions \/ StageResync \/ StageSnapshot
    \/ ValidateStaging \/ ValidateTarget \/ MoveToRecovery \/ ValidateMoved
    \/ ValidateNamespace \/ Exchange \/ RefreshExchanged \/ ValidateInstalled
    \/ ValidateDisplaced \/ ConfirmNamespace \/ RenameNew \/ ValidateNew
    \/ ClaimStaging \/ MatchClaimed \/ PreserveOpen \/ PreserveClaimed
    \/ PolicyBefore \/ Inspect \/ PolicyAfter

-----------------------------------------------------------------------------
\* Other programs in the directory.  They sync what they write, which also
\* settles the earlier renames; a write within one tick of the file system's
\* clock leaves the times as they are.

Version == edits + 2

Destroyed(i) == IF inode[i].data.by = "user" THEN {inode[i].data.v} ELSE {}

MayAct == edits < MaxEdits /\ ~At("done") /\ ~At("crashed")

Acted ==
    /\ edits' = edits + 1
    /\ late' = TRUE
    /\ past' = {name'}
    /\ UNCHANGED <<pc, tool, result, exchanged>>

\* An editor writes through the file it has open: the target, or the inode that
\* was the target when the call began.
EditInPlace(i, tick) ==
    /\ MayAct
    /\ i = name["target"] \/ (i = 1 /\ nlink(1) > 0 /\ inode[1].data.by = "user")
    /\ i # None
    /\ inode' = [inode EXCEPT ![i].data = UserData(Version), ![i].synced = TRUE,
                              ![i].mtime = @ + tick, ![i].ctime = @ + tick]
    /\ live' = (live \ Destroyed(i)) \cup {Version}
    /\ UNCHANGED <<name, slot, policy>>
    /\ Acted

\* An editor writes a new file and renames it over the target, or creates it.
ReplaceTarget ==
    /\ MayAct
    /\ inode' = [inode EXCEPT ![UnusedInode] = NewInode(UserData(Version), "user")]
    /\ name' = [name EXCEPT !["target"] = UnusedInode]
    /\ live' = (live \ (IF Exists("target") /\ nlink(name["target"]) = 1
                        THEN Destroyed(name["target"]) ELSE {})) \cup {Version}
    /\ UNCHANGED <<slot, policy>>
    /\ Acted

\* The mode or the security metadata of the target change, or it gets a link.
ChangeMetadata ==
    /\ MayAct
    /\ Exists("target")
    /\ \/ inode' = [inode EXCEPT ![name["target"]].mode = "other", ![name["target"]].ctime = @ + 1]
             /\ UNCHANGED name
       \/ inode' = [inode EXCEPT ![name["target"]].xattr = TRUE, ![name["target"]].ctime = @ + 1]
             /\ UNCHANGED name
       \/ /\ name' = [name EXCEPT !["link"] = name["target"]]
          /\ ~Exists("link")
          /\ TouchCtime(name["target"])
    /\ UNCHANGED <<slot, policy, live>>
    /\ Acted

\* Another program puts its own file where the call has its entry.
ReplaceEntry(n) ==
    /\ MayAct
    /\ Exists(n) /\ ~Exists("moved")
    /\ inode' = [inode EXCEPT ![UnusedInode] = NewInode(UserData(Version), "user"),
                              ![name[n]].ctime = @ + 1]
    /\ name' = [name EXCEPT !["moved"] = name[n], ![n] = UnusedInode]
    /\ live' = live \cup {Version}
    /\ UNCHANGED <<slot, policy>>
    /\ Acted

\* The recovery directory is renamed away and made anew, or its policy is edited.
ChangeNamespace ==
    /\ MayAct
    /\ \/ slot = 1 /\ slot' = 2 /\ UNCHANGED policy
       \/ slot # None /\ policy' = [policy EXCEPT ![slot] = "bad"] /\ UNCHANGED slot
    /\ UNCHANGED <<inode, name, live>>
    /\ Acted

\* The machine stops.  Data that was not synced may be lost, and the renames
\* since the last sync may be undone from the last one back.
PowerLoss ==
    /\ ~At("crashed")
    /\ pc' = "crashed"
    /\ name' \in past
    /\ inode' = [i \in Inodes |->
                   IF inode[i].synced \/ inode[i].data = Free THEN inode[i]
                   ELSE [inode[i] EXCEPT !.data = Torn]]
    /\ UNCHANGED <<slot, policy, tool, result, live, exchanged, late, past, edits>>

Others ==
    \/ \E i \in Inodes, tick \in {0, 1} : EditInPlace(i, tick)
    \/ ReplaceTarget
    \/ ChangeMetadata
    \/ \E n \in {"stage", "recovery"} : ReplaceEntry(n)
    \/ ChangeNamespace

Next == Tool \/ Others \/ PowerLoss

Spec == Init /\ [][Next]_vars

-----------------------------------------------------------------------------
\* Properties.

\* Whatever the call does, fails at or is cut off in, every version of the file
\* that the user wrote and did not destroy is still under some name: at the
\* target or, displaced by the exchange, in the recovery directory.
UserContentKept ==
    \A v \in live : \E n \in Names : Exists(n) /\ inode[name[n]].data = UserData(v)

\* A file that was there to be patched never disappears from its name, and what
\* is at the name is never a partly written staging file, not even after a power
\* loss: stage_content syncs before the exchange.
TargetAlwaysWhole ==
    /\ tool.existed => Exists("target")
    /\ Exists("target") => inode[name["target"]].data # Torn

\* A report that the patch was not published means the call never touched the
\* target, one that it was published means it did, and success means that the
\* content taken away was exactly the content the patch was made from, whatever
\* the editor wrote meanwhile and however coarse the clock.
PatchReportIsTrue ==
    /\ result.state \in {"failed", "preserved"} => exchanged = NoExchange
    /\ result.state \in {"published", "applied"} => exchanged # NoExchange
    /\ result.state = "applied" =>
          exchanged = [taken |-> tool.base, put |-> Patched(tool.base)]

\* A path listed in recovery_files holds, in the directory that is at the
\* recovery path, the file the report speaks of (the displaced original once the
\* exchange was made, else the staged file), unless another program acted after
\* the last check; and a displaced file so listed held what the patch was made
\* from when it was taken from the target.
RecoveryPathIsTrue ==
    ReportsRecoveryFile /\ ~late /\ pc = "done" =>
        /\ slot = tool.dir
        /\ IF result.state = "preserved"
           THEN name["recovery"] = tool.staged
           ELSE /\ name["recovery"] = tool.file
                /\ exchanged.taken = tool.base
=============================================================================
