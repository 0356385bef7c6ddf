------------------------------ MODULE ReplacedPath ------------------------------
(***************************************************************************)
(* JsonlEventStore with something outside the program replacing the file   *)
(* at its path, which create_new is documented to withstand.               *)
(***************************************************************************)
EXTENDS JsonlEventStore

\* Another, empty file is put at the path.
ReplacePath ==
    /\ path # 0
    /\ path' \in Fresh
    /\ UNCHANGED <<files, linked, locks, append_file, pc, job, created, acked>>

ReplacedNext == Next \/ ReplacePath

ReplacedSpec == Init /\ [][ReplacedNext]_vars

\* What the documentation of create_new says: the store keeps the identity of
\* the file it created for its lifetime.
CreatedIdentityIsKept ==
    \A s \in Stores : created[s] # 0 => append_file[s].inode \in {0, created[s]}

=============================================================================
