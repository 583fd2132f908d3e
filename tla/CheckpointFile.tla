--------------------------- MODULE CheckpointFile ---------------------------
(***************************************************************************)
(* How a checkpoint reaches the disk and is read back: the file protocol   *)
(* of write_source_manager_checkpoint / stable_source_manager_view::open   *)
(* (kind "source") and of write_compiled_checkpoint /                      *)
(* read_compiled_checkpoint (kind "compiled").  Both write a temporary     *)
(* file, flush it, open it again to validate it, rename it over the target *)
(* and flush the directory; a step that fails unlinks the temporary file.  *)
(*                                                                         *)
(* Files are numbered by the save that creates them; the bytes are         *)
(* abstracted to what the two validators tell apart.  The file system is   *)
(* POSIX's: what was not flushed may be lost by a power failure, name by   *)
(* name and file by file.                                                  *)
(***************************************************************************)
EXTENDS Naturals

CONSTANTS
  Savers,     \* threads or processes that save to one target
  Names,      \* temporary names: target.tmp.<pid>.<steady clock>
  Kinds,      \* which of the two checkpoints
  MaxSaves    \* bound: files created

Target == "target"
NoFile == 0
Files  == 1 .. MaxSaves
Bytes  == {"part", "torn", "whole"}

ASSUME CheckpointFileAssumption ==
  /\ Target \notin Names
  /\ Kinds \subseteq {"source", "compiled"}
  /\ MaxSaves \in Nat

VARIABLES
  kind,       \* the checkpoint that is saved to this target
  pc,         \* where each save is
  name,       \* its temporary name
  id,         \* the file it created, NoFile when it is not saving
  saves,      \* files created so far
  data,       \* a file's bytes, as a reader sees them now
  synced,     \* files whose bytes are on the disk
  dir,        \* the directory: name -> file, as a reader sees it now
  dur,        \* for each name, the files it may name after a power failure
  rank,       \* position of a file in the order of the renames to Target
  renames,    \* number of renames so far
  acked,      \* files whose save returned success
  abandoned,  \* files of saves that never returned, or left by an exception
  handle,     \* the file the loader has open
  view        \* the file the loaded state is mapped from

saver == <<pc, name, id>>
fs    == <<saves, data, synced, dir, dur>>
hist  == <<rank, renames, acked, abandoned>>
vars  == <<kind, pc, name, id, saves, data, synced, dir, dur,
           rank, renames, acked, abandoned, handle, view>>

InFlight == {p \in Savers : pc[p] # "idle"}
BeforeRename == {"writing", "written", "flushed", "checked"}

(***************************************************************************)
(* What the readers accept.  "part": fewer bytes than the header says, or  *)
(* no whole header.  "torn": the size, header and directory are right and  *)
(* the payload is not.  "whole": as sealed.  open() of a source checkpoint *)
(* checks header, counts and directory only (the payload hash is left to   *)
(* strict_validate); decode_artifact hashes the payload.                   *)
(***************************************************************************)
ShapeOK(bytes) == bytes # "part"
HashOK(bytes)  == bytes = "whole"
Accepts(bytes) == IF kind = "source" THEN ShapeOK(bytes) ELSE HashOK(bytes)

(***************************************************************************)
(* Directory updates take effect at once and reach the disk at some later  *)
(* time, or with the next flush of the directory.                          *)
(***************************************************************************)
Link(n, f) == /\ dir' = [dir EXCEPT ![n] = f]
              /\ dur' = [dur EXCEPT ![n] = @ \cup {f}]

Init ==
  /\ kind \in Kinds
  /\ pc = [p \in Savers |-> "idle"]
  /\ name \in [Savers -> Names]
  /\ id = [p \in Savers |-> NoFile]
  /\ saves = 0
  /\ data = [f \in Files |-> "part"]
  /\ synced = {}
  /\ dir = [n \in Names \cup {Target} |-> NoFile]
  /\ dur = [n \in Names \cup {Target} |-> {NoFile}]
  /\ rank = [f \in Files |-> 0]
  /\ renames = 0
  /\ acked = {}
  /\ abandoned = {}
  /\ handle = NoFile
  /\ view = NoFile

(***************************************************************************)
(* temporary_checkpoint_path and create_new_write_file (O_EXCL).  The name *)
(* holds the process id and a nanosecond clock, so two saves in flight     *)
(* have different names; after a restart both may come round again, so a   *)
(* name can be that of a file some earlier save left behind.               *)
(***************************************************************************)
FreeName(n) == n \notin {name[q] : q \in InFlight}

(* Mutant: the save rewrites the published file in place.                  *)
NewFile_InPlace == IF dir[Target] # NoFile THEN dir[Target] ELSE saves + 1

NewFile == saves + 1

Create(p, n) ==
  /\ pc[p] = "idle" /\ FreeName(n) /\ dir[n] = NoFile
  /\ saves < MaxSaves
  /\ saves' = saves + 1
  /\ pc' = [pc EXCEPT ![p] = "writing"]
  /\ name' = [name EXCEPT ![p] = n]
  /\ id' = [id EXCEPT ![p] = NewFile]
  /\ data' = [data EXCEPT ![NewFile] = "part"]
  /\ Link(n, NewFile)
  /\ UNCHANGED <<synced, hist, handle, view>>

(***************************************************************************)
(* The name exists: the source save returns at once, the compiled one      *)
(* unlinks the name first.                                                 *)
(***************************************************************************)
CreateRefused(p, n) ==
  /\ pc[p] = "idle" /\ FreeName(n) /\ dir[n] # NoFile
  /\ IF kind = "compiled" THEN Link(n, NoFile) ELSE UNCHANGED <<dir, dur>>
  /\ UNCHANGED <<saver, saves, data, synced, hist, handle, view>>

(* The save returns: its handle is closed.                                 *)
Returns(p) == /\ pc' = [pc EXCEPT ![p] = "idle"]
              /\ id' = [id EXCEPT ![p] = NoFile]

(* Mutant: the temporary file is left where it is.                         *)
Discard_Kept(p) ==
  /\ Returns(p)
  /\ UNCHANGED <<name, saves, data, synced, dir, dur, hist, handle, view>>

(* A step failed: close, delete_file(temporary), return the status.        *)
Discard(p) ==
  /\ Returns(p)
  /\ Link(name[p], NoFile)
  /\ UNCHANGED <<name, saves, data, synced, hist, handle, view>>

(* write_all; until it is through, the file holds part of the bytes.       *)
Write(p) ==
  /\ pc[p] = "writing"
  /\ \/ /\ pc' = [pc EXCEPT ![p] = "written"]
        /\ data' = [data EXCEPT ![id[p]] = "whole"]
        /\ UNCHANGED <<name, id, saves, synced, dir, dur, hist, handle, view>>
     \/ Discard(p)

(* Mutant: the bytes are left to the cache.                                *)
Flush_Skipped(p) ==
  /\ pc[p] = "written"
  /\ \/ /\ pc' = [pc EXCEPT ![p] = "flushed"]
        /\ UNCHANGED <<name, id, saves, data, synced, dir, dur, hist, handle, view>>
     \/ Discard(p)

(* flush_file, then close.                                                 *)
Flush(p) ==
  /\ pc[p] = "written"
  /\ \/ /\ pc' = [pc EXCEPT ![p] = "flushed"]
        /\ synced' = synced \cup {id[p]}
        /\ UNCHANGED <<name, id, saves, data, dir, dur, hist, handle, view>>
     \/ Discard(p)

(***************************************************************************)
(* The temporary file is opened again by its name and validated.  Opening  *)
(* or mapping it may fail.                                                 *)
(***************************************************************************)
Validate(p) ==
  /\ pc[p] = "flushed"
  /\ \/ /\ dir[name[p]] # NoFile /\ Accepts(data[dir[name[p]]])
        /\ pc' = [pc EXCEPT ![p] = "checked"]
        /\ UNCHANGED <<name, id, fs, hist, handle, view>>
     \/ Discard(p)

(***************************************************************************)
(* read_all allocates the verification buffer outside any handler but the  *)
(* save's own, which returns without unlinking.                            *)
(***************************************************************************)
ValidateThrows(p) ==
  /\ kind = "compiled" /\ pc[p] = "flushed"
  /\ Returns(p)
  /\ abandoned' = abandoned \cup {id[p]}
  /\ UNCHANGED <<name, fs, rank, renames, acked, handle, view>>

(* publish_checkpoint, first half: rename(temporary, target).              *)
Rename(p) ==
  /\ pc[p] = "checked"
  /\ \/ /\ dir[name[p]] # NoFile
        /\ LET f == dir[name[p]] IN
             /\ dir' = [dir EXCEPT ![Target] = f, ![name[p]] = NoFile]
             /\ dur' = [dur EXCEPT ![Target] = @ \cup {f},
                                   ![name[p]] = @ \cup {NoFile}]
             /\ rank' = [rank EXCEPT ![f] = renames + 1]
        /\ renames' = renames + 1
        /\ pc' = [pc EXCEPT ![p] = "renamed"]
        /\ UNCHANGED <<name, id, saves, data, synced, acked, abandoned, handle, view>>
     \/ Discard(p)

(* Mutant: success is reported right after the rename.                     *)
SyncParent_Skipped(p) ==
  /\ pc[p] = "renamed"
  /\ \/ /\ acked' = acked \cup {id[p]}
        /\ Returns(p)
        /\ UNCHANGED <<name, saves, data, synced, dir, dur, rank, renames, abandoned,
                       handle, view>>
     \/ Discard(p)

(***************************************************************************)
(* publish_checkpoint, second half: sync_parent_directory, and the save    *)
(* has succeeded.  When it fails the save reports failure, though the      *)
(* target already is the new file; the unlink finds nothing.               *)
(***************************************************************************)
SyncParent(p) ==
  /\ pc[p] = "renamed"
  /\ \/ /\ dur' = [n \in Names \cup {Target} |-> {dir[n]}]
        /\ acked' = acked \cup {id[p]}
        /\ Returns(p)
        /\ UNCHANGED <<name, saves, data, synced, dir, rank, renames, abandoned,
                       handle, view>>
     \/ Discard(p)

(***************************************************************************)
(* The loader opens the target and keeps the file open while it reads it;  *)
(* a source checkpoint stays mapped for as long as the Source Manager      *)
(* lives.                                                                  *)
(***************************************************************************)
Open ==
  /\ handle = NoFile /\ dir[Target] # NoFile
  /\ handle' = dir[Target]
  /\ UNCHANGED <<saver, fs, hist, view>>

Load ==
  /\ handle # NoFile
  /\ handle' = NoFile
  /\ IF Accepts(data[handle]) THEN view' = handle ELSE view' = view
  /\ UNCHANGED <<saver, fs, hist>>

(* The process of one save is killed; the system goes on.                  *)
Kill(p) ==
  /\ pc[p] # "idle"
  /\ Returns(p)
  /\ abandoned' = abandoned \cup {id[p]}
  /\ UNCHANGED <<name, fs, rank, renames, acked, handle, view>>

(***************************************************************************)
(* Power failure: every name is one of the files it may name, and a file   *)
(* that was not flushed lost any part of its bytes.                        *)
(***************************************************************************)
Survives(f) ==
  IF f \in synced \/ data[f] # "whole" THEN {data[f]} ELSE Bytes

PowerFailure ==
  /\ pc' = [p \in Savers |-> "idle"]
  /\ id' = [p \in Savers |-> NoFile]
  /\ dir' \in [Names \cup {Target} -> 0 .. saves]
  /\ \A n \in Names \cup {Target} : dir'[n] \in dur[n]
  /\ dur' = [n \in Names \cup {Target} |-> {dir'[n]}]
  /\ data' \in [Files -> Bytes]
  /\ \A f \in Files : data'[f] \in Survives(f)
  /\ synced' = 1 .. saves
  /\ abandoned' = 1 .. saves
  /\ handle' = NoFile
  /\ view' = NoFile
  /\ UNCHANGED <<name, saves, rank, renames, acked>>

Step ==
  \/ \E p \in Savers :
       \/ \E n \in Names : Create(p, n) \/ CreateRefused(p, n)
       \/ Write(p) \/ Flush(p) \/ Validate(p) \/ ValidateThrows(p)
       \/ Rename(p) \/ SyncParent(p) \/ Kill(p)
  \/ Open
  \/ Load
  \/ PowerFailure

Next == Step /\ UNCHANGED kind

Spec == Init /\ [][Next]_vars
-----------------------------------------------------------------------------
(* Every variable has its type, and a save holds a file exactly while it   *)
(* runs (unique_handle and the early returns).                             *)
TypeOK ==
  /\ kind \in Kinds
  /\ pc \in [Savers -> BeforeRename \cup {"idle", "renamed"}]
  /\ name \in [Savers -> Names]
  /\ id \in [Savers -> 0 .. saves]
  /\ saves \in 0 .. MaxSaves
  /\ data \in [Files -> Bytes]
  /\ synced \in SUBSET Files
  /\ dir \in [Names \cup {Target} -> 0 .. saves]
  /\ dur \in [Names \cup {Target} -> SUBSET (0 .. saves)]
  /\ rank \in [Files -> Nat]
  /\ renames \in Nat
  /\ acked \in SUBSET Files
  /\ abandoned \in SUBSET Files
  /\ handle \in 0 .. saves
  /\ view \in 0 .. saves
  /\ \A p \in Savers : pc[p] = "idle" <=> id[p] = NoFile

(***************************************************************************)
(* Whatever was cut short, and however often, the target of a save is      *)
(* absent or one whole sealed checkpoint: the temporary file is flushed    *)
(* before the rename that publishes it.                                    *)
(***************************************************************************)
TargetWhole == dir[Target] # NoFile => data[dir[Target]] = "whole"

(***************************************************************************)
(* A save that returned success is not lost: whatever the target is after  *)
(* a power failure, it is that save's checkpoint or one renamed after it.  *)
(***************************************************************************)
SuccessDurable ==
  \A a \in acked : \A t \in dur[Target] : t # NoFile /\ rank[t] >= rank[a]

(***************************************************************************)
(* A load that was accepted rests on a whole checkpoint for as long as its *)
(* state lives, though the source view validates only the container's      *)
(* shape and stays mapped while other saves replace the target.            *)
(***************************************************************************)
ViewWhole == view # NoFile => data[view] = "whole"

(***************************************************************************)
(* A temporary name is that of a running save, or was left by a save that  *)
(* never returned: every returning failure path of the save unlinks its    *)
(* file, and no save takes away the file of another one.                   *)
(***************************************************************************)
TemporariesOwned ==
  /\ \A n \in Names : dir[n] # NoFile =>
       \/ dir[n] \in abandoned
       \/ \E p \in Savers : name[p] = n /\ id[p] = dir[n]
  /\ \A p \in Savers : pc[p] \in BeforeRename => dir[name[p]] = id[p]
=============================================================================
