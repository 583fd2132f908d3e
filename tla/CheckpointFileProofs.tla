------------------------- MODULE CheckpointFileProofs -------------------------
(***************************************************************************)
(* Proofs about CheckpointFile for any number of savers, names and saves   *)
(* and for both kinds of checkpoint.                                       *)
(*                                                                         *)
(* TargetWhole is not inductive: a power failure may bring back any file   *)
(* the target may name, and a rename publishes whatever its temporary name *)
(* names.  Published says that every file that was ever renamed is whole   *)
(* and flushed and that only such files are reachable from the target and  *)
(* from the loader; SaverInv that the temporary name of a save still names *)
(* the file the save created, and how far that file has come.              *)
(***************************************************************************)
EXTENDS CheckpointFile, TLAPS

AllNames == Names \cup {Target}

(* Renamed files are whole and flushed; the target and the loader see      *)
(* nothing else.                                                           *)
Published ==
  /\ \A f \in Files : rank[f] > 0 => f \in synced /\ data[f] = "whole" /\ f <= saves
  /\ \A f \in Files : rank[f] <= renames
  /\ dir[Target] \in dur[Target]
  /\ \A t \in dur[Target] : t # NoFile => rank[t] > 0
  /\ handle # NoFile => rank[handle] > 0
  /\ view # NoFile => rank[view] > 0

(* A save before its rename owns its name and its file.                    *)
SaverInv(p) ==
  /\ pc[p] \in BeforeRename =>
       /\ dir[name[p]] = id[p]
       /\ rank[id[p]] = 0
  /\ pc[p] \in {"written", "flushed", "checked"} => data[id[p]] = "whole"
  /\ pc[p] \in {"flushed", "checked"} => id[p] \in synced
  /\ pc[p] = "renamed" =>
       /\ rank[id[p]] > 0
       /\ dir[Target] # NoFile
       /\ rank[dir[Target]] >= rank[id[p]]

(* Saves in flight have their own names and files.                         *)
Apart ==
  \A p, q \in Savers : p # q /\ pc[p] # "idle" /\ pc[q] # "idle" =>
     name[p] # name[q] /\ id[p] # id[q]

AckedInv ==
  /\ SuccessDurable
  /\ \A a \in acked : rank[a] > 0

IndInv ==
  /\ TypeOK
  /\ Published
  /\ \A p \in Savers : SaverInv(p)
  /\ Apart
  /\ AckedInv
-----------------------------------------------------------------------------
(* The initial state satisfies the inductive invariant.                    *)
LEMMA InitIndInv == Init => IndInv
<1> SUFFICES ASSUME Init PROVE IndInv
  OBVIOUS
<1> USE CheckpointFileAssumption DEF Init, Files, NoFile, Target, Bytes, BeforeRename
<1>1. TypeOK
  BY DEF TypeOK
<1>2. Published
  BY DEF Published
<1>3. \A p \in Savers : SaverInv(p)
  BY DEF SaverInv
<1>4. Apart /\ AckedInv
  BY DEF Apart, AckedInv, SuccessDurable
<1>5. QED
  BY <1>1, <1>2, <1>3, <1>4 DEF IndInv

(* delete_file and return, from any point of a save.                       *)
LEMMA DiscardIndInv ==
  ASSUME IndInv, UNCHANGED kind, NEW p \in Savers, pc[p] # "idle", Discard(p)
  PROVE  IndInv'
<1> USE CheckpointFileAssumption
      DEF Discard, Link, Returns, Files, NoFile, Target, Bytes, BeforeRename, saver, fs, hist
<1>1. TypeOK'
  BY SMTT(40) DEF IndInv, TypeOK, Published, SaverInv
<1>2. Published'
  BY DEF IndInv, TypeOK, Published, SaverInv
<1>3. \A q \in Savers : SaverInv(q)'
  BY DEF IndInv, TypeOK, Published, SaverInv, Apart
<1>4. Apart'
  BY DEF IndInv, TypeOK, Apart
<1>5. AckedInv'
  BY DEF IndInv, TypeOK, Published, SaverInv, AckedInv, SuccessDurable
<1>6. QED
  BY <1>1, <1>2, <1>3, <1>4, <1>5 DEF IndInv

(* create_new_write_file succeeded.                                        *)
LEMMA CreateIndInv ==
  ASSUME IndInv, UNCHANGED kind, NEW p \in Savers, NEW n \in Names, Create(p, n)
  PROVE  IndInv'
<1> USE CheckpointFileAssumption
      DEF Create, NewFile, FreeName, InFlight, Link, Returns, Files, NoFile, Target, Bytes,
          BeforeRename, saver, fs, hist
<1>1. TypeOK'
  BY DEF IndInv, TypeOK, Published, SaverInv
<1>2. Published'
  BY DEF IndInv, TypeOK, Published, SaverInv
<1>3. \A q \in Savers : SaverInv(q)'
  BY DEF IndInv, TypeOK, Published, SaverInv, Apart
<1>4. Apart'
  BY DEF IndInv, TypeOK, Apart
<1>5. AckedInv'
  BY DEF IndInv, TypeOK, Published, SaverInv, AckedInv, SuccessDurable
<1>6. QED
  BY <1>1, <1>2, <1>3, <1>4, <1>5 DEF IndInv

(* create_new_write_file found the name taken.                             *)
LEMMA CreateRefusedIndInv ==
  ASSUME IndInv, UNCHANGED kind, NEW p \in Savers, NEW n \in Names, CreateRefused(p, n)
  PROVE  IndInv'
<1> USE CheckpointFileAssumption DEF Files, NoFile, Target, Bytes, BeforeRename
<1> DEFINE Elsewhere ==
      /\ dir' \in [Names \cup {Target} -> 0 .. saves]
      /\ dur' \in [Names \cup {Target} -> SUBSET (0 .. saves)]
      /\ \A m \in Names \cup {Target} : m # n => dir'[m] = dir[m] /\ dur'[m] = dur[m]
<1>1. Elsewhere
  <2>1. CASE kind = "compiled"
    <3>1. Link(n, NoFile)
      BY <2>1 DEF CreateRefused
    <3>2. QED
      BY <3>1 DEF Link, IndInv, TypeOK
  <2>2. CASE kind # "compiled"
    <3>1. UNCHANGED <<dir, dur>>
      BY <2>2 DEF CreateRefused
    <3>2. QED
      BY <3>1 DEF IndInv, TypeOK
  <2>3. QED
    BY <2>1, <2>2
<1>2. UNCHANGED <<pc, name, id, saves, data, synced, rank, renames, acked, abandoned,
                  handle, view>>
  BY DEF CreateRefused, saver, hist
<1>3. \A q \in Savers : pc[q] # "idle" => name[q] # n
  BY DEF CreateRefused, FreeName, InFlight
<1> HIDE DEF Elsewhere
<1>4. TypeOK'
  BY <1>1, <1>2 DEF Elsewhere, IndInv, TypeOK
<1>5. Published'
  BY <1>1, <1>2 DEF Elsewhere, IndInv, TypeOK, Published
<1>6. \A q \in Savers : SaverInv(q)'
  BY <1>1, <1>2, <1>3, SMTT(40) DEF Elsewhere, IndInv, TypeOK, SaverInv
<1>7. Apart' /\ AckedInv'
  BY <1>1, <1>2 DEF Elsewhere, IndInv, Apart, AckedInv, SuccessDurable
<1>8. QED
  BY <1>4, <1>5, <1>6, <1>7 DEF IndInv

(* A save that runs has a file, and no other running save has it.          *)
LEMMA SavingFile ==
  ASSUME IndInv, NEW p \in Savers, pc[p] # "idle"
  PROVE  /\ id[p] \in Files
         /\ \A q \in Savers : q # p /\ pc[q] # "idle" => id[q] # id[p] /\ name[q] # name[p]
BY CheckpointFileAssumption DEF IndInv, TypeOK, Apart, Files, NoFile

(* write_all, or its failure.                                              *)
LEMMA WriteIndInv ==
  ASSUME IndInv, UNCHANGED kind, NEW p \in Savers, Write(p)
  PROVE  IndInv'
<1> USE CheckpointFileAssumption DEF Files, NoFile, Target, Bytes, BeforeRename, fs, hist
<1>1. CASE Discard(p)
  BY <1>1, DiscardIndInv DEF Write
<1>2. ASSUME pc[p] = "writing", pc' = [pc EXCEPT ![p] = "written"],
             data' = [data EXCEPT ![id[p]] = "whole"],
             UNCHANGED <<name, id, saves, synced, dir, dur, hist, handle, view>>
      PROVE  IndInv'
  <2> USE <1>2
  <2>0. /\ id[p] \in Files
        /\ \A q \in Savers : q # p /\ pc[q] # "idle" => id[q] # id[p] /\ name[q] # name[p]
    BY SavingFile
  <2>1. TypeOK'
    BY <2>0 DEF IndInv, TypeOK
  <2>2. Published'
    BY DEF IndInv, TypeOK, Published, SaverInv
  <2>3. ASSUME NEW q \in Savers PROVE SaverInv(q)'
    <3>1. CASE q = p
      BY <2>0, <3>1 DEF IndInv, TypeOK, Published, SaverInv
    <3>2. CASE q # p
      BY <2>0, <3>2 DEF IndInv, TypeOK, Published, SaverInv
    <3>3. QED
      BY <3>1, <3>2
  <2>4. Apart'
    BY DEF IndInv, TypeOK, Apart
  <2>5. AckedInv'
    BY <2>0 DEF IndInv, TypeOK, Published, SaverInv, AckedInv, SuccessDurable
  <2>6. QED
    BY <2>1, <2>2, <2>3, <2>4, <2>5 DEF IndInv
<1>3. QED
  BY <1>1, <1>2 DEF Write

(* flush_file, or its failure.                                             *)
LEMMA FlushIndInv ==
  ASSUME IndInv, UNCHANGED kind, NEW p \in Savers, Flush(p)
  PROVE  IndInv'
<1> USE CheckpointFileAssumption DEF Files, NoFile, Target, Bytes, BeforeRename, fs, hist
<1>1. CASE Discard(p)
  BY <1>1, DiscardIndInv DEF Flush
<1>2. ASSUME pc[p] = "written", pc' = [pc EXCEPT ![p] = "flushed"],
             synced' = synced \cup {id[p]},
             UNCHANGED <<name, id, saves, data, dir, dur, hist, handle, view>>
      PROVE  IndInv'
  <2> USE <1>2
  <2>0. /\ id[p] \in Files
        /\ \A q \in Savers : q # p /\ pc[q] # "idle" => id[q] # id[p] /\ name[q] # name[p]
    BY SavingFile
  <2>1. TypeOK'
    BY <2>0 DEF IndInv, TypeOK
  <2>2. Published'
    BY DEF IndInv, TypeOK, Published, SaverInv
  <2>3. ASSUME NEW q \in Savers PROVE SaverInv(q)'
    <3>1. CASE q = p
      BY <2>0, <3>1 DEF IndInv, TypeOK, Published, SaverInv
    <3>2. CASE q # p
      BY <2>0, <3>2 DEF IndInv, TypeOK, Published, SaverInv
    <3>3. QED
      BY <3>1, <3>2
  <2>4. Apart'
    BY DEF IndInv, TypeOK, Apart
  <2>5. AckedInv'
    BY <2>0 DEF IndInv, TypeOK, Published, SaverInv, AckedInv, SuccessDurable
  <2>6. QED
    BY <2>1, <2>2, <2>3, <2>4, <2>5 DEF IndInv
<1>3. QED
  BY <1>1, <1>2 DEF Flush

(* Validation of the temporary file, or its failure.                       *)
LEMMA ValidateIndInv ==
  ASSUME IndInv, UNCHANGED kind, NEW p \in Savers, Validate(p)
  PROVE  IndInv'
<1> USE CheckpointFileAssumption DEF Files, NoFile, Target, Bytes, BeforeRename, fs, hist
<1>1. CASE Discard(p)
  BY <1>1, DiscardIndInv DEF Validate
<1>2. ASSUME pc[p] = "flushed", pc' = [pc EXCEPT ![p] = "checked"],
             UNCHANGED <<name, id, fs, hist, handle, view>>
      PROVE  IndInv'
  <2> USE <1>2
  <2>0. /\ id[p] \in Files
        /\ \A q \in Savers : q # p /\ pc[q] # "idle" => id[q] # id[p] /\ name[q] # name[p]
    BY SavingFile
  <2>1. TypeOK'
    BY <2>0 DEF IndInv, TypeOK
  <2>2. Published'
    BY DEF IndInv, TypeOK, Published, SaverInv
  <2>3. ASSUME NEW q \in Savers PROVE SaverInv(q)'
    <3>1. CASE q = p
      BY <2>0, <3>1 DEF IndInv, TypeOK, Published, SaverInv
    <3>2. CASE q # p
      BY <2>0, <3>2 DEF IndInv, TypeOK, Published, SaverInv
    <3>3. QED
      BY <3>1, <3>2
  <2>4. Apart'
    BY DEF IndInv, TypeOK, Apart
  <2>5. AckedInv'
    BY <2>0 DEF IndInv, TypeOK, Published, SaverInv, AckedInv, SuccessDurable
  <2>6. QED
    BY <2>1, <2>2, <2>3, <2>4, <2>5 DEF IndInv
<1>3. QED
  BY <1>1, <1>2 DEF Validate

(* rename, or its failure.                                                 *)
LEMMA RenameIndInv ==
  ASSUME IndInv, UNCHANGED kind, NEW p \in Savers, Rename(p)
  PROVE  IndInv'
<1> USE CheckpointFileAssumption DEF Files, NoFile, Target, Bytes, BeforeRename, fs, hist
<1>1. CASE Discard(p)
  BY <1>1, DiscardIndInv DEF Rename
<1>2. ASSUME NEW f, f = dir[name[p]], f # NoFile, pc[p] = "checked",
             pc' = [pc EXCEPT ![p] = "renamed"],
             dir' = [dir EXCEPT ![Target] = f, ![name[p]] = NoFile],
             dur' = [dur EXCEPT ![Target] = @ \cup {f},
                                 ![name[p]] = @ \cup {NoFile}],
             rank' = [rank EXCEPT ![f] = renames + 1], renames' = renames + 1,
             UNCHANGED <<name, id, saves, data, synced, acked, abandoned, handle, view>>
      PROVE  IndInv'
  <2> USE <1>2
  <2>0. /\ id[p] \in Files
        /\ \A q \in Savers : q # p /\ pc[q] # "idle" => id[q] # id[p] /\ name[q] # name[p]
    BY SavingFile
  <2>1. TypeOK'
    <3>1. f \in Files
      BY <2>0 DEF IndInv, SaverInv
    <3>2. rank' \in [Files -> Nat] /\ renames' \in Nat
      BY <3>1 DEF IndInv, TypeOK
    <3>3. dir' \in [Names \cup {Target} -> 0 .. saves]
      BY DEF IndInv, TypeOK
    <3>4. dur' \in [Names \cup {Target} -> SUBSET (0 .. saves)]
      BY DEF IndInv, TypeOK
    <3>5. \A q \in Savers : pc'[q] = "idle" <=> id'[q] = NoFile
      BY DEF IndInv, TypeOK
    <3>6. pc' \in [Savers -> BeforeRename \cup {"idle", "renamed"}]
      BY DEF IndInv, TypeOK
    <3>7. QED
      BY <3>2, <3>3, <3>4, <3>5, <3>6 DEF IndInv, TypeOK
  <2>2. Published'
    BY DEF IndInv, TypeOK, Published, SaverInv
  <2>3. ASSUME NEW q \in Savers PROVE SaverInv(q)'
    <3>1. CASE q = p
      BY <2>0, <3>1 DEF IndInv, TypeOK, Published, SaverInv
    <3>2. CASE q # p
      BY <2>0, <3>2 DEF IndInv, TypeOK, Published, SaverInv
    <3>3. QED
      BY <3>1, <3>2
  <2>4. Apart'
    BY DEF IndInv, TypeOK, Apart
  <2>5. AckedInv'
    BY <2>0, SMTT(40) DEF IndInv, TypeOK, Published, SaverInv, AckedInv, SuccessDurable
  <2>6. QED
    BY <2>1, <2>2, <2>3, <2>4, <2>5 DEF IndInv
<1>3. QED
  BY <1>1, <1>2 DEF Rename

(* sync_parent_directory, or its failure.                                  *)
LEMMA SyncParentIndInv ==
  ASSUME IndInv, UNCHANGED kind, NEW p \in Savers, SyncParent(p)
  PROVE  IndInv'
<1> USE CheckpointFileAssumption DEF Files, NoFile, Target, Bytes, BeforeRename, fs, hist, Returns
<1>1. CASE Discard(p)
  BY <1>1, DiscardIndInv DEF SyncParent
<1>2. ASSUME pc[p] = "renamed", Returns(p),
             dur' = [n \in Names \cup {Target} |-> {dir[n]}],
             acked' = acked \cup {id[p]},
             UNCHANGED <<name, saves, data, synced, dir, rank, renames, abandoned,
                         handle, view>>
      PROVE  IndInv'
  <2> USE <1>2
  <2>0. /\ id[p] \in Files
        /\ \A q \in Savers : q # p /\ pc[q] # "idle" => id[q] # id[p] /\ name[q] # name[p]
    BY SavingFile
  <2>1. TypeOK'
    <3>1. acked' \in SUBSET Files
      BY <2>0 DEF IndInv, TypeOK
    <3>2. dur' \in [Names \cup {Target} -> SUBSET (0 .. saves)]
      BY DEF IndInv, TypeOK
    <3>3. \A q \in Savers : pc'[q] = "idle" <=> id'[q] = NoFile
      BY DEF IndInv, TypeOK
    <3>4. pc' \in [Savers -> BeforeRename \cup {"idle", "renamed"}] /\ id' \in [Savers -> 0 .. saves]
      BY DEF IndInv, TypeOK
    <3>5. QED
      BY <3>1, <3>2, <3>3, <3>4 DEF IndInv, TypeOK
  <2>2. Published'
    BY DEF IndInv, TypeOK, Published, SaverInv
  <2>3. ASSUME NEW q \in Savers PROVE SaverInv(q)'
    <3>1. CASE q = p
      BY <2>0, <3>1 DEF IndInv, TypeOK, Published, SaverInv
    <3>2. CASE q # p
      BY <2>0, <3>2 DEF IndInv, TypeOK, Published, SaverInv
    <3>3. QED
      BY <3>1, <3>2
  <2>4. Apart'
    BY DEF IndInv, TypeOK, Apart
  <2>5. AckedInv'
    BY <2>0, ZenonT(90) DEF IndInv, TypeOK, Published, SaverInv, AckedInv, SuccessDurable
  <2>6. QED
    BY <2>1, <2>2, <2>3, <2>4, <2>5 DEF IndInv
<1>3. QED
  BY <1>1, <1>2 DEF SyncParent

(* The save ends without unlinking: an exception, or its process is killed. *)
LEMMA AbandonIndInv ==
  ASSUME IndInv, UNCHANGED kind, NEW p \in Savers, ValidateThrows(p) \/ Kill(p)
  PROVE  IndInv'
<1> USE CheckpointFileAssumption DEF Files, NoFile, Target, Bytes, BeforeRename
<1>1. /\ pc[p] # "idle"
      /\ pc' = [pc EXCEPT ![p] = "idle"]
      /\ id' = [id EXCEPT ![p] = NoFile]
      /\ abandoned' = abandoned \cup {id[p]}
      /\ UNCHANGED <<name, saves, data, synced, dir, dur, rank, renames, acked, handle, view>>
  BY DEF ValidateThrows, Kill, Returns, fs
<1>2. id[p] \in Files
  BY <1>1, SavingFile
<1>3. TypeOK'
  <2>1. abandoned' \in SUBSET Files
    BY <1>1, <1>2 DEF IndInv, TypeOK
  <2>2. \A q \in Savers : pc'[q] = "idle" <=> id'[q] = NoFile
    BY <1>1 DEF IndInv, TypeOK
  <2>3. pc' \in [Savers -> BeforeRename \cup {"idle", "renamed"}] /\ id' \in [Savers -> 0 .. saves]
    BY <1>1 DEF IndInv, TypeOK
  <2>4. QED
    BY <1>1, <2>1, <2>2, <2>3 DEF IndInv, TypeOK
<1>4. Published' /\ AckedInv'
  BY <1>1 DEF IndInv, Published, AckedInv, SuccessDurable
<1>5. ASSUME NEW q \in Savers PROVE SaverInv(q)'
  <2>1. CASE q = p
    BY <1>1, <2>1 DEF IndInv, TypeOK, SaverInv
  <2>2. CASE q # p
    BY <1>1, <2>2 DEF IndInv, TypeOK, SaverInv
  <2>3. QED
    BY <2>1, <2>2
<1>6. Apart'
  BY <1>1 DEF IndInv, TypeOK, Apart
<1>7. QED
  BY <1>3, <1>4, <1>5, <1>6 DEF IndInv

(* The loader opens the target, then accepts or refuses what it reads.      *)
LEMMA LoaderIndInv ==
  ASSUME IndInv, UNCHANGED kind, Open \/ Load
  PROVE  IndInv'
<1> USE CheckpointFileAssumption DEF Files, NoFile, Target
<1>1. /\ UNCHANGED <<pc, name, id, saves, data, synced, dir, dur, rank, renames, acked, abandoned>>
      /\ handle' \in {NoFile, dir[Target]}
      /\ view' \in {view, handle}
  <2>1. CASE Open
    BY <2>1 DEF Open, saver, fs, hist
  <2>2. CASE Load
    BY <2>2 DEF Load, saver, fs, hist
  <2>3. QED
    BY <2>1, <2>2
<1>2. TypeOK'
  BY <1>1 DEF IndInv, TypeOK
<1>3. Published'
  BY <1>1 DEF IndInv, TypeOK, Published
<1>4. (\A q \in Savers : SaverInv(q)') /\ Apart' /\ AckedInv'
  BY <1>1 DEF IndInv, SaverInv, Apart, AckedInv, SuccessDurable
<1>5. QED
  BY <1>2, <1>3, <1>4 DEF IndInv

(* What a power failure leaves.                                            *)
LEMMA PowerFailureIndInv ==
  ASSUME IndInv, UNCHANGED kind, PowerFailure
  PROVE  IndInv'
<1> USE CheckpointFileAssumption DEF PowerFailure, Files, NoFile, Target, Bytes
<1>1. TypeOK'
  BY DEF IndInv, TypeOK, BeforeRename
<1>2. \A f \in Files : f \in synced => data'[f] = data[f]
  BY DEF Survives
<1>3. Published'
  BY <1>2 DEF IndInv, TypeOK, Published
<1>4. (\A q \in Savers : SaverInv(q)') /\ Apart'
  BY DEF SaverInv, Apart, BeforeRename
<1>5. AckedInv'
  BY DEF IndInv, TypeOK, AckedInv, SuccessDurable
<1>6. QED
  BY <1>1, <1>3, <1>4, <1>5 DEF IndInv

(* Stuttering.                                                             *)
LEMMA StutterIndInv ==
  ASSUME IndInv, UNCHANGED vars
  PROVE  IndInv'
BY DEF vars, IndInv, TypeOK, Published, SaverInv, Apart, AckedInv, SuccessDurable

(* The inductive invariant holds in every reachable state.                 *)
THEOREM Inductive == Spec => []IndInv
<1>1. IndInv /\ [Next]_vars => IndInv'
  <2> SUFFICES ASSUME IndInv, [Next]_vars PROVE IndInv'
    OBVIOUS
  <2>0. UNCHANGED kind
    BY DEF Next, vars
  <2>1. ASSUME NEW p \in Savers, NEW n \in Names, Create(p, n) \/ CreateRefused(p, n)
        PROVE  IndInv'
    BY <2>0, <2>1, CreateIndInv, CreateRefusedIndInv
  <2>2. ASSUME NEW p \in Savers,
               Write(p) \/ Flush(p) \/ Validate(p) \/ Rename(p) \/ SyncParent(p)
        PROVE  IndInv'
    BY <2>0, <2>2, WriteIndInv, FlushIndInv, ValidateIndInv, RenameIndInv, SyncParentIndInv
  <2>3. ASSUME NEW p \in Savers, ValidateThrows(p) \/ Kill(p)
        PROVE  IndInv'
    BY <2>0, <2>3, AbandonIndInv
  <2>4. CASE Open \/ Load
    BY <2>0, <2>4, LoaderIndInv
  <2>5. CASE PowerFailure
    BY <2>0, <2>5, PowerFailureIndInv
  <2>6. CASE UNCHANGED vars
    BY <2>6, StutterIndInv
  <2>7. QED
    BY <2>1, <2>2, <2>3, <2>4, <2>5, <2>6 DEF Next, Step
<1>2. QED
  BY InitIndInv, <1>1, PTL DEF Spec

(* Every variable has its type, and a save holds a file exactly while it   *)
(* runs.                                                                   *)
THEOREM TypeCorrect == Spec => []TypeOK
<1>1. IndInv => TypeOK
  BY DEF IndInv
<1>2. QED
  BY Inductive, <1>1, PTL

(* No interruption of any save, by a failing call, a killed process or a   *)
(* power failure, leaves a damaged checkpoint at the target.               *)
THEOREM TargetAlwaysWhole == Spec => []TargetWhole
<1>1. IndInv => TargetWhole
  BY CheckpointFileAssumption
    DEF IndInv, TypeOK, Published, TargetWhole, Files, NoFile, Target
<1>2. QED
  BY Inductive, <1>1, PTL

(* A checkpoint whose save returned success survives any power failure, or *)
(* was replaced by a later one.                                            *)
THEOREM SuccessAlwaysDurable == Spec => []SuccessDurable
<1>1. IndInv => SuccessDurable
  BY DEF IndInv, AckedInv
<1>2. QED
  BY Inductive, <1>1, PTL

(* What a load accepted is a whole checkpoint as long as it is in use.     *)
THEOREM ViewAlwaysWhole == Spec => []ViewWhole
<1>1. IndInv => ViewWhole
  BY CheckpointFileAssumption
    DEF IndInv, TypeOK, Published, ViewWhole, Files, NoFile
<1>2. QED
  BY Inductive, <1>1, PTL

-----------------------------------------------------------------------------
(* Whose the temporary files are.  A save that has renamed its file has no *)
(* name in the directory any more, so nothing is left when it returns.     *)
OwnedInv ==
  /\ \A n \in Names : dir[n] # NoFile =>
       \/ dir[n] \in abandoned
       \/ \E p \in Savers : name[p] = n /\ id[p] = dir[n]
  /\ \A p \in Savers : pc[p] = "renamed" => dir[name[p]] = NoFile

(* A name is unlinked and the save returns.                                *)
LEMMA DiscardOwned ==
  ASSUME IndInv, OwnedInv, NEW p \in Savers, pc[p] # "idle", Discard(p)
  PROVE  OwnedInv'
<1>1. /\ \A n \in Names : dir'[n] = IF n = name[p] THEN NoFile ELSE dir[n]
      /\ \A q \in Savers : /\ pc'[q] = IF q = p THEN "idle" ELSE pc[q]
                           /\ id'[q] = IF q = p THEN NoFile ELSE id[q]
      /\ UNCHANGED <<name, abandoned>>
  BY DEF Discard, Returns, Link, hist, IndInv, TypeOK
<1>2. name \in [Savers -> Names]
  BY DEF IndInv, TypeOK
<1>3. QED
  BY <1>1, <1>2 DEF OwnedInv

(* A save that only moves on keeps its name and its file.                  *)
LEMMA MovedOwned ==
  ASSUME IndInv, OwnedInv, NEW p \in Savers,
         \A q \in Savers : pc'[q] = "renamed" => pc[q] = "renamed",
         UNCHANGED <<name, id, dir, abandoned>>
  PROVE  OwnedInv'
BY DEF OwnedInv

(* A file is created under a name no save in flight has.                   *)
LEMMA CreateOwned ==
  ASSUME IndInv, OwnedInv, NEW p \in Savers, NEW n \in Names, Create(p, n)
  PROVE  OwnedInv'
<1>1. /\ \A m \in Names : dir'[m] = IF m = n THEN NewFile ELSE dir[m]
      /\ \A q \in Savers : /\ pc'[q] = IF q = p THEN "writing" ELSE pc[q]
                           /\ name'[q] = IF q = p THEN n ELSE name[q]
                           /\ id'[q] = IF q = p THEN NewFile ELSE id[q]
      /\ UNCHANGED abandoned
  BY DEF Create, Link, hist, IndInv, TypeOK
<1>2. pc[p] = "idle" /\ id[p] = NoFile /\ name \in [Savers -> Names]
  BY DEF Create, IndInv, TypeOK
<1>3. \A q \in Savers : pc[q] # "idle" => name[q] # n
  BY DEF Create, FreeName, InFlight
<1>4. QED
  BY <1>1, <1>2, <1>3 DEF OwnedInv

(* The name was taken: the compiled save unlinks it.                       *)
LEMMA CreateRefusedOwned ==
  ASSUME IndInv, OwnedInv, NEW p \in Savers, NEW n \in Names, CreateRefused(p, n)
  PROVE  OwnedInv'
<1>1. /\ \A m \in Names : dir'[m] = dir[m] \/ dir'[m] = NoFile
      /\ UNCHANGED <<pc, name, id, abandoned>>
  BY DEF CreateRefused, Link, saver, hist, IndInv, TypeOK
<1>2. name \in [Savers -> Names]
  BY DEF IndInv, TypeOK
<1>3. QED
  BY <1>1, <1>2 DEF OwnedInv

(* The temporary name goes with the rename.                                *)
LEMMA RenameOwned ==
  ASSUME IndInv, OwnedInv, NEW p \in Savers, Rename(p)
  PROVE  OwnedInv'
<1>1. CASE Discard(p)
  BY <1>1, DiscardOwned DEF Rename
<1>2. CASE ~Discard(p)
  <2>1. /\ \A m \in Names : dir'[m] = IF m = name[p] THEN NoFile ELSE dir[m]
        /\ \A q \in Savers : q # p => pc'[q] = pc[q]
        /\ UNCHANGED <<name, id, abandoned>>
    BY <1>2, CheckpointFileAssumption DEF Rename, IndInv, TypeOK
  <2>2. name \in [Savers -> Names] /\ pc[p] # "renamed"
    BY DEF IndInv, TypeOK, Rename
  <2>3. QED
    BY <2>1, <2>2 DEF OwnedInv
<1>3. QED
  BY <1>1, <1>2

(* A save returns after its rename: its name is gone already.              *)
LEMMA SyncParentOwned ==
  ASSUME IndInv, OwnedInv, NEW p \in Savers, SyncParent(p)
  PROVE  OwnedInv'
<1>1. CASE Discard(p)
  BY <1>1, DiscardOwned DEF SyncParent
<1>2. CASE ~Discard(p)
  <2>1. /\ \A q \in Savers : /\ pc'[q] = IF q = p THEN "idle" ELSE pc[q]
                             /\ id'[q] = IF q = p THEN NoFile ELSE id[q]
        /\ UNCHANGED <<name, dir, abandoned>>
    BY <1>2 DEF SyncParent, Returns, IndInv, TypeOK
  <2>2. pc[p] = "renamed" /\ dir[name[p]] = NoFile
    BY DEF SyncParent, OwnedInv
  <2>3. QED
    BY <2>1, <2>2 DEF OwnedInv
<1>3. QED
  BY <1>1, <1>2

(* A save that never returns leaves its file, which is abandoned.          *)
LEMMA AbandonOwned ==
  ASSUME IndInv, OwnedInv, NEW p \in Savers, ValidateThrows(p) \/ Kill(p)
  PROVE  OwnedInv'
<1>1. /\ \A q \in Savers : /\ pc'[q] = IF q = p THEN "idle" ELSE pc[q]
                           /\ id'[q] = IF q = p THEN NoFile ELSE id[q]
      /\ abandoned' = abandoned \cup {id[p]}
      /\ UNCHANGED <<name, dir>>
  BY DEF ValidateThrows, Kill, Returns, fs, IndInv, TypeOK
<1>2. QED
  BY <1>1 DEF OwnedInv

(* After a power failure every file is one that was left behind.           *)
LEMMA PowerFailureOwned ==
  ASSUME IndInv, OwnedInv, PowerFailure
  PROVE  OwnedInv'
<1>1. /\ \A q \in Savers : pc'[q] = "idle"
      /\ \A n \in Names : dir'[n] \in 0 .. saves
      /\ abandoned' = 1 .. saves
  BY DEF PowerFailure
<1>2. saves \in Nat
  BY CheckpointFileAssumption DEF IndInv, TypeOK
<1>3. QED
  BY <1>1, <1>2 DEF OwnedInv, NoFile

(* A temporary file belongs to the save that runs, or was left by one that *)
(* never returned: whatever fails, kills or loses power, no returning save *)
(* leaves its file behind or takes that of another.                        *)
THEOREM TemporariesAlwaysOwned == Spec => []TemporariesOwned
<1>1. Init => OwnedInv
  BY DEF Init, OwnedInv
<1>2. IndInv /\ OwnedInv /\ [Next]_vars => OwnedInv'
  <2> SUFFICES ASSUME IndInv, OwnedInv, [Next]_vars PROVE OwnedInv'
    OBVIOUS
  <2>1. ASSUME NEW p \in Savers, NEW n \in Names, Create(p, n) \/ CreateRefused(p, n)
        PROVE  OwnedInv'
    BY <2>1, CreateOwned, CreateRefusedOwned
  <2>2. ASSUME NEW p \in Savers, Write(p) \/ Flush(p) \/ Validate(p)
        PROVE  OwnedInv'
    <3>1. CASE Discard(p)
      BY <2>2, <3>1, DiscardOwned DEF Write, Flush, Validate
    <3>2. CASE ~Discard(p)
      <4>1. /\ \A q \in Savers : pc'[q] = "renamed" => pc[q] = "renamed"
            /\ UNCHANGED <<name, id, dir, abandoned>>
        BY <2>2, <3>2 DEF Write, Flush, Validate, fs, hist, IndInv, TypeOK
      <4>2. QED
        BY <4>1, MovedOwned
    <3>3. QED
      BY <3>1, <3>2
  <2>3. ASSUME NEW p \in Savers,
               Rename(p) \/ SyncParent(p) \/ ValidateThrows(p) \/ Kill(p)
        PROVE  OwnedInv'
    BY <2>3, RenameOwned, SyncParentOwned, AbandonOwned
  <2>4. CASE Open \/ Load \/ UNCHANGED vars
    BY <2>4 DEF Open, Load, vars, saver, fs, hist, OwnedInv
  <2>5. CASE PowerFailure
    BY <2>5, PowerFailureOwned
  <2>6. QED
    BY <2>1, <2>2, <2>3, <2>4, <2>5 DEF Next, Step
<1>3. IndInv /\ OwnedInv => TemporariesOwned
  BY DEF IndInv, SaverInv, OwnedInv, TemporariesOwned
<1>4. QED
  BY Inductive, <1>1, <1>2, <1>3, PTL DEF Spec
=============================================================================
