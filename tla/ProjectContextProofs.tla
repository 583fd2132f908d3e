------------------------- MODULE ProjectContextProofs -------------------------
(***************************************************************************)
(* Proofs about the Project Context over the Source Change Tracker, for    *)
(* any Sources, directories and includes, and any overflow, refused watch  *)
(* or failed build.                                                        *)
(*                                                                         *)
(* That no watched change is lost needs to be said of every moment of a    *)
(* build: a Source whose last edit was watched is up to date in what is    *)
(* committed or read, or is still to be read by this build, or the tracker *)
(* still holds a sign of the edit that makes the next build read it        *)
(* (FreshInv).  The sign moves from the system's queue through the buffer  *)
(* to pending, or becomes a rescan; it is never dropped because a Source   *)
(* the tracker knows has an open watch and a buffer is empty before its    *)
(* directory is armed again (WatchInv).                                    *)
(***************************************************************************)
EXTENDS ProjectContext, TLAPS

Kinds == {"none", "load", "loaded", "rebuild", "rebuilt"}
OpType == [kind : Kinds, todo : SUBSET Sources, got : [Sources -> 0..MaxVersion]]

TypeInv ==
  /\ disk \in [Files -> 1..MaxVersion]
  /\ running \in BOOLEAN
  /\ tracked \in SUBSET Sources
  /\ watch \in [Dirs -> {"closed", "armed", "busy", "dead"}]
  /\ queue \in [Dirs -> SUBSET Files]
  /\ overflowed \in [Dirs -> BOOLEAN]
  /\ buffer \in [Dirs -> SUBSET Files]
  /\ pending \in SUBSET tracked
  /\ rescan \in BOOLEAN
  /\ projectChanged \in BOOLEAN
  /\ gap \in SUBSET Sources
  /\ configured \in BOOLEAN /\ cacheComplete \in BOOLEAN
  /\ tracking \in BOOLEAN /\ attached \in BOOLEAN
  /\ gstate \in {"valid", "building", "error"}
  /\ known \in SUBSET Sources
  /\ committed \in [Sources -> 0..MaxVersion]
  /\ op \in OpType

(* An entry is consumed before its directory is armed again, and a Source  *)
(* the tracker knows has a watch.                                          *)
WatchInv ==
  /\ \A d \in Dirs : buffer[d] # {} => watch[d] = "busy"
  /\ \A s \in tracked : watch[DirOf[s]] # "closed"

(* What the calls leave behind and find.                                   *)
CallInv ==
  /\ gstate = "building" <=> op.kind \in {"load", "rebuild"}
  /\ op.kind \in {"loaded", "rebuilt"} => gstate = "valid"
  /\ attached => gstate = "valid" /\ op.kind = "none"
  /\ op.kind \in {"load", "loaded"} => ~tracking /\ tracked = {}
  /\ op.kind = "load" => known = {}
  /\ op.todo # {} => op.kind \in {"load", "rebuild"}
  /\ tracking => running /\ (op.kind # "rebuilt" => known \subseteq tracked)

(* The tracker holds a sign of an edit of s, or cannot any more.           *)
Signalled(s) ==
  /\ s \in tracked
  /\ \/ rescan \/ s \in pending
     \/ watch[DirOf[s]] = "dead" \/ overflowed[DirOf[s]]
     \/ s \in queue[DirOf[s]] \cup buffer[DirOf[s]]

(* The version of s that a commit would leave.                             *)
Latest(s) == IF op.got[s] # 0 THEN op.got[s] ELSE committed[s]

FreshInv ==
  /\ op.kind = "load" =>
       \A s \in Sources \ gap : op.got[s] # 0 => op.got[s] = disk[s]
  /\ op.kind = "loaded" => \A s \in known \ gap : committed[s] = disk[s]
  /\ tracking /\ op.kind = "rebuild" =>
       \A s \in Sources \ gap :
         s \in known \/ op.got[s] # 0 =>
           s \in op.todo \/ Latest(s) = disk[s] \/ Signalled(s)
  /\ tracking /\ (op.kind = "rebuilt" \/ (op.kind = "none" /\ gstate = "valid")) =>
       \A s \in known \ gap : committed[s] = disk[s] \/ Signalled(s)

IndInv == TypeInv /\ WatchInv /\ CallInv /\ FreshInv

-------------------------------------------------------------------------------
(* Every file lies in a directory, and there is a version zero.            *)
LEMMA FileFacts ==
  /\ Sources \subseteq Files /\ Config \in Files
  /\ \A f \in Files : DirOf[f] \in Dirs
  /\ MaxVersion \in Nat \ {0} /\ 0 \in 0..MaxVersion /\ 1 \in 1..MaxVersion
  /\ \A v \in 1..MaxVersion : v \in 0..MaxVersion /\ v # 0
BY TrackerAssumption DEF Files

(* The locals of a call that begins or ends.                               *)
LEMMA IdleFacts ==
  /\ NoVersions \in [Sources -> 0..MaxVersion] /\ \A s \in Sources : NoVersions[s] = 0
  /\ Idle \in OpType /\ Idle.kind = "none" /\ Idle.got = NoVersions /\ Idle.todo = {}
  /\ \A k \in Kinds :
       /\ [Idle EXCEPT !.kind = k] \in OpType
       /\ [Idle EXCEPT !.kind = k].kind = k
       /\ [Idle EXCEPT !.kind = k].got = NoVersions
       /\ [Idle EXCEPT !.kind = k].todo = {}
  /\ \A k \in Kinds, T \in SUBSET Sources :
       /\ [Idle EXCEPT !.kind = k, !.todo = T] \in OpType
       /\ [Idle EXCEPT !.kind = k, !.todo = T].kind = k
       /\ [Idle EXCEPT !.kind = k, !.todo = T].todo = T
       /\ [Idle EXCEPT !.kind = k, !.todo = T].got = NoVersions
<1>1. NoVersions \in [Sources -> 0..MaxVersion] /\ \A s \in Sources : NoVersions[s] = 0
  BY FileFacts DEF NoVersions
<1>2. QED
  BY <1>1 DEF Idle, OpType, Kinds

(* The initial state satisfies the invariant.                              *)
LEMMA InitIndInv == ASSUME Init PROVE IndInv
<1>1. TypeInv
  <2>1. op \in OpType /\ committed \in [Sources -> 0..MaxVersion]
    BY IdleFacts DEF Init
  <2>2. disk \in [Files -> 1..MaxVersion]
    BY FileFacts DEF Init, TrackerInit
  <2>3. QED
    BY <2>1, <2>2 DEF Init, TrackerInit, TypeInv
<1>2. WatchInv
  BY DEF Init, TrackerInit, WatchInv
<1>3. CallInv /\ FreshInv
  BY IdleFacts DEF Init, CallInv, FreshInv
<1>4. QED
  BY <1>1, <1>2, <1>3 DEF IndInv

-------------------------------------------------------------------------------
(* A call that forgets the Project and stops the tracker.                  *)
LEMMA Forgotten ==
  ASSUME IndInv, op.kind = "none", Stop,
         configured' = FALSE, cacheComplete' = FALSE, tracking' = FALSE,
         attached' \in BOOLEAN, attached' => gstate' = "valid",
         gstate' \in {"valid", "error"},
         op' \in {op, Idle}, committed' \in {committed, NoVersions},
         UNCHANGED <<disk, gap, known>>
  PROVE  IndInv'
<1>1. op' \in OpType /\ op'.kind = "none" /\ op'.todo = {}
  <2>1. op \in OpType /\ op.kind = "none" /\ op.todo = {}
    BY DEF IndInv, TypeInv, CallInv
  <2>2. Idle \in OpType /\ Idle.kind = "none" /\ Idle.todo = {}
    BY IdleFacts
  <2>3. QED
    BY <2>1, <2>2
<1>2. TypeInv'
  BY <1>1, IdleFacts DEF IndInv, TypeInv, Stop
<1>3. WatchInv'
  BY DEF WatchInv, Stop
<1>4. CallInv'
  BY <1>1 DEF CallInv
<1>5. FreshInv'
  BY <1>1 DEF FreshInv
<1>6. QED
  BY <1>2, <1>3, <1>4, <1>5 DEF IndInv

(* Between calls the Graph Manager is not building.                        *)
LEMMA NotBuilding == ASSUME IndInv, op.kind = "none" PROVE gstate \in {"valid", "error"}
BY DEF IndInv, TypeInv, CallInv

(* The calls that end with the Project forgotten.                          *)
LEMMA ForgetIndInv ==
  ASSUME IndInv,
         \/ InitializeProject \/ LoadFails \/ ReloadProject
         \/ LoadCompiled \/ LoadSource \/ Shutdown
  PROVE  IndInv'
<1>1. op.kind = "none"
  BY DEF InitializeProject, LoadFails, ReloadProject, CanRebuild, LoadCompiled,
         LoadSource, Shutdown
<1>2. gstate \in {"valid", "error"}
  BY <1>1, NotBuilding
<1>3. CASE InitializeProject
  BY <1>1, <1>3, Forgotten DEF InitializeProject, Forget
<1>4. CASE LoadFails \/ ReloadProject
  BY <1>1, <1>2, <1>4, Forgotten DEF LoadFails, ReloadProject, LoadUnreadable, Forget
<1>5. CASE LoadCompiled
  BY <1>1, <1>5, Forgotten DEF LoadCompiled
<1>6. CASE LoadSource \/ Shutdown
  BY <1>1, <1>2, <1>6, Forgotten DEF LoadSource, Shutdown, Forget
<1>7. QED
  BY <1>3, <1>4, <1>5, <1>6

(* A load begins: nothing is read yet.                                     *)
LEMMA LoadProjectIndInv == ASSUME IndInv, LoadProject PROVE IndInv'
<1>1. /\ op.kind = "none" /\ Forget /\ committed' = NoVersions
      /\ UNCHANGED <<disk, gap, known>>
  BY DEF LoadProject
<1>2. CASE known # {}
  BY <1>1, <1>2, Forgotten DEF LoadProject, Forget
<1>3. CASE known = {}
  <2>1. gstate' = "building" /\ op' = [Idle EXCEPT !.kind = "load", !.todo = Roots]
    BY <1>3 DEF LoadProject
  <2>2. op' \in OpType /\ op'.kind = "load" /\ op'.got = NoVersions
    BY <2>1, IdleFacts, ProjectAssumption, ZenonT(90) DEF Kinds
  <2>3. TypeInv'
    BY <1>1, <2>1, <2>2, IdleFacts DEF IndInv, TypeInv, Forget, Stop
  <2>4. WatchInv'
    BY <1>1 DEF WatchInv, Forget, Stop
  <2>5. CallInv'
    BY <1>1, <1>3, <2>1, <2>2 DEF CallInv, Forget, Stop
  <2>6. FreshInv'
    BY <1>1, <2>2, IdleFacts DEF FreshInv, Forget
  <2>7. QED
    BY <2>3, <2>4, <2>5, <2>6 DEF IndInv
<1>4. QED
  BY <1>2, <1>3

-------------------------------------------------------------------------------
(* A step of the tracker's thread that drops no sign.                      *)
LEMMA SignsKept ==
  ASSUME IndInv,
         UNCHANGED <<disk, gap, contextVars, gstate, known, committed, op, tracked, running>>,
         \A s \in Sources : Signalled(s) => Signalled(s)'
  PROVE  CallInv' /\ FreshInv'
<1>1. CallInv'
  BY DEF IndInv, CallInv, contextVars
<1>2. \A s \in Sources : Latest(s)' = Latest(s)
  BY DEF Latest
<1>3. FreshInv'
  BY <1>2 DEF IndInv, TypeInv, FreshInv, contextVars
<1>4. QED
  BY <1>1, <1>3

(* A request completes: the queue becomes the buffer, or a rescan.         *)
LEMMA CompleteIndInv ==
  ASSUME IndInv, NEW d \in Dirs, Complete(d),
         UNCHANGED <<contextVars, gstate, known, committed, op>>
  PROVE  IndInv'
<1>1. /\ watch[d] = "armed"
      /\ watch' = [watch EXCEPT ![d] = "busy"]
      /\ buffer' = [buffer EXCEPT ![d] = IF overflowed[d] THEN {} ELSE queue[d]]
      /\ rescan' = (rescan \/ overflowed[d])
      /\ queue' = [queue EXCEPT ![d] = {}]
      /\ overflowed' = [overflowed EXCEPT ![d] = FALSE]
      /\ UNCHANGED <<disk, running, tracked, pending, projectChanged, gap>>
  BY DEF Complete
<1>2. TypeInv'
  BY <1>1 DEF IndInv, TypeInv, contextVars
<1>3. buffer[d] = {}
  BY <1>1 DEF IndInv, WatchInv
<1>4. ASSUME NEW e \in Dirs
      PROVE  /\ watch'[e] = IF e = d THEN "busy" ELSE watch[e]
             /\ buffer'[e] = IF e = d THEN (IF overflowed[d] THEN {} ELSE queue[d]) ELSE buffer[e]
             /\ queue'[e] = IF e = d THEN {} ELSE queue[e]
             /\ overflowed'[e] = IF e = d THEN FALSE ELSE overflowed[e]
  BY <1>1 DEF IndInv, TypeInv
<1>5. WatchInv'
  <2>1. \A s \in tracked : DirOf[s] \in Dirs
    BY FileFacts DEF IndInv, TypeInv
  <2>2. \A e \in Dirs : watch[e] # "closed" => watch'[e] # "closed"
    BY <1>4
  <2>3. \A e \in Dirs : buffer'[e] # {} => watch'[e] = "busy"
    BY <1>4 DEF IndInv, WatchInv
  <2>4. QED
    BY <1>1, <2>1, <2>2, <2>3 DEF IndInv, WatchInv
<1>6. ASSUME NEW s \in Sources, Signalled(s) PROVE Signalled(s)'
  <2> DEFINE e == DirOf[s]
  <2>1. e \in Dirs
    BY FileFacts
  <2>2. /\ s \in tracked
        /\ \/ rescan \/ s \in pending \/ watch[e] = "dead" \/ overflowed[e]
           \/ s \in queue[e] \cup buffer[e]
    BY <1>6 DEF Signalled
  <2> HIDE DEF e
  <2>3. \/ rescan' \/ s \in pending' \/ watch'[e] = "dead" \/ overflowed'[e]
        \/ s \in queue'[e] \cup buffer'[e]
    <3>1. CASE e = d
      BY <1>1, <1>3, <1>4, <2>2, <3>1
    <3>2. CASE e # d
      BY <1>1, <1>4, <2>1, <2>2, <3>2
    <3>3. QED
      BY <3>1, <3>2
  <2>4. QED
    BY <1>1, <2>2, <2>3 DEF Signalled, e
<1>7. QED
  BY <1>1, <1>2, <1>5, <1>6, SignsKept DEF IndInv

(* An entry is consumed: its Source becomes pending.                       *)
LEMMA ConsumeIndInv ==
  ASSUME IndInv, NEW d \in Dirs, NEW f \in Files, Consume(d, f),
         UNCHANGED <<contextVars, gstate, known, committed, op>>
  PROVE  IndInv'
<1>1. /\ f \in buffer[d]
      /\ buffer' = [buffer EXCEPT ![d] = buffer[d] \ {f}]
      /\ projectChanged' = (projectChanged \/ f = Config)
      /\ pending' = pending \cup ({f} \cap tracked)
      /\ UNCHANGED <<disk, running, tracked, watch, queue, overflowed, rescan, gap>>
  BY DEF Consume
<1>2. TypeInv'
  BY <1>1 DEF IndInv, TypeInv, contextVars
<1>3. \A e \in Dirs : buffer'[e] = IF e = d THEN buffer[d] \ {f} ELSE buffer[e]
  BY <1>1 DEF IndInv, TypeInv
<1>4. WatchInv'
  BY <1>1, <1>3 DEF IndInv, WatchInv
<1>5. ASSUME NEW s \in Sources, Signalled(s) PROVE Signalled(s)'
  <2>1. DirOf[s] \in Dirs
    BY FileFacts
  <2>2. QED
    BY <1>1, <1>3, <1>5, <2>1 DEF Signalled
<1>6. QED
  BY <1>1, <1>2, <1>4, <1>5, SignsKept DEF IndInv

(* The rest of a buffer is given up for a rescan.                          *)
LEMMA AbandonIndInv ==
  ASSUME IndInv, NEW d \in Dirs, Abandon(d),
         UNCHANGED <<contextVars, gstate, known, committed, op>>
  PROVE  IndInv'
<1>1. /\ buffer' = [buffer EXCEPT ![d] = {}] /\ rescan' = TRUE
      /\ UNCHANGED <<disk, running, tracked, watch, queue, overflowed, pending,
                     projectChanged, gap>>
  BY DEF Abandon
<1>2. TypeInv'
  BY <1>1 DEF IndInv, TypeInv, contextVars
<1>3. WatchInv'
  BY <1>1 DEF IndInv, TypeInv, WatchInv
<1>4. \A s \in Sources : Signalled(s) => Signalled(s)'
  BY <1>1 DEF Signalled
<1>5. QED
  BY <1>1, <1>2, <1>3, <1>4, SignsKept DEF IndInv

(* A directory is armed again, or given up for a rescan.                   *)
LEMMA ArmIndInv ==
  ASSUME IndInv, NEW d \in Dirs, Arm(d),
         UNCHANGED <<contextVars, gstate, known, committed, op>>
  PROVE  IndInv'
<1>1. /\ watch[d] = "busy" /\ buffer[d] = {}
      /\ \/ watch' = [watch EXCEPT ![d] = "armed"] /\ UNCHANGED rescan
         \/ watch' = [watch EXCEPT ![d] = "dead"] /\ rescan' = TRUE
      /\ UNCHANGED <<disk, running, tracked, queue, overflowed, buffer, pending,
                     projectChanged, gap>>
  BY DEF Arm
<1>2. TypeInv'
  BY <1>1 DEF IndInv, TypeInv, contextVars
<1>3. \A e \in Dirs : watch'[e] = watch[e] \/ (e = d /\ watch'[e] \in {"armed", "dead"})
  BY <1>1 DEF IndInv, TypeInv
<1>4. WatchInv'
  <2>1. \A s \in tracked : DirOf[s] \in Dirs
    BY FileFacts DEF IndInv, TypeInv
  <2>2. QED
    BY <1>1, <1>3, <2>1 DEF IndInv, WatchInv
<1>5. ASSUME NEW s \in Sources, Signalled(s) PROVE Signalled(s)'
  <2>1. DirOf[s] \in Dirs
    BY FileFacts
  <2>2. QED
    BY <1>1, <1>3, <1>5, <2>1 DEF Signalled
<1>6. QED
  BY <1>1, <1>2, <1>4, <1>5, SignsKept DEF IndInv

(* A file is written: the tracker gets a sign, or the Source is in the gap. *)
LEMMA WriteIndInv == ASSUME IndInv, NEW f \in Files, Write(f) PROVE IndInv'
<1> DEFINE d == DirOf[f]
<1>1. /\ disk[f] < IF f = Config THEN MaxConfigVersion ELSE MaxVersion
      /\ disk' = [disk EXCEPT ![f] = disk[f] + 1]
      /\ gap' = IF f \in Sources /\ ~Covered(f) THEN gap \cup {f} ELSE gap
      /\ UNCHANGED <<running, tracked, watch, buffer, pending, rescan, projectChanged>>
      /\ UNCHANGED <<contextVars, gstate, known, committed, op>>
  BY DEF Write, Edit
<1>2. \/ watch[d] = "closed" /\ UNCHANGED <<queue, overflowed>>
      \/ queue' = [queue EXCEPT ![d] = queue[d] \cup {f}] /\ UNCHANGED overflowed
      \/ /\ queue' = [queue EXCEPT ![d] = {}]
         /\ overflowed' = [overflowed EXCEPT ![d] = TRUE]
  BY DEF Write, Edit
<1>3. d \in Dirs
  BY FileFacts
<1>4. disk[f] + 1 \in 1..MaxVersion
  BY <1>1, TrackerAssumption DEF IndInv, TypeInv
<1> HIDE DEF d
<1>5. TypeInv'
  <2>1. disk' \in [Files -> 1..MaxVersion] /\ gap' \in SUBSET Sources
    BY <1>1, <1>4 DEF IndInv, TypeInv
  <2>2. queue' \in [Dirs -> SUBSET Files] /\ overflowed' \in [Dirs -> BOOLEAN]
    BY <1>2, <1>3, ZenonT(90) DEF IndInv, TypeInv
  <2>3. QED
    BY <1>1, <2>1, <2>2 DEF IndInv, TypeInv, contextVars
<1>6. WatchInv'
  BY <1>1 DEF IndInv, WatchInv
<1>7. CallInv'
  BY <1>1 DEF IndInv, CallInv, contextVars
<1>8. \A s \in Sources : s # f => disk'[s] = disk[s] /\ (s \in gap' <=> s \in gap)
  BY <1>1, FileFacts DEF IndInv, TypeInv
<1>9. \A s \in Sources : s \in gap => s \in gap'
  BY <1>1
<1>10. ASSUME NEW s \in Sources, Signalled(s) PROVE Signalled(s)'
  <2>1. DirOf[s] \in Dirs
    BY FileFacts
  <2>2. QED
    BY <1>1, <1>2, <1>3, <1>10, <2>1 DEF Signalled, IndInv, TypeInv
<1>11. f \in Sources => f \in gap' \/ Signalled(f)'
  <2>1. ASSUME f \in Sources, f \notin gap' PROVE Signalled(f)'
    <3>1. f \in tracked /\ watch[d] # "closed"
      BY <1>1, <2>1 DEF Covered, d
    <3>2. f \in queue'[d] \/ overflowed'[d]
      BY <1>2, <1>3, <3>1 DEF IndInv, TypeInv
    <3>3. QED
      BY <1>1, <3>1, <3>2 DEF Signalled, d
  <2>2. QED
    BY <2>1
<1>12. \A s \in Sources : Latest(s)' = Latest(s)
  BY <1>1 DEF Latest
<1>13. op.kind \in {"load", "loaded"} => ~(f \in Sources /\ f \notin gap')
  BY <1>1 DEF IndInv, CallInv, Covered
<1>14. FreshInv'
  <2>1. op' = op /\ known' = known /\ committed' = committed /\ tracking' = tracking
        /\ gstate' = gstate /\ known \in SUBSET Sources
    BY <1>1 DEF contextVars, IndInv, TypeInv
  <2>2. op.kind = "load" => \A s \in Sources \ gap' : op.got[s] # 0 => op.got[s] = disk'[s]
    BY <1>8, <1>13 DEF IndInv, FreshInv
  <2>3. op.kind = "loaded" => \A s \in known \ gap' : committed[s] = disk'[s]
    BY <1>8, <1>13, <2>1 DEF IndInv, FreshInv
  <2>4. tracking /\ op.kind = "rebuild" =>
          \A s \in Sources \ gap' :
            s \in known \/ op.got[s] # 0 =>
              s \in op.todo \/ Latest(s) = disk'[s] \/ Signalled(s)'
    BY <1>8, <1>10, <1>11 DEF IndInv, FreshInv
  <2>5. tracking /\ (op.kind = "rebuilt" \/ (op.kind = "none" /\ gstate = "valid")) =>
          \A s \in known \ gap' : committed[s] = disk'[s] \/ Signalled(s)'
    BY <1>8, <1>10, <1>11, <2>1 DEF IndInv, FreshInv
  <2>6. QED
    BY <1>12, <2>1, <2>2, <2>3, <2>4, <2>5 DEF FreshInv
<1>15. QED
  BY <1>5, <1>6, <1>7, <1>14 DEF IndInv

-------------------------------------------------------------------------------
(* A Source is read.                                                       *)
LEMMA AcquireIndInv == ASSUME IndInv, NEW s \in Sources, Acquire(s) PROVE IndInv'
<1>1. PICK more \in SUBSET Sources :
        op' = [op EXCEPT !.got[s] = disk[s], !.todo = (op.todo \cup more) \ {s}]
  <2> DEFINE seen == {r \in Sources : op.got[r] # 0} \cup
                     (IF op.kind = "rebuild" THEN known ELSE {})
             more == Includes[s][disk[s]] \ seen
  <2>1. disk[s] \in 1..MaxVersion
    BY FileFacts DEF IndInv, TypeInv
  <2>2. more \in SUBSET Sources
    BY <2>1, ProjectAssumption, ZenonT(90)
  <2>3. op' = [op EXCEPT !.got[s] = disk[s], !.todo = (op.todo \cup more) \ {s}]
    BY DEF Acquire
  <2> HIDE DEF more
  <2>4. QED
    BY <2>2, <2>3
<1>2. /\ s \in op.todo /\ gap' = gap \ {s}
      /\ UNCHANGED <<disk, trackerVars, contextVars, gstate, known, committed>>
  BY DEF Acquire
<1>3. disk[s] \in 0..MaxVersion /\ disk[s] # 0
  BY FileFacts DEF IndInv, TypeInv
<1>4. /\ op' \in OpType /\ op'.kind = op.kind
      /\ op'.todo = (op.todo \cup more) \ {s}
      /\ op'.got = [op.got EXCEPT ![s] = disk[s]]
  BY <1>1, <1>3 DEF IndInv, TypeInv, OpType
<1>5. \A t \in Sources : op'.got[t] = IF t = s THEN disk[s] ELSE op.got[t]
  BY <1>4 DEF IndInv, TypeInv, OpType
<1>6. /\ UNCHANGED <<running, tracked, watch, queue, overflowed, buffer, pending,
                     rescan, projectChanged, disk, gstate, known, committed>>
      /\ UNCHANGED <<configured, cacheComplete, tracking, attached>>
  BY <1>2 DEF trackerVars, contextVars
<1>7. TypeInv'
  BY <1>2, <1>4, <1>6 DEF IndInv, TypeInv
<1>8. WatchInv'
  BY <1>6 DEF IndInv, WatchInv
<1>9. CallInv'
  BY <1>2, <1>4, <1>6 DEF IndInv, CallInv
<1>10. op.kind \in {"load", "rebuild"}
  BY <1>2 DEF IndInv, CallInv
<1>11. FreshInv'
  <2>1. \A t \in Sources : Signalled(t)' <=> Signalled(t)
    BY <1>6 DEF Signalled
  <2>2. \A t \in Sources : Latest(t)' = IF t = s THEN disk[s] ELSE Latest(t)
    BY <1>3, <1>5, <1>6 DEF Latest
  <2>3. op.kind = "load" => \A t \in Sources \ gap' : op'.got[t] # 0 => op'.got[t] = disk[t]
    BY <1>2, <1>5 DEF IndInv, FreshInv
  <2>4. tracking /\ op.kind = "rebuild" =>
          \A t \in Sources \ gap' :
            t \in known \/ op'.got[t] # 0 =>
              t \in op'.todo \/ Latest(t)' = disk[t] \/ Signalled(t)'
    <3> SUFFICES ASSUME tracking, op.kind = "rebuild", NEW t \in Sources \ gap',
                        t \in known \/ op'.got[t] # 0, t # s
                 PROVE  t \in op'.todo \/ Latest(t)' = disk[t] \/ Signalled(t)'
      BY <2>2
    <3>1. t \notin gap /\ op'.got[t] = op.got[t] /\ Latest(t)' = Latest(t)
      BY <1>2, <1>5, <2>2
    <3>2. t \in op.todo \/ Latest(t) = disk[t] \/ Signalled(t)
      BY <3>1 DEF IndInv, FreshInv
    <3>3. QED
      BY <1>4, <2>1, <3>1, <3>2
  <2>5. QED
    BY <1>4, <1>6, <1>10, <2>3, <2>4 DEF FreshInv
<1>12. QED
  BY <1>7, <1>8, <1>9, <1>11 DEF IndInv

(* What was read is committed.                                             *)
LEMMA CommitIndInv == ASSUME IndInv, Commit PROVE IndInv'
<1>1. /\ op.kind \in {"load", "rebuild"} /\ op.todo = {} /\ gstate' = "valid"
      /\ known' = known \cup {s \in Sources : op.got[s] # 0}
      /\ committed' = [s \in Sources |-> Latest(s)]
      /\ UNCHANGED <<disk, trackerVars, gap, contextVars>>
  BY DEF Commit, Latest
<1>2. /\ op' \in OpType /\ op'.todo = {}
      /\ op'.kind = IF op.kind = "load" THEN "loaded" ELSE "rebuilt"
  <2> DEFINE k == IF op.kind = "load" THEN "loaded" ELSE "rebuilt"
  <2>1. k \in Kinds /\ op' = [Idle EXCEPT !.kind = k]
    BY DEF Commit, Kinds
  <2> HIDE DEF k
  <2>2. op' \in OpType /\ op'.kind = k /\ op'.todo = {}
    BY <2>1, IdleFacts
  <2>3. QED
    BY <2>2 DEF k
<1>3. /\ UNCHANGED <<running, tracked, watch, queue, overflowed, buffer, pending,
                     rescan, projectChanged, disk, gap>>
      /\ UNCHANGED <<configured, cacheComplete, tracking, attached>>
  BY <1>1 DEF trackerVars, contextVars
<1>4. \A s \in Sources : committed'[s] = Latest(s) /\ Latest(s) \in 0..MaxVersion
  BY <1>1 DEF IndInv, TypeInv, OpType, Latest
<1>5. TypeInv'
  <2>1. committed' \in [Sources -> 0..MaxVersion] /\ known' \in SUBSET Sources
    BY <1>1, <1>4 DEF IndInv, TypeInv
  <2>2. QED
    BY <1>1, <1>2, <1>3, <2>1 DEF IndInv, TypeInv
<1>6. WatchInv'
  BY <1>3 DEF IndInv, WatchInv
<1>7. CallInv'
  BY <1>1, <1>2, <1>3 DEF IndInv, CallInv
<1>8. \A s \in Sources : Signalled(s)' <=> Signalled(s)
  BY <1>3 DEF Signalled
<1>9. FreshInv'
  <2>1. CASE op.kind = "load"
    <3>1. \A s \in known' \ gap : committed'[s] = disk[s]
      <4> SUFFICES ASSUME NEW s \in known' \ gap PROVE committed'[s] = disk[s]
        OBVIOUS
      <4>1. s \in Sources /\ op.got[s] # 0
        BY <1>1, <2>1 DEF IndInv, CallInv
      <4>2. QED
        BY <1>4, <2>1, <4>1 DEF IndInv, FreshInv, Latest
    <3>2. QED
      BY <1>2, <1>3, <2>1, <3>1 DEF FreshInv
  <2>2. CASE op.kind = "rebuild"
    <3>1. ASSUME tracking, NEW s \in known' \ gap
          PROVE  committed'[s] = disk[s] \/ Signalled(s)'
      <4>1. s \in Sources /\ (s \in known \/ op.got[s] # 0)
        BY <1>1 DEF IndInv, TypeInv
      <4>2. Latest(s) = disk[s] \/ Signalled(s)
        BY <1>1, <2>2, <3>1, <4>1 DEF IndInv, FreshInv
      <4>3. QED
        BY <1>4, <1>8, <4>1, <4>2
    <3>2. QED
      BY <1>2, <1>3, <2>2, <3>1 DEF FreshInv
  <2>3. QED
    BY <1>1, <2>1, <2>2
<1>10. QED
  BY <1>5, <1>6, <1>7, <1>9 DEF IndInv

(* A build fails: the next one looks at everything.                        *)
LEMMA BuildFailsIndInv == ASSUME IndInv, BuildFails PROVE IndInv'
<1>1. /\ op.kind \in {"load", "rebuild"} /\ gstate' = "error" /\ op' = Idle
      /\ UNCHANGED <<disk, trackerVars, gap, contextVars, known, committed>>
  BY DEF BuildFails
<1>2. op' \in OpType /\ op'.kind = "none" /\ op'.todo = {}
  BY <1>1, IdleFacts
<1>3. /\ UNCHANGED <<running, tracked, watch, queue, overflowed, buffer, pending,
                     rescan, projectChanged, disk, gap, known, committed>>
      /\ UNCHANGED <<configured, cacheComplete, tracking, attached>>
  BY <1>1 DEF trackerVars, contextVars
<1>4. TypeInv'
  BY <1>1, <1>2, <1>3 DEF IndInv, TypeInv
<1>5. WatchInv'
  BY <1>3 DEF IndInv, WatchInv
<1>6. CallInv'
  BY <1>1, <1>2, <1>3 DEF IndInv, CallInv
<1>7. FreshInv'
  BY <1>1, <1>2 DEF FreshInv
<1>8. QED
  BY <1>4, <1>5, <1>6, <1>7 DEF IndInv

(* A load ends: the tracker is started on what is known, or is not.        *)
LEMMA FinishLoadIndInv == ASSUME IndInv, FinishLoad PROVE IndInv'
<1>1. /\ op.kind = "loaded" /\ attached' = TRUE /\ op' = Idle
      /\ UNCHANGED <<disk, gap, gstate, known, committed>>
  BY DEF FinishLoad
<1>2. op' \in OpType /\ op'.kind = "none" /\ op'.todo = {} /\ gstate = "valid"
  BY <1>1, IdleFacts DEF IndInv, CallInv
<1>3. CASE /\ configured' = TRUE /\ cacheComplete' = TRUE /\ tracking' = TRUE
           /\ Initialize(known)
  <2>1. watch' \in [Dirs -> {"closed", "armed", "busy", "dead"}]
    BY <1>3 DEF Initialize
  <2>2. \A s \in known : watch'[DirOf[s]] = "armed"
    BY <1>3, FileFacts DEF Initialize, IndInv, TypeInv
  <2>3. TypeInv'
    BY <1>1, <1>2, <1>3, <2>1 DEF IndInv, TypeInv, Initialize
  <2>4. WatchInv'
    BY <1>3, <2>2 DEF WatchInv, Initialize
  <2>5. CallInv'
    BY <1>1, <1>2, <1>3 DEF CallInv, Initialize
  <2>6. FreshInv'
    BY <1>1, <1>2 DEF IndInv, FreshInv
  <2>7. QED
    BY <2>3, <2>4, <2>5, <2>6 DEF IndInv
<1>4. CASE /\ configured' \in BOOLEAN /\ cacheComplete' \in {configured', FALSE}
           /\ tracking' = FALSE /\ UNCHANGED trackerVars
  <2>1. UNCHANGED <<running, tracked, watch, queue, overflowed, buffer, pending,
                    rescan, projectChanged>>
    BY <1>4 DEF trackerVars
  <2>2. TypeInv'
    BY <1>1, <1>2, <1>4, <2>1 DEF IndInv, TypeInv
  <2>3. WatchInv'
    BY <2>1 DEF IndInv, WatchInv
  <2>4. CallInv'
    BY <1>1, <1>2, <1>4, <2>1 DEF CallInv
  <2>5. FreshInv'
    BY <1>2, <1>4 DEF FreshInv
  <2>6. QED
    BY <2>2, <2>3, <2>4, <2>5 DEF IndInv
<1>5. QED
  BY <1>3, <1>4 DEF FinishLoad

(* A rebuild begins: a Source that is signalled no more is to be read.     *)
LEMMA RebuildSourcesIndInv == ASSUME IndInv, RebuildSources PROVE IndInv'
<1> DEFINE dirty == IF ReconcileAll THEN known ELSE pending
<1>1. /\ op.kind = "none" /\ attached' = FALSE /\ gstate' = "building"
      /\ op' = [Idle EXCEPT !.kind = "rebuild", !.todo = dirty]
      /\ UNCHANGED <<configured, cacheComplete, tracking, disk, gap, known, committed>>
  BY DEF RebuildSources, CanRebuild, StartRebuild
<1>2. tracking \in BOOLEAN /\ tracked \in SUBSET Sources /\ pending \in SUBSET tracked
      /\ known \in SUBSET Sources
  BY DEF IndInv, TypeInv
<1>3. op' \in OpType /\ op'.kind = "rebuild" /\ op'.todo = dirty /\ op'.got = NoVersions
  <2>1. dirty \in SUBSET Sources
    BY <1>2
  <2> HIDE DEF dirty
  <2>2. QED
    BY <1>1, <2>1, IdleFacts DEF Kinds
<1>4. /\ UNCHANGED <<running, tracked, watch, queue, overflowed, buffer>>
      /\ pending' \in {pending, {}}
      /\ rescan' \in {rescan, FALSE}
      /\ projectChanged' \in {projectChanged, FALSE}
  BY DEF RebuildSources, Drain, trackerVars
<1>5. TypeInv'
  BY <1>1, <1>3, <1>4 DEF IndInv, TypeInv
<1>6. WatchInv'
  BY <1>4 DEF IndInv, WatchInv
<1>7. CallInv'
  BY <1>1, <1>3, <1>4 DEF IndInv, CallInv
<1>8. ASSUME tracking, NEW s \in known \ gap
      PROVE  s \in dirty \/ committed[s] = disk[s] \/ Signalled(s)'
  <2>1. CASE ReconcileAll
    BY <1>8, <2>1
  <2>2. CASE ~ReconcileAll
    <3>1. gstate = "valid" /\ ~rescan /\ dirty = pending
      BY <2>2 DEF ReconcileAll
    <3>2. committed[s] = disk[s] \/ Signalled(s)
      BY <1>1, <1>8, <3>1 DEF IndInv, FreshInv
    <3>3. QED
      BY <1>4, <3>1, <3>2 DEF Signalled
  <2>3. QED
    BY <2>1, <2>2
<1>9. \A s \in Sources : Latest(s)' = committed[s] /\ op'.got[s] = 0
  BY <1>1, <1>3, IdleFacts DEF Latest
<1>10. FreshInv'
  BY <1>1, <1>2, <1>3, <1>8, <1>9 DEF FreshInv
<1>11. QED
  BY <1>5, <1>6, <1>7, <1>10 DEF IndInv

(* A rebuild ends: the tracker learns of new Sources, or is stopped.       *)
LEMMA FinishRebuildIndInv == ASSUME IndInv, FinishRebuild PROVE IndInv'
<1>1. /\ op.kind = "rebuilt" /\ attached' = TRUE /\ op' = Idle
      /\ UNCHANGED <<disk, gap, configured, cacheComplete, gstate, known, committed>>
  BY DEF FinishRebuild
<1>2. op' \in OpType /\ op'.kind = "none" /\ op'.todo = {} /\ gstate = "valid"
  BY <1>1, IdleFacts DEF IndInv, CallInv
<1>3. CASE tracking /\ Synchronize(known) /\ UNCHANGED tracking
  <2>1. /\ tracked' = tracked \cup known
        /\ watch' = [d \in Dirs |->
                       IF watch[d] = "closed" /\ \E s \in known : DirOf[s] = d
                       THEN "armed" ELSE watch[d]]
        /\ UNCHANGED <<running, queue, overflowed, buffer, pending, rescan,
                       projectChanged, tracking>>
    BY <1>3 DEF Synchronize
  <2>2. /\ watch' \in [Dirs -> {"closed", "armed", "busy", "dead"}]
        /\ \A d \in Dirs : watch[d] # "closed" => watch'[d] = watch[d]
    BY <2>1 DEF IndInv, TypeInv
  <2>3. \A s \in known : watch'[DirOf[s]] # "closed"
    BY <2>1, FileFacts DEF IndInv, TypeInv
  <2>4. \A s \in tracked : DirOf[s] \in Dirs
    BY FileFacts DEF IndInv, TypeInv
  <2>5. TypeInv'
    BY <1>1, <1>2, <2>1, <2>2 DEF IndInv, TypeInv
  <2>6. WatchInv'
    BY <2>1, <2>2, <2>3, <2>4 DEF IndInv, WatchInv
  <2>7. CallInv'
    BY <1>1, <1>2, <2>1 DEF IndInv, CallInv
  <2>8. \A s \in Sources : Signalled(s) => Signalled(s)'
    BY <2>1, <2>2, <2>4 DEF Signalled
  <2>9. FreshInv'
    BY <1>1, <1>2, <1>3, <2>8 DEF IndInv, TypeInv, FreshInv
  <2>10. QED
    BY <2>5, <2>6, <2>7, <2>9 DEF IndInv
<1>4. CASE ~tracking /\ UNCHANGED <<trackerVars, tracking>>
  <2>1. UNCHANGED <<running, tracked, watch, queue, overflowed, buffer, pending,
                    rescan, projectChanged, tracking>>
    BY <1>4 DEF trackerVars
  <2>2. TypeInv'
    BY <1>1, <1>2, <2>1 DEF IndInv, TypeInv
  <2>3. WatchInv'
    BY <2>1 DEF IndInv, WatchInv
  <2>4. CallInv' /\ FreshInv'
    BY <1>1, <1>2, <1>4, <2>1 DEF CallInv, FreshInv
  <2>5. QED
    BY <2>2, <2>3, <2>4 DEF IndInv
<1>5. CASE Stop /\ tracking' = FALSE
  <2>1. TypeInv'
    BY <1>1, <1>2, <1>5 DEF IndInv, TypeInv, Stop
  <2>2. WatchInv'
    BY <1>5 DEF WatchInv, Stop
  <2>3. CallInv' /\ FreshInv'
    BY <1>1, <1>2, <1>5 DEF CallInv, FreshInv
  <2>4. QED
    BY <2>1, <2>2, <2>3 DEF IndInv
<1>6. QED
  BY <1>3, <1>4, <1>5 DEF FinishRebuild

-------------------------------------------------------------------------------
(* Every step keeps the invariant.                                         *)
LEMMA NextIndInv == ASSUME IndInv, [Next]_vars PROVE IndInv'
<1>1. ASSUME NEW f \in Files, Write(f) PROVE IndInv'
  BY <1>1, WriteIndInv
<1>2. ASSUME NEW d \in Dirs, Worker(d) PROVE IndInv'
  BY <1>2, CompleteIndInv, AbandonIndInv, ArmIndInv, ConsumeIndInv DEF Worker
<1>3. CASE Build
  BY <1>3, AcquireIndInv, CommitIndInv, FinishLoadIndInv, FinishRebuildIndInv DEF Build
<1>4. CASE UNCHANGED vars
  <2>1. /\ UNCHANGED <<running, tracked, watch, queue, overflowed, buffer, pending,
                       rescan, projectChanged, disk, gap, gstate, known, committed, op>>
        /\ UNCHANGED <<configured, cacheComplete, tracking, attached>>
    BY <1>4 DEF vars, trackerVars, contextVars
  <2>2. \A s \in Sources : Signalled(s)' <=> Signalled(s)
    BY <2>1 DEF Signalled
  <2>3. TypeInv' /\ WatchInv'
    BY <2>1 DEF IndInv, TypeInv, WatchInv
  <2>4. QED
    BY <2>1, <2>2, <2>3, SignsKept DEF IndInv, contextVars
<1>5. QED
  BY <1>1, <1>2, <1>3, <1>4, ForgetIndInv, LoadProjectIndInv, BuildFailsIndInv,
     RebuildSourcesIndInv DEF Next

(* Between and during all calls, whatever fails: the Runtime is attached   *)
(* only to a valid Graph that no call replaces, the Graph Manager builds   *)
(* exactly while a build runs, and tracking that is on covers every        *)
(* Source.                                                                 *)
THEOREM ContextAlwaysSound == Spec => []ContextSound
<1>1. Init => IndInv
  BY InitIndInv
<1>2. IndInv /\ [Next]_vars => IndInv'
  BY NextIndInv
<1>3. IndInv => ContextSound
  <2> SUFFICES ASSUME IndInv PROVE ContextSound
    OBVIOUS
  <2>1. TypeOK
    <3>1. (gstate = "building") = (op.kind \in {"load", "rebuild"})
      BY DEF IndInv, CallInv
    <3>2. QED
      BY <3>1 DEF IndInv, TypeInv, TypeOK, TrackerTypeOK, OpType, Kinds
  <2>2. AttachedOnlyToValid
    BY DEF AttachedOnlyToValid, IndInv, CallInv
  <2>3. TrackingCoversSources
    BY DEF TrackingCoversSources, Covered, IndInv, CallInv, WatchInv
  <2>4. QED
    BY <2>1, <2>2, <2>3 DEF ContextSound
<1>4. QED
  BY <1>1, <1>2, <1>3, PTL DEF Spec

(* No change of a watched Source is ever lost, through batches, overflows, *)
(* allocation failures, failed builds and edits during a build: when       *)
(* nothing is on its way any more, the Graph holds it.                     *)
THEOREM WatchedChangesAlwaysReachGraph == Spec => []WatchedChangesReachGraph
<1>1. Init => IndInv
  BY InitIndInv
<1>2. IndInv /\ [Next]_vars => IndInv'
  BY NextIndInv
<1>3. IndInv => WatchedChangesReachGraph
  <2> SUFFICES ASSUME IndInv, Quiet, NEW s \in known \ gap, watch[DirOf[s]] # "dead"
               PROVE  UpToDate(s)
    BY DEF WatchedChangesReachGraph
  <2>1. committed[s] = disk[s] \/ Signalled(s)
    BY DEF IndInv, FreshInv, Quiet
  <2>2. DirOf[s] \in Dirs
    BY FileFacts DEF IndInv, TypeInv
  <2>3. ~Signalled(s)
    BY <2>2 DEF Signalled, Quiet
  <2>4. QED
    BY <2>1, <2>3 DEF UpToDate
<1>4. QED
  BY <1>1, <1>2, <1>3, PTL DEF Spec
===============================================================================
