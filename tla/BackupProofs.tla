---------------------------- MODULE BackupProofs ----------------------------
(***************************************************************************)
(* Theorems about Backup, for any finite number of processes, any number   *)
(* of instances, and any limit on the backups that are kept.               *)
(***************************************************************************)
EXTENDS Backup, FiniteSetTheorems, TLAPS

-----------------------------------------------------------------------------
(* Types.                                                                  *)

\* A run that has begun has a second and an instance.
Begun(p) == pc[p] # "idle" => stamp[p] \in Seconds /\ job[p] \in 1 .. Instances

Typed ==
    /\ TypeOK
    /\ now \in Seconds
    /\ \A p \in Procs : Begun(p)

LEMMA Constants ==
    /\ IsFiniteSet(Procs)
    /\ Instances \in Nat /\ Instances > 0
    /\ MaxBackups \in Nat /\ MaxBackups > 0
    /\ Horizon \in Nat /\ Horizon > 0
    /\ None \notin Nat /\ None \notin Seconds /\ None \notin Files
    /\ Seconds \subseteq Nat
BY BackupAssumption, NoneAssumption DEF Seconds, Files

LEMMA FilesAreFinite == IsFiniteSet(Files)
<1>1. IsFiniteSet(1 .. Instances)
  BY Constants, FS_Interval
<1> QED BY <1>1, Constants, FS_Product DEF Files

LEMMA RunIsAFile ==
    ASSUME NEW p \in Procs, job[p] \in 1 .. Instances
    PROVE  Run(p) \in Files
BY DEF Run, Files

LEMMA InitTyped == Init => Typed
<1> SUFFICES ASSUME Init PROVE Typed
  OBVIOUS
<1>1. 1 \in Seconds /\ 1 \in 1 .. Instances + 1
  BY Constants DEF Seconds
<1> QED BY <1>1 DEF Init, Typed, TypeOK, Begun, Points, Seconds

\* The next instance, if any.
LEMMA NextInstanceTyped ==
    ASSUME Typed, NEW p \in Procs, job[p] \in 1 .. Instances, NextInstance(p),
           stamp' = stamp
    PROVE  /\ pc' \in [Procs -> Points]
           /\ job' \in [Procs -> 1 .. Instances + 1]
           /\ off' \in [Procs -> BOOLEAN]
           /\ \A q \in Procs : Begun(q)'
<1>1. job[p] + 1 \in 1 .. Instances + 1
  BY Constants
<1>2. /\ pc' = [pc EXCEPT ![p] = "idle"]
      /\ job' = [job EXCEPT ![p] = job[p] + 1]
      /\ off' = [off EXCEPT ![p] = FALSE]
  BY DEF NextInstance, Goto
<1>3. /\ pc \in [Procs -> Points]
      /\ job \in [Procs -> 1 .. Instances + 1]
      /\ off \in [Procs -> BOOLEAN]
  BY DEF Typed, TypeOK
<1>4. pc' \in [Procs -> Points]
  BY <1>2, <1>3 DEF Points
<1>5. job' \in [Procs -> 1 .. Instances + 1]
  BY <1>1, <1>2, <1>3
<1>6. off' \in [Procs -> BOOLEAN]
  BY <1>2, <1>3
<1>7. \A q \in Procs : Begun(q)'
  BY <1>2, <1>3 DEF Typed, Begun
<1> QED BY <1>4, <1>5, <1>6, <1>7

LEMMA NextTyped == Typed /\ [Next]_vars => Typed'
<1> SUFFICES ASSUME Typed, [Next]_vars PROVE Typed'
  OBVIOUS
<1> USE DEF Typed, TypeOK
<1>1. ASSUME NEW p \in Procs, Begin(p) PROVE Typed'
  <2>1. job[p] \in 1 .. Instances
    BY <1>1, Constants DEF Begin
  <2> QED BY <1>1, <2>1 DEF Begin, Goto, Points, Begun, server, disk
<1>2. ASSUME NEW p \in Procs, BeginNothing(p) PROVE Typed'
  <2>1. job[p] \in 1 .. Instances
    BY <1>2, Constants DEF BeginNothing
  <2> QED BY <1>2, <2>1, NextInstanceTyped DEF BeginNothing, server, disk
<1>3. ASSUME NEW p \in Procs, SaveOff(p) PROVE Typed'
  BY <1>3 DEF SaveOff, Goto, Points, Begun, disk
<1>4. ASSUME NEW p \in Procs, CreateTmp(p) PROVE Typed'
  <2>1. stamp[p] \in Seconds /\ Run(p) \in Files
    BY <1>4, RunIsAFile DEF CreateTmp, Begun
  <2>2. tmp[stamp[p]] # None => tmp[stamp[p]] \in Files
    BY <2>1
  <2> QED BY <1>4, <2>1, <2>2 DEF CreateTmp, Goto, Points, Begun, server
<1>5. ASSUME NEW p \in Procs, FinishZip(p) PROVE Typed'
  <2>1. Run(p) \in Files
    BY <1>5, RunIsAFile DEF FinishZip, Begun
  <2> DEFINE n == 1 + Cardinality({f \in Files : mtime[f] > 0})
  <2>2. n \in Nat
    <3>1. IsFiniteSet({f \in Files : mtime[f] > 0})
      BY FilesAreFinite, FS_Subset
    <3> QED BY <3>1, FS_CardinalityType
  <2>3. /\ bytes' = [bytes EXCEPT ![handle[p]] = @ \union {Run(p)}]
        /\ mtime' = [mtime EXCEPT ![handle[p]] = n]
    BY <1>5 DEF FinishZip
  <2> HIDE DEF n
  <2>4. bytes' \in [Files -> SUBSET Files] /\ mtime' \in [Files -> Nat]
    BY <2>1, <2>2, <2>3
  <2> QED BY <1>5, <2>4 DEF FinishZip, Goto, Points, Begun, server
<1>6. ASSUME NEW p \in Procs, Rename(p) PROVE Typed'
  <2>1. stamp[p] \in Seconds
    BY <1>6 DEF Rename, Begun
  <2>2. tmp[stamp[p]] \in Files
    BY <1>6, <2>1 DEF Rename
  <2> QED BY <1>6, <2>1, <2>2 DEF Rename, Goto, Points, Begun, server
<1>7. ASSUME NEW p \in Procs, WriteFails(p) PROVE Typed'
  <2>1. Run(p) \in Files
    BY <1>7, RunIsAFile DEF WriteFails, Begun
  <2>2. tmp' \in [Seconds -> Files \union {None}] /\ failed' \subseteq Files
    BY <1>7, <2>1 DEF WriteFails
  <2> QED BY <1>7, <2>2 DEF WriteFails, Goto, Points, Begun, server
<1>8. ASSUME NEW p \in Procs, Glob(p) PROVE Typed'
  <2>1. {f \in OnDisk : Cardinality(Newer(f, OnDisk)) >= MaxBackups} \in SUBSET Files
    BY DEF OnDisk
  <2> QED BY <1>8, <2>1 DEF Glob, Goto, Points, Begun, server, disk
<1>9. ASSUME NEW p \in Procs, RemoveOld(p) PROVE Typed'
  BY <1>9 DEF RemoveOld, Begun, server
<1>10. ASSUME NEW p \in Procs, RotateEnds(p) PROVE Typed'
  BY <1>10 DEF RotateEnds, Goto, Points, Begun, server, disk
<1>11. ASSUME NEW p \in Procs, SaveOn(p) PROVE Typed'
  <2>1. job[p] \in 1 .. Instances
    BY <1>11 DEF SaveOn, Begun
  <2>2. /\ pc' \in [Procs -> Points]
        /\ job' \in [Procs -> 1 .. Instances + 1]
        /\ off' \in [Procs -> BOOLEAN]
        /\ \A q \in Procs : Begun(q)'
    BY <1>11, <2>1, NextInstanceTyped DEF SaveOn
  <2>3. autosave' \in [1 .. Instances -> BOOLEAN] /\ warned' \subseteq 1 .. Instances
    BY <1>11, <2>1 DEF SaveOn
  <2> QED BY <1>11, <2>2, <2>3 DEF SaveOn, disk
<1>12. ASSUME NEW p \in Procs, Finish(p) PROVE Typed'
  <2>1. job[p] \in 1 .. Instances
    BY <1>12 DEF Finish, Begun
  <2> QED BY <1>12, <2>1, NextInstanceTyped DEF Finish, server, disk
<1>13. ASSUME NEW p \in Procs, Crash(p) PROVE Typed'
  BY <1>13 DEF Crash, Goto, Points, Begun, server
<1>14. CASE Clock
  <2>1. now' \in Seconds
    BY <1>14, Constants DEF Clock, Seconds
  <2> QED BY <1>14, <2>1, Constants DEF Clock, Begun, process, server, disk
<1>15. CASE UNCHANGED vars
  BY <1>15 DEF vars, Begun, process, server, disk
<1> QED
  BY <1>1, <1>2, <1>3, <1>4, <1>5, <1>6, <1>7, <1>8, <1>9, <1>10, <1>11, <1>12,
     <1>13, <1>14, <1>15 DEF Next, Process

\* Every process is somewhere in runAt, with the second, instance and files
\* the model allows it.
THEOREM TypeCorrect == Spec => []TypeOK
<1>1. Init => Typed
  BY InitTyped
<1>2. Typed /\ [Next]_vars => Typed'
  BY NextTyped
<1>3. Typed => TypeOK
  BY DEF Typed
<1> QED BY <1>1, <1>2, <1>3, PTL DEF Spec

-----------------------------------------------------------------------------
(* Autosave.                                                               *)

\* A run has nothing to undo before its save-off.
Nothing(p) == pc[p] \in {"idle", "saveoff"} => ~off[p]

Undoing ==
    /\ \A p \in Procs : Nothing(p)
    /\ AutosaveRestored

LEMMA NextUndoing ==
    ASSUME ~RepliesLost
    PROVE  Typed /\ Undoing /\ [Next]_vars => Undoing'
<1> SUFFICES ASSUME Typed, Undoing, [Next]_vars PROVE Undoing'
  OBVIOUS
<1>0. /\ pc \in [Procs -> Points]
      /\ job \in [Procs -> 1 .. Instances + 1]
      /\ off \in [Procs -> BOOLEAN]
      /\ autosave \in [1 .. Instances -> BOOLEAN]
      /\ \A p \in Procs : Nothing(p)
      /\ \A i \in 1 .. Instances :
            autosave[i] \/ i \in warned \/ \E p \in Procs : job[p] = i /\ off[p]
  BY DEF Typed, TypeOK, Undoing, AutosaveRestored
\* A step that moves a process on, and leaves its server and its duty alone.
<1>1. ASSUME NEW p \in Procs, pc[p] # "idle",
             \E point \in Points \ {"idle", "saveoff"} : pc' = [pc EXCEPT ![p] = point],
             UNCHANGED <<job, off, autosave, warned>>
      PROVE  Undoing'
  BY <1>0, <1>1 DEF Undoing, Nothing, AutosaveRestored
\* A run that ends with nothing to undo.
<1>2. ASSUME NEW p \in Procs, ~off[p], NextInstance(p), UNCHANGED <<autosave, warned>>
      PROVE  Undoing'
  <2>1. /\ pc' = [pc EXCEPT ![p] = "idle"]
        /\ job' = [job EXCEPT ![p] = job[p] + 1]
        /\ off' = [off EXCEPT ![p] = FALSE]
    BY <1>2 DEF NextInstance, Goto
  <2>2. \A q \in Procs : Nothing(q)'
    BY <1>0, <2>1 DEF Nothing
  <2>3. ASSUME NEW i \in 1 .. Instances
        PROVE  autosave'[i] \/ i \in warned' \/ \E q \in Procs : job'[q] = i /\ off'[q]
    <3>1. CASE \E q \in Procs : job[q] = i /\ off[q]
      <4>1. PICK q \in Procs : job[q] = i /\ off[q]
        BY <3>1
      <4>2. q # p
        BY <1>2, <4>1
      <4> QED BY <1>0, <2>1, <4>1, <4>2
    <3> QED BY <1>0, <1>2, <3>1
  <2> QED BY <2>2, <2>3 DEF Undoing, AutosaveRestored
<1>3. ASSUME NEW p \in Procs, Begin(p) PROVE Undoing'
  <2>1. /\ pc' = [pc EXCEPT ![p] = "saveoff"] /\ pc[p] = "idle"
        /\ UNCHANGED <<job, off, autosave, warned>>
    BY <1>3 DEF Begin, Goto, server
  <2> QED BY <1>0, <2>1 DEF Undoing, Nothing, AutosaveRestored
<1>4. ASSUME NEW p \in Procs, BeginNothing(p) PROVE Undoing'
  BY <1>0, <1>2, <1>4 DEF BeginNothing, Nothing, server
<1>5. ASSUME NEW p \in Procs, SaveOff(p) PROVE Undoing'
  <2>1. PICK sent \in BOOLEAN, replied \in BOOLEAN :
           /\ replied => sent
           /\ sent => replied
           /\ off' = [off EXCEPT ![p] = replied]
           /\ autosave' = [autosave EXCEPT ![job[p]] = IF sent THEN FALSE ELSE @]
    BY <1>5 DEF SaveOff
  <2>2. /\ pc' = [pc EXCEPT ![p] = "create"] /\ job' = job /\ warned' = warned
        /\ ~off[p]
    BY <1>0, <1>5 DEF SaveOff, Goto, Nothing
  <2>3. \A q \in Procs : Nothing(q)'
    BY <1>0, <2>1, <2>2 DEF Nothing
  <2>4. ASSUME NEW i \in 1 .. Instances
        PROVE  autosave'[i] \/ i \in warned' \/ \E q \in Procs : job'[q] = i /\ off'[q]
    <3>1. CASE sent /\ i = job[p]
      <4>1. off'[p] /\ job'[p] = i
        BY <1>0, <2>1, <2>2, <3>1
      <4> QED BY <4>1
    <3>2. CASE ~(sent /\ i = job[p])
      <4>1. autosave'[i] = autosave[i]
        BY <1>0, <2>1, <3>2
      <4>2. \A q \in Procs : off[q] => off'[q]
        BY <1>0, <2>1, <2>2
      <4> QED BY <1>0, <2>2, <4>1, <4>2
    <3> QED BY <3>1, <3>2
  <2> QED BY <2>3, <2>4 DEF Undoing, AutosaveRestored
<1>6. ASSUME NEW p \in Procs,
             CreateTmp(p) \/ FinishZip(p) \/ Rename(p) \/ WriteFails(p) \/ Glob(p)
                \/ RotateEnds(p) \/ Crash(p)
      PROVE  Undoing'
  <2>1. /\ pc[p] # "idle"
        /\ \E point \in Points \ {"idle", "saveoff"} : pc' = [pc EXCEPT ![p] = point]
        /\ UNCHANGED <<job, off, autosave, warned>>
    BY <1>6 DEF CreateTmp, FinishZip, Rename, WriteFails, Glob, RotateEnds, Crash,
                Goto, Points, server, disk
  <2> QED BY <1>1, <2>1
<1>7. ASSUME NEW p \in Procs, RemoveOld(p) PROVE Undoing'
  BY <1>0, <1>7 DEF RemoveOld, server, Undoing, Nothing, AutosaveRestored
<1>8. ASSUME NEW p \in Procs, SaveOn(p) PROVE Undoing'
  <2>1. PICK sent \in BOOLEAN, replied \in BOOLEAN :
           /\ replied => sent
           /\ autosave' = [autosave EXCEPT ![job[p]] = IF sent THEN TRUE ELSE @]
           /\ warned' = IF replied THEN warned ELSE warned \union {job[p]}
    BY <1>8 DEF SaveOn
  <2>2. /\ pc' = [pc EXCEPT ![p] = "idle"]
        /\ job' = [job EXCEPT ![p] = job[p] + 1]
        /\ off' = [off EXCEPT ![p] = FALSE]
    BY <1>8 DEF SaveOn, NextInstance, Goto
  <2>3. \A q \in Procs : Nothing(q)'
    BY <1>0, <2>2 DEF Nothing
  <2>4. ASSUME NEW i \in 1 .. Instances
        PROVE  autosave'[i] \/ i \in warned' \/ \E q \in Procs : job'[q] = i /\ off'[q]
    <3>1. CASE i = job[p]
      <4>1. replied => autosave'[i]
        BY <1>0, <2>1, <3>1
      <4>2. ~replied => i \in warned'
        BY <2>1, <3>1
      <4> QED BY <4>1, <4>2
    <3>2. CASE i # job[p]
      <4>1. autosave'[i] = autosave[i] /\ (i \in warned => i \in warned')
        BY <1>0, <2>1, <3>2
      <4>2. \A q \in Procs : job[q] = i /\ off[q] => job'[q] = i /\ off'[q]
        BY <1>0, <2>2, <3>2
      <4> QED BY <1>0, <4>1, <4>2
    <3> QED BY <3>1, <3>2
  <2> QED BY <2>3, <2>4 DEF Undoing, AutosaveRestored
<1>9. ASSUME NEW p \in Procs, Finish(p) PROVE Undoing'
  BY <1>2, <1>9 DEF Finish, server
<1>10. CASE Clock \/ UNCHANGED vars
  BY <1>0, <1>10 DEF Clock, vars, process, server, Undoing, Nothing, AutosaveRestored
<1> QED
  BY <1>3, <1>4, <1>5, <1>6, <1>7, <1>8, <1>9, <1>10 DEF Next, Process

\* trySaveOff and trySaveOn: whatever fails and whoever is killed, autosave is
\* off only while somebody will turn it on again, after a kill, or with a
\* warning in the log -- unless a command can be carried out and its reply be
\* lost.
THEOREM AutosaveComesBack ==
    ASSUME ~RepliesLost
    PROVE  Spec => []AutosaveRestored
<1>1. Init => Typed /\ Undoing
  BY InitTyped DEF Init, Undoing, Nothing, AutosaveRestored
<1>2. Typed /\ Undoing /\ [Next]_vars => Typed' /\ Undoing'
  BY NextTyped, NextUndoing
<1>3. Undoing => AutosaveRestored
  BY DEF Undoing
<1> QED BY <1>1, <1>2, <1>3, PTL DEF Spec

-----------------------------------------------------------------------------
(* Temporary files.                                                        *)

\* A run that has not yet got to creating its temporary file has none.
Fresh(p) ==
    \A s \in Seconds, i \in 1 .. Instances :
        tmp[s] = <<p, i>> =>
            \/ i < job[p]
            \/ i = job[p] /\ pc[p] \notin {"idle", "saveoff", "create"}

\* No file has two temporary names.
OneName == \A s, t \in Seconds : tmp[s] = tmp[t] /\ tmp[s] # None => s = t

\* The run <<p, i>> is still at the temporary file of second s, was killed, or
\* is reported as failed.
Accounted(p, i, s) ==
    \/ <<p, i>> \in failed
    \/ job[p] = i /\ stamp[p] = s /\ pc[p] \in {"zip", "rename", "crashed"}

Leftovers ==
    /\ \A p \in Procs : Fresh(p)
    /\ OneName
    /\ LeftoverIsTold

\* A step that neither adds a temporary file nor takes the output of a run out
\* of one, and goes on with no run that somebody has to account for.
LEMMA LeftoversStay ==
    ASSUME Typed, Leftovers, NEW p \in Procs,
           \A s \in Seconds : tmp'[s] \in {tmp[s], None},
           \A f \in Files : bytes[f] \subseteq bytes'[f],
           \A q \in Procs \ {p} : job'[q] = job[q] /\ stamp'[q] = stamp[q] /\ pc'[q] = pc[q],
           \/ job'[p] = job[p] + 1
           \/ /\ job'[p] = job[p]
              /\ \/ pc[p] \in {"idle", "saveoff", "create"}
                 \/ pc'[p] \notin {"idle", "saveoff", "create"},
           failed \subseteq failed',
           \A s \in Seconds, i \in 1 .. Instances :
               Accounted(p, i, s) /\ tmp'[s] # None => Accounted(p, i, s)'
    PROVE  Leftovers'
<1>0. /\ tmp \in [Seconds -> Files \union {None}]
      /\ job \in [Procs -> 1 .. Instances + 1]
      /\ Instances \in Nat
      /\ None \notin Files
      /\ \A q \in Procs : Fresh(q)
      /\ OneName /\ LeftoverIsTold
  BY Constants DEF Typed, TypeOK, Leftovers
<1>1. ASSUME NEW q \in Procs PROVE Fresh(q)'
  <2> SUFFICES ASSUME NEW s \in Seconds, NEW i \in 1 .. Instances, tmp'[s] = <<q, i>>
               PROVE  \/ i < job'[q]
                      \/ i = job'[q] /\ pc'[q] \notin {"idle", "saveoff", "create"}
    BY DEF Fresh
  <2>1. tmp[s] = <<q, i>>
    BY <1>0 DEF Files
  <2>2. \/ i < job[q]
        \/ i = job[q] /\ pc[q] \notin {"idle", "saveoff", "create"}
    BY <1>0, <2>1 DEF Fresh
  <2>3. job[q] \in Int /\ i \in Int
    BY <1>0
  <2>4. CASE q # p
    BY <2>2, <2>4
  <2>5. CASE q = p
    BY <2>2, <2>3, <2>5
  <2> QED BY <2>4, <2>5
<1>2. OneName'
  BY <1>0 DEF OneName
<1>3. LeftoverIsTold'
  <2> SUFFICES ASSUME NEW s \in Seconds, tmp'[s] # None
               PROVE  \E q \in Procs, i \in 1 .. Instances :
                         <<q, i>> \in bytes'[tmp'[s]] /\ Accounted(q, i, s)'
    BY DEF LeftoverIsTold, Accounted
  <2>1. tmp'[s] = tmp[s] /\ tmp[s] \in Files
    BY <1>0
  <2>2. PICK q \in Procs, i \in 1 .. Instances :
           <<q, i>> \in bytes[tmp[s]] /\ Accounted(q, i, s)
    BY <1>0, <2>1 DEF LeftoverIsTold, Accounted
  <2>3. <<q, i>> \in bytes'[tmp'[s]]
    BY <2>1, <2>2
  <2>4. Accounted(q, i, s)'
    <3>1. CASE q # p
      BY <2>2, <3>1 DEF Accounted
    <3>2. CASE q = p
      BY <2>2, <3>2
    <3> QED BY <3>1, <3>2
  <2> QED BY <2>3, <2>4
<1> QED BY <1>1, <1>2, <1>3 DEF Leftovers

\* A file that is created is the only one of its name and its run, and one
\* that is truncated has all of its run's output.
LEMMA CreateLeavesNone ==
    ASSUME Typed, Leftovers, NEW p \in Procs, CreateTmp(p)
    PROVE  Leftovers'
<1> DEFINE there == tmp[stamp[p]]
           file == IF there = None THEN Run(p) ELSE there
<1>0. /\ tmp \in [Seconds -> Files \union {None}]
      /\ bytes \in [Files -> SUBSET Files]
      /\ job \in [Procs -> 1 .. Instances + 1]
      /\ pc \in [Procs -> Points]
      /\ Instances \in Nat
      /\ None \notin Files
      /\ \A q \in Procs : Fresh(q)
      /\ OneName /\ LeftoverIsTold
  BY Constants DEF Typed, TypeOK, Leftovers
<1>1. pc[p] = "create" /\ stamp[p] \in Seconds /\ job[p] \in 1 .. Instances /\ Run(p) \in Files
  BY RunIsAFile DEF CreateTmp, Typed, Begun
<1>2. file \in Files
  BY <1>0, <1>1
<1>3. /\ tmp' = [tmp EXCEPT ![stamp[p]] = file]
      /\ bytes' = [bytes EXCEPT ![file] = {Run(p)}]
      /\ pc' = [pc EXCEPT ![p] = "zip"]
      /\ job' = job /\ stamp' = stamp /\ failed' = failed
  BY DEF CreateTmp, Goto
\* No other name is that of this file.
<1>4. \A s \in Seconds : s # stamp[p] => tmp[s] # file
  <2> SUFFICES ASSUME NEW s \in Seconds, s # stamp[p], tmp[s] = file PROVE FALSE
    OBVIOUS
  <2>1. CASE there = None
    <3>1. tmp[s] = <<p, job[p]>>
      BY <2>1 DEF Run
    <3>2. job[p] < job[p] \/ pc[p] \notin {"idle", "saveoff", "create"}
      BY <1>0, <1>1, <3>1 DEF Fresh
    <3>3. job[p] \in Int
      BY <1>1
    <3> QED BY <1>1, <3>2, <3>3
  <2>2. CASE there # None
    BY <1>0, <1>1, <2>2 DEF OneName
  <2> QED BY <2>1, <2>2
<1> HIDE DEF file, there
<1>5. \A s \in Seconds : tmp'[s] = IF s = stamp[p] THEN file ELSE tmp[s]
  BY <1>0, <1>3
<1>6. \A q \in Procs : pc'[q] = IF q = p THEN "zip" ELSE pc[q]
  BY <1>0, <1>3
<1>7. OneName'
  BY <1>0, <1>1, <1>2, <1>4, <1>5 DEF OneName
<1>8. ASSUME NEW q \in Procs PROVE Fresh(q)'
  <2> SUFFICES ASSUME NEW s \in Seconds, NEW i \in 1 .. Instances, tmp'[s] = <<q, i>>
               PROVE  \/ i < job[q]
                      \/ i = job[q] /\ pc'[q] \notin {"idle", "saveoff", "create"}
    BY <1>3 DEF Fresh
  <2>1. CASE tmp[s] = <<q, i>>
    BY <1>0, <1>6, <2>1 DEF Fresh
  <2>2. CASE tmp[s] # <<q, i>>
    <3>1. <<q, i>> = Run(p)
      BY <1>1, <1>5, <2>2 DEF file, there
    <3>2. q = p /\ i = job[p]
      BY <3>1 DEF Run
    <3> QED BY <1>6, <3>2
  <2> QED BY <2>1, <2>2
<1>9. LeftoverIsTold'
  <2> SUFFICES ASSUME NEW s \in Seconds, tmp'[s] # None
               PROVE  \E q \in Procs, i \in 1 .. Instances :
                         <<q, i>> \in bytes'[tmp'[s]] /\ Accounted(q, i, s)'
    BY DEF LeftoverIsTold, Accounted
  <2>1. CASE s = stamp[p]
    <3>1. bytes'[tmp'[s]] = {Run(p)}
      BY <1>0, <1>1, <1>2, <1>3, <1>5, <2>1
    <3>2. PICK i \in 1 .. Instances : i = job[p]
      BY <1>1
    <3>3. <<p, i>> \in bytes'[tmp'[s]]
      BY <3>1, <3>2 DEF Run
    <3>4. Accounted(p, i, s)'
      BY <1>3, <1>6, <2>1, <3>2 DEF Accounted
    <3> QED BY <3>3, <3>4
  <2>2. CASE s # stamp[p]
    <3>1. tmp'[s] = tmp[s] /\ tmp[s] \in Files /\ tmp[s] # file
      BY <1>0, <1>4, <1>5, <2>2
    <3>2. bytes'[tmp'[s]] = bytes[tmp[s]]
      BY <1>0, <1>3, <3>1
    <3>3. PICK q \in Procs, i \in 1 .. Instances :
             <<q, i>> \in bytes[tmp[s]] /\ Accounted(q, i, s)
      BY <1>0, <3>1 DEF LeftoverIsTold, Accounted
    <3>4. Accounted(q, i, s)'
      BY <1>1, <1>3, <1>6, <3>3 DEF Accounted
    <3> QED BY <3>2, <3>3, <3>4
  <2> QED BY <2>1, <2>2
<1> QED BY <1>7, <1>8, <1>9 DEF Leftovers

LEMMA NextLeftovers == Typed /\ Leftovers /\ [Next]_vars => Leftovers'
<1> SUFFICES ASSUME Typed, Leftovers, [Next]_vars PROVE Leftovers'
  OBVIOUS
<1>0. /\ pc \in [Procs -> Points]
      /\ job \in [Procs -> 1 .. Instances + 1]
      /\ stamp \in [Procs -> Seconds \union {None}]
      /\ tmp \in [Seconds -> Files \union {None}]
      /\ bytes \in [Files -> SUBSET Files]
      /\ \A p \in Procs : pc[p] # "idle" => stamp[p] \in Seconds
  BY DEF Typed, TypeOK, Begun
<1> DEFINE Early == {"idle", "saveoff", "create"}
           At == {"zip", "rename", "crashed"}
<1>1. ASSUME NEW p \in Procs, Begin(p) \/ SaveOff(p) \/ Glob(p) \/ RemoveOld(p) \/ RotateEnds(p)
      PROVE  Leftovers'
  <2>1. /\ tmp' = tmp /\ bytes' = bytes /\ job' = job /\ failed' = failed
        /\ pc[p] \notin At
        /\ pc[p] \notin Early => pc'[p] \notin Early
        /\ \A q \in Procs \ {p} : stamp'[q] = stamp[q] /\ pc'[q] = pc[q]
    BY <1>0, <1>1 DEF Begin, SaveOff, Glob, RemoveOld, RotateEnds, Goto, disk
  <2>2. \A s \in Seconds, i \in 1 .. Instances : Accounted(p, i, s) => Accounted(p, i, s)'
    BY <2>1 DEF Accounted
  <2> QED BY <2>1, <2>2, LeftoversStay
<1>2. ASSUME NEW p \in Procs, BeginNothing(p) \/ SaveOn(p) \/ Finish(p)
      PROVE  Leftovers'
  <2>1. /\ tmp' = tmp /\ bytes' = bytes /\ stamp' = stamp /\ failed' = failed
        /\ pc[p] \notin At
        /\ job'[p] = job[p] + 1
        /\ \A q \in Procs \ {p} : job'[q] = job[q] /\ pc'[q] = pc[q]
    BY <1>0, <1>2 DEF BeginNothing, SaveOn, Finish, NextInstance, Goto, disk
  <2>2. \A s \in Seconds, i \in 1 .. Instances : Accounted(p, i, s) => Accounted(p, i, s)'
    BY <2>1 DEF Accounted
  <2> QED BY <2>1, <2>2, LeftoversStay
<1>3. ASSUME NEW p \in Procs, FinishZip(p) \/ Crash(p)
      PROVE  Leftovers'
  <2>1. /\ tmp' = tmp /\ job' = job /\ stamp' = stamp /\ failed' = failed
        /\ pc'[p] \in At
        /\ \A q \in Procs \ {p} : pc'[q] = pc[q]
    BY <1>0, <1>3 DEF FinishZip, Crash, Goto
  <2>2. \A f \in Files : bytes[f] \subseteq bytes'[f]
    BY <1>0, <1>3 DEF FinishZip, Crash
  <2>3. \A s \in Seconds, i \in 1 .. Instances : Accounted(p, i, s) => Accounted(p, i, s)'
    BY <2>1 DEF Accounted
  <2> QED BY <2>1, <2>2, <2>3, LeftoversStay
<1>4. ASSUME NEW p \in Procs, Rename(p) PROVE Leftovers'
  <2>1. /\ tmp' = [tmp EXCEPT ![stamp[p]] = None]
        /\ bytes' = bytes /\ job' = job /\ stamp' = stamp /\ failed' = failed
        /\ pc'[p] = "glob"
        /\ \A q \in Procs \ {p} : pc'[q] = pc[q]
    BY <1>0, <1>4 DEF Rename, Goto
  <2>2. \A s \in Seconds : tmp'[s] = IF s = stamp[p] THEN None ELSE tmp[s]
    BY <1>0, <2>1
  <2>3. \A s \in Seconds, i \in 1 .. Instances :
            Accounted(p, i, s) /\ tmp'[s] # None => Accounted(p, i, s)'
    BY <2>1, <2>2 DEF Accounted
  <2> QED BY <2>1, <2>2, <2>3, LeftoversStay
<1>5. ASSUME NEW p \in Procs, WriteFails(p) PROVE Leftovers'
  <2>1. /\ bytes' = bytes /\ job' = job /\ stamp' = stamp
        /\ failed' = failed \union {Run(p)}
        /\ pc'[p] = "finish"
        /\ \A q \in Procs \ {p} : pc'[q] = pc[q]
    BY <1>0, <1>5 DEF WriteFails, Goto
  <2>2. \A s \in Seconds : tmp'[s] \in {tmp[s], None}
    BY <1>0, <1>5 DEF WriteFails
  <2>3. \A s \in Seconds, i \in 1 .. Instances : Accounted(p, i, s) => Accounted(p, i, s)'
    BY <2>1 DEF Accounted, Run
  <2> QED BY <2>1, <2>2, <2>3, LeftoversStay
<1>6. CASE Clock \/ UNCHANGED vars
  <2>1. /\ tmp' = tmp /\ bytes' = bytes /\ job' = job /\ stamp' = stamp /\ pc' = pc
        /\ failed' = failed
    BY <1>6 DEF Clock, vars, process, disk
  <2> QED BY <2>1 DEF Leftovers, Fresh, OneName, LeftoverIsTold
<1> QED
  BY <1>1, <1>2, <1>3, <1>4, <1>5, <1>6, CreateLeavesNone DEF Next, Process

\* writeBackupZip and the loop of runBackup: whatever fails, the removal of
\* the temporary file included, and whoever is killed, each temporary file on
\* disk has output of a run that is still at it, was killed, or was reported
\* as failed -- even when two runs share a second and with it its name.
THEOREM LeftoversAreTold == Spec => []LeftoverIsTold
<1>1. Init => Leftovers
  <2> SUFFICES ASSUME Init PROVE Leftovers
    OBVIOUS
  <2>1. \A s \in Seconds : tmp[s] = None
    BY DEF Init
  <2>2. \A p \in Procs, i \in 1 .. Instances : None # <<p, i>>
    BY Constants DEF Files
  <2> QED BY <2>1, <2>2 DEF Leftovers, Fresh, OneName, LeftoverIsTold
<1>2. Leftovers => LeftoverIsTold
  BY DEF Leftovers
<1> QED BY <1>1, <1>2, InitTyped, NextTyped, NextLeftovers, PTL DEF Spec

-----------------------------------------------------------------------------
(* Backups on disk, when no two runs begin within one second.              *)

\* No second is the stamp of two processes, and none is in the future.
Apart ==
    \A p \in Procs :
        stamp[p] # None =>
            /\ stamp[p] <= now
            /\ \A q \in Procs : q # p => stamp[q] # stamp[p]

\* A file in the directory is older than the present second, or its run holds
\* that second.
Dated ==
    \A s \in Seconds :
        zips[s] # None \/ tmp[s] # None => s < now \/ \E p \in Procs : stamp[p] = s

\* Until its rename, a run's final name is free.
NameFree(p) == pc[p] \in {"saveoff", "create", "zip", "rename"} => zips[stamp[p]] = None

\* No temporary file that was left behind has its name, and the one of that
\* name is its own.
OwnTmp(p) ==
    /\ pc[p] \in {"saveoff", "create"} => tmp[stamp[p]] = None
    /\ pc[p] \in {"zip", "rename"} => tmp[stamp[p]] \in {None, Run(p)}

\* The file a process writes, and has written, is its own, with nothing in it
\* but its own output.
OwnFile(p) ==
    /\ handle[p] # None => pc[p] = "zip" /\ handle[p] = Run(p)
    /\ pc[p] = "zip" => handle[p] = Run(p) /\ bytes[Run(p)] = {Run(p)}
    /\ pc[p] = "rename" => bytes[Run(p)] = {Run(p)} /\ mtime[Run(p)] > 0

\* A backup is made once its run is past the rename, and stays what it is.
Made(p, i) ==
    <<p, i>> \in created =>
        /\ i <= job[p]
        /\ i = job[p] => pc[p] \in {"glob", "rotate", "finish", "crashed"}
        /\ bytes[<<p, i>>] = {<<p, i>>}
        /\ mtime[<<p, i>>] > 0

\* What a rotation deletes has enough newer backups, now and ever after.
Outdated(p) ==
    \A f \in doomed[p] : f \in created /\ Cardinality(Newer(f, created)) >= MaxBackups

Directory ==
    /\ Apart
    /\ Dated
    /\ \A p \in Procs : NameFree(p) /\ OwnTmp(p) /\ OwnFile(p) /\ Outdated(p)
    /\ \A p \in Procs, i \in 1 .. Instances : Made(p, i)
    /\ OnDisk \subseteq created
    /\ KeepsNewest

\* Types of the variables that the directory is about.
Shapes ==
    /\ now \in Seconds
    /\ pc \in [Procs -> Points]
    /\ job \in [Procs -> 1 .. Instances + 1]
    /\ stamp \in [Procs -> Seconds \union {None}]
    /\ doomed \in [Procs -> SUBSET Files]
    /\ handle \in [Procs -> Files \union {None}]
    /\ bytes \in [Files -> SUBSET Files]
    /\ mtime \in [Files -> Nat]
    /\ tmp \in [Seconds -> Files \union {None}]
    /\ zips \in [Seconds -> Files \union {None}]
    /\ created \subseteq Files
    /\ \A p \in Procs : pc[p] # "idle" => stamp[p] \in Seconds /\ Run(p) \in Files

LEMMA TypedShapes == Typed => Shapes
BY RunIsAFile DEF Typed, TypeOK, Begun, Shapes

LEMMA NewerIsFinite ==
    ASSUME Shapes, NEW f
    PROVE  IsFiniteSet(Newer(f, created)) /\ Cardinality(Newer(f, created)) \in Nat
<1>1. IsFiniteSet(created)
  BY FilesAreFinite, FS_Subset DEF Shapes
<1>2. Newer(f, created) \subseteq created
  BY DEF Newer
<1>3. IsFiniteSet(Newer(f, created))
  BY <1>1, <1>2, FS_Subset
<1> QED BY <1>3, FS_CardinalityType

\* Of every process but p a step changes nothing.
Others(p) == \A q \in Procs \ {p} : pc'[q] = pc[q] /\ job'[q] = job[q] /\ doomed'[q] = doomed[q]

\* A step of p that leaves the disk and the stamps alone.
LEMMA QuietStep ==
    ASSUME Shapes, Directory, NEW p \in Procs, Others(p), UNCHANGED <<now, stamp, disk>>,
           pc[p] \notin {"zip", "rename"}, pc'[p] \notin {"zip", "rename"},
           pc'[p] \in {"saveoff", "create"} => pc[p] \in {"saveoff", "create"},
           \/ job'[p] = job[p] + 1
           \/ /\ job'[p] = job[p]
              /\ pc[p] \in {"glob", "rotate", "finish"} => pc'[p] \in {"glob", "rotate", "finish"}
              /\ pc[p] # "crashed",
           Outdated(p)'
    PROVE  Directory'
<1>0. /\ handle' = handle /\ bytes' = bytes /\ mtime' = mtime /\ tmp' = tmp
      /\ zips' = zips /\ created' = created /\ now' = now /\ stamp' = stamp
  BY DEF disk
<1>1. Apart' /\ Dated'
  BY <1>0 DEF Directory, Apart, Dated
<1>2. \A f : Newer(f, created)' = Newer(f, created)
  BY <1>0 DEF Newer
<1>3. KeepsNewest' /\ OnDisk' = OnDisk
  BY <1>0, <1>2 DEF Directory, KeepsNewest, OnDisk
<1>4. ASSUME NEW q \in Procs, q # p
      PROVE  NameFree(q)' /\ OwnTmp(q)' /\ OwnFile(q)' /\ Outdated(q)'
  <2>1. pc'[q] = pc[q] /\ Run(q)' = Run(q) /\ doomed'[q] = doomed[q]
    BY <1>4 DEF Others, Run
  <2> QED BY <1>0, <1>2, <2>1 DEF Directory, NameFree, OwnTmp, OwnFile, Outdated
<1>5. NameFree(p)' /\ OwnTmp(p)' /\ OwnFile(p)'
  BY <1>0 DEF Directory, NameFree, OwnTmp, OwnFile
<1>6. ASSUME NEW q \in Procs, NEW i \in 1 .. Instances
      PROVE  Made(q, i)'
  <2> SUFFICES ASSUME <<q, i>> \in created
               PROVE  /\ i <= job'[q]
                      /\ i = job'[q] => pc'[q] \in {"glob", "rotate", "finish", "crashed"}
    BY <1>0 DEF Directory, Made
  <2>1. /\ i <= job[q]
        /\ i = job[q] => pc[q] \in {"glob", "rotate", "finish", "crashed"}
    BY DEF Directory, Made
  <2>2. job[q] \in Nat /\ i \in Nat
    BY Constants DEF Shapes
  <2>3. CASE q # p
    BY <2>1, <2>3 DEF Others
  <2>4. CASE q = p
    BY <2>1, <2>2, <2>4
  <2> QED BY <2>3, <2>4
<1> QED BY <1>0, <1>1, <1>3, <1>4, <1>5, <1>6 DEF Directory

\* A step changes nothing that is said of a process and its files.
Keeps(q) ==
    /\ pc'[q] = pc[q] /\ job'[q] = job[q] /\ stamp'[q] = stamp[q] /\ doomed'[q] = doomed[q]
    /\ handle'[q] = handle[q] /\ bytes'[Run(q)] = bytes[Run(q)] /\ mtime'[Run(q)] = mtime[Run(q)]
    /\ pc[q] # "idle" =>
          tmp'[stamp[q]] = tmp[stamp[q]] /\ zips'[stamp[q]] \in {zips[stamp[q]], None}

LEMMA Kept ==
    ASSUME NEW q \in Procs, Keeps(q), NameFree(q), OwnTmp(q), OwnFile(q)
    PROVE  NameFree(q)' /\ OwnTmp(q)' /\ OwnFile(q)'
<1>1. Run(q)' = Run(q)
  BY DEF Keeps, Run
<1> QED BY <1>1 DEF Keeps, NameFree, OwnTmp, OwnFile

\* Two processes of which one has a second do not have it both.
LEMMA OneStamp ==
    ASSUME Directory, NEW p \in Procs, NEW q \in Procs, q # p, stamp[p] \in Seconds
    PROVE  stamp[q] # stamp[p]
BY Constants DEF Directory, Apart

\* Until the rename, a run's file is not among the backups.
LEMMA NotYetMade ==
    ASSUME Shapes, Directory, NEW p \in Procs, pc[p] \in {"create", "zip", "rename"}
    PROVE  Run(p) \notin created
<1>1. job[p] \in 1 .. Instances
  BY DEF Shapes, Run, Files
<1> QED BY <1>1 DEF Directory, Made, Run

LEMMA BeginStep ==
    ASSUME ~SameSecond, Shapes, Directory, NEW p \in Procs, Begin(p)
    PROVE  Directory'
<1>0. /\ pc[p] = "idle" /\ pc' = [pc EXCEPT ![p] = "saveoff"]
      /\ stamp' = [stamp EXCEPT ![p] = now]
      /\ \A q \in Procs : stamp[q] # now
      /\ now' = now /\ job' = job /\ doomed' = doomed /\ handle' = handle /\ bytes' = bytes
      /\ mtime' = mtime /\ tmp' = tmp /\ zips' = zips /\ created' = created
  BY DEF Begin, Goto, disk
<1>1. now \in Nat /\ \A q \in Procs : q # p => stamp'[q] = stamp[q] /\ pc'[q] = pc[q]
  BY <1>0, Constants DEF Shapes
<1>2. stamp'[p] = now /\ pc'[p] = "saveoff"
  BY <1>0 DEF Shapes
<1>3. Apart'
  BY <1>0, <1>1, <1>2 DEF Directory, Apart
<1>4. Dated'
  <2> SUFFICES ASSUME NEW s \in Seconds, zips[s] # None \/ tmp[s] # None
               PROVE  s < now \/ \E q \in Procs : stamp'[q] = s
    BY <1>0 DEF Dated
  <2>1. CASE s < now
    BY <2>1
  <2>2. CASE \E q \in Procs : stamp[q] = s
    <3>1. PICK q \in Procs : stamp[q] = s
      BY <2>2
    <3>2. CASE q = p
      <4>1. s <= now /\ s # now
        BY <1>0, <3>1, <3>2, Constants DEF Directory, Apart
      <4>2. s \in Nat
        BY Constants
      <4> QED BY <1>1, <4>1, <4>2
    <3>3. CASE q # p
      BY <1>1, <3>1, <3>3
    <3> QED BY <3>2, <3>3
  <2> QED BY <2>1, <2>2 DEF Directory, Dated
<1>5. NameFree(p)' /\ OwnTmp(p)'
  <2>1. ASSUME now \in Seconds, zips[now] # None \/ tmp[now] # None PROVE FALSE
    BY <1>0, <1>1, <2>1 DEF Directory, Dated
  <2>2. now \in Seconds
    BY DEF Shapes
  <2> QED BY <1>0, <1>2, <2>1, <2>2 DEF NameFree, OwnTmp
<1>6. ASSUME NEW q \in Procs, q # p
      PROVE  NameFree(q)' /\ OwnTmp(q)' /\ OwnFile(q)'
  <2>1. Keeps(q)
    BY <1>0, <1>1, <1>6 DEF Keeps
  <2> QED BY <2>1, Kept DEF Directory
<1>7. OwnFile(p)'
  BY <1>0, <1>2 DEF Directory, OwnFile
<1>8. \A f : Newer(f, created)' = Newer(f, created)
  BY <1>0 DEF Newer
<1>9. (\A q \in Procs : Outdated(q)') /\ KeepsNewest' /\ OnDisk' = OnDisk
  BY <1>0, <1>8 DEF Directory, Outdated, KeepsNewest, OnDisk
<1>10. \A q \in Procs, i \in 1 .. Instances : Made(q, i)'
  BY <1>0, <1>1, <1>2 DEF Directory, Made
<1> QED BY <1>0, <1>3, <1>4, <1>5, <1>6, <1>7, <1>9, <1>10 DEF Directory

LEMMA CreateTmpStep ==
    ASSUME Shapes, Directory, NEW p \in Procs, CreateTmp(p)
    PROVE  Directory'
<1>1. stamp[p] \in Seconds /\ Run(p) \in Files /\ pc[p] = "create"
  BY DEF CreateTmp, Shapes
<1>2. tmp[stamp[p]] = None
  BY <1>1 DEF Directory, OwnTmp
<1>3. /\ pc' = [pc EXCEPT ![p] = "zip"]
      /\ tmp' = [tmp EXCEPT ![stamp[p]] = Run(p)]
      /\ handle' = [handle EXCEPT ![p] = Run(p)]
      /\ bytes' = [bytes EXCEPT ![Run(p)] = {Run(p)}]
      /\ now' = now /\ job' = job /\ stamp' = stamp /\ doomed' = doomed
      /\ mtime' = mtime /\ zips' = zips /\ created' = created
  BY <1>2 DEF CreateTmp, Goto
<1>4. Run(p)' = Run(p) /\ Run(p) \notin created
  BY <1>1, <1>3, NotYetMade DEF Run
<1>5. /\ pc'[p] = "zip" /\ tmp'[stamp[p]] = Run(p) /\ handle'[p] = Run(p)
      /\ bytes'[Run(p)] = {Run(p)}
  BY <1>1, <1>3 DEF Shapes
<1>6. NameFree(p)' /\ OwnTmp(p)' /\ OwnFile(p)'
  BY <1>1, <1>3, <1>4, <1>5 DEF Directory, NameFree, OwnTmp, OwnFile
<1>7. ASSUME NEW q \in Procs, q # p
      PROVE  NameFree(q)' /\ OwnTmp(q)' /\ OwnFile(q)'
  <2>1. stamp[q] # stamp[p] /\ Run(q) # Run(p)
    BY <1>1, <1>7, OneStamp DEF Run
  <2>2. Keeps(q)
    BY <1>3, <1>7, <2>1 DEF Keeps, Shapes
  <2> QED BY <2>2, Kept DEF Directory
<1>8. \A f : Newer(f, created)' = Newer(f, created)
  BY <1>3 DEF Newer
<1>9. Apart' /\ Dated' /\ (\A q \in Procs : Outdated(q)') /\ KeepsNewest' /\ OnDisk' = OnDisk
  <2>1. Dated'
    BY <1>1, <1>3 DEF Directory, Dated, Shapes
  <2> QED BY <1>3, <1>8, <2>1 DEF Directory, Apart, Outdated, KeepsNewest, OnDisk
<1>10. ASSUME NEW q \in Procs, NEW i \in 1 .. Instances
       PROVE  Made(q, i)'
  <2> SUFFICES ASSUME <<q, i>> \in created
               PROVE  /\ i <= job[q]
                      /\ i = job[q] => pc'[q] \in {"glob", "rotate", "finish", "crashed"}
                      /\ bytes'[<<q, i>>] = {<<q, i>>}
                      /\ mtime[<<q, i>>] > 0
    BY <1>3 DEF Made
  <2>1. <<q, i>> # Run(p)
    BY <1>4
  <2>2. i = job[q] => q # p
    BY <2>1 DEF Run
  <2> QED BY <1>3, <2>1, <2>2 DEF Directory, Made, Shapes
<1> QED BY <1>3, <1>6, <1>7, <1>9, <1>10 DEF Directory

LEMMA FinishZipStep ==
    ASSUME Shapes, Directory, NEW p \in Procs, FinishZip(p)
    PROVE  Directory'
<1> DEFINE n == 1 + Cardinality({f \in Files : mtime[f] > 0})
<1>1. /\ stamp[p] \in Seconds /\ Run(p) \in Files /\ pc[p] = "zip"
      /\ handle[p] = Run(p) /\ bytes[Run(p)] = {Run(p)}
  BY DEF FinishZip, Shapes, Directory, OwnFile
<1>2. /\ pc' = [pc EXCEPT ![p] = "rename"]
      /\ handle' = [handle EXCEPT ![p] = None]
      /\ bytes' = [bytes EXCEPT ![Run(p)] = {Run(p)}]
      /\ mtime' = [mtime EXCEPT ![Run(p)] = n]
      /\ now' = now /\ job' = job /\ stamp' = stamp /\ doomed' = doomed
      /\ tmp' = tmp /\ zips' = zips /\ created' = created
  BY <1>1 DEF FinishZip, Goto, Shapes
<1>3. n \in Nat /\ n > 0
  <2>1. IsFiniteSet({f \in Files : mtime[f] > 0})
    BY FilesAreFinite, FS_Subset
  <2> QED BY <2>1, FS_CardinalityType
<1> HIDE DEF n
<1>4. Run(p)' = Run(p) /\ Run(p) \notin created
  BY <1>1, <1>2, NotYetMade DEF Run
<1>5. /\ pc'[p] = "rename" /\ handle'[p] = None
      /\ bytes'[Run(p)] = {Run(p)} /\ mtime'[Run(p)] > 0
  BY <1>1, <1>2, <1>3 DEF Shapes
<1>6. NameFree(p)' /\ OwnTmp(p)' /\ OwnFile(p)'
  BY <1>1, <1>2, <1>4, <1>5 DEF Directory, NameFree, OwnTmp, OwnFile
<1>7. ASSUME NEW q \in Procs, q # p
      PROVE  NameFree(q)' /\ OwnTmp(q)' /\ OwnFile(q)'
  <2>1. Run(q) # Run(p)
    BY <1>7 DEF Run
  <2>2. Keeps(q)
    BY <1>2, <1>7, <2>1 DEF Keeps, Shapes
  <2> QED BY <2>2, Kept DEF Directory
<1>8. \A f \in created : mtime'[f] = mtime[f]
  BY <1>2, <1>4 DEF Shapes
<1>9. \A f \in created : Newer(f, created)' = Newer(f, created)
  BY <1>2, <1>8 DEF Newer
<1>10. Apart' /\ Dated' /\ KeepsNewest' /\ OnDisk' = OnDisk
  BY <1>2, <1>9 DEF Directory, Apart, Dated, KeepsNewest, OnDisk
<1>11. \A q \in Procs : Outdated(q)'
  BY <1>2, <1>9 DEF Directory, Outdated
<1>12. ASSUME NEW q \in Procs, NEW i \in 1 .. Instances
       PROVE  Made(q, i)'
  <2> SUFFICES ASSUME <<q, i>> \in created
               PROVE  /\ i <= job[q]
                      /\ i = job[q] => pc'[q] \in {"glob", "rotate", "finish", "crashed"}
                      /\ bytes'[<<q, i>>] = {<<q, i>>}
                      /\ mtime'[<<q, i>>] > 0
    BY <1>2 DEF Made
  <2>1. <<q, i>> # Run(p)
    BY <1>4
  <2>2. i = job[q] => q # p
    BY <2>1 DEF Run
  <2> QED BY <1>2, <1>8, <2>1, <2>2 DEF Directory, Made, Shapes
<1> QED BY <1>2, <1>6, <1>7, <1>10, <1>11, <1>12 DEF Directory

LEMMA RenameStep ==
    ASSUME Shapes, Directory, NEW p \in Procs, Rename(p)
    PROVE  Directory'
<1>1. /\ stamp[p] \in Seconds /\ Run(p) \in Files /\ pc[p] = "rename"
      /\ tmp[stamp[p]] = Run(p) /\ bytes[Run(p)] = {Run(p)} /\ mtime[Run(p)] > 0
      /\ zips[stamp[p]] = None /\ handle[p] = None
  BY DEF Rename, Shapes, Directory, OwnTmp, OwnFile, NameFree
<1>2. /\ pc' = [pc EXCEPT ![p] = "glob"]
      /\ zips' = [zips EXCEPT ![stamp[p]] = Run(p)]
      /\ created' = created \union {Run(p)}
      /\ tmp' = [tmp EXCEPT ![stamp[p]] = None]
      /\ now' = now /\ job' = job /\ stamp' = stamp /\ doomed' = doomed
      /\ handle' = handle /\ bytes' = bytes /\ mtime' = mtime
  BY <1>1 DEF Rename, Goto
<1>3. pc'[p] = "glob" /\ Run(p)' = Run(p) /\ zips'[stamp[p]] = Run(p)
  BY <1>1, <1>2 DEF Shapes, Run
<1>4. NameFree(p)' /\ OwnTmp(p)' /\ OwnFile(p)'
  BY <1>1, <1>2, <1>3 DEF NameFree, OwnTmp, OwnFile
<1>5. ASSUME NEW q \in Procs, q # p
      PROVE  NameFree(q)' /\ OwnTmp(q)' /\ OwnFile(q)'
  <2>1. stamp[q] # stamp[p]
    BY <1>1, <1>5, OneStamp
  <2>2. Keeps(q)
    BY <1>2, <1>5, <2>1 DEF Keeps, Shapes
  <2> QED BY <2>2, Kept DEF Directory
<1>6. Apart'
  BY <1>2 DEF Directory, Apart
<1>7. Dated'
  <2> SUFFICES ASSUME NEW s \in Seconds, zips'[s] # None \/ tmp'[s] # None
               PROVE  s < now \/ \E q \in Procs : stamp[q] = s
    BY <1>2 DEF Dated
  <2> QED BY <1>2 DEF Directory, Dated, Shapes
<1>8. OnDisk' = OnDisk \union {Run(p)}
  <2>1. \A t \in Seconds : zips'[t] = IF t = stamp[p] THEN Run(p) ELSE zips[t]
    BY <1>2 DEF Shapes
  <2>2. Run(p) # None
    BY <1>1, Constants
  <2>3. Run(p) \in OnDisk'
    BY <1>1, <1>3, <2>2 DEF OnDisk
  <2>4. ASSUME NEW f \in OnDisk PROVE f \in OnDisk'
    <3>1. PICK t \in Seconds : zips[t] = f /\ f # None
      BY DEF OnDisk
    <3>2. zips'[t] = f
      BY <1>1, <2>1, <3>1
    <3> QED BY <3>1, <3>2 DEF OnDisk
  <2>5. ASSUME NEW f \in OnDisk' PROVE f \in OnDisk \/ f = Run(p)
    BY <2>1 DEF OnDisk
  <2> QED BY <2>3, <2>4, <2>5
\* Whatever was newer still is.
<1>9. ASSUME NEW f \in Files
      PROVE  Cardinality(Newer(f, created)) <= Cardinality(Newer(f, created)')
  <2>1. IsFiniteSet(created')
    BY <1>1, <1>2, FilesAreFinite, FS_Subset DEF Shapes
  <2>2. Newer(f, created)' \subseteq created' /\ Newer(f, created) \subseteq Newer(f, created)'
    BY <1>2 DEF Newer
  <2>3. IsFiniteSet(Newer(f, created)')
    BY <2>1, <2>2, FS_Subset
  <2> QED BY <2>2, <2>3, FS_Subset
<1>10. \A f \in Files : Cardinality(Newer(f, created)) \in Nat
                         /\ Cardinality(Newer(f, created)') \in Nat
  <2> SUFFICES ASSUME NEW f \in Files
               PROVE  Cardinality(Newer(f, created)) \in Nat
                      /\ Cardinality(Newer(f, created)') \in Nat
    OBVIOUS
  <2>1. IsFiniteSet(created')
    BY <1>1, <1>2, FilesAreFinite, FS_Subset DEF Shapes
  <2>2. Newer(f, created)' \subseteq created'
    BY DEF Newer
  <2>3. IsFiniteSet(Newer(f, created)')
    BY <2>1, <2>2, FS_Subset
  <2> QED BY <2>3, NewerIsFinite, FS_CardinalityType
<1>11. \A q \in Procs : Outdated(q)'
  <2> SUFFICES ASSUME NEW q \in Procs, NEW f \in doomed[q]
               PROVE  f \in created' /\ Cardinality(Newer(f, created)') >= MaxBackups
    BY <1>2 DEF Outdated
  <2>1. f \in created /\ f \in Files /\ Cardinality(Newer(f, created)) >= MaxBackups
    BY DEF Directory, Outdated, Shapes
  <2>2. Cardinality(Newer(f, created)') >= MaxBackups
    BY <1>9, <1>10, <2>1, Constants
  <2> QED BY <1>2, <2>1, <2>2
<1>12. KeepsNewest'
  <2> SUFFICES ASSUME NEW f \in created', Cardinality(Newer(f, created)') < MaxBackups
               PROVE  f \in OnDisk'
    BY DEF KeepsNewest
  <2>1. CASE f = Run(p)
    BY <1>8, <2>1
  <2>2. CASE f # Run(p)
    <3>1. f \in created /\ f \in Files
      BY <1>2, <2>2 DEF Shapes
    <3>2. Cardinality(Newer(f, created)) < MaxBackups
      BY <1>9, <1>10, <3>1, Constants
    <3> QED BY <1>8, <3>1, <3>2 DEF Directory, KeepsNewest
  <2> QED BY <2>1, <2>2
<1>13. ASSUME NEW q \in Procs, NEW i \in 1 .. Instances
       PROVE  Made(q, i)'
  <2> SUFFICES ASSUME <<q, i>> \in created'
               PROVE  /\ i <= job[q]
                      /\ i = job[q] => pc'[q] \in {"glob", "rotate", "finish", "crashed"}
                      /\ bytes[<<q, i>>] = {<<q, i>>}
                      /\ mtime[<<q, i>>] > 0
    BY <1>2 DEF Made
  <2>1. CASE <<q, i>> = Run(p)
    <3>1. q = p /\ i = job[p]
      BY <2>1 DEF Run
    <3>2. i <= job[q]
      BY <3>1, Constants
    <3> QED BY <1>1, <1>3, <2>1, <3>1, <3>2
  <2>2. CASE <<q, i>> # Run(p)
    <3>1. <<q, i>> \in created
      BY <1>2, <2>2
    <3> QED BY <1>2, <1>3, <3>1 DEF Directory, Made, Shapes
  <2> QED BY <2>1, <2>2
<1> QED
  BY <1>2, <1>4, <1>5, <1>6, <1>7, <1>8, <1>11, <1>12, <1>13 DEF Directory

LEMMA WriteFailsStep ==
    ASSUME Shapes, Directory, NEW p \in Procs, WriteFails(p) \/ Crash(p)
    PROVE  Directory'
<1>1. /\ pc' = [pc EXCEPT ![p] = IF WriteFails(p) THEN "finish" ELSE "crashed"]
      /\ pc[p] # "idle"
      /\ handle' = [handle EXCEPT ![p] = None]
      /\ tmp' \in {tmp, [tmp EXCEPT ![stamp[p]] = None]}
      /\ now' = now /\ job' = job /\ stamp' = stamp /\ doomed' = doomed
      /\ bytes' = bytes /\ mtime' = mtime /\ zips' = zips /\ created' = created
  BY DEF WriteFails, Crash, Goto
<1>2. /\ stamp[p] \in Seconds /\ pc'[p] \in {"finish", "crashed"} /\ handle'[p] = None
      /\ pc[p] \in {"glob", "rotate", "finish", "crashed"} => pc'[p] = "crashed"
  BY <1>1 DEF Shapes, WriteFails
<1>3. NameFree(p)' /\ OwnTmp(p)' /\ OwnFile(p)'
  BY <1>2 DEF NameFree, OwnTmp, OwnFile
<1>4. ASSUME NEW q \in Procs, q # p
      PROVE  NameFree(q)' /\ OwnTmp(q)' /\ OwnFile(q)'
  <2>1. stamp[q] # stamp[p]
    BY <1>2, <1>4, OneStamp
  <2>2. pc[q] # "idle" => tmp'[stamp[q]] = tmp[stamp[q]]
    BY <1>1, <2>1 DEF Shapes
  <2>3. Keeps(q)
    BY <1>1, <1>4, <2>2 DEF Keeps, Shapes
  <2> QED BY <2>3, Kept DEF Directory
<1>5. \A f : Newer(f, created)' = Newer(f, created)
  BY <1>1 DEF Newer
<1>6. Apart' /\ Dated' /\ (\A q \in Procs : Outdated(q)') /\ KeepsNewest' /\ OnDisk' = OnDisk
  <2>1. \A s \in Seconds : tmp'[s] # None => tmp[s] # None
    BY <1>1 DEF Shapes
  <2>2. Dated'
    BY <1>1, <2>1 DEF Directory, Dated
  <2> QED BY <1>1, <1>5, <2>2 DEF Directory, Apart, Outdated, KeepsNewest, OnDisk
<1>7. ASSUME NEW q \in Procs, NEW i \in 1 .. Instances
      PROVE  Made(q, i)'
  <2> SUFFICES ASSUME <<q, i>> \in created, i = job[q]
               PROVE  pc'[q] \in {"glob", "rotate", "finish", "crashed"}
    BY <1>1 DEF Directory, Made
  <2>1. pc[q] \in {"glob", "rotate", "finish", "crashed"}
    BY DEF Directory, Made
  <2> QED BY <1>1, <1>2, <2>1 DEF Shapes
<1> QED BY <1>1, <1>3, <1>4, <1>6, <1>7 DEF Directory

LEMMA RemoveOldStep ==
    ASSUME Shapes, Directory, NEW p \in Procs, RemoveOld(p)
    PROVE  Directory'
<1>1. PICK f \in doomed[p] :
         /\ doomed' = [doomed EXCEPT ![p] = @ \ {f}]
         /\ zips' = [s \in Seconds |-> IF zips[s] = f THEN None ELSE zips[s]]
  BY DEF RemoveOld
<1>2. /\ pc[p] = "rotate" /\ now' = now /\ pc' = pc /\ job' = job /\ stamp' = stamp
      /\ handle' = handle /\ bytes' = bytes /\ mtime' = mtime /\ tmp' = tmp
      /\ created' = created
  BY DEF RemoveOld
<1>3. \A g : Newer(g, created)' = Newer(g, created)
  BY <1>2 DEF Newer
<1>4. ASSUME NEW q \in Procs
      PROVE  NameFree(q)' /\ OwnTmp(q)' /\ OwnFile(q)' /\ Outdated(q)'
  <2>1. pc[q] # "idle" => zips'[stamp[q]] \in {zips[stamp[q]], None}
    BY <1>1 DEF Shapes
  <2>2. NameFree(q)'
    BY <1>2, <2>1 DEF Directory, NameFree
  <2>3. Run(q)' = Run(q)
    BY <1>2 DEF Run
  <2>4. OwnTmp(q)' /\ OwnFile(q)'
    BY <1>2, <2>3 DEF Directory, OwnTmp, OwnFile
  <2>5. doomed'[q] \subseteq doomed[q]
    BY <1>1 DEF Shapes
  <2>6. Outdated(q)'
    BY <1>2, <1>3, <2>5 DEF Directory, Outdated
  <2> QED BY <2>2, <2>4, <2>6
<1>5. Apart' /\ (\A q \in Procs, i \in 1 .. Instances : Made(q, i)')
  BY <1>2 DEF Directory, Apart, Made
<1>6. Dated'
  BY <1>1, <1>2 DEF Directory, Dated
<1>7. OnDisk' \subseteq OnDisk
  BY <1>1 DEF OnDisk
<1>8. \A g \in OnDisk : g # f => g \in OnDisk'
  BY <1>1 DEF OnDisk
<1>9. Cardinality(Newer(f, created)) >= MaxBackups
  BY DEF Directory, Outdated
<1>10. KeepsNewest'
  <2> SUFFICES ASSUME NEW g \in created, Cardinality(Newer(g, created)) < MaxBackups
               PROVE  g \in OnDisk'
    BY <1>2, <1>3 DEF KeepsNewest
  <2>1. g \in OnDisk
    BY DEF Directory, KeepsNewest
  <2>2. g # f
    <3>1. Cardinality(Newer(f, created)) \in Nat
      BY NewerIsFinite
    <3> QED BY <1>9, <3>1, Constants
  <2> QED BY <1>8, <2>1, <2>2
<1> QED BY <1>2, <1>4, <1>5, <1>6, <1>7, <1>10 DEF Directory

LEMMA GlobStep ==
    ASSUME Shapes, Directory, NEW p \in Procs, Glob(p)
    PROVE  Directory'
<1>1. /\ pc[p] = "glob" /\ pc' = [pc EXCEPT ![p] = "rotate"]
      /\ doomed' = [doomed EXCEPT ![p] =
                      {f \in OnDisk : Cardinality(Newer(f, OnDisk)) >= MaxBackups}]
      /\ UNCHANGED <<now, job, stamp, disk>>
  BY DEF Glob, Goto
<1>2. \A f : Newer(f, created)' = Newer(f, created) /\ created' = created
  BY <1>1 DEF disk, Newer
<1>3. Outdated(p)'
  <2> SUFFICES ASSUME NEW f \in OnDisk, Cardinality(Newer(f, OnDisk)) >= MaxBackups
               PROVE  f \in created /\ Cardinality(Newer(f, created)) >= MaxBackups
    BY <1>1, <1>2 DEF Outdated, Shapes
  <2>1. f \in created /\ Newer(f, OnDisk) \subseteq Newer(f, created)
    BY DEF Directory, Newer
  <2>2. IsFiniteSet(Newer(f, created)) /\ Cardinality(Newer(f, created)) \in Nat
    BY NewerIsFinite
  <2>3. /\ Cardinality(Newer(f, OnDisk)) <= Cardinality(Newer(f, created))
        /\ Cardinality(Newer(f, OnDisk)) \in Nat
    BY <2>1, <2>2, FS_Subset, FS_CardinalityType
  <2> QED BY <2>1, <2>2, <2>3, Constants
<1>4. Others(p) /\ pc'[p] = "rotate" /\ job'[p] = job[p]
  BY <1>1 DEF Others, Shapes
<1> QED BY <1>1, <1>3, <1>4, QuietStep

LEMMA InitDirectory == Init => Directory
<1> SUFFICES ASSUME Init PROVE Directory
  OBVIOUS
<1>1. OnDisk = {}
  BY DEF Init, OnDisk
<1> QED
  BY <1>1 DEF Init, Directory, Apart, Dated, NameFree, OwnTmp, OwnFile, Outdated, Made,
              KeepsNewest

LEMMA NextDirectory ==
    ASSUME ~SameSecond
    PROVE  Shapes /\ Directory /\ [Next]_vars => Directory'
<1> SUFFICES ASSUME Shapes, Directory, [Next]_vars PROVE Directory'
  OBVIOUS
\* runAt returns.
<1>1. ASSUME NEW p \in Procs, NextInstance(p), pc[p] \in {"idle", "finish"},
             UNCHANGED <<now, stamp, doomed, disk>>
      PROVE  Directory'
  <2>1. pc'[p] = "idle" /\ job'[p] = job[p] + 1 /\ Others(p)
    BY <1>1 DEF NextInstance, Goto, Others, Shapes
  <2>2. Outdated(p)'
    BY <1>1 DEF Directory, Outdated, Newer, disk
  <2> QED BY <1>1, <2>1, <2>2, QuietStep
<1>2. ASSUME NEW p \in Procs, BeginNothing(p) \/ SaveOn(p) \/ Finish(p) PROVE Directory'
  BY <1>1, <1>2 DEF BeginNothing, SaveOn, Finish
<1>3. ASSUME NEW p \in Procs, SaveOff(p) PROVE Directory'
  <2>1. pc[p] = "saveoff" /\ pc'[p] = "create" /\ job'[p] = job[p] /\ Others(p)
        /\ UNCHANGED <<now, stamp, doomed, disk>>
    BY <1>3 DEF SaveOff, Goto, Others, Shapes
  <2>2. Outdated(p)'
    BY <2>1 DEF Directory, Outdated, Newer, disk
  <2> QED BY <2>1, <2>2, QuietStep
<1>4. ASSUME NEW p \in Procs, RotateEnds(p) PROVE Directory'
  <2>1. pc[p] = "rotate" /\ pc'[p] = "finish" /\ job'[p] = job[p] /\ Others(p)
        /\ UNCHANGED <<now, stamp, disk>> /\ doomed'[p] = {}
    BY <1>4 DEF RotateEnds, Goto, Others, Shapes
  <2>2. Outdated(p)'
    BY <2>1 DEF Outdated
  <2> QED BY <2>1, <2>2, QuietStep
<1>5. CASE Clock
  <2>1. now' = now + 1 /\ UNCHANGED <<process, disk>>
    BY <1>5 DEF Clock
  <2>2. now \in Nat
    BY Constants DEF Shapes
  <2>3. Apart'
    <3>1. \A p \in Procs : stamp[p] # None => stamp[p] \in Nat
      BY Constants DEF Shapes
    <3> QED BY <2>1, <2>2, <3>1 DEF Directory, Apart, process
  <2>4. Dated'
    BY <2>1, <2>2, Constants DEF Directory, Dated, process, disk
  <2>5. \A f : Newer(f, created)' = Newer(f, created)
    BY <2>1 DEF Newer, disk
  <2> QED
    BY <2>1, <2>3, <2>4, <2>5
       DEF Directory, NameFree, OwnTmp, OwnFile, Outdated, Made, KeepsNewest, OnDisk, Run,
           process, disk
<1>6. CASE UNCHANGED vars
  BY <1>6 DEF vars, process, disk, Directory, Apart, Dated, NameFree, OwnTmp, OwnFile,
              Outdated, Made, KeepsNewest, OnDisk, Run, Newer
<1> QED
  BY <1>2, <1>3, <1>4, <1>5, <1>6, BeginStep, CreateTmpStep, FinishZipStep, RenameStep,
     WriteFailsStep, GlobStep, RemoveOldStep DEF Next, Process

LEMMA DirectoryKept ==
    ASSUME ~SameSecond
    PROVE  Spec => []Directory
<1>1. Init => Directory
  BY InitDirectory
<1>2. Typed /\ Directory /\ [Next]_vars => Directory'
  BY TypedShapes, NextDirectory
<1>3. Init => Typed
  BY InitTyped
<1>4. Typed /\ [Next]_vars => Typed'
  BY NextTyped
<1> QED BY <1>1, <1>2, <1>3, <1>4, PTL DEF Spec

\* runAt: a file gets its final name only when one run has written all of it,
\* and nobody writes to it afterwards -- unless two runs begin within one
\* second, and share the temporary name.
THEOREM ZipsAreComplete ==
    ASSUME ~SameSecond
    PROVE  Spec => []FinalZipsComplete
<1>1. Typed /\ Directory => FinalZipsComplete
  <2> SUFFICES ASSUME Typed, Directory, NEW f \in OnDisk
               PROVE  /\ Cardinality(bytes[f]) = 1
                      /\ mtime[f] > 0
                      /\ \A p \in Procs : handle[p] # f
    BY DEF FinalZipsComplete
  <2>1. f \in created /\ f \in Files
    BY DEF Directory, Typed, TypeOK
  <2>2. PICK p \in Procs, i \in 1 .. Instances : f = <<p, i>>
    BY <2>1 DEF Files
  <2>3. /\ i = job[p] => pc[p] \in {"glob", "rotate", "finish", "crashed"}
        /\ bytes[f] = {f}
        /\ mtime[f] > 0
    BY <2>1, <2>2 DEF Directory, Made
  <2>4. Cardinality(bytes[f]) = 1
    BY <2>3, FS_Singleton
  <2>5. ASSUME NEW q \in Procs, handle[q] = f
        PROVE  FALSE
    <3>1. pc[q] = "zip" /\ f = Run(q)
      BY <2>1, <2>5, Constants DEF Directory, OwnFile
    <3>2. q = p /\ i = job[p]
      BY <2>2, <3>1 DEF Run
    <3> QED BY <2>3, <3>1, <3>2
  <2> QED BY <2>3, <2>4, <2>5
<1>2. Init => Typed
  BY InitTyped
<1>3. Typed /\ [Next]_vars => Typed'
  BY NextTyped
<1> QED BY <1>1, <1>2, <1>3, DirectoryKept, PTL DEF Spec

\* rotate: no matter how many rotations run on listings that are out of date,
\* the newest max_backups of all backups ever made are on disk -- unless two
\* runs begin within one second, and the second backup replaces the first.
THEOREM NewestAreKept ==
    ASSUME ~SameSecond
    PROVE  Spec => []KeepsNewest
<1>1. Directory => KeepsNewest
  BY DEF Directory
<1> QED BY <1>1, DirectoryKept, PTL

=============================================================================
