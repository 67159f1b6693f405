-------------------------- MODULE WorldRegenProofs --------------------------
(***************************************************************************)
(* Proofs about WorldRegen: any number of extra files, templates, runs and *)
(* levels, with failures and kills at every point.                         *)
(***************************************************************************)
EXTENDS WorldRegen, TLAPS

-----------------------------------------------------------------------------
(* Types.                                                                  *)

\* What a run holds: a stamp as long as it runs, and between reading an extra
\* file and resetting it that file's name and what it read.
RunOK ==
    /\ now \in Seconds
    /\ stamp # None => stamp =< now
    /\ pc # "idle" => stamp \in Seconds
    /\ pc \in {"backup", "reset"} => buffer \in Extras \X Content
    /\ pc \in {"read", "backup", "reset"} => todo \subseteq Extras
    /\ pc = "seed" => todo \subseteq Templates

\* The steps of Regen keep the types.
LEMMA RegenType ==
    ASSUME TypeOK, RunOK, Regen
    PROVE  TypeOK' /\ RunOK'
<1> USE RegenAssumption, DistinctAssumption
    DEF TypeOK, RunOK, Points, Seeds, Seconds, regen, files, history
<1>1. CASE Begin
  BY <1>1 DEF Begin
<1>2. CASE BlankSeed
  BY <1>2 DEF BlankSeed
<1>3. CASE RenameWorld
  BY <1>3 DEF RenameWorld
<1>4. ASSUME NEW e \in Extras, ReadExtra(e) PROVE TypeOK' /\ RunOK'
  BY <1>4 DEF ReadExtra
<1>5. CASE BackupExtra
  BY <1>5 DEF BackupExtra
<1>6. CASE ResetExtra
  BY <1>6 DEF ResetExtra, Overwrite, Content
<1>7. CASE ExtrasDone
  <2>1. todo' = Templates /\ pc' = "seed"
    BY <1>7 DEF ExtrasDone
  <2>2. todo' \in (SUBSET Extras) \union (SUBSET Templates)
    BY <2>1
  <2> QED
    BY <1>7, <2>1, <2>2 DEF ExtrasDone
<1>8. ASSUME NEW t \in Templates, CopyTemplate(t) PROVE TypeOK' /\ RunOK'
  BY <1>8 DEF CopyTemplate, Directory
<1>9. CASE RegenOk
  BY <1>9 DEF RegenOk
<1>10. CASE RegenReturns
  BY <1>10 DEF RegenReturns, Leaves
<1>11. CASE RegenFails
  <2>1. /\ UNCHANGED <<backend, now, levels, progress, stamp>> /\ pc' = "idle"
        /\ newSeed' = FALSE /\ todo' = {}
    BY <1>11 DEF RegenFails, Leaves
  <2>2. todo' \in (SUBSET Extras) \union (SUBSET Templates)
    BY <2>1
  <2>3. world' \in Directory \union {None} /\ archive' \in [Seconds -> Directory \union {None}]
    BY <1>11 DEF RegenFails, Directory
  <2>4. copy' \in [Extras -> [Seconds -> Content]]
    <3>1. pc = "backup" => buffer[1] \in Extras /\ stamp \in Seconds
      OBVIOUS
    <3>2. Torn \in Content
      BY DEF Content
    <3>3. CASE UNCHANGED copy
      BY <3>3
    <3>4. CASE pc = "backup" /\ copy' = [copy EXCEPT ![buffer[1]][stamp] = Torn]
      BY <3>1, <3>2, <3>4
    <3> QED
      BY <1>11, <3>3, <3>4 DEF RegenFails
  <2>5. /\ extra' \in [Extras -> Content]
        /\ replaced' \in [Extras -> SUBSET Content]
    <3>1. Torn \in Content
      BY DEF Content
    <3>2. CASE UNCHANGED <<extra, replaced>>
      BY <3>2
    <3>3. CASE pc = "reset" /\ Overwrite(buffer[1], Torn)
      BY <3>1, <3>3 DEF Overwrite
    <3> QED
      BY <1>11, <3>2, <3>3 DEF RegenFails
  <2>6. seed' \in Seeds
    BY <1>11 DEF RegenFails
  <2> QED
    BY <2>1, <2>2, <2>3, <2>4, <2>5, <2>6
<1> QED
  BY <1>1, <1>2, <1>3, <1>4, <1>5, <1>6, <1>7, <1>8, <1>9, <1>10, <1>11 DEF Regen

\* So do the server and the clock.
LEMMA ServerType ==
    ASSUME TypeOK, RunOK, Server \/ Clock
    PROVE  TypeOK' /\ RunOK'
<1> USE RegenAssumption, DistinctAssumption
    DEF TypeOK, RunOK, Points, Seeds, Seconds, regen, files, history
<1>1. CASE ServerOps
  BY <1>1 DEF ServerOps, Started, Stopped, Phases
<1>2. CASE ServerUp
  BY <1>2 DEF ServerUp, Phases, Directory
<1>3. CASE ServerMoves
  BY <1>3 DEF ServerMoves, Phases
<1>4. ASSUME NEW e \in Extras, ServerSaves(e) PROVE TypeOK' /\ RunOK'
  BY <1>4 DEF ServerSaves, Content
<1>5. CASE Clock
  BY <1>5 DEF Clock
<1> QED
  BY <1>1, <1>2, <1>3, <1>4, <1>5 DEF Server

LEMMA RunCorrect == Spec => [](TypeOK /\ RunOK)
<1>1. Init => TypeOK /\ RunOK
  <2> SUFFICES ASSUME Init PROVE TypeOK /\ RunOK
    OBVIOUS
  <2>1. None \in Content /\ 1 \in Seconds
    BY RegenAssumption DEF Content, Seconds
  <2>2. todo \in (SUBSET Extras) \union (SUBSET Templates)
    BY DEF Init
  <2>3. copy \in [Extras -> [Seconds -> Content]] /\ extra \in [Extras -> Content]
    BY <2>1 DEF Init
  <2>4. archive \in [Seconds -> Directory \union {None}] /\ replaced \in [Extras -> SUBSET Content]
    BY DEF Init
  <2>5. levels \in 0 .. MaxWorlds /\ progress \in 0 .. MaxProgress
    BY RegenAssumption DEF Init
  <2> QED
    BY <2>1, <2>2, <2>3, <2>4, <2>5 DEF Init, TypeOK, RunOK, Points, Phases, Seeds, Seconds
<1>2. TypeOK /\ RunOK /\ [Next]_vars => TypeOK' /\ RunOK'
  <2> SUFFICES ASSUME TypeOK, RunOK, [Next]_vars PROVE TypeOK' /\ RunOK'
    OBVIOUS
  <2>1. CASE UNCHANGED vars
    BY <2>1 DEF TypeOK, RunOK, vars, regen, files, history
  <2> QED
    BY <2>1, RegenType, ServerType DEF Next
<1> QED
  BY <1>1, <1>2, PTL DEF Spec

\* Every variable has its type: what is in a file is always something that
\* the server or a run has written, or torn.
THEOREM TypeCorrect == Spec => []TypeOK
BY RunCorrect, PTL

-----------------------------------------------------------------------------
(* Worlds.  Neither the discipline of the operator nor distinct seconds    *)
(* are needed for these: a rename does not take a name that is in use.     *)

\* Level n is in place or under a _prev_ name.
Kept(n) ==
    \/ world # None /\ world.level = n
    \/ \E s \in Seconds : archive[s] # None /\ archive[s].level = n

LEMMA KeptIsKept == WorldsKept <=> \A n \in 1 .. levels : Kept(n)
BY DEF WorldsKept, Kept

\* A run moves a world, and the server makes a new one only where there is
\* none.
LEMMA RegenKeeps ==
    ASSUME TypeOK, RunOK, Regen, NEW n \in Nat \ {0}, Kept(n)
    PROVE  Kept(n)' /\ levels' = levels
<1> USE DEF history, files
<1>1. CASE RenameWorld
  <2>1. CASE world = None
    BY <1>1, <2>1 DEF RenameWorld, Kept
  <2>2. CASE world # None
    <3>1. archive[stamp] = None /\ archive' = [archive EXCEPT ![stamp] = world] /\ stamp \in Seconds
      BY <1>1, <2>2 DEF RenameWorld, RunOK
    <3>2. archive \in [Seconds -> Directory \union {None}]
      BY DEF TypeOK
    <3>3. archive'[stamp] = world /\ \A s \in Seconds \ {stamp} : archive'[s] = archive[s]
      BY <3>1, <3>2
    <3>4. levels' = levels
      BY <1>1 DEF RenameWorld
    <3>5. CASE world.level = n
      BY <2>2, <3>1, <3>3, <3>4, <3>5 DEF Kept
    <3>6. CASE world.level # n
      <4>1. PICK s \in Seconds : archive[s] # None /\ archive[s].level = n
        BY <3>6 DEF Kept
      <4> QED
        BY <3>1, <3>3, <3>4, <4>1 DEF Kept
    <3> QED
      BY <3>5, <3>6
  <2> QED
    BY <2>1, <2>2
<1>2. ASSUME NEW t \in Templates, CopyTemplate(t) PROVE Kept(n)' /\ levels' = levels
  <2>1. archive' = archive /\ levels' = levels
    BY <1>2 DEF CopyTemplate
  <2>2. world # None => world'.level = world.level /\ world' # None
    BY <1>2, DistinctAssumption DEF CopyTemplate, TypeOK, Directory
  <2> QED
    BY <2>1, <2>2 DEF Kept
<1>3. CASE RegenFails
  <2>1. archive' = archive /\ levels' = levels /\ (world # None => world' = world)
    BY <1>3 DEF RegenFails
  <2> QED
    BY <2>1 DEF Kept
<1>4. CASE ~RenameWorld /\ ~RegenFails /\ ~\E t \in Templates : CopyTemplate(t)
  <2>1. UNCHANGED <<world, archive, levels>>
    BY <1>4 DEF Regen, Begin, BlankSeed, ReadExtra, BackupExtra, ResetExtra, ExtrasDone, RegenOk,
       RegenReturns
  <2> QED
    BY <2>1 DEF Kept
<1> QED
  BY <1>1, <1>2, <1>3, <1>4

LEMMA ServerKeeps ==
    ASSUME TypeOK, RunOK, WorldsKept, Server \/ Clock
    PROVE  WorldsKept'
<1> USE DEF history, files
<1>0. \A n \in 1 .. levels : Kept(n)
  BY KeptIsKept
<1>1. CASE ServerUp /\ (world = None \/ world.level = 0)
  <2>1. levels' = levels + 1 /\ archive' = archive
    BY <1>1 DEF ServerUp
  <2>2. world' # None /\ world'.level = levels + 1
    <3>1. /\ world' = [level |-> levels + 1, seeded |-> IF world = None THEN {} ELSE world.seeded]
          /\ levels < MaxWorlds
      BY <1>1 DEF ServerUp
    <3>2. world' \in Directory
      BY <3>1, RegenAssumption DEF TypeOK, Directory
    <3> QED
      BY <3>1, <3>2, DistinctAssumption
  <2>3. ASSUME NEW n \in 1 .. levels' PROVE Kept(n)'
    <3>1. CASE n = levels + 1
      BY <2>2, <3>1 DEF Kept
    <3>2. CASE n # levels + 1
      <4>1. n \in 1 .. levels
        BY <2>1, <3>2 DEF TypeOK
      <4>2. ~(world # None /\ world.level = n)
        BY <1>1, <4>1
      <4> QED
        BY <1>0, <2>1, <4>1, <4>2 DEF Kept
    <3> QED
      BY <3>1, <3>2
  <2> QED
    BY <2>3 DEF Kept, WorldsKept
<1>2. CASE ~(ServerUp /\ (world = None \/ world.level = 0))
  <2>1. UNCHANGED <<world, archive, levels>>
    BY <1>2 DEF Server, ServerOps, ServerUp, ServerMoves, ServerSaves, Clock
  <2> QED
    BY <2>1 DEF WorldsKept
<1> QED
  BY <1>1, <1>2

\* No level is ever lost, whenever runs fail or are killed, even with a
\* server at work in the directory and two runs within one second.
THEOREM WorldsAreKept == Spec => []WorldsKept
<1>1. Init => WorldsKept
  BY DEF Init, WorldsKept
<1>2. TypeOK /\ RunOK /\ WorldsKept /\ [Next]_vars => WorldsKept'
  <2> SUFFICES ASSUME TypeOK, RunOK, WorldsKept, [Next]_vars PROVE WorldsKept'
    OBVIOUS
  <2>1. CASE UNCHANGED vars
    BY <2>1 DEF WorldsKept, vars, files, history
  <2>2. CASE Regen
    <3>1. levels' = levels
      BY <2>2 DEF Regen, Begin, BlankSeed, RenameWorld, ReadExtra, BackupExtra, ResetExtra,
         ExtrasDone, CopyTemplate, RegenOk, RegenReturns, RegenFails, history
    <3>2. \A n \in 1 .. levels : n \in Nat \ {0} /\ Kept(n)
      BY KeptIsKept DEF TypeOK
    <3>3. \A n \in 1 .. levels' : Kept(n)'
      BY <2>2, <3>1, <3>2, RegenKeeps
    <3> QED
      BY <3>3 DEF Kept, WorldsKept
  <2> QED
    BY <2>1, <2>2, ServerKeeps DEF Next
<1> QED
  BY <1>1, <1>2, RunCorrect, PTL DEF Spec

-----------------------------------------------------------------------------
(* A disciplined operator: no server process while a run is at work.  What *)
(* Regen looks at once, before it begins, then holds to its end.           *)

Undisturbed == pc # "idle" => backend = "down"

LEMMA UndisturbedKept ==
    ASSUME Disciplined, Undisturbed, [Next]_vars
    PROVE  Undisturbed'
<1>1. CASE UNCHANGED vars
  BY <1>1 DEF vars, regen, Undisturbed
<1>2. CASE Begin
  BY <1>2 DEF Begin, Alive, Undisturbed
<1>3. CASE Regen /\ ~Begin
  <2>1. pc # "idle" /\ backend' = backend
    BY <1>3 DEF Regen, BlankSeed, RenameWorld, ReadExtra, BackupExtra, ResetExtra, ExtrasDone,
       CopyTemplate, RegenOk, RegenReturns, RegenFails
  <2> QED
    BY <2>1 DEF Undisturbed
<1>4. CASE Server \/ Clock
  BY <1>4 DEF Server, ServerOps, ServerUp, ServerMoves, ServerSaves, Clock, Evolves, regen,
     Undisturbed
<1> QED
  BY <1>1, <1>2, <1>3, <1>4 DEF Next

\* While a run is at work nobody else touches the files.
LEMMA QuietFiles ==
    ASSUME Disciplined, Undisturbed, pc # "idle", Server \/ Clock
    PROVE  UNCHANGED <<regen, files, history>>
BY DEF Undisturbed, Server, ServerOps, ServerUp, ServerMoves, ServerSaves, Clock, Evolves,
   files, history

-----------------------------------------------------------------------------
(* Prepared: what each loop of a run has behind it stays done.             *)

Empty(e) == extra[e] \in {None, 0}

Prepared ==
    /\ pc \in {"read", "backup", "reset"} => world = None
    /\ pc \in {"seed", "ok"} =>
         /\ world = None => todo = Templates
         /\ world # None => /\ Templates # {}
                            /\ world = [level |-> 0, seeded |-> Templates \ todo]
    /\ pc = "ok" => todo = {}
    /\ pc = "read" => \A e \in Extras \ todo : Empty(e)
    /\ pc \in {"backup", "reset"} => \A e \in Extras \ (todo \union {buffer[1]}) : Empty(e)
    /\ pc \in {"seed", "ok"} => \A e \in Extras : Empty(e)
    /\ newSeed /\ pc \notin {"idle", "blank"} => seed # "set"

LEMMA RegenPrepares ==
    ASSUME TypeOK, RunOK, Prepared, Regen
    PROVE  Prepared'
<1> USE DEF Prepared, Empty, files, history
<1>1. CASE Begin
  BY <1>1 DEF Begin
<1>2. CASE BlankSeed
  BY <1>2 DEF BlankSeed
<1>3. CASE RenameWorld
  BY <1>3 DEF RenameWorld
<1>4. ASSUME NEW e \in Extras, ReadExtra(e) PROVE Prepared'
  <2>1. /\ pc = "read" /\ e \in todo /\ todo' = todo \ {e}
        /\ UNCHANGED <<world, extra, seed, newSeed>>
    BY <1>4 DEF ReadExtra
  <2>2. CASE extra[e] = None
    BY <1>4, <2>1, <2>2 DEF ReadExtra
  <2>3. CASE extra[e] # None
    <3>1. pc' = "backup" /\ buffer' = <<e, extra[e]>>
      BY <1>4, <2>3 DEF ReadExtra
    <3>2. buffer'[1] = e
      BY <3>1
    <3> QED
      BY <2>1, <3>1, <3>2
  <2> QED
    BY <2>2, <2>3
<1>5. CASE BackupExtra
  BY <1>5 DEF BackupExtra
<1>6. CASE ResetExtra
  <2>1. /\ pc = "reset" /\ pc' = "read" /\ UNCHANGED <<world, seed, newSeed, todo>>
        /\ extra' = [extra EXCEPT ![buffer[1]] = 0]
    BY <1>6 DEF ResetExtra, Overwrite
  <2>2. \A e \in Extras : extra'[e] = IF e = buffer[1] THEN 0 ELSE extra[e]
    BY <2>1 DEF TypeOK
  <2> QED
    BY <2>1, <2>2
<1>7. CASE ExtrasDone
  BY <1>7 DEF ExtrasDone
<1>8. ASSUME NEW t \in Templates, CopyTemplate(t) PROVE Prepared'
  <2>1. /\ pc = "seed" /\ pc' = "seed" /\ t \in todo /\ todo' = todo \ {t}
        /\ UNCHANGED <<extra, seed, newSeed>>
    BY <1>8 DEF CopyTemplate
  <2>2. world' # None /\ world' = [level |-> 0, seeded |-> Templates \ todo']
    <3>1. todo \subseteq Templates
      BY <2>1 DEF RunOK
    <3>2. CASE world = None
      <4>1. Templates \ todo' = {t}
        BY <2>1, <3>2
      <4> QED
        BY <1>8, <3>2, <4>1, DistinctAssumption, RegenAssumption DEF CopyTemplate, Directory
    <3>3. CASE world # None
      <4>1. world = [level |-> 0, seeded |-> Templates \ todo]
        BY <2>1, <3>3
      <4>2. (Templates \ todo) \union {t} = Templates \ todo'
        BY <2>1, <3>1
      <4>3. world' = [level |-> 0, seeded |-> Templates \ todo']
        BY <1>8, <3>3, <4>1, <4>2 DEF CopyTemplate
      <4> QED
        BY <4>3, DistinctAssumption, RegenAssumption DEF Directory
    <3> QED
      BY <3>2, <3>3
  <2> QED
    BY <2>1, <2>2
<1>9. CASE RegenOk
  BY <1>9 DEF RegenOk
<1>10. CASE RegenReturns \/ RegenFails
  <2>1. pc' = "idle" /\ newSeed' = FALSE
    BY <1>10 DEF RegenReturns, RegenFails, Leaves
  <2> QED
    BY <2>1
<1> QED
  BY <1>1, <1>2, <1>3, <1>4, <1>5, <1>6, <1>7, <1>8, <1>9, <1>10 DEF Regen

\* A run that reports success has prepared everything, also when it had to
\* pick up after runs that failed or were killed, provided that no server
\* process is at work during a run.
THEOREM SuccessMeansPrepared ==
    ASSUME Disciplined
    PROVE  Spec => []OkMeansPrepared
<1>1. Init => Undisturbed /\ Prepared
  BY DEF Init, Undisturbed, Prepared
<1>2. TypeOK /\ RunOK /\ Undisturbed /\ Prepared /\ [Next]_vars => Undisturbed' /\ Prepared'
  <2> SUFFICES ASSUME TypeOK, RunOK, Undisturbed, Prepared, [Next]_vars PROVE Prepared'
    BY UndisturbedKept
  <2>1. CASE UNCHANGED vars
    BY <2>1 DEF vars, regen, files, history, Prepared, Empty
  <2>2. CASE (Server \/ Clock) /\ pc = "idle"
    <3>1. pc' = "idle" /\ newSeed' = newSeed
      BY <2>2 DEF Server, ServerOps, ServerUp, ServerMoves, ServerSaves, Clock, regen
    <3> QED
      BY <3>1 DEF Prepared
  <2>3. CASE (Server \/ Clock) /\ pc # "idle"
    BY <2>3, QuietFiles DEF regen, files, history, Prepared, Empty
  <2> QED
    BY <2>1, <2>2, <2>3, RegenPrepares DEF Next
<1>3. Prepared => OkMeansPrepared
  <2> SUFFICES ASSUME Prepared, pc = "ok"
               PROVE  /\ IF Templates = {} THEN world = None
                         ELSE world = [level |-> 0, seeded |-> Templates]
                      /\ \A e \in Extras : extra[e] \in {None, 0}
                      /\ newSeed => seed # "set"
    BY DEF OkMeansPrepared
  <2>1. Templates \ {} = Templates
    OBVIOUS
  <2> QED
    BY <2>1 DEF Prepared, Empty
<1> QED
  BY <1>1, <1>2, <1>3, RunCorrect, PTL DEF Spec

-----------------------------------------------------------------------------
(* Progress.  The copies of a run are found under its second, which no     *)
(* earlier run has used; what is overwritten is what has been copied.      *)

\* Extra file e has no copy of this run yet.
Uncopied(e) == copy[e][stamp] = None

Copies ==
    /\ \A e \in Extras, s \in Seconds :
          copy[e][s] # None => stamp \in Seconds /\ s =< stamp
    /\ pc \in {"blank", "rename"} => \A e \in Extras : Uncopied(e)
    /\ pc \in {"read", "backup", "reset"} => \A e \in todo : Uncopied(e)
    /\ pc = "backup" => Uncopied(buffer[1])
    /\ pc \in {"backup", "reset"} => buffer[1] \notin todo /\ buffer[2] = extra[buffer[1]]
    /\ pc = "reset" => copy[buffer[1]][stamp] = extra[buffer[1]]

LEMMA RegenCopies ==
    ASSUME TypeOK, RunOK, Copies, Regen, ~SameSecond
    PROVE  Copies'
<1> USE DEF Copies, Uncopied, files, history
<1>1. CASE Begin
  <2>1. stamp' = now /\ stamp # now /\ copy' = copy /\ pc' \in {"blank", "rename"}
    BY <1>1 DEF Begin
  <2>2. \A e \in Extras, s \in Seconds : copy[e][s] # None => s < now
    BY <2>1, DistinctAssumption DEF RunOK, Seconds
  <2>3. now \in Seconds
    BY DEF RunOK
  <2> QED
    BY <2>1, <2>2, <2>3 DEF Seconds
<1>2. CASE BlankSeed
  BY <1>2 DEF BlankSeed
<1>3. CASE RenameWorld
  BY <1>3 DEF RenameWorld
<1>4. ASSUME NEW e \in Extras, ReadExtra(e) PROVE Copies'
  <2>1. /\ pc = "read" /\ e \in todo /\ todo' = todo \ {e}
        /\ UNCHANGED <<extra, copy, stamp>>
    BY <1>4 DEF ReadExtra
  <2>2. CASE extra[e] = None
    BY <1>4, <2>1, <2>2 DEF ReadExtra
  <2>3. CASE extra[e] # None
    <3>1. pc' = "backup" /\ buffer' = <<e, extra[e]>>
      BY <1>4, <2>3 DEF ReadExtra
    <3>2. buffer'[1] = e /\ buffer'[2] = extra[e]
      BY <3>1
    <3> QED
      BY <2>1, <3>1, <3>2
  <2> QED
    BY <2>2, <2>3
<1>5. CASE BackupExtra
  <2>1. /\ pc = "backup" /\ pc' = "reset" /\ UNCHANGED <<extra, buffer, stamp, todo>>
        /\ copy' = [copy EXCEPT ![buffer[1]][stamp] = buffer[2]]
        /\ buffer[1] \in Extras /\ stamp \in Seconds
    BY <1>5 DEF BackupExtra, RunOK
  <2>2. /\ copy'[buffer[1]][stamp] = buffer[2]
        /\ \A e \in Extras, s \in Seconds :
              e # buffer[1] \/ s # stamp => copy'[e][s] = copy[e][s]
    BY <2>1 DEF TypeOK
  <2>3. stamp =< stamp
    BY <2>1 DEF Seconds
  <2>4. \A e \in todo : e \in Extras /\ e # buffer[1]
    BY <2>1 DEF RunOK
  <2> QED
    BY <2>1, <2>2, <2>3, <2>4
<1>6. CASE ResetExtra
  <2>1. /\ pc = "reset" /\ pc' = "read" /\ UNCHANGED <<copy, stamp, todo>>
    BY <1>6 DEF ResetExtra
  <2> QED
    BY <2>1
<1>7. CASE ExtrasDone
  BY <1>7 DEF ExtrasDone
<1>8. ASSUME NEW t \in Templates, CopyTemplate(t) PROVE Copies'
  BY <1>8 DEF CopyTemplate
<1>9. CASE RegenOk \/ RegenReturns
  BY <1>9 DEF RegenOk, RegenReturns, Leaves
<1>10. CASE RegenFails
  <2>1. pc' = "idle" /\ stamp' = stamp
    BY <1>10 DEF RegenFails, Leaves
  <2>2. CASE copy' = copy
    BY <2>1, <2>2
  <2>3. CASE pc = "backup" /\ copy' = [copy EXCEPT ![buffer[1]][stamp] = Torn]
    <3>1. stamp \in Seconds /\ stamp =< stamp
      BY <2>3 DEF RunOK, Seconds
    <3>2. \A e \in Extras, s \in Seconds : s = stamp \/ copy'[e][s] = copy[e][s]
      BY <2>3, <3>1 DEF TypeOK, RunOK
    <3> QED
      BY <2>1, <3>1, <3>2
  <2> QED
    BY <1>10, <2>2, <2>3 DEF RegenFails
<1> QED
  BY <1>1, <1>2, <1>3, <1>4, <1>5, <1>6, <1>7, <1>8, <1>9, <1>10 DEF Regen

\* Content n of extra file e is in a copy of it.
Copied(e, n) == \E s \in Seconds : copy[e][s] = n

\* A run overwrites nothing but what it has copied, and no copy of another.
LEMMA RegenKeepsProgress ==
    ASSUME TypeOK, RunOK, Copies, ProgressKept, Regen
    PROVE  ProgressKept'
<1> SUFFICES ASSUME NEW e \in Extras, NEW n \in replaced'[e] \intersect 1 .. MaxProgress
             PROVE  Copied(e, n)'
  BY DEF ProgressKept, Copied
<1>n. n # None /\ n # Torn /\ n # 0
  BY DistinctAssumption
<1>0. n \in replaced[e] => Copied(e, n)
  BY DEF ProgressKept, Copied
<1> USE DEF Copies, Uncopied, files, history
<1>1. CASE BackupExtra \/ (RegenFails /\ pc = "backup")
  <2>1. /\ pc = "backup" /\ replaced' = replaced /\ copy[buffer[1]][stamp] = None
        /\ stamp \in Seconds
    BY <1>1 DEF BackupExtra, RegenFails, RunOK
  <2>2. \A s \in Seconds : copy[e][s] # None => copy'[e][s] = copy[e][s]
    <3>1. \/ copy' = copy
          \/ copy' = [copy EXCEPT ![buffer[1]][stamp] = buffer[2]]
          \/ copy' = [copy EXCEPT ![buffer[1]][stamp] = Torn]
      BY <1>1 DEF BackupExtra, RegenFails
    <3>2. \A s \in Seconds : e # buffer[1] \/ s # stamp => copy'[e][s] = copy[e][s]
      BY <3>1 DEF TypeOK
    <3> QED
      BY <2>1, <3>2
  <2> QED
    BY <1>0, <1>n, <2>1, <2>2 DEF Copied
<1>2. CASE ResetExtra \/ (RegenFails /\ pc = "reset")
  <2>1. /\ copy' = copy /\ stamp \in Seconds /\ buffer[1] \in Extras
        /\ copy[buffer[1]][stamp] = extra[buffer[1]]
    BY <1>2 DEF ResetExtra, RegenFails, RunOK
  <2>2. \/ replaced' = replaced
        \/ replaced' = [replaced EXCEPT ![buffer[1]] = @ \union {extra[buffer[1]]}]
    BY <1>2 DEF ResetExtra, RegenFails, Overwrite
  <2>3. n \in replaced[e] \/ (e = buffer[1] /\ n = extra[e])
    BY <2>1, <2>2 DEF TypeOK
  <2> QED
    BY <1>0, <2>1, <2>3 DEF Copied
<1>3. CASE ~BackupExtra /\ ~ResetExtra /\ (RegenFails => pc \notin {"backup", "reset"})
  <2>1. copy' = copy /\ replaced' = replaced
    BY <1>3 DEF Regen, Begin, BlankSeed, RenameWorld, ReadExtra, ExtrasDone, CopyTemplate,
       RegenOk, RegenReturns, RegenFails
  <2> QED
    BY <1>0, <2>1 DEF Copied
<1> QED
  BY <1>1, <1>2, <1>3

\* No progress is ever lost: what a run overwrote in an extra file is in a
\* copy of it, provided that no server process is at work during a run and
\* no two runs begin within one second.
THEOREM ProgressIsKept ==
    ASSUME Disciplined, ~SameSecond
    PROVE  Spec => []ProgressKept
<1>1. Init => Undisturbed /\ Copies /\ ProgressKept
  BY DEF Init, Undisturbed, Copies, ProgressKept
<1>2. TypeOK /\ RunOK /\ Undisturbed /\ Copies /\ ProgressKept /\ [Next]_vars
        => Undisturbed' /\ Copies' /\ ProgressKept'
  <2> SUFFICES ASSUME TypeOK, RunOK, Undisturbed, Copies, ProgressKept, [Next]_vars
               PROVE  Copies' /\ ProgressKept'
    BY UndisturbedKept
  <2>1. CASE UNCHANGED vars
    BY <2>1 DEF vars, regen, files, history, Copies, Uncopied, ProgressKept
  <2>2. CASE (Server \/ Clock) /\ pc = "idle"
    <3>1. pc' = "idle" /\ UNCHANGED <<stamp, copy, replaced>>
      BY <2>2 DEF Server, ServerOps, ServerUp, ServerMoves, ServerSaves, Clock, regen, files, history
    <3> QED
      BY <2>2, <3>1 DEF Copies, ProgressKept
  <2>3. CASE (Server \/ Clock) /\ pc # "idle"
    BY <2>3, QuietFiles DEF regen, files, history, Copies, Uncopied, ProgressKept
  <2> QED
    BY <2>1, <2>2, <2>3, RegenCopies, RegenKeepsProgress DEF Next
<1> QED
  BY <1>1, <1>2, RunCorrect, PTL DEF Spec

=============================================================================
