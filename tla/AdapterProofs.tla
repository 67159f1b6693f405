---------------------------- MODULE AdapterProofs ----------------------------
(***************************************************************************)
(* Theorems about Adapter: the configuration that it runs with, the codec  *)
(* of Mcproto, and a connection.  They hold for any number of instances    *)
(* and of fields in the file, any width of an integer and of its groups,   *)
(* any version of a client and any length of an answer.                    *)
(*                                                                         *)
(* The sections: the configuration file; induction and recursion over the  *)
(* naturals; shifts; integers, strings and packets as bytes and back; what *)
(* a client sends; where the handler is; what it has answered.             *)
(***************************************************************************)
EXTENDS Adapter, SequenceTheorems, WellFoundedInduction, TLAPS

-----------------------------------------------------------------------------
(* The sections of the file.                                               *)

\* What a file may hold: fields that exist, and for a game only fields that
\* GameDefaults has.
FileOK ==
    /\ file.section \in Sections
    /\ \A w \in Writers :
          file.sets[w] # Nil => file.sets[w] \subseteq Fields[file.section]
    /\ \A g \in Games :
          file.sets[g] # Nil => file.sets[g] \subseteq Shared(file.section)

\* Load has merged instance i.
Reached(i) == stage # "load" \/ i < next

\* Nobody but Load's own turn writes a section of an instance, and nobody
\* writes a section of a game: a merged instance is a function of the file.
Loaded ==
    /\ FileOK
    /\ next \in Instances
    /\ games = [g \in Games |-> [t \in Sections |-> Section(t, g)]]
    /\ inst = [i \in Instances |-> [t \in Sections |->
                 IF Reached(i) /\ game[i] \in Games
                 THEN Merge(t, Section(t, i), Section(t, game[i]))
                 ELSE Section(t, i)]]

\* There is an instance, and instances are numbers.
LEMMA InstancesAre == Count \in Nat /\ Count > 0 /\ Instances \subseteq Nat
BY ConfigAssumption DEF Instances

\* Every field that a game can set is one that the merge functions test.
LEMMA SharedIsMerged == \A t \in Sections : Shared(t) \subseteq Merged[t]
BY DEF Shared, Merged, Fields, Sections

\* What everybody has written into his sections.
LEMMA SectionIs ==
    ASSUME FileOK, NEW t \in Sections, NEW w \in Writers
    PROVE  /\ Section(t, w) = Nil \/ Section(t, w) \in [Fields[t] -> {Unset, w}]
           /\ \A f \in Fields[t] : Sets(w, t, f) =>
                 Section(t, w) # Nil /\ Section(t, w)[f] = w
           /\ \A f \in Fields[t] : ~Sets(w, t, f) =>
                 Section(t, w) = Nil \/ Section(t, w)[f] = Unset
<1>1. \A section \in [Fields[t] -> {Unset, w}] : section # Nil
  <2>1. \A section \in [Fields[t] -> {Unset} \union Writers] : section # Nil
    BY DistinctAssumption
  <2> QED BY <2>1
<1>2. CASE t = file.section /\ file.sets[w] # Nil
  <2>1. Section(t, w) = [f \in Fields[t] |-> IF f \in file.sets[w] THEN w ELSE Unset]
    BY <1>2 DEF Section
  <2>2. Section(t, w) \in [Fields[t] -> {Unset, w}]
    BY <2>1
  <2> QED BY <1>1, <1>2, <2>1, <2>2 DEF Sets
<1>3. CASE ~(t = file.section /\ file.sets[w] # Nil)
  <2>1. Section(t, w) = IF t = "instance" THEN [f \in Fields[t] |-> Unset] ELSE Nil
    BY <1>3 DEF Section
  <2>2. \A f : ~Sets(w, t, f)
    BY <1>3 DEF Sets
  <2> QED BY <2>1, <2>2
<1> QED BY <1>2, <1>3

\* A file as ConfigInit takes it.
LEMMA InitLoaded == ConfigInit => Loaded
<1> SUFFICES ASSUME ConfigInit PROVE Loaded
  OBVIOUS
<1>0. PICK s \in Sections : \E some \in kSubset(Written, Fields[s]) :
         /\ \E sets \in [Writers -> {Nil} \union SUBSET some] :
               file = [section |-> s, sets |-> sets]
         /\ \A g \in Games : file.sets[g] \in {Nil} \union SUBSET Shared(s)
  BY DEF ConfigInit
<1>1. PICK some \in kSubset(Written, Fields[s]) :
         /\ \E sets \in [Writers -> {Nil} \union SUBSET some] :
               file = [section |-> s, sets |-> sets]
         /\ \A g \in Games : file.sets[g] \in {Nil} \union SUBSET Shared(s)
  BY <1>0
<1>2. some \subseteq Fields[s]
  BY DEF kSubset
<1>3. PICK sets \in [Writers -> {Nil} \union SUBSET some] :
         file = [section |-> s, sets |-> sets]
  BY <1>1
<1>4. file.section = s /\ file.sets = sets
  BY <1>3
<1>5. FileOK
  <2>1. \A w \in Writers : file.sets[w] # Nil => file.sets[w] \subseteq Fields[s]
    BY <1>2, <1>3, <1>4
  <2>2. \A g \in Games : file.sets[g] # Nil => file.sets[g] \subseteq Shared(s)
    BY <1>1
  <2> QED BY <1>4, <2>1, <2>2 DEF FileOK
<1>6. next \in Instances /\ \A i \in Instances : ~Reached(i)
  <2>1. next = 1 /\ stage = "load"
    BY DEF ConfigInit
  <2> QED BY <2>1, InstancesAre DEF Reached, Instances
<1>7. inst = [i \in Instances |-> [t \in Sections |-> Section(t, i)]]
      /\ games = [g \in Games |-> [t \in Sections |-> Section(t, g)]]
  BY DEF ConfigInit
<1>8. inst = [i \in Instances |-> [t \in Sections |->
                IF Reached(i) /\ game[i] \in Games
                THEN Merge(t, Section(t, i), Section(t, game[i]))
                ELSE Section(t, i)]]
  BY <1>6, <1>7
<1> QED BY <1>5, <1>6, <1>7, <1>8 DEF Loaded

\* One turn of Load's loop merges one instance and touches no other.
LEMMA LoadNextLoaded == Loaded /\ LoadNext => Loaded'
<1> SUFFICES ASSUME Loaded, LoadNext PROVE Loaded'
  OBVIOUS
<1> DEFINE merged(i) == [t \in Sections |-> Merge(t, Section(t, i), Section(t, game[i]))]
           own(i) == [t \in Sections |-> Section(t, i)]
<1>1. /\ stage = "load" /\ file' = file /\ game' = game /\ games' = games
      /\ next \in Instances /\ next \in Nat /\ Count \in Nat
  BY InstancesAre DEF LoadNext, Loaded
<1>3. next' \in Instances /\ \A i \in Instances : Reached(i)' <=> i <= next
  <2>1. CASE next = Count
    <3>1. next' = 1 /\ stage' = "build"
      BY <2>1 DEF LoadNext, Advance
    <3> QED BY <1>1, <2>1, <3>1, InstancesAre DEF Reached, Instances
  <2>2. CASE next # Count
    <3>1. next' = next + 1 /\ stage' = stage
      BY <2>2 DEF LoadNext, Advance
    <3> QED BY <1>1, <2>2, <3>1, InstancesAre DEF Reached, Instances
  <2> QED BY <2>1, <2>2
<1>4. \A i \in Instances : Reached(i) <=> i < next
  BY <1>1 DEF Reached
<1>5. \A i \in Instances :
         inst[i] = IF i < next /\ game[i] \in Games THEN merged(i) ELSE own(i)
  BY <1>4 DEF Loaded
<1>6. \A i \in Instances : i # next => (i < next <=> i <= next)
  BY <1>1, InstancesAre
<1>7. inst' = [i \in Instances |->
                 IF i <= next /\ game[i] \in Games THEN merged(i) ELSE own(i)]
  <2>1. inst[next] = own(next)
    <3>1. ~(next < next)
      BY <1>1
    <3> HIDE DEF merged, own
    <3> QED BY <1>1, <1>5, <3>1
  <2>2. inst = [i \in Instances |-> inst[i]]
    BY DEF Loaded
  <2>3. CASE game[next] \in Games
    <3>1. games[game[next]] = [t \in Sections |-> Section(t, game[next])]
      BY <2>3 DEF Loaded
    <3>2. inst' = [inst EXCEPT ![next] =
                     [t \in Sections |-> Merge(t, inst[next][t], games[game[next]][t])]]
      BY <2>3 DEF LoadNext
    <3>3. [t \in Sections |-> Merge(t, inst[next][t], games[game[next]][t])] = merged(next)
      BY <2>1, <3>1
    <3>4. inst' = [inst EXCEPT ![next] = merged(next)]
      BY <3>2, <3>3
    <3> HIDE DEF merged, own
    <3> QED BY <1>1, <1>5, <1>6, <2>2, <2>3, <3>4
  <2>4. CASE game[next] \notin Games
    <3>1. inst' = inst
      BY <2>4 DEF LoadNext
    <3> HIDE DEF merged, own
    <3> QED BY <1>1, <1>5, <1>6, <2>2, <2>4, <3>1
  <2> QED BY <2>3, <2>4
<1>8. FileOK'
  BY <1>1 DEF Loaded, FileOK
<1>9. games = [g \in Games |-> [t \in Sections |-> Section(t, g)]]
  BY DEF Loaded
<1>10. inst' = [i \in Instances |-> [t \in Sections |->
                  IF Reached(i)' /\ game[i] \in Games
                  THEN Merge(t, Section(t, i), Section(t, game[i]))
                  ELSE Section(t, i)]]
  BY <1>3, <1>7
<1> HIDE DEF merged, own
<1> QED BY <1>1, <1>3, <1>8, <1>9, <1>10 DEF Loaded, Section

\* A step that writes no configuration.
LEMMA QuietLoaded ==
    ASSUME Loaded, UNCHANGED <<file, game, inst, games>>, next' \in Instances,
           \A i \in Instances : Reached(i)' <=> Reached(i)
    PROVE  Loaded'
<1>1. inst = [i \in Instances |-> [t \in Sections |->
                IF Reached(i)' /\ game[i] \in Games
                THEN Merge(t, Section(t, i), Section(t, game[i]))
                ELSE Section(t, i)]]
  BY DEF Loaded
<1>2. games = [g \in Games |-> [t \in Sections |-> Section(t, g)]]
  BY DEF Loaded
<1>3. FileOK'
  BY DEF Loaded, FileOK
<1> QED BY <1>1, <1>2, <1>3 DEF Loaded, Section

\* The construction of the adapters reads the configuration only.
LEMMA BuildNextLoaded == Loaded /\ BuildNext => Loaded'
<1> SUFFICES ASSUME Loaded, BuildNext PROVE Loaded'
  OBVIOUS
<1>1. /\ stage = "build" /\ next \in Instances
      /\ UNCHANGED <<file, game, inst, games>>
  BY DEF BuildNext, Loaded
<1>2. stage' # "load" /\ next' \in Instances
  <2>1. CASE stage' = "fatal" /\ next' = next
    BY <1>1, <2>1
  <2>2. CASE next = Count /\ next' = 1 /\ stage' = "serve"
    BY <2>2, InstancesAre DEF Instances
  <2>3. CASE next # Count /\ next' = next + 1 /\ stage' = stage
    BY <1>1, <2>3, InstancesAre DEF Instances
  <2> QED BY <2>1, <2>2, <2>3 DEF BuildNext, Advance
<1>3. \A i \in Instances : Reached(i)' <=> Reached(i)
  BY <1>1, <1>2 DEF Reached
<1> QED BY <1>1, <1>2, <1>3, QuietLoaded

\* Connections do not touch the configuration.
LEMMA NextLoaded == Loaded /\ [AdapterNext]_adapterVars => Loaded'
<1> SUFFICES ASSUME Loaded, [AdapterNext]_adapterVars PROVE Loaded'
  OBVIOUS
<1>1. CASE ConfigNext
  BY <1>1, LoadNextLoaded, BuildNextLoaded DEF ConfigNext
<1>2. CASE UNCHANGED config
  BY <1>2, QuietLoaded DEF config, Loaded, Reached
<1>3. \/ ConfigNext
      \/ UNCHANGED config
  BY DEF AdapterNext, adapterVars, Accept, ClientSends, ClientCloses, ReadHandshake,
         ReadRequest, ReadPing
<1> QED BY <1>1, <1>2, <1>3

\* Merging one section of an instance with that of its game does what the
\* documentation says of every field.
LEMMA MergedIsPromised ==
    ASSUME FileOK, NEW t \in Sections, NEW f \in Fields[t],
           NEW i \in Instances, NEW g \in Games
    PROVE  LET section == Merge(t, Section(t, i), Section(t, g))
           IN  IF Sets(i, t, f) THEN section # Nil /\ section[f] = i
               ELSE IF Sets(g, t, f) THEN section # Nil /\ section[f] = g
               ELSE section = Nil \/ section[f] = Unset
<1> DEFINE own == Section(t, i)
           default == Section(t, g)
           section == Merge(t, own, default)
<1>0. i \in Writers /\ g \in Writers
  BY DEF Writers
<1>1. /\ own = Nil \/ own \in [Fields[t] -> {Unset, i}]
      /\ Sets(i, t, f) => own # Nil /\ own[f] = i
      /\ ~Sets(i, t, f) => own = Nil \/ own[f] = Unset
      /\ default = Nil \/ default \in [Fields[t] -> {Unset, g}]
      /\ Sets(g, t, f) => default # Nil /\ default[f] = g
      /\ ~Sets(g, t, f) => default = Nil \/ default[f] = Unset
  BY <1>0, SectionIs
<1>2. i # Unset /\ g # Unset
  BY <1>0, DistinctAssumption
<1>3. Sets(g, t, f) => f \in Merged[t]
  BY SharedIsMerged DEF Sets, FileOK
<1> HIDE DEF own, default
<1>4. CASE default = Nil
  BY <1>1, <1>4 DEF Merge, own, default
<1>5. CASE default # Nil
  <2>1. section = [x \in Fields[t] |->
                     IF own # Nil /\ own[x] # Unset THEN own[x]
                     ELSE IF x \in Merged[t] THEN default[x] ELSE Unset]
    BY <1>5 DEF Merge
  <2>2. section[f] = IF own # Nil /\ own[f] # Unset THEN own[f]
                     ELSE IF f \in Merged[t] THEN default[f] ELSE Unset
    BY <2>1
  <2>3. section \in [Fields[t] -> {Unset} \union Writers]
    <3>1. \A x \in Fields[t] : own # Nil => own[x] \in {Unset} \union Writers
      BY <1>0, <1>1
    <3>2. \A x \in Fields[t] : default[x] \in {Unset} \union Writers
      BY <1>0, <1>1, <1>5
    <3> HIDE DEF section
    <3> QED BY <2>1, <3>1, <3>2
  <2>4. section # Nil
    <3> HIDE DEF section
    <3> QED BY <2>3, DistinctAssumption
  <2>5. IF Sets(i, t, f) THEN section # Nil /\ section[f] = i
        ELSE IF Sets(g, t, f) THEN section # Nil /\ section[f] = g
        ELSE section = Nil \/ section[f] = Unset
    <3> HIDE DEF section
    <3> QED BY <1>1, <1>2, <1>3, <1>5, <2>2, <2>4
  <2> QED BY <2>5 DEF own, default
<1> QED BY <1>4, <1>5

\* Every value that a package works with is whose the documentation says.
LEMMA LoadedIsPromised == Loaded => Precedence
<1> SUFFICES ASSUME Loaded, stage # "load",
                    NEW i \in Instances, NEW t \in Sections, NEW f \in Fields[t]
             PROVE  Resolved(i, t, f) = Promised(i, t, f)
  BY DEF Precedence
<1>1. FileOK /\ i \in Writers /\ i # Unset
  BY DistinctAssumption DEF Loaded, Writers
<1>2. inst[i][t] = IF game[i] \in Games
                   THEN Merge(t, Section(t, i), Section(t, game[i]))
                   ELSE Section(t, i)
  BY DEF Loaded, Reached
<1>3. CASE game[i] \in Games
  <2>1. game[i] # Unset
    BY <1>3, DistinctAssumption DEF Writers
  <2>2. IF Sets(i, t, f) THEN inst[i][t] # Nil /\ inst[i][t][f] = i
        ELSE IF Sets(game[i], t, f) THEN inst[i][t] # Nil /\ inst[i][t][f] = game[i]
        ELSE inst[i][t] = Nil \/ inst[i][t][f] = Unset
    BY <1>1, <1>2, <1>3, MergedIsPromised
  <2> QED BY <1>1, <1>3, <2>1, <2>2 DEF Resolved, Promised
<1>4. CASE game[i] \notin Games
  <2>1. /\ Sets(i, t, f) => inst[i][t] # Nil /\ inst[i][t][f] = i
        /\ ~Sets(i, t, f) => inst[i][t] = Nil \/ inst[i][t][f] = Unset
    BY <1>1, <1>2, <1>4, SectionIs
  <2> QED BY <1>1, <1>4, <2>1 DEF Resolved, Promised
<1> QED BY <1>3, <1>4

\* Load and the resolve functions: the value a package works with is that of
\* the instance, else that of its game, else the built-in one, for every field
\* of every instance, whatever the others in the file say.
THEOREM FieldsAreResolved == AdapterSpec => []Precedence
<1>1. AdapterInit => Loaded
  BY InitLoaded DEF AdapterInit
<1> QED BY <1>1, LoadedIsPromised, NextLoaded, PTL DEF AdapterSpec

\* The stage of the process, and the games of its instances.
Kinds ==
    /\ stage \in Stages
    /\ game \in [Instances -> {Minecraft, Unknown}]

\* No step makes another stage or another game of an instance.
LEMMA NextKinds == Kinds /\ Loaded /\ [AdapterNext]_adapterVars => Kinds'
<1> SUFFICES ASSUME Kinds, Loaded, [AdapterNext]_adapterVars PROVE Kinds'
  OBVIOUS
<1>1. CASE ConfigNext
  BY <1>1 DEF ConfigNext, LoadNext, BuildNext, Advance, Kinds, Stages
<1>2. CASE UNCHANGED config
  BY <1>2 DEF config, Kinds
<1>3. ConfigNext \/ UNCHANGED config
  BY DEF AdapterNext, adapterVars, Accept, ClientSends, ClientCloses, ReadHandshake,
         ReadRequest, ReadPing
<1> QED BY <1>1, <1>2, <1>3

\* Merging keeps the fields of a section and invents no writer.
LEMMA LoadedTypes == Loaded /\ Kinds => ConfigTypeOK
<1> SUFFICES ASSUME Loaded, Kinds, NEW t \in Sections
             PROVE  /\ \A i \in Instances :
                          inst[i][t] = Nil \/ inst[i][t] \in [Fields[t] -> {Unset} \union Writers]
                    /\ \A g \in Games :
                          games[g][t] = Nil \/ games[g][t] \in [Fields[t] -> {Unset, g}]
  BY DEF ConfigTypeOK, Loaded, Kinds
<1>1. FileOK /\ Instances \subseteq Writers /\ Games \subseteq Writers
  BY DEF Loaded, Writers
<1>2. ASSUME NEW g \in Games
      PROVE  games[g][t] = Nil \/ games[g][t] \in [Fields[t] -> {Unset, g}]
  <2>1. games[g][t] = Section(t, g)
    BY DEF Loaded
  <2> QED BY <1>1, <2>1, SectionIs
<1>3. ASSUME NEW i \in Instances
      PROVE  inst[i][t] = Nil \/ inst[i][t] \in [Fields[t] -> {Unset} \union Writers]
  <2> DEFINE own == Section(t, i)
             default == Section(t, game[i])
  <2>1. own = Nil \/ own \in [Fields[t] -> {Unset} \union Writers]
    <3>1. own = Nil \/ own \in [Fields[t] -> {Unset, i}]
      BY <1>1, SectionIs
    <3> HIDE DEF own
    <3> QED BY <1>1, <3>1
  <2>2. inst[i][t] = IF Reached(i) /\ game[i] \in Games THEN Merge(t, own, default) ELSE own
    BY DEF Loaded
  <2>3. CASE Reached(i) /\ game[i] \in Games
    <3>1. default = Nil \/ default \in [Fields[t] -> {Unset} \union Writers]
      <4>1. default = Nil \/ default \in [Fields[t] -> {Unset, game[i]}]
        BY <1>1, <2>3, SectionIs
      <4> HIDE DEF default
      <4> QED BY <1>1, <2>3, <4>1
    <3> HIDE DEF own, default
    <3>2. CASE default = Nil
      BY <2>1, <2>2, <2>3, <3>2 DEF Merge
    <3>3. CASE default # Nil
      <4>1. inst[i][t] = [f \in Fields[t] |->
                            IF own # Nil /\ own[f] # Unset THEN own[f]
                            ELSE IF f \in Merged[t] THEN default[f] ELSE Unset]
        BY <2>2, <2>3, <3>3 DEF Merge
      <4>2. \A f \in Fields[t] : /\ own # Nil => own[f] \in {Unset} \union Writers
                                 /\ default[f] \in {Unset} \union Writers
        BY <2>1, <3>1, <3>3
      <4> QED BY <4>1, <4>2
    <3> QED BY <3>2, <3>3
  <2>4. CASE ~(Reached(i) /\ game[i] \in Games)
    BY <2>1, <2>2, <2>4
  <2> QED BY <2>3, <2>4
<1> QED BY <1>2, <1>3

-----------------------------------------------------------------------------
(* Induction and recursion over the naturals, for sets and functions.      *)

\* A set of naturals that is not empty has a least member.
LEMMA Least ==
    ASSUME NEW T, T \subseteq Nat, T # {}
    PROVE  \E x \in T : \A y \in T : x <= y
<1> DEFINE R == OpToRel(<, Nat)
<1>1. \E x \in T : \A y \in T : <<y, x>> \notin R
  <2>1. IsWellFoundedOn(R, Nat)
    BY NatLessThanWellFounded, Zenon
  <2> HIDE DEF R
  <2> QED BY <2>1, WFMin
<1>2. \A x, y \in Nat : <<y, x>> \notin R => x <= y
  BY DEF OpToRel
<1> HIDE DEF R
<1> QED BY <1>1, <1>2

\* A set with 0 and the successor of each of its naturals has all naturals.
LEMMA Induction ==
    ASSUME NEW S, 0 \in S, \A n \in Nat : n \in S => n + 1 \in S
    PROVE  \A n \in Nat : n \in S
<1> SUFFICES ASSUME NEW m \in Nat, m \notin S PROVE FALSE
  OBVIOUS
<1> DEFINE T == Nat \ S
<1>1. PICK x \in T : \A y \in T : x <= y
  <2>1. T # {} /\ T \subseteq Nat
    OBVIOUS
  <2> HIDE DEF T
  <2> QED BY <2>1, Least
<1>2. x \in Nat /\ x # 0
  BY <1>1
<1>3. x - 1 \in Nat /\ ~(x <= x - 1) /\ (x - 1) + 1 = x
  BY <1>2
<1>4. x - 1 \in S
  BY <1>1, <1>3
<1>5. x \in S
  BY <1>3, <1>4
<1> QED BY <1>1, <1>5

\* What a loop has after n turns, for every n.
Turns(S, start, step) ==
    {f \in [Nat -> S] : f[0] = start /\ \A n \in Nat : f[n + 1] = step[n][f[n]]}

\* A loop that goes on for ever has a value after every turn.
LEMMA Recursion ==
    ASSUME NEW S, NEW start \in S, NEW step \in [Nat -> [S -> S]]
    PROVE  Turns(S, start, step) # {}
<1> DEFINE Runs(n) ==
      {f \in [0 .. n -> S] :
          f[0] = start /\ \A m \in Nat : m < n => f[m + 1] = step[m][f[m]]}
<1>1. \A n \in Nat : Runs(n) # {}
  <2> DEFINE T == {n \in Nat : Runs(n) # {}}
  <2>1. 0 \in T
    <3>1. [m \in 0 .. 0 |-> start] \in Runs(0)
      OBVIOUS
    <3> QED BY <3>1
  <2>2. ASSUME NEW n \in Nat, n \in T PROVE n + 1 \in T
    <3>1. PICK f \in Runs(n) : TRUE
      BY <2>2
    <3>2. f \in [0 .. n -> S] /\ f[n] \in S
      BY <3>1
    <3> DEFINE g == [m \in 0 .. n + 1 |-> IF m = n + 1 THEN step[n][f[n]] ELSE f[m]]
    <3>3. step[n][f[n]] \in S
      BY <3>2
    <3>4. g \in [0 .. n + 1 -> S]
      BY <3>2, <3>3
    <3>5. g[0] = start
      BY <3>1
    <3>6. ASSUME NEW m \in Nat, m < n + 1 PROVE g[m + 1] = step[m][g[m]]
      <4>1. CASE m = n
        <5>1. g[m + 1] = step[n][f[n]]
          BY <4>1
        <5>2. g[m] = f[n]
          BY <4>1
        <5> QED BY <4>1, <5>1, <5>2
      <4>2. CASE m # n
        <5>1. m < n /\ m + 1 # n + 1 /\ m # n + 1 /\ m + 1 \in 0 .. n + 1 /\ m \in 0 .. n + 1
          BY <3>6, <4>2
        <5>2. g[m + 1] = f[m + 1] /\ g[m] = f[m]
          BY <5>1
        <5>3. f[m + 1] = step[m][f[m]]
          BY <3>1, <5>1
        <5> QED BY <5>2, <5>3
      <4> QED BY <4>1, <4>2
    <3>7. g \in Runs(n + 1)
      <4>1. \A m \in Nat : m < n + 1 => g[m + 1] = step[m][g[m]]
        BY <3>6
      <4> HIDE DEF g
      <4> QED BY <3>4, <3>5, <4>1
    <3> HIDE DEF Runs
    <3> QED BY <3>7
  <2> HIDE DEF T
  <2>3. \A n \in Nat : n \in T
    BY <2>1, <2>2, Induction
  <2> QED BY <2>3 DEF T
<1>2. ASSUME NEW n \in Nat, NEW f \in Runs(n), NEW m \in Nat, NEW g \in Runs(m)
      PROVE  \A k \in Nat : k <= n /\ k <= m => f[k] = g[k]
  <2> DEFINE T == {k \in Nat : k <= n /\ k <= m => f[k] = g[k]}
  <2>1. 0 \in T
    OBVIOUS
  <2>2. ASSUME NEW k \in Nat, k \in T PROVE k + 1 \in T
    <3> SUFFICES ASSUME k + 1 <= n, k + 1 <= m PROVE f[k + 1] = g[k + 1]
      OBVIOUS
    <3>1. k < n /\ k < m /\ k <= n /\ k <= m
      OBVIOUS
    <3>2. f[k] = g[k]
      BY <2>2, <3>1
    <3>3. f[k + 1] = step[k][f[k]] /\ g[k + 1] = step[k][g[k]]
      BY <3>1
    <3> QED BY <3>2, <3>3
  <2> HIDE DEF T
  <2>3. \A k \in Nat : k \in T
    BY <2>1, <2>2, Induction
  <2> QED BY <2>3 DEF T
<1> DEFINE one == [n \in Nat |-> CHOOSE f : f \in Runs(n)]
           f == [n \in Nat |-> one[n][n]]
<1>3. \A n \in Nat : one[n] \in Runs(n)
  BY <1>1
<1> HIDE DEF one
<1>4. f \in [Nat -> S]
  BY <1>3
<1>5. f[0] = start
  BY <1>3
<1>6. ASSUME NEW n \in Nat PROVE f[n + 1] = step[n][f[n]]
  <2>1. one[n] \in Runs(n) /\ one[n + 1] \in Runs(n + 1)
    <3>1. n + 1 \in Nat
      OBVIOUS
    <3> HIDE DEF Runs, f
    <3> QED BY <1>3, <3>1
  <2>2. one[n][n] = one[n + 1][n]
    <3> HIDE DEF Runs
    <3> QED BY <1>2, <2>1
  <2>3. one[n + 1][n + 1] = step[n][one[n + 1][n]]
    <3> DEFINE g == one[n + 1]
    <3>1. \A m \in Nat : m < n + 1 => g[m + 1] = step[m][g[m]]
      BY <2>1
    <3>2. n < n + 1
      OBVIOUS
    <3> HIDE DEF g
    <3>3. g[n + 1] = step[n][g[n]]
      BY <3>1, <3>2
    <3> QED BY <3>3 DEF g
  <2> QED BY <2>2, <2>3
<1> HIDE DEF f
<1> QED BY <1>4, <1>5, <1>6 DEF Turns

\* A running sum.
LEMMA Sums ==
    ASSUME NEW digits \in [Nat -> Nat]
    PROVE  \E f \in [Nat -> Nat] :
              f[0] = 0 /\ \A k \in Nat : f[k + 1] = f[k] + digits[k]
<1> DEFINE step == [n \in Nat |-> [x \in Nat |-> x + digits[n]]]
<1>1. step \in [Nat -> [Nat -> Nat]] /\ 0 \in Nat
  OBVIOUS
<1>2. \A n, x \in Nat : step[n][x] = x + digits[n]
  OBVIOUS
<1> HIDE DEF step
<1>3. Turns(Nat, 0, step) # {}
  BY <1>1, Recursion
<1>4. PICK f \in [Nat -> Nat] :
         f[0] = 0 /\ \A n \in Nat : f[n + 1] = step[n][f[n]]
  BY <1>3 DEF Turns
<1>5. \A n \in Nat : f[n] \in Nat
  OBVIOUS
<1>6. \A n \in Nat : f[n + 1] = f[n] + digits[n]
  BY <1>2, <1>4, <1>5
<1> QED BY <1>4, <1>6

-----------------------------------------------------------------------------
(* Shifts.                                                                 *)

\* The recursion of Shift, from its definition by a recursive function.
LEMMA ShiftIs ==
    /\ Shift[0] = 1
    /\ \A n \in Nat : Shift[n + 1] = 2 * Shift[n]
    /\ \A n \in Nat : Shift[n] \in Nat \ {0}
<1> DEFINE body(f) == [n \in Nat |-> IF n = 0 THEN 1 ELSE 2 * f[n - 1]]
           double == [n \in Nat |-> [x \in Nat |-> 2 * x]]
<1>1. PICK f \in [Nat -> Nat] : f[0] = 1 /\ \A n \in Nat : f[n + 1] = 2 * f[n]
  <2>1. double \in [Nat -> [Nat -> Nat]] /\ 1 \in Nat
    OBVIOUS
  <2>2. \A n, x \in Nat : double[n][x] = 2 * x
    OBVIOUS
  <2> HIDE DEF double
  <2>3. Turns(Nat, 1, double) # {}
    BY <2>1, Recursion
  <2> QED BY <2>2, <2>3 DEF Turns
<1>2. f = body(f)
  <2>1. ASSUME NEW n \in Nat PROVE f[n] = IF n = 0 THEN 1 ELSE 2 * f[n - 1]
    <3>1. CASE n = 0
      BY <1>1, <3>1
    <3>2. CASE n # 0
      <4>1. n - 1 \in Nat /\ (n - 1) + 1 = n
        BY <3>2
      <4> QED BY <1>1, <3>2, <4>1
    <3> QED BY <3>1, <3>2
  <2> QED BY <2>1
<1>3. Shift = CHOOSE g : g = body(g)
  BY DEF Shift
<1>4. Shift = body(Shift)
  BY <1>2, <1>3
<1>5. Shift[0] = 1 /\ \A n \in Nat : Shift[n + 1] = 2 * Shift[n]
  BY <1>4
<1>6. \A n \in Nat : Shift[n] \in Nat \ {0}
  <2> DEFINE T == {n \in Nat : Shift[n] \in Nat \ {0}}
  <2>1. 0 \in T /\ \A n \in Nat : n \in T => n + 1 \in T
    BY <1>5
  <2> HIDE DEF T
  <2>2. \A n \in Nat : n \in T
    BY <2>1, Induction
  <2> QED BY <2>2 DEF T
<1> QED BY <1>5, <1>6

\* A shift by two distances is a shift by their sum.
LEMMA ShiftAdds == \A m, n \in Nat : Shift[m + n] = Shift[m] * Shift[n]
<1> SUFFICES ASSUME NEW m \in Nat PROVE \A n \in Nat : Shift[m + n] = Shift[m] * Shift[n]
  OBVIOUS
<1> DEFINE T == {n \in Nat : Shift[m + n] = Shift[m] * Shift[n]}
<1>1. 0 \in T
  BY ShiftIs
<1>2. ASSUME NEW n \in Nat, n \in T PROVE n + 1 \in T
  <2>1. Shift[m + (n + 1)] = 2 * Shift[m + n]
    BY ShiftIs
  <2>2. Shift[m] \in Nat /\ Shift[n] \in Nat /\ Shift[n + 1] = 2 * Shift[n]
    BY ShiftIs
  <2>3. \A x, y \in Nat : 2 * (x * y) = x * (2 * y)
    OBVIOUS
  <2> QED BY <1>2, <2>1, <2>2, <2>3
<1> HIDE DEF T
<1>3. \A n \in Nat : n \in T
  BY <1>1, <1>2, Induction
<1> QED BY <1>3 DEF T

\* A longer shift is no smaller.
LEMMA ShiftGrows == \A m, n \in Nat : m <= n => Shift[m] <= Shift[n]
<1>1. ASSUME NEW m \in Nat PROVE \A k \in Nat : Shift[m] <= Shift[m + k]
  <2> DEFINE T == {k \in Nat : Shift[m] <= Shift[m + k]}
  <2>1. 0 \in T
    BY ShiftIs
  <2>2. ASSUME NEW k \in Nat, k \in T PROVE k + 1 \in T
    <3>1. Shift[m + (k + 1)] = 2 * Shift[m + k] /\ Shift[m + k] \in Nat /\ Shift[m] \in Nat
      BY ShiftIs
    <3> QED BY <2>2, <3>1
  <2> HIDE DEF T
  <2>3. \A k \in Nat : k \in T
    BY <2>1, <2>2, Induction
  <2> QED BY <2>3 DEF T
<1> SUFFICES ASSUME NEW m \in Nat, NEW n \in Nat, m <= n PROVE Shift[m] <= Shift[n]
  OBVIOUS
<1>2. n - m \in Nat /\ m + (n - m) = n
  OBVIOUS
<1> QED BY <1>1, <1>2

\* The numbers that the widths determine.
LEMMA Constants ==
    /\ Width \in Nat \ {0} /\ Group \in Nat \ {0} /\ Group <= Width
    /\ Base \in Nat /\ Base > 1
    /\ Shift[Width] \in Nat \ {0} /\ Shift[Width - 1] \in Nat \ {0}
    /\ Shift[Width] = 2 * Shift[Width - 1]
<1>1. Width \in Nat \ {0} /\ Group \in Nat \ {0} /\ Group <= Width
  BY WidthAssumption
<1>2. Width - 1 \in Nat /\ (Width - 1) + 1 = Width /\ Group - 1 \in Nat /\ (Group - 1) + 1 = Group
  BY <1>1
<1>3. Shift[Group] = 2 * Shift[Group - 1] /\ Shift[Group - 1] \in Nat \ {0}
  BY <1>2, ShiftIs
<1>4. Shift[Width] = 2 * Shift[Width - 1] /\ Shift[Width - 1] \in Nat \ {0}
  BY <1>2, ShiftIs
<1> QED BY <1>1, <1>3, <1>4 DEF Base

\* Groups is what a number is divided by for its next group of bits.
LEMMA GroupsAre ==
    /\ Groups(0) = 1
    /\ \A n \in Nat : Groups(n) \in Nat \ {0} /\ Groups(n + 1) = Base * Groups(n)
<1>1. Groups(0) = 1
  <2>1. Group * 0 = 0
    BY Constants
  <2> QED BY <2>1, ShiftIs DEF Groups
<1>2. ASSUME NEW n \in Nat PROVE Groups(n) \in Nat \ {0} /\ Groups(n + 1) = Base * Groups(n)
  <2>1. Group * n \in Nat /\ Group * (n + 1) = Group + Group * n
    BY Constants
  <2>2. Shift[Group + Group * n] = Shift[Group] * Shift[Group * n]
    BY <2>1, Constants, ShiftAdds
  <2> QED BY <2>1, <2>2, ShiftIs DEF Groups, Base
<1> QED BY <1>1, <1>2

-----------------------------------------------------------------------------
(* Digits.                                                                 *)

\* Quotient and remainder are the only numbers that they can be.
LEMMA Quotient ==
    ASSUME NEW b \in Nat \ {0}, NEW q \in Nat, NEW r \in Nat, r < b
    PROVE  (b * q + r) \div b = q /\ (b * q + r) % b = r
<1> DEFINE a == b * q + r
           p == a \div b
           m == a % b
<1>1. a \in Nat /\ p \in Nat /\ m \in Nat /\ m < b /\ a = b * p + m
  OBVIOUS
<1>2. a = b * q + r
  OBVIOUS
<1> HIDE DEF a, p, m
<1>3. \A x, y \in Nat : x < y => b * x + b <= b * y
  OBVIOUS
<1>4. b * p \in Nat /\ b * q \in Nat
  BY <1>1
<1>5. ~(p < q)
  BY <1>1, <1>2, <1>3, <1>4
<1>6. ~(q < p)
  BY <1>1, <1>2, <1>3, <1>4
<1>7. p = q
  BY <1>1, <1>5, <1>6
<1>8. m = r
  BY <1>1, <1>2, <1>4, <1>7
<1> QED BY <1>7, <1>8 DEF p, m, a

\* One digit more of a number.
LEMMA NextDigit ==
    ASSUME NEW u \in Nat, NEW p \in Nat \ {0}, NEW b \in Nat \ {0}
    PROVE  u % (b * p) = (u % p) + ((u \div p) % b) * p
<1> DEFINE q == u \div p
           r == u % p
           q1 == q \div b
           r1 == q % b
<1>1. q \in Nat /\ r \in Nat /\ r < p /\ u = p * q + r
  OBVIOUS
<1> HIDE DEF q, r
<1>2. q1 \in Nat /\ r1 \in Nat /\ r1 < b /\ q = b * q1 + r1
  BY <1>1
<1> HIDE DEF q1, r1
<1>3. b * p \in Nat \ {0} /\ r1 * p \in Nat /\ r + r1 * p \in Nat
  BY <1>1, <1>2
<1>4. r + r1 * p < b * p
  <2>1. r1 + 1 <= b /\ r1 + 1 \in Nat
    BY <1>2
  <2>2. (r1 + 1) * p <= b * p
    BY <2>1
  <2>3. (r1 + 1) * p = r1 * p + p
    BY <1>2
  <2> QED BY <1>1, <1>3, <2>2, <2>3
<1>5. u = (b * p) * q1 + (r + r1 * p)
  <2>1. p * (b * q1 + r1) = p * (b * q1) + p * r1
    BY <1>2
  <2>2. p * (b * q1) = (b * p) * q1
    BY <1>2
  <2>3. p * r1 = r1 * p
    BY <1>2
  <2> QED BY <1>1, <1>2, <1>3, <2>1, <2>2, <2>3
<1>6. u % (b * p) = r + r1 * p
  BY <1>2, <1>3, <1>4, <1>5, Quotient
<1> QED BY <1>6 DEF q, r, r1

\* The value that the loop of ReadVarInt has after each turn.
LEMMA ValueIs ==
    ASSUME NEW s \in Seq(Bytes)
    PROVE  /\ Value(s, 0) = 0
           /\ \A n \in 0 .. Len(s) : Value(s, n) \in Nat
           /\ \A n \in Nat : n < Len(s) =>
                 Value(s, n + 1) = Value(s, n) + (s[n + 1] % Base) * Groups(n)
<1>0. Len(s) \in Nat /\ \A k \in 1 .. Len(s) : s[k] \in Nat
  BY LenProperties, ElementOfSeq, Constants DEF Bytes
<1> DEFINE digit(k) == IF k < Len(s) THEN (s[k + 1] % Base) * Groups(k) ELSE 0
<1>1. \A k \in Nat : digit(k) \in Nat
  <2> SUFFICES ASSUME NEW k \in Nat, k < Len(s)
               PROVE  (s[k + 1] % Base) * Groups(k) \in Nat
    OBVIOUS
  <2>1. k + 1 \in 1 .. Len(s)
    BY <1>0
  <2>2. s[k + 1] % Base \in Nat /\ Groups(k) \in Nat
    <3>1. \A x \in Nat : x % Base \in Nat
      BY Constants
    <3> QED BY <1>0, <2>1, <3>1, GroupsAre
  <2> QED BY <2>2
<1>2. PICK f \in [Nat -> Nat] : f[0] = 0 /\ \A k \in Nat : f[k + 1] = f[k] + digit(k)
  <2> DEFINE digits == [k \in Nat |-> digit(k)]
  <2>1. \A k \in Nat : digits[k] = digit(k)
    OBVIOUS
  <2>2. digits \in [Nat -> Nat]
    <3> HIDE DEF digit
    <3> QED BY <1>1
  <2> HIDE DEF digits, digit
  <2>3. \E f \in [Nat -> Nat] : f[0] = 0 /\ \A k \in Nat : f[k + 1] = f[k] + digits[k]
    BY <2>2, Sums
  <2> QED BY <2>1, <2>3
<1>3. ASSUME NEW n \in 0 .. Len(s) PROVE Value(s, n) = f[n]
  <2> DEFINE body(g) == [k \in 0 .. n |->
                IF k = 0 THEN 0 ELSE g[k - 1] + (s[k] % Base) * Groups(k - 1)]
             value == CHOOSE g : g = body(g)
             h == [k \in 0 .. n |-> f[k]]
  <2>1. n \in Nat /\ n <= Len(s)
    BY <1>0
  <2>2. ASSUME NEW k \in 1 .. n
        PROVE  f[k] = f[k - 1] + (s[k] % Base) * Groups(k - 1) /\ k - 1 \in 0 .. n
    <3>1. k - 1 \in Nat /\ k - 1 < Len(s) /\ (k - 1) + 1 = k
      BY <1>0, <2>1
    <3> QED BY <1>2, <2>1, <3>1
  <2>3. h = body(h)
    <3>1. ASSUME NEW k \in 0 .. n
          PROVE  f[k] = IF k = 0 THEN 0 ELSE h[k - 1] + (s[k] % Base) * Groups(k - 1)
      <4>1. CASE k = 0
        BY <1>2, <4>1
      <4>2. CASE k # 0
        <5>1. k \in 1 .. n
          BY <2>1, <4>2
        <5>2. h[k - 1] = f[k - 1]
          BY <2>2, <5>1
        <5> QED BY <2>2, <4>2, <5>1, <5>2
      <4> QED BY <4>1, <4>2
    <3> QED BY <3>1
  <2>4. value = body(value)
    BY <2>3
  <2>5. Value(s, n) = value[n]
    BY DEF Value
  <2> HIDE DEF value, h
  <2> DEFINE T == {k \in Nat : k <= n => value[k] = f[k]}
  <2>6. 0 \in T
    BY <1>2, <2>1, <2>4
  <2>7. ASSUME NEW k \in Nat, k \in T PROVE k + 1 \in T
    <3> SUFFICES ASSUME k + 1 <= n PROVE value[k + 1] = f[k + 1]
      OBVIOUS
    <3>1. k + 1 \in 1 .. n /\ k + 1 \in 0 .. n /\ k + 1 # 0 /\ (k + 1) - 1 = k /\ k <= n
      BY <2>1
    <3>2. value[k] = f[k]
      BY <2>7, <3>1
    <3>3. value[k + 1] = value[k] + (s[k + 1] % Base) * Groups(k)
      BY <2>4, <3>1
    <3>4. f[k + 1] = f[k] + (s[k + 1] % Base) * Groups(k)
      BY <2>2, <3>1
    <3> QED BY <3>2, <3>3, <3>4
  <2> HIDE DEF T
  <2>8. \A k \in Nat : k \in T
    BY <2>6, <2>7, Induction
  <2> QED BY <2>1, <2>5, <2>8 DEF T
<1>4. 0 \in 0 .. Len(s) /\ \A n \in Nat : n < Len(s) => n \in 0 .. Len(s) /\ n + 1 \in 0 .. Len(s)
  <2>1. Len(s) \in Nat
    BY <1>0
  <2> QED BY <2>1
<1>5. \A n \in Nat : n < Len(s) => digit(n) = (s[n + 1] % Base) * Groups(n)
  OBVIOUS
<1> HIDE DEF digit
<1>6. Value(s, 0) = 0
  BY <1>0, <1>2, <1>3
<1>7. \A n \in 0 .. Len(s) : Value(s, n) \in Nat
  BY <1>0, <1>2, <1>3
<1>8. ASSUME NEW n \in Nat, n < Len(s)
      PROVE  Value(s, n + 1) = Value(s, n) + (s[n + 1] % Base) * Groups(n)
  <2>1. Value(s, n + 1) = f[n + 1] /\ Value(s, n) = f[n]
    BY <1>3, <1>4, <1>8
  <2> QED BY <1>2, <1>5, <1>8, <2>1
<1> QED BY <1>6, <1>7, <1>8

-----------------------------------------------------------------------------
(* Varints.                                                                *)

\* The operator Min of the community modules is the least member.
LEMMA MinIs ==
    ASSUME NEW T, T \subseteq Nat, T # {}
    PROVE  Min(T) \in T /\ \A y \in T : Min(T) <= y
<1>1. \E x \in T : \A y \in T : x =< y
  BY Least
<1> QED BY <1>1 DEF Min

\* The bytes that ReadVarInt takes hold all the bits of an integer.
LEMMA BytesReadIs == BytesRead \in 1 .. Width /\ Group * BytesRead >= Width
<1> DEFINE T == {n \in 1 .. Width : Group * n >= Width}
<1>1. Width \in T /\ T \subseteq Nat
  <2>1. \A g, w \in Nat \ {0} : g * w >= w
    OBVIOUS
  <2> QED BY <2>1, Constants
<1>2. BytesRead = Min(T)
  BY DEF BytesRead
<1>3. Min(T) \in T
  <2> HIDE DEF T
  <2> QED BY <1>1, MinIs
<1> QED BY <1>2, <1>3

\* An unsigned integer has as many bytes as it needs, and no more than
\* ReadVarInt takes.
LEMMA BytesWrittenIs ==
    ASSUME NEW u \in Nat, u < Shift[Width]
    PROVE  /\ BytesWritten(u) \in 1 .. BytesRead
           /\ u < Groups(BytesWritten(u))
           /\ \A n \in Nat \ {0} : n < BytesWritten(u) => u >= Groups(n)
<1> DEFINE T == {n \in 1 .. Width : u < Groups(n)}
<1>1. BytesRead \in T
  <2>1. Group * BytesRead \in Nat /\ Width \in Nat /\ Width <= Group * BytesRead
    BY BytesReadIs, Constants
  <2>2. Shift[Width] <= Shift[Group * BytesRead]
    BY <2>1, ShiftGrows
  <2>3. Shift[Width] \in Nat /\ Shift[Group * BytesRead] \in Nat
    BY <2>1, ShiftIs
  <2> QED BY <2>2, <2>3, BytesReadIs DEF Groups
<1>2. T \subseteq Nat
  BY Constants
<1>3. BytesWritten(u) = Min(T)
  BY DEF BytesWritten
<1>4. Min(T) \in T /\ \A y \in T : Min(T) <= y
  <2> HIDE DEF T
  <2> QED BY <1>1, <1>2, MinIs
<1>5. Min(T) \in 1 .. Width /\ u < Groups(Min(T)) /\ Min(T) <= BytesRead
  BY <1>1, <1>4
<1>6. ASSUME NEW n \in Nat \ {0}, n < Min(T) PROVE u >= Groups(n)
  <2>1. n \in 1 .. Width /\ n \notin T
    BY <1>4, <1>5, <1>6, Constants
  <2> QED BY <2>1, GroupsAre
<1> QED BY <1>3, <1>5, <1>6, BytesReadIs, Constants

\* An unsigned integer is in its range.
LEMMA UnsignedIs == \A v \in Int : Unsigned(v) \in Nat /\ Unsigned(v) < Shift[Width]
<1>1. \A w \in Nat \ {0} : \A v \in Int : v % w \in Nat /\ v % w < w
  OBVIOUS
<1> QED BY <1>1, Constants DEF Unsigned

\* What the bytes of an integer are.
LEMMA WrittenIs ==
    ASSUME NEW v \in Int
    PROVE  LET u == Unsigned(v)
               n == BytesWritten(u)
               w == WriteVarInt(v)
           IN  /\ n \in 1 .. BytesRead
               /\ w \in Seq(Bytes)
               /\ Len(w) = n
               /\ \A k \in 1 .. n :
                     /\ w[k] % Base = (u \div Groups(k - 1)) % Base
                     /\ w[k] < Base <=> k = n
<1> DEFINE u == Unsigned(v)
           n == BytesWritten(u)
           digit(k) == (u \div Groups(k - 1)) % Base
           byte(k) == digit(k) + (IF k < n THEN Base ELSE 0)
           w == [k \in 1 .. n |-> byte(k)]
<1>1. u \in Nat /\ u < Shift[Width]
  BY UnsignedIs
<1>2. n \in 1 .. BytesRead /\ n \in Nat
  <2> HIDE DEF u
  <2> QED BY <1>1, BytesWrittenIs, BytesReadIs, Constants
<1>3. WriteVarInt(v) = w
  BY DEF WriteVarInt
<1>4. ASSUME NEW k \in 1 .. n PROVE digit(k) \in 0 .. Base - 1
  <2>1. k - 1 \in Nat
    BY <1>2
  <2>2. Groups(k - 1) \in Nat \ {0}
    BY <2>1, GroupsAre
  <2>3. u \div Groups(k - 1) \in Nat
    <3> HIDE DEF u
    <3>1. \A g \in Nat \ {0} : u \div g \in Nat
      BY <1>1
    <3> QED BY <2>2, <3>1
  <2>4. \A x \in Nat : x % Base \in 0 .. Base - 1
    BY Constants
  <2> QED BY <2>3, <2>4
<1>5. ASSUME NEW k \in 1 .. n
      PROVE  byte(k) \in Bytes /\ byte(k) % Base = digit(k) /\ (byte(k) < Base <=> k = n)
  <2>1. \A d \in 0 .. Base - 1 : d % Base = d /\ (d + Base) % Base = d
    <3> SUFFICES ASSUME NEW d \in 0 .. Base - 1
                 PROVE  d % Base = d /\ (d + Base) % Base = d
      OBVIOUS
    <3>1. Base * 0 + d = d /\ Base * 1 + d = d + Base
      BY Constants
    <3>2. d \in Nat /\ d < Base /\ Base \in Nat \ {0} /\ 0 \in Nat /\ 1 \in Nat
      BY Constants
    <3>3. (Base * 0 + d) % Base = d /\ (Base * 1 + d) % Base = d
      BY <3>2, Quotient
    <3> QED BY <3>1, <3>3
  <2>2. digit(k) \in 0 .. Base - 1
    BY <1>4
  <2> HIDE DEF digit, n
  <2>3. CASE k < n
    <3>1. byte(k) = digit(k) + Base /\ k # n
      BY <1>2, <2>3
    <3>2. \A d \in 0 .. Base - 1 : d + Base \in Bytes /\ ~(d + Base < Base)
      BY Constants DEF Bytes
    <3> QED BY <2>1, <2>2, <3>1, <3>2
  <2>4. CASE k = n
    BY <1>2, <2>1, <2>2, <2>4, Constants DEF Bytes
  <2> QED BY <1>2, <2>3, <2>4
<1> HIDE DEF byte
<1>6. w \in Seq(Bytes) /\ Len(w) = n
  <2> HIDE DEF n
  <2>1. w \in Seq(Bytes)
    BY <1>2, <1>5
  <2> QED BY <1>2, <2>1
<1> HIDE DEF n, u
<1> QED BY <1>2, <1>3, <1>5, <1>6 DEF n, u

\* Reading goes by the first byte that no other follows.
LEMMA ReadVarIntIs ==
    ASSUME NEW s \in Seq(Bytes), NEW n \in 1 .. BytesRead, n <= Len(s), s[n] < Base,
           \A k \in 1 .. n - 1 : ~(s[k] < Base)
    PROVE  ReadVarInt(s) = Read(Signed(Unsigned(Value(s, n))), From(s, n + 1))
<1> DEFINE T == {k \in 1 .. BytesRead : k <= Len(s) /\ s[k] < Base}
<1>1. BytesRead \in Nat
  BY BytesReadIs, Constants
<1>2. T \subseteq Nat /\ n \in T
  BY <1>1
<1>3. Min(T) \in T /\ Min(T) <= n
  <2> HIDE DEF T
  <2> QED BY <1>2, MinIs
<1>4. Min(T) = n
  <2>1. Min(T) \in 1 .. BytesRead /\ s[Min(T)] < Base
    BY <1>3
  <2>2. ~(Min(T) \in 1 .. n - 1)
    BY <2>1
  <2> HIDE DEF T
  <2> QED BY <1>1, <1>3, <2>1, <2>2
<1>5. T # {}
  BY <1>2
<1>6. ReadVarInt(s) = IF T = {} THEN (IF Len(s) < BytesRead THEN Short ELSE Bad)
                      ELSE Read(Signed(Unsigned(Value(s, Min(T)))), From(s, Min(T) + 1))
  BY DEF ReadVarInt
<1> HIDE DEF T
<1> QED BY <1>4, <1>5, <1>6

\* A negative integer is shifted by the size of the range.
LEMMA Wraps ==
    ASSUME NEW x \in Int, NEW y \in Nat, -y <= x, x < 0
    PROVE  x % y = x + y
OBVIOUS

\* An integer survives the way to its bytes and back.
LEMMA SignedIs == \A v \in Ints : Signed(Unsigned(v)) = v
<1> SUFFICES ASSUME NEW v \in Ints PROVE Signed(Unsigned(v)) = v
  OBVIOUS
<1> DEFINE w == Shift[Width]
           h == Shift[Width - 1]
<1>1. w \in Nat \ {0} /\ h \in Nat \ {0} /\ w = h + h
  BY Constants
<1>2. v \in Int /\ -h <= v /\ v < h
  BY <1>1 DEF Ints
<1> HIDE DEF w, h
<1>5. -w <= v
  BY <1>1, <1>2
<1>3. CASE v >= 0
  <2>1. w * 0 + v = v /\ v \in Nat /\ v < w
    BY <1>1, <1>2, <1>3
  <2>2. v % w = v
    BY <1>1, <2>1, Quotient
  <2> QED BY <1>1, <1>2, <2>2 DEF Unsigned, Signed, w, h
<1>4. CASE v < 0
  <2>1. v % w = v + w
    <3>1. w \in Nat
      BY <1>1
    <3> QED BY <1>2, <1>4, <1>5, <3>1, Wraps
  <2>2. v + w >= h
    BY <1>1, <1>2
  <2> QED BY <1>1, <1>2, <2>1, <2>2 DEF Unsigned, Signed, w, h
<1> QED BY <1>2, <1>3, <1>4

\* The sequence s begins with the bytes of w.
Begins(s, w) == Len(w) <= Len(s) /\ \A k \in 1 .. Len(w) : s[k] = w[k]

\* What WriteVarInt has written, ReadVarInt reads, whatever comes after it in
\* the stream, and it takes no byte more: for every integer of any width in
\* groups of any size, the negative ones and a last group that is only partly
\* used included.
THEOREM ReadsBack ==
    ASSUME NEW v \in Ints, NEW s \in Seq(Bytes), Begins(s, WriteVarInt(v))
    PROVE  ReadVarInt(s) = Read(v, From(s, Len(WriteVarInt(v)) + 1))
<1> DEFINE u == Unsigned(v)
           n == BytesWritten(u)
           w == WriteVarInt(v)
<1>1. v \in Int
  BY Constants DEF Ints
<1>2. /\ n \in 1 .. BytesRead
      /\ Len(w) = n
      /\ \A k \in 1 .. n : /\ w[k] % Base = (u \div Groups(k - 1)) % Base
                           /\ w[k] < Base <=> k = n
  BY <1>1, WrittenIs
<1>3. u \in Nat /\ u < Shift[Width]
  BY <1>1, UnsignedIs
<1>4. u < Groups(n)
  <2> HIDE DEF u
  <2> QED BY <1>3, BytesWrittenIs
<1>5. n <= Len(s) /\ \A k \in 1 .. n : s[k] = w[k]
  BY <1>2 DEF Begins
<1> HIDE DEF n, w, u
<1>6. n \in Nat /\ Len(s) \in Nat /\ n \in 1 .. n
  BY <1>2, BytesReadIs, Constants, LenProperties
<1> DEFINE T == {k \in Nat : k <= n => Value(s, k) = u % Groups(k)}
<1>7. 0 \in T
  <2>1. u % 1 = 0
    BY <1>3
  <2> QED BY <2>1, GroupsAre, ValueIs
<1>8. ASSUME NEW k \in Nat, k \in T PROVE k + 1 \in T
  <2> SUFFICES ASSUME k + 1 <= n PROVE Value(s, k + 1) = u % Groups(k + 1)
    OBVIOUS
  <2>1. k < Len(s) /\ k + 1 \in 1 .. n /\ (k + 1) - 1 = k /\ k <= n
    BY <1>5, <1>6
  <2>2. Value(s, k + 1) = Value(s, k) + (s[k + 1] % Base) * Groups(k)
    BY <2>1, ValueIs
  <2>3. Value(s, k) = u % Groups(k)
    BY <1>8, <2>1
  <2>4. s[k + 1] % Base = (u \div Groups(k)) % Base
    BY <1>2, <1>5, <2>1
  <2>5. Groups(k) \in Nat \ {0} /\ Groups(k + 1) = Base * Groups(k)
    BY GroupsAre
  <2>6. Base \in Nat \ {0}
    BY Constants
  <2>7. u % (Base * Groups(k)) = (u % Groups(k)) + ((u \div Groups(k)) % Base) * Groups(k)
    BY <1>3, <2>5, <2>6, NextDigit
  <2> QED BY <2>2, <2>3, <2>4, <2>5, <2>7
<1>9. Value(s, n) = u % Groups(n)
  <2> HIDE DEF T
  <2>1. \A k \in Nat : k \in T
    BY <1>7, <1>8, Induction
  <2> QED BY <1>6, <2>1 DEF T
<1>10. u % Groups(n) = u
  <2> DEFINE g == Groups(n)
  <2>1. g \in Nat \ {0} /\ u < g
    BY <1>4, <1>6, GroupsAre
  <2> HIDE DEF g
  <2>2. g * 0 + u = u
    BY <1>3, <2>1
  <2>3. u % g = u
    BY <1>3, <2>1, <2>2, Quotient
  <2> QED BY <2>3 DEF g
<1>11. Unsigned(u) = u
  <2> DEFINE g == Shift[Width]
  <2>1. g \in Nat \ {0} /\ u < g
    BY <1>3, Constants
  <2> HIDE DEF g
  <2>2. g * 0 + u = u
    BY <1>3, <2>1
  <2>3. u % g = u
    BY <1>3, <2>1, <2>2, Quotient
  <2> QED BY <2>3 DEF g, Unsigned
<1>12. s[n] < Base /\ \A k \in 1 .. n - 1 : ~(s[k] < Base)
  <2>1. \A k \in 1 .. n : s[k] < Base <=> k = n
    BY <1>2, <1>5
  <2> QED BY <1>6, <2>1
<1>13. ReadVarInt(s) = Read(Signed(Unsigned(Value(s, n))), From(s, n + 1))
  BY <1>2, <1>5, <1>12, ReadVarIntIs
<1>14. Signed(u) = v
  BY SignedIs DEF u
<1> QED BY <1>2, <1>9, <1>10, <1>11, <1>13, <1>14 DEF w

\* As long as a byte of it is missing, it is not read.
LEMMA ReadsShort ==
    ASSUME NEW v \in Int, NEW s \in Seq(Bytes), Begins(WriteVarInt(v), s),
           Len(s) < Len(WriteVarInt(v))
    PROVE  ReadVarInt(s) = Short
<1> DEFINE n == BytesWritten(Unsigned(v))
           w == WriteVarInt(v)
           T == {k \in 1 .. BytesRead : k <= Len(s) /\ s[k] < Base}
<1>1. n \in 1 .. BytesRead /\ Len(w) = n /\ \A k \in 1 .. n : w[k] < Base <=> k = n
  BY WrittenIs
<1>2. Len(s) \in Nat /\ BytesRead \in Nat
  BY LenProperties, BytesReadIs, Constants
<1>3. Len(s) < n /\ \A k \in 1 .. Len(s) : s[k] = w[k]
  BY <1>1 DEF Begins
<1> HIDE DEF n, w
<1>4. T = {}
  BY <1>1, <1>2, <1>3
<1>5. Len(s) < BytesRead
  BY <1>1, <1>2, <1>3
<1> QED BY <1>4, <1>5 DEF ReadVarInt

-----------------------------------------------------------------------------
(* Strings and packets.                                                    *)

\* The rest of a stream, byte by byte.
LEMMA FromIs ==
    ASSUME NEW s \in Seq(Bytes), NEW n \in 1 .. Len(s) + 1
    PROVE  /\ From(s, n) \in Seq(Bytes)
           /\ Len(From(s, n)) = Len(s) - n + 1
           /\ \A i \in 1 .. Len(s) - n + 1 : From(s, n)[i] = s[n + i - 1]
<1>1. Len(s) \in Nat /\ n \in Int /\ Len(s) \in Int
  BY LenProperties
<1>2. \A i \in n .. Len(s) : s[i] \in Bytes
  BY <1>1, ElementOfSeq
<1>3. /\ SubSeq(s, n, Len(s)) \in Seq(Bytes)
      /\ Len(SubSeq(s, n, Len(s))) = IF n <= Len(s) THEN Len(s) - n + 1 ELSE 0
      /\ \A i \in 1 .. Len(s) - n + 1 : SubSeq(s, n, Len(s))[i] = s[n + i - 1]
  BY <1>1, <1>2, SubSeqProperties
<1> QED BY <1>1, <1>3 DEF From

\* The rest of a rest is a rest.
LEMMA FromFrom ==
    ASSUME NEW s \in Seq(Bytes), NEW m \in 1 .. Len(s) + 1, NEW n \in 1 .. Len(s) - m + 2
    PROVE  From(From(s, m), n) = From(s, m + n - 1)
<1> DEFINE t == From(s, m)
<1>0. Len(s) \in Nat
  BY LenProperties
<1>1. /\ t \in Seq(Bytes)
      /\ Len(t) = Len(s) - m + 1
      /\ \A i \in 1 .. Len(s) - m + 1 : t[i] = s[m + i - 1]
  BY FromIs
<1> HIDE DEF t
<1>2. n \in 1 .. Len(t) + 1 /\ m + n - 1 \in 1 .. Len(s) + 1
  BY <1>0, <1>1
<1>3. /\ From(t, n) \in Seq(Bytes)
      /\ Len(From(t, n)) = Len(t) - n + 1
      /\ \A i \in 1 .. Len(t) - n + 1 : From(t, n)[i] = t[n + i - 1]
  BY <1>1, <1>2, FromIs
<1> DEFINE k == m + n - 1
<1>4. /\ From(s, k) \in Seq(Bytes)
      /\ Len(From(s, k)) = Len(s) - k + 1
      /\ \A i \in 1 .. Len(s) - k + 1 : From(s, k)[i] = s[k + i - 1]
  BY <1>2, FromIs
<1>5. Len(From(t, n)) = Len(From(s, k))
  BY <1>0, <1>1, <1>3, <1>4
<1>6. ASSUME NEW i \in 1 .. Len(From(t, n)) PROVE From(t, n)[i] = From(s, k)[i]
  <2>1. From(t, n)[i] = t[n + i - 1] /\ n + i - 1 \in 1 .. Len(s) - m + 1
    BY <1>0, <1>1, <1>3
  <2>2. t[n + i - 1] = s[m + (n + i - 1) - 1]
    BY <1>1, <2>1
  <2>3. From(s, k)[i] = s[k + i - 1]
    BY <1>4, <1>5
  <2>4. m + (n + i - 1) - 1 = k + i - 1
    BY <1>0, <1>3
  <2> QED BY <2>1, <2>2, <2>3, <2>4
<1> HIDE DEF k
<1>7. From(t, n) = From(s, k)
  BY <1>3, <1>4, <1>5, <1>6, SeqEqual
<1> QED BY <1>7 DEF t, k

\* A stream that begins with two sequences one after the other.
LEMMA BeginsConcat ==
    ASSUME NEW a \in Seq(Bytes), NEW b \in Seq(Bytes), NEW s \in Seq(Bytes)
    PROVE  /\ Len(a \o b) = Len(a) + Len(b) /\ a \o b \in Seq(Bytes)
           /\ Begins(s, a \o b) =>
                /\ Begins(s, a)
                /\ Begins(From(s, Len(a) + 1), b)
                /\ Len(a) + Len(b) <= Len(s)
           /\ Begins(a \o b, s) =>
                /\ Len(s) < Len(a) => Begins(a, s)
                /\ Len(s) >= Len(a) =>
                     /\ Begins(s, a)
                     /\ Begins(b, From(s, Len(a) + 1))
<1>1. /\ a \o b \in Seq(Bytes)
      /\ Len(a \o b) = Len(a) + Len(b)
      /\ \A i \in 1 .. Len(a) + Len(b) :
            (a \o b)[i] = IF i <= Len(a) THEN a[i] ELSE b[i - Len(a)]
  BY ConcatProperties
<1>2. Len(a) \in Nat /\ Len(b) \in Nat /\ Len(s) \in Nat
  BY LenProperties
<1>3. ASSUME Len(a) <= Len(s)
      PROVE  /\ Len(From(s, Len(a) + 1)) = Len(s) - Len(a)
             /\ \A i \in 1 .. Len(s) - Len(a) : From(s, Len(a) + 1)[i] = s[i + Len(a)]
  <2> DEFINE n == Len(a) + 1
  <2>1. n \in 1 .. Len(s) + 1 /\ Len(s) - n + 1 = Len(s) - Len(a)
    BY <1>2, <1>3
  <2>2. /\ Len(From(s, n)) = Len(s) - n + 1
        /\ \A i \in 1 .. Len(s) - n + 1 : From(s, n)[i] = s[n + i - 1]
    BY <2>1, FromIs
  <2>3. \A i \in Nat : n + i - 1 = i + Len(a)
    BY <1>2
  <2> HIDE DEF n
  <2>4. Len(From(s, n)) = Len(s) - Len(a)
    BY <2>1, <2>2
  <2>5. ASSUME NEW i \in 1 .. Len(s) - Len(a) PROVE From(s, n)[i] = s[i + Len(a)]
    <3>1. i \in Nat /\ i \in 1 .. Len(s) - n + 1
      BY <1>2, <2>1
    <3> QED BY <2>2, <2>3, <3>1
  <2> QED BY <2>4, <2>5 DEF n
<1> DEFINE c == a \o b
           r == From(s, Len(a) + 1)
           la == Len(a)
           lb == Len(b)
           ls == Len(s)
<1>4. Len(c) = la + lb /\ \A i \in 1 .. la + lb : c[i] = IF i <= la THEN a[i] ELSE b[i - la]
  BY <1>1
<1>5. la <= ls => Len(r) = ls - la /\ \A i \in 1 .. ls - la : r[i] = s[i + la]
  BY <1>3
<1>6. la \in Nat /\ lb \in Nat /\ ls \in Nat
  BY <1>2
<1> HIDE DEF c, r, la, lb, ls
<1>7. \A j \in 1 .. lb : j + la \in 1 .. la + lb /\ ~(j + la <= la) /\ (j + la) - la = j
  BY <1>6
<1>8. \A j \in 1 .. lb : c[j + la] = b[j]
  BY <1>4, <1>7
<1>9. \A j \in 1 .. la : c[j] = a[j]
  BY <1>4, <1>6
<1>10. ASSUME Begins(s, c) PROVE Begins(s, a) /\ Begins(r, b) /\ la + lb <= ls
  <2>1. la + lb <= ls /\ \A k \in 1 .. la + lb : s[k] = c[k]
    BY <1>4, <1>10 DEF Begins, ls
  <2>2. la <= ls /\ \A k \in 1 .. la : s[k] = a[k]
    BY <1>6, <1>9, <2>1
  <2>3. lb <= ls - la /\ \A k \in 1 .. lb : r[k] = b[k]
    <3>1. lb <= ls - la
      BY <1>6, <2>1
    <3>2. ASSUME NEW k \in 1 .. lb PROVE r[k] = b[k]
      <4>1. k \in 1 .. ls - la /\ k + la \in 1 .. la + lb
        BY <1>6, <3>1
      <4>2. r[k] = s[k + la] /\ s[k + la] = c[k + la]
        BY <1>5, <2>1, <2>2, <4>1
      <4> QED BY <1>8, <4>2
    <3> QED BY <3>1, <3>2
  <2> QED BY <1>5, <2>1, <2>2, <2>3 DEF Begins, la, lb, ls
<1>11. ASSUME Begins(c, s), ls < la PROVE Begins(a, s)
  <2>1. \A k \in 1 .. ls : c[k] = s[k]
    BY <1>11 DEF Begins, ls
  <2>2. ls <= la /\ \A k \in 1 .. ls : a[k] = s[k]
    BY <1>6, <1>9, <1>11, <2>1
  <2> QED BY <2>2 DEF Begins, la, ls
<1>12. ASSUME Begins(c, s), ls >= la PROVE Begins(s, a) /\ Begins(b, r)
  <2>1. ls <= la + lb /\ \A k \in 1 .. ls : c[k] = s[k]
    BY <1>4, <1>12 DEF Begins, ls
  <2>2. la <= ls /\ \A k \in 1 .. la : s[k] = a[k]
    BY <1>6, <1>9, <1>12, <2>1
  <2>3. ls - la <= lb /\ \A k \in 1 .. ls - la : b[k] = r[k]
    <3>1. ls - la <= lb
      BY <1>6, <2>1
    <3>2. ASSUME NEW k \in 1 .. ls - la PROVE b[k] = r[k]
      <4>1. k \in 1 .. lb /\ k + la \in 1 .. ls
        BY <1>6, <2>1, <2>2
      <4>2. r[k] = s[k + la] /\ s[k + la] = c[k + la]
        BY <1>5, <2>1, <2>2, <4>1
      <4> QED BY <1>8, <4>1, <4>2
    <3> QED BY <3>1, <3>2
  <2> QED BY <1>5, <2>2, <2>3 DEF Begins, la, lb, ls
<1>13. ls < la \/ ls >= la
  BY <1>6
<1> QED BY <1>1, <1>10, <1>11, <1>12, <1>13 DEF c, r, la, lb, ls

\* Bytes with their length before them are read as these bytes.
LEMMA PrefixedBack ==
    ASSUME NEW b \in Seq(Bytes), Len(b) \in Ints, NEW s \in Seq(Bytes),
           Begins(s, WriteVarInt(Len(b)) \o b)
    PROVE  ReadPrefixed(s) = Read(b, From(s, Len(WriteVarInt(Len(b)) \o b) + 1))
<1> DEFINE w == WriteVarInt(Len(b))
           t == From(s, Len(w) + 1)
<1>1. w \in Seq(Bytes) /\ Len(b) \in Nat /\ Len(w) \in Nat /\ Len(s) \in Nat
  <2>1. Len(b) \in Nat
    BY LenProperties
  <2>2. w \in Seq(Bytes)
    BY <2>1, WrittenIs
  <2> QED BY <2>1, <2>2, LenProperties
<1> HIDE DEF w
<1>2. /\ Begins(s, w) /\ Begins(t, b)
      /\ Len(w) + Len(b) <= Len(s)
      /\ Len(w \o b) = Len(w) + Len(b)
  BY <1>1, BeginsConcat DEF w
<1>3. ReadVarInt(s) = Read(Len(b), t)
  BY <1>2, ReadsBack DEF w
<1>4. t \in Seq(Bytes) /\ Len(t) = Len(s) - Len(w)
  <2>1. Len(w) + 1 \in 1 .. Len(s) + 1 /\ Len(s) - (Len(w) + 1) + 1 = Len(s) - Len(w)
    BY <1>1, <1>2
  <2> QED BY <2>1, FromIs
<1>5. SubSeq(t, 1, Len(b)) = b
  <2> HIDE DEF t
  <2>1. Len(b) <= Len(t) /\ \A k \in 1 .. Len(b) : t[k] = b[k]
    BY <1>2 DEF Begins
  <2>2. \A i \in 1 .. Len(b) : t[i] \in Bytes
    BY <2>1, ElementOfSeq
  <2>3. /\ SubSeq(t, 1, Len(b)) \in Seq(Bytes)
        /\ Len(SubSeq(t, 1, Len(b))) = IF 1 <= Len(b) THEN Len(b) - 1 + 1 ELSE 0
        /\ \A i \in 1 .. Len(b) - 1 + 1 : SubSeq(t, 1, Len(b))[i] = t[1 + i - 1]
    BY <1>1, <2>2, SubSeqProperties
  <2>4. Len(SubSeq(t, 1, Len(b))) = Len(b)
    BY <1>1, <2>3
  <2>5. \A i \in 1 .. Len(SubSeq(t, 1, Len(b))) : SubSeq(t, 1, Len(b))[i] = b[i]
    <3> SUFFICES ASSUME NEW i \in 1 .. Len(b) PROVE SubSeq(t, 1, Len(b))[i] = b[i]
      BY <2>4
    <3>1. i \in 1 .. Len(b) - 1 + 1 /\ 1 + i - 1 = i
      BY <1>1
    <3> QED BY <2>1, <2>3, <3>1
  <2> QED BY <2>3, <2>4, <2>5, SeqEqual
<1>6. From(t, Len(b) + 1) = From(s, Len(w \o b) + 1)
  <2>1. /\ Len(w) + 1 \in 1 .. Len(s) + 1
        /\ Len(b) + 1 \in 1 .. Len(s) - (Len(w) + 1) + 2
        /\ (Len(w) + 1) + (Len(b) + 1) - 1 = Len(w) + Len(b) + 1
    BY <1>1, <1>2
  <2> QED BY <1>2, <2>1, FromFrom
<1>7. ~(Len(b) < 0) /\ ~(Len(t) < Len(b))
  BY <1>1, <1>2, <1>4
<1> HIDE DEF t
<1> QED BY <1>3, <1>5, <1>6, <1>7 DEF ReadPrefixed, Read, w

\* As long as a byte of them is missing, nothing is read.
LEMMA PrefixedShort ==
    ASSUME NEW b \in Seq(Bytes), Len(b) \in Ints, NEW s \in Seq(Bytes),
           Begins(WriteVarInt(Len(b)) \o b, s),
           Len(s) < Len(WriteVarInt(Len(b)) \o b)
    PROVE  ReadPrefixed(s) = Short
<1> DEFINE w == WriteVarInt(Len(b))
           t == From(s, Len(w) + 1)
<1>1. w \in Seq(Bytes) /\ Len(b) \in Nat /\ Len(w) \in Nat /\ Len(s) \in Nat
  <2>1. Len(b) \in Nat
    BY LenProperties
  <2>2. w \in Seq(Bytes)
    BY <2>1, WrittenIs
  <2> QED BY <2>1, <2>2, LenProperties
<1>2. CASE Len(s) < Len(w)
  <2>1. Begins(w, s)
    BY <1>1, <1>2, BeginsConcat
  <2>2. ReadVarInt(s) = Short
    BY <1>1, <1>2, <2>1, ReadsShort
  <2> QED BY <2>2 DEF ReadPrefixed, Short
<1>3. CASE Len(s) >= Len(w)
  <2> HIDE DEF w
  <2>1. Begins(s, w) /\ Len(s) < Len(w) + Len(b)
    BY <1>1, <1>3, BeginsConcat DEF w
  <2>2. ReadVarInt(s) = Read(Len(b), t)
    BY <2>1, ReadsBack DEF w
  <2>3. Len(t) = Len(s) - Len(w)
    <3>1. Len(w) + 1 \in 1 .. Len(s) + 1 /\ Len(s) - (Len(w) + 1) + 1 = Len(s) - Len(w)
      BY <1>1, <1>3
    <3> QED BY <3>1, FromIs
  <2>4. ~(Len(b) < 0) /\ Len(t) < Len(b)
    BY <1>1, <1>3, <2>1, <2>3
  <2> HIDE DEF t
  <2> QED BY <2>2, <2>4 DEF ReadPrefixed, Read
<1> QED BY <1>1, <1>2, <1>3

\* What WritePacket has written, ReadPacket reads with its id and its data, and
\* it leaves what comes after it: two packets in one stream are not mixed up.
\* The length of the packet must be one that the integer before it can hold.
THEOREM PacketBack ==
    ASSUME NEW id \in Ints, NEW data \in Seq(Bytes),
           Len(WriteVarInt(id) \o data) \in Ints, NEW s \in Seq(Bytes),
           Begins(s, WritePacket(id, data))
    PROVE  ReadPacket(s) = Read([id |-> id, data |-> data],
                                From(s, Len(WritePacket(id, data)) + 1))
<1> DEFINE w == WriteVarInt(id)
           body == w \o data
           rest == From(s, Len(WritePacket(id, data)) + 1)
<1>1. id \in Int
  BY Constants DEF Ints
<1>2. w \in Seq(Bytes) /\ body \in Seq(Bytes)
  BY <1>1, WrittenIs, ConcatProperties
<1>3. WritePacket(id, data) = WriteVarInt(Len(body)) \o body
  BY DEF WritePacket
<1>4. ReadPrefixed(s) = Read(body, rest)
  <2> HIDE DEF body
  <2> QED BY <1>2, <1>3, PrefixedBack DEF body
<1>5. Begins(body, w) /\ From(body, Len(w) + 1) = data
  <2> HIDE DEF w
  <2>1. Len(body) = Len(w) + Len(data) /\ Len(w) \in Nat /\ Len(data) \in Nat
    BY <1>2, ConcatProperties, LenProperties
  <2>2. Begins(body, body)
    BY <2>1 DEF Begins
  <2>3. Begins(body, w) /\ Begins(From(body, Len(w) + 1), data)
    BY <1>2, <2>2, BeginsConcat
  <2>4. Len(From(body, Len(w) + 1)) = Len(data) /\ From(body, Len(w) + 1) \in Seq(Bytes)
    <3>1. Len(w) + 1 \in 1 .. Len(body) + 1 /\ Len(body) - (Len(w) + 1) + 1 = Len(data)
      BY <2>1
    <3> QED BY <1>2, <3>1, FromIs
  <2>5. \A k \in 1 .. Len(data) : From(body, Len(w) + 1)[k] = data[k]
    BY <2>3 DEF Begins
  <2> QED BY <2>3, <2>4, <2>5, SeqEqual
<1>6. ReadVarInt(body) = Read(id, data)
  <2>1. ReadVarInt(body) = Read(id, From(body, Len(w) + 1))
    BY <1>2, <1>5, ReadsBack
  <2> QED BY <1>5, <2>1
<1> HIDE DEF body, rest
<1> QED BY <1>4, <1>6 DEF ReadPacket, Read, rest

\* As long as a byte of a packet is missing, the handler waits for it.
LEMMA PacketShort ==
    ASSUME NEW id \in Ints, NEW data \in Seq(Bytes),
           Len(WriteVarInt(id) \o data) \in Ints, NEW s \in Seq(Bytes),
           Begins(WritePacket(id, data), s), Len(s) < Len(WritePacket(id, data))
    PROVE  ReadPacket(s) = Short
<1> DEFINE body == WriteVarInt(id) \o data
<1>1. id \in Int
  BY Constants DEF Ints
<1>2. body \in Seq(Bytes)
  BY <1>1, WrittenIs, ConcatProperties
<1>3. WritePacket(id, data) = WriteVarInt(Len(body)) \o body
  BY DEF WritePacket
<1>4. ReadPrefixed(s) = Short
  <2> HIDE DEF body
  <2> QED BY <1>2, <1>3, PrefixedShort DEF body
<1> QED BY <1>4 DEF ReadPacket, Short

\* A packet is a sequence of bytes.
LEMMA PacketType ==
    ASSUME NEW id \in Int, NEW data \in Seq(Bytes)
    PROVE  WritePacket(id, data) \in Seq(Bytes) /\ Len(WritePacket(id, data)) \in Nat
<1> DEFINE body == WriteVarInt(id) \o data
<1>1. body \in Seq(Bytes)
  BY WrittenIs, ConcatProperties
<1>2. WritePacket(id, data) = WriteVarInt(Len(body)) \o body
  BY DEF WritePacket
<1> HIDE DEF body
<1>3. Len(body) \in Int
  BY <1>1, LenProperties
<1>4. WriteVarInt(Len(body)) \in Seq(Bytes)
  BY <1>3, WrittenIs
<1>5. WritePacket(id, data) \in Seq(Bytes)
  BY <1>1, <1>2, <1>4, ConcatProperties
<1> QED BY <1>5, LenProperties

-----------------------------------------------------------------------------
(* What a client sends.                                                    *)

\* What comes after a in a stream of a and b is b.
LEMMA FromConcat ==
    ASSUME NEW a \in Seq(Bytes), NEW b \in Seq(Bytes)
    PROVE  /\ a \o b \in Seq(Bytes)
           /\ Len(a \o b) = Len(a) + Len(b)
           /\ Begins(a \o b, a)
           /\ From(a \o b, Len(a) + 1) = b
<1> DEFINE c == a \o b
           la == Len(a)
           lb == Len(b)
           r == From(c, la + 1)
<1>1. /\ c \in Seq(Bytes) /\ Len(c) = la + lb
      /\ \A i \in 1 .. la + lb : c[i] = IF i <= la THEN a[i] ELSE b[i - la]
  BY ConcatProperties
<1>2. la \in Nat /\ lb \in Nat
  BY LenProperties
<1>3. la + 1 \in 1 .. Len(c) + 1 /\ Len(c) - (la + 1) + 1 = lb
  <2> HIDE DEF c, la, lb
  <2> QED BY <1>1, <1>2
<1>4. r \in Seq(Bytes) /\ Len(r) = lb /\ \A i \in 1 .. lb : r[i] = c[(la + 1) + i - 1]
  <2> HIDE DEF c, la, lb
  <2> QED BY <1>1, <1>3, FromIs
<1> HIDE DEF c, la, lb, r
<1>5. ASSUME NEW i \in 1 .. lb PROVE r[i] = b[i]
  <2>1. (la + 1) + i - 1 = la + i /\ la + i \in 1 .. la + lb /\ ~(la + i <= la) /\ (la + i) - la = i
    BY <1>2
  <2> QED BY <1>1, <1>4, <2>1
<1>6. r = b
  BY <1>4, <1>5, SeqEqual DEF lb
<1>7. la <= Len(c) /\ \A i \in 1 .. la : c[i] = a[i]
  BY <1>1, <1>2
<1> QED BY <1>1, <1>6, <1>7 DEF Begins, c, la, lb, r

\* Three streams; to the provers a name, so that they do not try to put
\* together everything that they have.
Streams(a, b, c) == a \in Seq(Bytes) /\ b \in Seq(Bytes) /\ c \in Seq(Bytes)

\* Streams may be put together in any grouping.
LEMMA Associative == \A a, b, c : Streams(a, b, c) => (a \o b) \o c = a \o (b \o c)
BY ConcatAssociative DEF Streams

\* The bytes that occur by their value.
LEMMA SmallBytes == 0 \in Bytes /\ 1 \in Bytes
BY Constants DEF Bytes

\* The streams that occur by their value.
LEMMA SmallSeqs ==
    /\ <<>> \in Seq(Bytes) /\ Len(<<>>) = 0
    /\ <<1>> \in Seq(Bytes) /\ Len(<<1>>) = 1
    /\ <<0, 1>> \in Seq(Bytes) /\ Len(<<0, 1>>) = 2
    /\ Pong \in Seq(Bytes)
BY SmallBytes DEF Pong

\* The integers that occur by their value.
LEMMA SmallInts == {-1, 0, 1, 2, 3} \subseteq Ints
BY FitAssumption

\* The status request of a client.
Request == WritePacket(0, <<>>)

\* The last packet of a client.
Third(c) == WritePacket(IF c.follow = "ping" THEN 1 ELSE 2, Pong)

\* The parts of what a client means to send.
LEMMA ScriptIs ==
    ASSUME NEW c \in Scripts \union {NoScript}
    PROVE  /\ c.version \in Ints
           /\ c.length \in {-1, 1}
           /\ c.follow \in {"ping", "other"}
           /\ c.then \in {"status", "login", "transfer"}
           /\ Announced[c.then] \in {1, 2, 3}
           /\ Announced[c.then] = Announced.login <=> c.then = "login"
<1>1. DOMAIN Announced = {"status", "login", "transfer"}
  BY DEF Announced
<1>2. DOMAIN Follows = {"ping", "other"}
  BY DEF Follows
<1>3. /\ c.version \in Ints /\ c.length \in {-1, 1} /\ c.follow \in {"ping", "other"}
      /\ c.then \in {"status", "login", "transfer"}
  <2>1. CASE c \in Scripts
    BY <1>1, <1>2, <2>1, ClientsAssumption DEF Scripts
  <2>2. CASE c = NoScript
    BY <2>2, SmallInts DEF NoScript
  <2> QED BY <2>1, <2>2
<1>4. Announced["status"] = 1 /\ Announced["login"] = 2 /\ Announced["transfer"] = 3
      /\ Announced.login = 2
  BY DEF Announced
<1> QED BY <1>3, <1>4

\* A handshake's data, with the parts grouped as ParseHandshake takes them.
LEMMA IntroductionIs ==
    ASSUME NEW c \in Scripts \union {NoScript}
    PROVE  LET state == WriteVarInt(Announced[c.then])
               port == <<0, 1>> \o state
               address == WriteVarInt(c.length) \o (<<1>> \o port)
           IN  /\ state \in Seq(Bytes) /\ port \in Seq(Bytes) /\ address \in Seq(Bytes)
               /\ WriteVarInt(c.version) \in Seq(Bytes) /\ WriteVarInt(c.length) \in Seq(Bytes)
               /\ Introduction(c) = WriteVarInt(c.version) \o address
               /\ Introduction(c) \in Seq(Bytes)
<1> DEFINE v == WriteVarInt(c.version)
           l == WriteVarInt(c.length)
           s == WriteVarInt(Announced[c.then])
<1>1. v \in Seq(Bytes) /\ l \in Seq(Bytes) /\ s \in Seq(Bytes)
  <2>1. c.version \in Int /\ c.length \in Int /\ Announced[c.then] \in Int
    BY ScriptIs, Constants DEF Ints
  <2> QED BY <2>1, WrittenIs
<1>2. Introduction(c) = (((v \o l) \o <<1>>) \o <<0, 1>>) \o s
  BY DEF Introduction
<1> HIDE DEF v, l, s
<1>3. <<1>> \in Seq(Bytes) /\ <<0, 1>> \in Seq(Bytes)
  BY SmallSeqs
<1> DEFINE one == <<1>>
           two == <<0, 1>>
<1> HIDE DEF one, two
<1>4. one \in Seq(Bytes) /\ two \in Seq(Bytes)
  BY <1>3 DEF one, two
<1> DEFINE vl == v \o l
           vlo == vl \o one
           port == two \o s
           rest == one \o port
           address == l \o rest
<1>5. vl \in Seq(Bytes) /\ port \in Seq(Bytes)
  BY <1>1, <1>4, ConcatProperties
<1>6. vlo \in Seq(Bytes) /\ rest \in Seq(Bytes)
  <2> HIDE DEF vl, port
  <2> QED BY <1>4, <1>5, ConcatProperties
<1>7. address \in Seq(Bytes) /\ v \o address \in Seq(Bytes)
  <2>1. address \in Seq(Bytes)
    <3> HIDE DEF rest
    <3> QED BY <1>1, <1>6, ConcatProperties
  <2> HIDE DEF address
  <2> QED BY <1>1, <2>1, ConcatProperties
<1> HIDE DEF vl, vlo, port, rest
<1>8. Streams(v, l, rest) /\ Streams(vl, one, port) /\ Streams(vlo, two, s)
  BY <1>1, <1>4, <1>5, <1>6 DEF Streams
<1>9. (v \o l) \o rest = v \o (l \o rest)
  BY <1>8, Associative
<1>10. (vl \o one) \o port = vl \o (one \o port)
  BY <1>8, Associative
<1>11. (vlo \o two) \o s = vlo \o (two \o s)
  BY <1>8, Associative
<1>12. (((v \o l) \o one) \o two) \o s = v \o address
  BY <1>9, <1>10, <1>11 DEF vl, vlo, port, rest
<1> QED BY <1>1, <1>2, <1>5, <1>7, <1>12 DEF v, l, s, one, two, port, rest

\* The handler reads out of a handshake what the client has announced, unless
\* it is a wrong one.
LEMMA Introduced ==
    ASSUME NEW c \in Scripts \union {NoScript}
    PROVE  ParseHandshake(Introduction(c)) =
              IF c.length = 1 THEN Read(Announced[c.then], <<>>) ELSE Bad
<1> DEFINE d == Introduction(c)
           v == WriteVarInt(c.version)
           l == WriteVarInt(c.length)
           s == WriteVarInt(Announced[c.then])
           port == <<0, 1>> \o s
           address == l \o (<<1>> \o port)
<1>1. /\ c.version \in Ints /\ c.length \in {-1, 1} /\ c.length \in Ints
      /\ Announced[c.then] \in Ints
  BY ScriptIs, SmallInts
<1>2. /\ v \in Seq(Bytes) /\ l \in Seq(Bytes) /\ s \in Seq(Bytes)
      /\ port \in Seq(Bytes) /\ address \in Seq(Bytes) /\ d \in Seq(Bytes)
      /\ d = v \o address
  BY IntroductionIs
<1> HIDE DEF d, v, s, address
<1>3. ReadVarInt(d) = Read(c.version, address)
  <2>1. Begins(d, v) /\ From(d, Len(v) + 1) = address
    BY <1>2, FromConcat
  <2> QED BY <1>1, <1>2, <2>1, ReadsBack DEF v
<1>4. CASE c.length = -1
  <2> HIDE DEF l, port
  <2>1. <<1>> \o port \in Seq(Bytes)
    BY <1>2, SmallSeqs, ConcatProperties
  <2>2. Begins(address, l)
    BY <1>2, <2>1, FromConcat DEF address
  <2>3. ReadVarInt(address) = Read(-1, From(address, Len(l) + 1))
    BY <1>1, <1>2, <1>4, <2>2, ReadsBack DEF l
  <2>4. ReadPrefixed(address) = Bad
    BY <2>3 DEF ReadPrefixed, Read
  <2> QED BY <1>3, <1>4, <2>4 DEF ParseHandshake, Read, Bad, d
<1>5. CASE c.length = 1
  <2> DEFINE b == <<1>>
             p == l \o b
  <2>1. b \in Seq(Bytes) /\ Len(b) = 1 /\ l = WriteVarInt(Len(b)) /\ Len(b) \in Ints
    BY <1>1, <1>5, SmallSeqs
  <2> HIDE DEF b, l, port
  <2>2. p \in Seq(Bytes) /\ address = p \o port
    <3>1. address = l \o (b \o port)
      BY DEF address, b
    <3>2. p \in Seq(Bytes)
      BY <1>2, <2>1, FromConcat
    <3>3. (l \o b) \o port = l \o (b \o port)
      <4>1. Streams(l, b, port)
        BY <1>2, <2>1 DEF Streams
      <4> QED BY <4>1, Associative
    <3> QED BY <3>1, <3>2, <3>3
  <2>3. Begins(address, p) /\ From(address, Len(p) + 1) = port
    <3> HIDE DEF p
    <3> QED BY <1>2, <2>2, FromConcat
  <2>4. ReadPrefixed(address) = Read(b, port)
    <3>1. p = WriteVarInt(Len(b)) \o b
      BY <2>1
    <3> HIDE DEF p
    <3>2. ReadPrefixed(address) = Read(b, From(address, Len(p) + 1))
      BY <1>2, <2>1, <2>3, <3>1, PrefixedBack
    <3> QED BY <2>3, <3>2
  <2>5. Len(port) >= 2 /\ From(port, 3) = s
    <3> DEFINE two == <<0, 1>>
    <3>1. two \in Seq(Bytes) /\ Len(two) = 2 /\ port = two \o s
      BY SmallSeqs DEF port
    <3> HIDE DEF two
    <3>2. Len(port) = 2 + Len(s) /\ From(port, 2 + 1) = s /\ Len(s) \in Nat
      BY <1>2, <3>1, FromConcat, LenProperties
    <3> QED BY <3>2
  <2>6. ReadVarInt(s) = Read(Announced[c.then], <<>>)
    <3>1. Begins(s, s) /\ Len(s) \in Nat
      BY <1>2, LenProperties DEF Begins
    <3>2. From(s, Len(s) + 1) = <<>>
      BY <3>1, SubSeqEmpty DEF From
    <3>3. ReadVarInt(s) = Read(Announced[c.then], From(s, Len(s) + 1))
      BY <1>1, <1>2, <3>1, ReadsBack DEF s
    <3> QED BY <3>2, <3>3
  <2>7. ~(Len(port) < 2)
    BY <1>2, <2>5, LenProperties
  <2> QED BY <1>3, <1>5, <2>4, <2>5, <2>6, <2>7 DEF ParseHandshake, Read, d
<1> QED BY <1>1, <1>4, <1>5

\* A part of a stream, byte by byte.
LEMMA SubSeqIs ==
    ASSUME NEW s \in Seq(Bytes), NEW m \in Nat \ {0}, NEW n \in m - 1 .. Len(s)
    PROVE  /\ SubSeq(s, m, n) \in Seq(Bytes)
           /\ Len(SubSeq(s, m, n)) = n - m + 1
           /\ \A i \in 1 .. n - m + 1 : SubSeq(s, m, n)[i] = s[m + i - 1]
<1>1. Len(s) \in Nat /\ m \in Int /\ n \in Int
  BY LenProperties
<1>2. \A i \in m .. n : s[i] \in Bytes
  BY <1>1, ElementOfSeq
<1>3. /\ SubSeq(s, m, n) \in Seq(Bytes)
      /\ Len(SubSeq(s, m, n)) = IF m <= n THEN n - m + 1 ELSE 0
      /\ \A i \in 1 .. n - m + 1 : SubSeq(s, m, n)[i] = s[m + i - 1]
  BY <1>1, <1>2, SubSeqProperties
<1> QED BY <1>1, <1>3

\* A stream c in which a packet comes after a and before b.
Carries(c, a, id, data, b) ==
    /\ a \in Seq(Bytes) /\ b \in Seq(Bytes)
    /\ id \in Ints /\ data \in Seq(Bytes) /\ Fits(id, data)
    /\ c = a \o (WritePacket(id, data) \o b)

\* What the handler sees of a conversation once it has read a, n bytes have
\* been sent and a packet follows: the packet, as soon as all of it is there.
LEMMA NextPacket ==
    ASSUME NEW c, NEW a, NEW id, NEW data, NEW b, Carries(c, a, id, data, b),
           NEW n \in Len(a) .. Len(c)
    PROVE  LET packet == ReadPacket(SubSeq(c, Len(a) + 1, n))
               end == Len(a) + Len(WritePacket(id, data))
           IN  IF n >= end
               THEN \E rest \in Seq(Bytes) :
                       /\ Len(rest) = n - end
                       /\ packet = Read([id |-> id, data |-> data], rest)
               ELSE packet = Short
<1> DEFINE w == WritePacket(id, data)
           la == Len(a)
           lw == Len(w)
           wb == w \o b
           s == SubSeq(c, la + 1, n)
<1>0. /\ a \in Seq(Bytes) /\ b \in Seq(Bytes)
      /\ id \in Ints /\ data \in Seq(Bytes) /\ Fits(id, data)
      /\ c = a \o wb
  BY DEF Carries
<1>1. w \in Seq(Bytes)
  BY <1>0, PacketType, Constants DEF Ints
<1>2. /\ wb \in Seq(Bytes)
      /\ \A i \in 1 .. lw : wb[i] = w[i]
      /\ Len(wb) = lw + Len(b)
  <2> HIDE DEF w
  <2> QED BY <1>0, <1>1, ConcatProperties, LenProperties
<1>3. /\ c \in Seq(Bytes) /\ Len(c) = la + Len(wb)
      /\ \A i \in 1 .. Len(wb) : c[la + i] = wb[i]
  <2> HIDE DEF wb
  <2>2. /\ c \in Seq(Bytes) /\ Len(c) = la + Len(wb)
        /\ \A i \in 1 .. la + Len(wb) : c[i] = IF i <= la THEN a[i] ELSE wb[i - la]
    <3>1. a \in Seq(Bytes) /\ wb \in Seq(Bytes)
      BY <1>0, <1>2
    <3>2. /\ a \o wb \in Seq(Bytes) /\ Len(a \o wb) = la + Len(wb)
          /\ \A i \in 1 .. la + Len(wb) :
                (a \o wb)[i] = IF i <= la THEN a[i] ELSE wb[i - la]
      BY <3>1, ConcatProperties
    <3> QED BY <1>0, <3>2
  <2>3. \A i \in 1 .. Len(wb) : la + i \in 1 .. la + Len(wb) /\ ~(la + i <= la) /\ (la + i) - la = i
    BY <1>0, <1>2, LenProperties
  <2> QED BY <2>2, <2>3
<1>4. la \in Nat /\ lw \in Nat /\ Len(b) \in Nat /\ n \in la .. Len(c)
  BY <1>0, <1>1, LenProperties
<1> HIDE DEF la, lw, w, wb
<1>5. /\ s \in Seq(Bytes) /\ Len(s) = n - la
      /\ \A i \in 1 .. n - la : s[i] = wb[i]
  <2> DEFINE m == la + 1
  <2>1. m \in Nat \ {0} /\ n \in m - 1 .. Len(c)
    BY <1>4
  <2>2. \A i \in 1 .. n - la : i \in 1 .. Len(wb) /\ m + i - 1 = la + i
    BY <1>2, <1>3, <1>4
  <2>3. n - m + 1 = n - la
    BY <1>4
  <2> HIDE DEF m
  <2>4. /\ SubSeq(c, m, n) \in Seq(Bytes)
        /\ Len(SubSeq(c, m, n)) = n - m + 1
        /\ \A i \in 1 .. n - m + 1 : SubSeq(c, m, n)[i] = c[m + i - 1]
    BY <1>3, <2>1, SubSeqIs
  <2>5. s = SubSeq(c, m, n)
    BY DEF m
  <2> HIDE DEF s
  <2> QED BY <1>3, <2>2, <2>3, <2>4, <2>5
<1> HIDE DEF s
<1>6. Len(WriteVarInt(id) \o data) \in Ints
  BY <1>0 DEF Fits
<1>7. CASE n >= la + lw
  <2>1. Begins(s, w)
    <3>1. \A i \in 1 .. lw : i \in 1 .. n - la
      BY <1>4, <1>7
    <3>2. \A i \in 1 .. lw : s[i] = w[i]
      BY <1>2, <1>5, <3>1
    <3> QED BY <1>4, <1>5, <1>7, <3>2 DEF Begins, lw
  <2>2. ReadPacket(s) = Read([id |-> id, data |-> data], From(s, lw + 1))
    BY <1>0, <1>5, <1>6, <2>1, PacketBack DEF w, lw
  <2>3. lw + 1 \in 1 .. Len(s) + 1 /\ Len(s) - (lw + 1) + 1 = n - (la + lw)
    BY <1>4, <1>5, <1>7
  <2>4. From(s, lw + 1) \in Seq(Bytes) /\ Len(From(s, lw + 1)) = n - (la + lw)
    BY <1>5, <2>3, FromIs
  <2> QED BY <1>7, <2>2, <2>4 DEF s, la, lw, w
<1>8. CASE ~(n >= la + lw)
  <2>1. Len(s) < lw
    BY <1>4, <1>5, <1>8
  <2>2. \A i \in 1 .. Len(s) : s[i] = w[i]
    <3>1. \A i \in 1 .. Len(s) : i \in 1 .. lw /\ i \in 1 .. n - la
      BY <1>4, <1>5, <2>1
    <3> QED BY <1>2, <1>5, <3>1
  <2>3. Begins(w, s)
    BY <1>4, <1>5, <2>1, <2>2 DEF Begins, lw
  <2>4. ReadPacket(s) = Short
    BY <1>0, <1>5, <1>6, <2>1, <2>3, PacketShort DEF w, lw
  <2> QED BY <1>8, <2>4 DEF s, la, lw, w
<1> QED BY <1>7, <1>8 DEF la, lw, w

\* The three packets of a client, one after the other, grouped by what has been
\* read of them.
LEMMA ConversationIs ==
    ASSUME NEW c \in Scripts \union {NoScript}
    PROVE  LET h == Handshake(c)
               t == Third(c)
           IN  /\ h \in Seq(Bytes) /\ Request \in Seq(Bytes) /\ t \in Seq(Bytes)
               /\ h \o Request \in Seq(Bytes) /\ Request \o t \in Seq(Bytes)
               /\ Conversation(c) \in Seq(Bytes)
               /\ Conversation(c) = h \o (Request \o t)
               /\ Conversation(c) = (h \o Request) \o t
               /\ Len(h \o Request) = Len(h) + Len(Request)
               /\ Len(Conversation(c)) = Len(h) + Len(Request) + Len(t)
               /\ Len(h) \in Nat /\ Len(Request) \in Nat /\ Len(t) \in Nat
<1> DEFINE h == Handshake(c)
           r == Request
           t == Third(c)
           hr == h \o r
           rt == r \o t
<1>1. h \in Seq(Bytes) /\ r \in Seq(Bytes) /\ t \in Seq(Bytes)
  <2>1. {0, 1, 2} \subseteq Int
    OBVIOUS
  <2>2. h \in Seq(Bytes)
    BY <2>1, IntroductionIs, PacketType DEF Handshake
  <2>3. r \in Seq(Bytes) /\ WritePacket(1, Pong) \in Seq(Bytes)
        /\ WritePacket(2, Pong) \in Seq(Bytes)
    BY <2>1, SmallSeqs, PacketType DEF Request
  <2> QED BY <2>2, <2>3 DEF Third
<1>2. Conversation(c) = h \o rt
  <2>1. c.follow \in {"ping", "other"}
    BY ScriptIs
  <2>2. CASE c.follow = "ping"
    BY <2>2 DEF Conversation, Follows, Third, Request
  <2>3. CASE c.follow = "other"
    BY <2>3 DEF Conversation, Follows, Third, Request
  <2> QED BY <2>1, <2>2, <2>3
<1> HIDE DEF h, r, t
<1>3. hr \in Seq(Bytes) /\ rt \in Seq(Bytes) /\ Len(hr) = Len(h) + Len(r) /\ Len(rt) = Len(r) + Len(t)
  BY <1>1, ConcatProperties
<1>4. Streams(h, r, t)
  BY <1>1 DEF Streams
<1>5. hr \o t = h \o rt
  BY <1>4, Associative
<1>6. Len(h) \in Nat /\ Len(r) \in Nat /\ Len(t) \in Nat
  BY <1>1, LenProperties
<1> HIDE DEF hr, rt
<1>7. Conversation(c) \in Seq(Bytes) /\ Len(Conversation(c)) = Len(h) + Len(rt)
  BY <1>1, <1>2, <1>3, ConcatProperties
<1>8. Len(Conversation(c)) = Len(h) + Len(r) + Len(t)
  BY <1>3, <1>6, <1>7
<1> QED BY <1>1, <1>2, <1>3, <1>5, <1>6, <1>7, <1>8 DEF h, r, t, hr, rt

\* The handshake is seen whole or not at all ...
LEMMA HandshakeComes ==
    ASSUME script \in Scripts, taken = 0, sent \in 0 .. Len(Conversation(script))
    PROVE  IF sent >= Len(Handshake(script))
           THEN \E rest \in Seq(Bytes) :
                   /\ Len(rest) = sent - Len(Handshake(script))
                   /\ Packet = Read([id |-> 0, data |-> Introduction(script)], rest)
           ELSE Packet = Short
<1> DEFINE h == Handshake(script)
           c == Conversation(script)
           rt == Request \o Third(script)
           d == Introduction(script)
           none == <<>>
<1>1. /\ h \in Seq(Bytes) /\ rt \in Seq(Bytes) /\ Len(h) \in Nat
      /\ c = h \o rt
  BY ConversationIs
<1>2. none \in Seq(Bytes) /\ Len(none) = 0 /\ 0 \in Ints
  BY SmallSeqs, SmallInts
<1>3. d \in Seq(Bytes) /\ Fits(0, d) /\ h = WritePacket(0, d)
  BY IntroductionIs, FitAssumption DEF Handshake
<1>4. Packet = ReadPacket(SubSeq(c, Len(none) + 1, sent))
  BY <1>2 DEF Packet
<1> HIDE DEF h, c, rt, d, none
<1>5. c = none \o (WritePacket(0, d) \o rt)
  <2>1. h \o rt \in Seq(Bytes)
    BY <1>1, ConcatProperties
  <2>2. <<>> \o (h \o rt) = h \o rt
    BY <2>1, ConcatEmptySeq
  <2> QED BY <1>1, <1>3, <2>2 DEF none
<1>6. sent \in Len(none) .. Len(c)
  BY <1>2 DEF c
<1>9. Carries(c, none, 0, d, rt)
  BY <1>1, <1>2, <1>3, <1>5 DEF Carries
<1>7. LET end == Len(none) + Len(WritePacket(0, d))
      IN  IF sent >= end
          THEN \E rest \in Seq(Bytes) :
                  /\ Len(rest) = sent - end
                  /\ ReadPacket(SubSeq(c, Len(none) + 1, sent)) = Read([id |-> 0, data |-> d], rest)
          ELSE ReadPacket(SubSeq(c, Len(none) + 1, sent)) = Short
  BY <1>6, <1>9, NextPacket
<1>8. Len(none) + Len(WritePacket(0, d)) = Len(h)
  BY <1>1, <1>2, <1>3
<1> QED BY <1>4, <1>7, <1>8 DEF h, d

\* ... the status request ...
LEMMA RequestComes ==
    ASSUME script \in Scripts, taken = Len(Handshake(script)),
           sent \in 0 .. Len(Conversation(script)), taken \in 0 .. sent
    PROVE  IF sent >= taken + Len(Request)
           THEN \E rest \in Seq(Bytes) :
                   /\ Len(rest) = sent - (taken + Len(Request))
                   /\ Packet = Read([id |-> 0, data |-> <<>>], rest)
           ELSE Packet = Short
<1> DEFINE h == Handshake(script)
           c == Conversation(script)
           t == Third(script)
<1>1. /\ h \in Seq(Bytes) /\ t \in Seq(Bytes) /\ Len(h) \in Nat
      /\ c = h \o (Request \o t)
  BY ConversationIs
<1>2. <<>> \in Seq(Bytes) /\ 0 \in Ints /\ Fits(0, <<>>)
  BY SmallSeqs, SmallInts, FitAssumption
<1>3. Packet = ReadPacket(SubSeq(c, Len(h) + 1, sent)) /\ sent \in Len(h) .. Len(c)
  BY DEF Packet
<1>4. taken = Len(h)
  OBVIOUS
<1> HIDE DEF h, c, t
<1>5. c = h \o (WritePacket(0, <<>>) \o t)
  BY <1>1 DEF Request
<1>9. Carries(c, h, 0, <<>>, t)
  BY <1>1, <1>2, <1>5 DEF Carries
<1>6. LET end == Len(h) + Len(WritePacket(0, <<>>))
      IN  IF sent >= end
          THEN \E rest \in Seq(Bytes) :
                  /\ Len(rest) = sent - end
                  /\ ReadPacket(SubSeq(c, Len(h) + 1, sent)) = Read([id |-> 0, data |-> <<>>], rest)
          ELSE ReadPacket(SubSeq(c, Len(h) + 1, sent)) = Short
  BY <1>3, <1>9, NextPacket
<1> QED BY <1>3, <1>4, <1>6 DEF Request

\* ... and the last packet.
LEMMA PingComes ==
    ASSUME script \in Scripts, taken = Len(Handshake(script)) + Len(Request),
           sent \in 0 .. Len(Conversation(script)), taken \in 0 .. sent
    PROVE  IF sent >= taken + Len(Third(script))
           THEN \E rest \in Seq(Bytes), id \in {1, 2} :
                   /\ Len(rest) = sent - (taken + Len(Third(script)))
                   /\ Packet = Read([id |-> id, data |-> Pong], rest)
           ELSE Packet = Short
<1> DEFINE hr == Handshake(script) \o Request
           c == Conversation(script)
           t == Third(script)
           none == <<>>
<1>1. /\ hr \in Seq(Bytes) /\ t \in Seq(Bytes) /\ taken = Len(hr) /\ c = hr \o t
  BY ConversationIs
<1>2. none \in Seq(Bytes) /\ Pong \in Seq(Bytes) /\ {1, 2} \subseteq Ints
      /\ Fits(1, Pong) /\ Fits(2, Pong)
  BY SmallSeqs, SmallInts, FitAssumption
<1>3. Packet = ReadPacket(SubSeq(c, Len(hr) + 1, sent)) /\ sent \in Len(hr) .. Len(c)
  BY <1>1 DEF Packet
<1>4. PICK id \in {1, 2} : t = WritePacket(id, Pong)
  BY DEF Third
<1> HIDE DEF hr, c, t, none
<1>5. c = hr \o (WritePacket(id, Pong) \o none)
  <2>1. t \o <<>> = t
    BY <1>1, ConcatEmptySeq
  <2> QED BY <1>1, <1>4, <2>1 DEF none
<1>6. id \in Ints /\ Fits(id, Pong)
  BY <1>2
<1>9. Carries(c, hr, id, Pong, none)
  BY <1>1, <1>2, <1>5, <1>6 DEF Carries
<1>7. LET end == Len(hr) + Len(WritePacket(id, Pong))
      IN  IF sent >= end
          THEN \E rest \in Seq(Bytes) :
                  /\ Len(rest) = sent - end
                  /\ ReadPacket(SubSeq(c, Len(hr) + 1, sent)) = Read([id |-> id, data |-> Pong], rest)
          ELSE ReadPacket(SubSeq(c, Len(hr) + 1, sent)) = Short
  BY <1>3, <1>9, NextPacket
<1> QED BY <1>1, <1>3, <1>4, <1>7 DEF t

-----------------------------------------------------------------------------
(* A connection.                                                           *)

\* A login that the handler can read.
Login(c) == c.then = "login" /\ c.length >= 0

\* Where the handler is, and what it has read, returned and answered, by what
\* the client has sent.
Place ==
    /\ clients \in {0, 1}
    /\ to \in Instances
    /\ script \in Scripts \union {NoScript}
    /\ sent \in 0 .. Len(Conversation(script))
    /\ closed \in BOOLEAN
    /\ at \in {"none", "handshake", "request", "ping", "done"}
    /\ taken \in 0 .. sent
    /\ woke \in BOOLEAN
    /\ at = "none" => sent = 0
    /\ at # "none" => clients = 0 /\ script \in Scripts /\ stage = "serve"
    /\ at \in {"none", "handshake", "request"} => meant = <<>>
    /\ at \in {"none", "handshake"} => taken = 0
    /\ at = "request" => taken = Len(Handshake(script))
    /\ at = "ping" => taken = Len(Handshake(script)) + Len(Request) /\ Len(meant) = 1
    /\ at \in {"request", "ping"} => ~Login(script)
    /\ at # "done" => ~woke
    /\ at = "done" /\ woke => /\ Login(script) /\ sent >= Len(Handshake(script))
                              /\ closed \/ Len(meant) = 1
    /\ at = "done" /\ ~woke =>
          ~Login(script) \/ (closed /\ sent < Len(Handshake(script)))

\* What each of the three reads finds once the handler can tell: at the
\* handshake all of it, or an end of the stream that is too early ...
LEMMA HandshakeRead ==
    ASSUME Place, at = "handshake", Comes
    PROVE  \/ Packet.kind = "short" /\ closed /\ sent < Len(Handshake(script))
           \/ /\ Packet.kind = "ok" /\ sent >= Len(Handshake(script))
              /\ Packet.value = [id |-> 0, data |-> Introduction(script)]
              /\ sent - Len(Packet.rest) = Len(Handshake(script))
<1> DEFINE h == Len(Handshake(script))
<1>1. script \in Scripts /\ taken = 0 /\ sent \in 0 .. Len(Conversation(script))
  BY DEF Place
<1>2. sent \in Nat /\ h \in Nat
  BY <1>1, ConversationIs
<1>3. CASE sent >= h
  <2>1. PICK rest \in Seq(Bytes) :
           /\ Len(rest) = sent - h
           /\ Packet = Read([id |-> 0, data |-> Introduction(script)], rest)
    BY <1>1, <1>3, HandshakeComes
  <2>2. /\ Packet.kind = "ok" /\ Packet.rest = rest
        /\ Packet.value = [id |-> 0, data |-> Introduction(script)]
    BY <2>1 DEF Read
  <2> HIDE DEF h
  <2>3. sent - (sent - h) = h
    BY <1>2
  <2> QED BY <1>3, <2>1, <2>2, <2>3 DEF h
<1>4. CASE ~(sent >= h)
  <2>1. Packet.kind = "short"
    BY <1>1, <1>4, HandshakeComes DEF Short
  <2> HIDE DEF h
  <2>2. sent < h
    BY <1>2, <1>4
  <2> QED BY <2>1, <2>2 DEF Comes, h
<1> QED BY <1>3, <1>4

\* ... at the request ...
LEMMA RequestRead ==
    ASSUME Place, at = "request", Comes
    PROVE  \/ Packet.kind = "short"
           \/ /\ Packet.kind = "ok" /\ sent >= taken + Len(Request)
              /\ sent - Len(Packet.rest) = taken + Len(Request)
<1> DEFINE r == taken + Len(Request)
<1>1. /\ script \in Scripts /\ taken = Len(Handshake(script))
      /\ sent \in 0 .. Len(Conversation(script)) /\ taken \in 0 .. sent
  BY DEF Place
<1>2. sent \in Nat /\ r \in Nat
  BY <1>1, ConversationIs
<1>3. CASE sent >= r
  <2>1. PICK rest \in Seq(Bytes) :
           Len(rest) = sent - r /\ Packet = Read([id |-> 0, data |-> <<>>], rest)
    BY <1>1, <1>3, RequestComes
  <2>2. Packet.kind = "ok" /\ Packet.rest = rest
    BY <2>1 DEF Read
  <2> HIDE DEF r
  <2>3. sent - (sent - r) = r
    BY <1>2
  <2> QED BY <1>3, <2>1, <2>2, <2>3 DEF r
<1>4. CASE ~(sent >= r)
  BY <1>1, <1>4, RequestComes DEF Short
<1> QED BY <1>3, <1>4

\* ... and at the ping, which may be another packet.
LEMMA PingRead ==
    ASSUME Place, at = "ping", Comes
    PROVE  \/ Packet.kind = "short"
           \/ /\ Packet.kind = "ok"
              /\ Packet.value.id \in {1, 2} /\ Packet.value.data = Pong
              /\ sent - Len(Packet.rest) \in 0 .. sent
<1> DEFINE t == taken + Len(Third(script))
<1>1. /\ script \in Scripts /\ taken = Len(Handshake(script)) + Len(Request)
      /\ sent \in 0 .. Len(Conversation(script)) /\ taken \in 0 .. sent
  BY DEF Place
<1>2. sent \in Nat /\ t \in Nat
  BY <1>1, ConversationIs
<1>3. CASE sent >= t
  <2>1. PICK rest \in Seq(Bytes), id \in {1, 2} :
           Len(rest) = sent - t /\ Packet = Read([id |-> id, data |-> Pong], rest)
    BY <1>1, <1>3, PingComes
  <2>2. Packet.kind = "ok" /\ Packet.rest = rest /\ Packet.value.id = id /\ Packet.value.data = Pong
    BY <2>1 DEF Read
  <2> HIDE DEF t
  <2>3. sent - (sent - t) \in 0 .. sent
    BY <1>2, <1>3
  <2> QED BY <2>1, <2>2, <2>3
<1>4. CASE ~(sent >= t)
  BY <1>1, <1>4, PingComes DEF Short
<1> QED BY <1>3, <1>4

\* Place holds when the process starts.
LEMMA InitPlace == AdapterInit => Place
<1> SUFFICES ASSUME AdapterInit PROVE Place
  OBVIOUS
<1>1. /\ clients \in {0, 1} /\ to \in Instances /\ script = NoScript /\ closed = FALSE
      /\ sent = 0 /\ at = "none" /\ taken = 0 /\ meant = <<>> /\ woke = FALSE
  BY ClientsAssumption, ConfigAssumption DEF AdapterInit, Instances
<1>2. Len(Conversation(script)) \in Nat
  BY <1>1, ConversationIs
<1>3. sent \in 0 .. Len(Conversation(script)) /\ taken \in 0 .. sent
  BY <1>1, <1>2
<1> QED BY <1>1, <1>3 DEF Place

\* The steps of the client, of the process before it serves, and of nobody.
LEMMA ClientPlace ==
    ASSUME Place,
           \/ ConfigNext /\ UNCHANGED <<client, handler>>
           \/ \E i \in Instances : Accept(i)
           \/ ClientSends
           \/ ClientCloses
           \/ UNCHANGED adapterVars
    PROVE  Place'
<1>1. CASE ConfigNext /\ UNCHANGED <<client, handler>>
  <2>1. stage \in {"load", "build"}
    BY <1>1 DEF ConfigNext, LoadNext, BuildNext
  <2>2. at = "none"
    BY <2>1 DEF Place
  <2> QED BY <1>1, <2>2 DEF Place, client, handler
<1>2. ASSUME NEW i \in Instances, Accept(i) PROVE Place'
  <2>1. /\ at = "none" /\ stage = "serve" /\ clients = 1 /\ clients' = 0
        /\ to' = i /\ script' \in Scripts /\ at' = "handshake"
        /\ UNCHANGED <<stage, sent, closed, taken, meant, woke>>
    BY <1>2 DEF Accept, Place, config
  <2>2. sent' = 0 /\ taken' = 0 /\ meant' = <<>> /\ ~woke' /\ Len(Conversation(script')) \in Nat
    BY <2>1, ConversationIs DEF Place
  <2> QED BY <2>1, <2>2 DEF Place
<1>3. CASE ClientSends
  <2>1. /\ at # "none" /\ ~closed
        /\ sent' \in sent + 1 .. Len(Conversation(script))
        /\ UNCHANGED <<config, clients, to, script, closed, at, taken, meant, woke>>
    BY <1>3 DEF ClientSends, Connected, handler
  <2>2. /\ sent \in Nat /\ taken \in 0 .. sent /\ Len(Conversation(script)) \in Nat
        /\ Len(Handshake(script)) \in Nat
    BY ConversationIs DEF Place
  <2>3. /\ sent' \in 0 .. Len(Conversation(script)) /\ sent' > sent /\ taken \in 0 .. sent'
    BY <2>1, <2>2
  <2>4. sent >= Len(Handshake(script)) => sent' >= Len(Handshake(script))
    BY <2>2, <2>3
  <2> QED BY <2>1, <2>3, <2>4 DEF Place, config
<1>4. CASE ClientCloses
  BY <1>4 DEF ClientCloses, Connected, Place, config, handler
<1>5. CASE UNCHANGED adapterVars
  BY <1>5 DEF adapterVars, config, client, handler, Place
<1> QED BY <1>1, <1>2, <1>3, <1>4, <1>5

\* An answer is a text or, after a text, a pong.
LEMMA WritesOne ==
    ASSUME meant = <<>>, NEW kind, WritesText(kind) \/ WriteFails
    PROVE  closed \/ Len(meant') = 1
BY DEF WritesText, Writes, WriteFails

\* The handler takes a handshake for a login if and only if it is a whole one
\* that announces a login.
LEMMA HandshakePlace == Place /\ ReadHandshake => Place'
<1> SUFFICES ASSUME Place, ReadHandshake PROVE Place'
  OBVIOUS
<1> DEFINE h == Len(Handshake(script))
           state == ParseHandshake(Packet.value.data)
           good == Packet.kind = "ok" /\ Packet.value.id = 0 /\ state.kind = "ok"
<1>1. /\ at = "handshake" /\ Comes /\ script \in Scripts /\ meant = <<>> /\ ~woke
      /\ taken = 0 /\ sent \in 0 .. Len(Conversation(script)) /\ h \in Nat
      /\ UNCHANGED <<config, clients, to, script, sent, closed>>
  BY ConversationIs DEF ReadHandshake, Place, client
<1>2. \/ Packet.kind = "short" /\ closed /\ sent < h
      \/ /\ Packet.kind = "ok" /\ sent >= h /\ sent - Len(Packet.rest) = h
         /\ Packet.value = [id |-> 0, data |-> Introduction(script)]
  BY <1>1, HandshakeRead
<1>3. Packet.kind = "ok" =>
         /\ good <=> script.length = 1
         /\ good => (IsLogin(state.value) <=> script.then = "login")
  <2> SUFFICES ASSUME Packet.kind = "ok"
               PROVE  /\ good <=> script.length = 1
                      /\ good => (IsLogin(state.value) <=> script.then = "login")
    OBVIOUS
  <2>0. Packet.value.id = 0 /\ Packet.value.data = Introduction(script)
    BY <1>2
  <2>1. state = IF script.length = 1 THEN Read(Announced[script.then], <<>>) ELSE Bad
    BY <1>1, <2>0, Introduced
  <2>2. Announced[script.then] = Announced.login <=> script.then = "login"
    BY <1>1, ScriptIs
  <2> HIDE DEF state
  <2> QED BY <2>0, <2>1, <2>2 DEF Read, Bad, IsLogin
<1>4. good => (IsLogin(state.value) <=> Login(script))
  <2> HIDE DEF state
  <2> QED BY <1>3 DEF Login
<1>5. ~good => Packet.kind = "short" \/ ~Login(script)
  <2>1. script.length \in {-1, 1}
    BY <1>1, ScriptIs
  <2> HIDE DEF good
  <2> QED BY <1>2, <1>3, <2>1 DEF Login
<1>6. \/ ~good /\ Returns(FALSE) /\ UNCHANGED <<taken, written, meant>>
      \/ /\ good /\ IsLogin(state.value)
         /\ Take
         /\ WritesText("disconnect") \/ WriteFails
         /\ Returns(TRUE)
      \/ /\ good /\ ~IsLogin(state.value)
         /\ Take
         /\ at' = "request"
         /\ UNCHANGED <<written, meant, woke>>
  BY DEF ReadHandshake
<1>7. good => Packet.kind = "ok"
  OBVIOUS
<1> HIDE DEF good, state, h
<1>8. CASE ~good /\ Returns(FALSE) /\ UNCHANGED <<taken, written, meant>>
  BY <1>1, <1>2, <1>5, <1>8 DEF Returns, Place, config, h
<1>9. CASE /\ good /\ IsLogin(state.value) /\ Take
           /\ WritesText("disconnect") \/ WriteFails
           /\ Returns(TRUE)
  <2>1. taken' = h /\ taken' \in 0 .. sent /\ sent >= h /\ Login(script)
    BY <1>1, <1>2, <1>4, <1>7, <1>9 DEF Take
  <2>2. closed \/ Len(meant') = 1
    BY <1>1, <1>9, WritesOne
  <2> QED BY <1>1, <1>9, <2>1, <2>2 DEF Returns, Place, config, h
<1>10. CASE /\ good /\ ~IsLogin(state.value) /\ Take
            /\ at' = "request" /\ UNCHANGED <<written, meant, woke>>
  <2>1. taken' = h /\ taken' \in 0 .. sent /\ ~Login(script)
    BY <1>1, <1>2, <1>4, <1>7, <1>10 DEF Take
  <2> QED BY <1>1, <1>10, <2>1 DEF Place, config, h
<1> QED BY <1>6, <1>8, <1>9, <1>10

\* The handler is at the ping only with one answer written.
LEMMA RequestPlace == Place /\ ReadRequest => Place'
<1> SUFFICES ASSUME Place, ReadRequest PROVE Place'
  OBVIOUS
<1>1. /\ at = "request" /\ Comes /\ script \in Scripts /\ meant = <<>> /\ ~woke
      /\ taken = Len(Handshake(script)) /\ ~Login(script) /\ taken \in 0 .. sent
      /\ sent \in 0 .. Len(Conversation(script)) /\ Len(Request) \in Nat
      /\ UNCHANGED <<config, clients, to, script, sent, closed>>
  BY ConversationIs DEF ReadRequest, Place, client
<1>2. Packet.kind = "ok" =>
         sent >= taken + Len(Request) /\ sent - Len(Packet.rest) = taken + Len(Request)
  BY <1>1, RequestRead
<1>3. CASE /\ Packet.kind = "ok" /\ Take /\ WritesText("status") /\ at' = "ping"
           /\ UNCHANGED woke
  <2>1. taken' = taken + Len(Request) /\ taken' \in 0 .. sent
    BY <1>1, <1>2, <1>3 DEF Take
  <2>2. Len(meant') = 1
    BY <1>1, <1>3 DEF WritesText, Writes
  <2> QED BY <1>1, <1>3, <2>1, <2>2 DEF Place, config
<1>4. CASE Packet.kind = "ok" /\ Take /\ WriteFails /\ Returns(FALSE)
  <2>1. taken' \in 0 .. sent
    BY <1>1, <1>2, <1>4 DEF Take
  <2> QED BY <1>1, <1>4, <2>1 DEF Place, config, Returns
<1>5. CASE Packet.kind # "ok" /\ Returns(FALSE) /\ UNCHANGED <<taken, written, meant>>
  BY <1>1, <1>5 DEF Place, config, Returns
<1> QED BY <1>3, <1>4, <1>5 DEF ReadRequest

\* Neither a ping nor what a client sends for one wakes an instance.
LEMMA PingPlace == Place /\ ReadPing => Place'
<1> SUFFICES ASSUME Place, ReadPing PROVE Place'
  OBVIOUS
<1>1. /\ at = "ping" /\ Comes /\ ~Login(script) /\ taken \in 0 .. sent
      /\ at' = "done" /\ ~woke' /\ woke' \in BOOLEAN
      /\ UNCHANGED <<config, clients, to, script, sent, closed>>
  BY DEF ReadPing, Place, client, Returns
<1>2. taken' \in 0 .. sent
  <2>1. CASE Packet.kind = "ok"
    BY <1>1, <2>1, PingRead DEF ReadPing, Take
  <2>2. CASE Packet.kind # "ok"
    BY <1>1, <2>2 DEF ReadPing
  <2> QED BY <2>1, <2>2
<1> QED BY <1>1, <1>2 DEF Place, config

\* Place is inductive.
LEMMA NextPlace == Place /\ [AdapterNext]_adapterVars => Place'
BY ClientPlace, HandshakePlace, RequestPlace, PingPlace DEF AdapterNext

-----------------------------------------------------------------------------
(* The answers.                                                            *)

\* An answer with the motd that the documentation says.
Answer(kind, n, motd) ==
    [kind |-> kind, size |-> n,
     source |-> Promised(to, "minecraft_config", motd), motd |-> motd]

\* The other answer.
Pongs == [kind |-> "pong"]

\* One text with the motd of the instance, and after it perhaps a pong.
Answered ==
    \/ meant = <<>> /\ written = <<>>
    \/ \E kind \in {"disconnect", "status"}, n \in Lengths, motd \in Motds :
          LET text == WritePacket(0, WriteString(Text(n)))
          IN  \/ meant = <<Answer(kind, n, motd)>> /\ written = text
              \/ /\ meant = <<Answer(kind, n, motd), Pongs>>
                 /\ written = text \o WritePacket(1, Pong)

\* A text, its string and its packet.
LEMMA TextIs ==
    ASSUME NEW n \in Lengths
    PROVE  /\ Text(n) \in Seq(Bytes) /\ Len(Text(n)) = n /\ n \in Ints
           /\ WriteString(Text(n)) \in Seq(Bytes)
           /\ Fits(0, WriteString(Text(n)))
           /\ WritePacket(0, WriteString(Text(n))) \in Seq(Bytes)
<1>1. n \in Nat /\ n \in Ints /\ n \in Int /\ Fits(0, WriteString(Text(n)))
  BY ClientsAssumption, FitAssumption
<1>2. Text(n) \in Seq(Bytes) /\ Len(Text(n)) = n
  BY <1>1, SmallBytes DEF Text
<1>3. WriteVarInt(Len(Text(n))) \in Seq(Bytes)
  BY <1>1, <1>2, WrittenIs
<1>4. WriteString(Text(n)) \in Seq(Bytes)
  BY <1>2, <1>3, ConcatProperties DEF WriteString
<1>5. WritePacket(0, WriteString(Text(n))) \in Seq(Bytes)
  BY <1>4, PacketType
<1> QED BY <1>1, <1>2, <1>4, <1>5

\* The data of a ping, and the packet of its answer.
LEMMA PongIs ==
    /\ Pong \in Seq(Bytes) /\ 1 \in Ints /\ Fits(1, Pong)
    /\ WritePacket(1, Pong) \in Seq(Bytes)
BY SmallSeqs, SmallInts, FitAssumption, PacketType

\* The answers are bytes.
LEMMA AnsweredTypes == Answered => written \in Seq(Bytes)
<1> SUFFICES ASSUME Answered PROVE written \in Seq(Bytes)
  OBVIOUS
<1>1. CASE written = <<>>
  BY <1>1, SmallSeqs
<1>2. ASSUME NEW n \in Lengths, written = WritePacket(0, WriteString(Text(n)))
      PROVE  written \in Seq(Bytes)
  BY <1>2, TextIs
<1>3. ASSUME NEW n \in Lengths,
             written = WritePacket(0, WriteString(Text(n))) \o WritePacket(1, Pong)
      PROVE  written \in Seq(Bytes)
  BY <1>3, TextIs, PongIs, ConcatProperties
<1> QED BY <1>1, <1>2, <1>3 DEF Answered

\* The first answer.
LEMMA TextAnswered ==
    ASSUME Loaded, Place, at \in {"handshake", "request"}, Answered,
           NEW kind \in {"disconnect", "status"}, WritesText(kind) \/ WriteFails,
           UNCHANGED <<config, to>>
    PROVE  Answered'
<1>1. meant = <<>> /\ written = <<>> /\ stage = "serve" /\ to \in Instances
  <2>1. meant = <<>> /\ stage = "serve" /\ to \in Instances
    BY DEF Place
  <2> QED BY <2>1 DEF Answered
<1>2. CASE WriteFails
  BY <1>1, <1>2 DEF Answered, WriteFails
<1>3. CASE WritesText(kind)
  <2>1. PICK motd \in Motds, n \in Lengths :
           Writes(0, WriteString(Text(n)),
                  [kind |-> kind, size |-> n,
                   source |-> Resolved(to, "minecraft_config", motd), motd |-> motd])
    BY <1>3 DEF WritesText
  <2>2. Resolved(to, "minecraft_config", motd) = Promised(to, "minecraft_config", motd)
    <3>1. "minecraft_config" \in Sections /\ motd \in Fields["minecraft_config"]
      BY DEF Sections, Fields, Motds
    <3> QED BY <1>1, <3>1, LoadedIsPromised DEF Precedence
  <2>3. Promised(to, "minecraft_config", motd)' = Promised(to, "minecraft_config", motd)
    BY DEF Promised, Sets, config
  <2> DEFINE w == WritePacket(0, WriteString(Text(n)))
  <2>4. w \in Seq(Bytes)
    BY TextIs
  <2>5. meant' = <<Answer(kind, n, motd)'>> /\ written' = <<>> \o w
    BY <1>1, <2>1, <2>2, <2>3 DEF Writes, Answer
  <2>6. <<>> \o w = w
    <3> HIDE DEF w
    <3> QED BY <2>4, ConcatEmptySeq
  <2> QED BY <2>5, <2>6 DEF Answered
<1> QED BY <1>2, <1>3

\* Nothing is written.
LEMMA QuietAnswered ==
    ASSUME Place, Answered, UNCHANGED <<written, meant>>,
           \/ UNCHANGED <<file, game, to>>
           \/ at = "none"
    PROVE  Answered'
<1>1. CASE UNCHANGED <<file, game, to>>
  <2>1. \A kind, n, motd : Answer(kind, n, motd)' = Answer(kind, n, motd)
    BY <1>1 DEF Answer, Promised, Sets
  <2>2. CASE meant = <<>> /\ written = <<>>
    BY <2>2 DEF Answered
  <2>3. ASSUME NEW kind \in {"disconnect", "status"}, NEW n \in Lengths, NEW motd \in Motds,
               LET text == WritePacket(0, WriteString(Text(n)))
               IN  \/ meant = <<Answer(kind, n, motd)>> /\ written = text
                   \/ /\ meant = <<Answer(kind, n, motd), Pongs>>
                      /\ written = text \o WritePacket(1, Pong)
        PROVE  Answered'
    <3>1. LET text == WritePacket(0, WriteString(Text(n)))
          IN  \/ meant' = <<Answer(kind, n, motd)'>> /\ written' = text
              \/ /\ meant' = <<Answer(kind, n, motd)', Pongs>>
                 /\ written' = text \o WritePacket(1, Pong)
      BY <2>1, <2>3
    <3> QED BY <3>1 DEF Answered
  <2> QED BY <2>2, <2>3 DEF Answered
<1>2. CASE at = "none"
  <2>1. meant = <<>> /\ written = <<>>
    BY <1>2 DEF Place, Answered
  <2> QED BY <2>1 DEF Answered
<1> QED BY <1>1, <1>2

\* A handshake is answered once or not at all.
LEMMA HandshakeAnswered ==
    Loaded /\ Place /\ Answered /\ ReadHandshake => Answered'
<1> SUFFICES ASSUME Loaded, Place, Answered, ReadHandshake PROVE Answered'
  OBVIOUS
<1>1. UNCHANGED <<config, to>> /\ at = "handshake"
  BY DEF ReadHandshake, client
<1>2. UNCHANGED <<written, meant>> \/ WritesText("disconnect") \/ WriteFails
  BY DEF ReadHandshake
<1>3. CASE UNCHANGED <<written, meant>>
  BY <1>1, <1>3, QuietAnswered DEF config
<1>4. CASE WritesText("disconnect") \/ WriteFails
  BY <1>1, <1>4, TextAnswered
<1> QED BY <1>2, <1>3, <1>4

\* So is a request.
LEMMA RequestAnswered ==
    Loaded /\ Place /\ Answered /\ ReadRequest => Answered'
<1> SUFFICES ASSUME Loaded, Place, Answered, ReadRequest PROVE Answered'
  OBVIOUS
<1>1. UNCHANGED <<config, to>> /\ at = "request"
  BY DEF ReadRequest, client
<1>2. UNCHANGED <<written, meant>> \/ WritesText("status") \/ WriteFails
  BY DEF ReadRequest
<1>3. CASE UNCHANGED <<written, meant>>
  BY <1>1, <1>3, QuietAnswered DEF config
<1>4. CASE WritesText("status") \/ WriteFails
  BY <1>1, <1>4, TextAnswered
<1> QED BY <1>2, <1>3, <1>4

\* A sequence of two.
LEMMA AppendedPair == \A x, y : Append(<<x>>, y) = <<x, y>>
<1> SUFFICES ASSUME NEW x, NEW y PROVE Append(<<x>>, y) = <<x, y>>
  OBVIOUS
<1> DEFINE S == {x, y}
<1>1. <<x>> \in Seq(S) /\ y \in S /\ <<x, y>> \in Seq(S)
  OBVIOUS
<1>2. /\ Append(<<x>>, y) \in Seq(S)
      /\ Len(Append(<<x>>, y)) = Len(<<x>>) + 1
      /\ \A i \in 1 .. Len(<<x>>) : Append(<<x>>, y)[i] = <<x>>[i]
      /\ Append(<<x>>, y)[Len(<<x>>) + 1] = y
  BY <1>1, AppendProperties
<1>3. Len(<<x>>) = 1 /\ Len(<<x, y>>) = 2 /\ <<x>>[1] = x /\ <<x, y>>[1] = x /\ <<x, y>>[2] = y
  OBVIOUS
<1>4. Len(Append(<<x>>, y)) = 2 /\ Append(<<x>>, y)[1] = x /\ Append(<<x>>, y)[2] = y
  BY <1>2, <1>3
<1>5. \A i \in 1 .. 2 : i = 1 \/ i = 2
  OBVIOUS
<1> HIDE DEF S
<1>6. \A i \in 1 .. 2 : Append(<<x>>, y)[i] = <<x, y>>[i]
  BY <1>3, <1>4, <1>5
<1> QED BY <1>1, <1>2, <1>3, <1>4, <1>6, SeqEqual

\* A pong comes only after a text.
LEMMA PingAnswered == Place /\ Answered /\ ReadPing => Answered'
<1> SUFFICES ASSUME Place, Answered, ReadPing PROVE Answered'
  OBVIOUS
<1>1. UNCHANGED <<file, game, to>> /\ at = "ping" /\ Comes /\ Len(meant) = 1
  BY DEF ReadPing, client, config, Place
<1>2. CASE UNCHANGED <<written, meant>>
  BY <1>1, <1>2, QuietAnswered
<1>3. CASE Packet.kind = "ok" /\ Writes(1, Packet.value.data, Pongs)
  <2>1. Packet.value.data = Pong
    BY <1>1, <1>3, PingRead
  <2>2. PICK kind \in {"disconnect", "status"}, n \in Lengths, motd \in Motds :
           /\ meant = <<Answer(kind, n, motd)>>
           /\ written = WritePacket(0, WriteString(Text(n)))
    <3>1. meant # <<>> /\ \A x : meant # <<x, Pongs>>
      BY <1>1
    <3> QED BY <3>1 DEF Answered
  <2>3. Answer(kind, n, motd)' = Answer(kind, n, motd)
    BY <1>1 DEF Answer, Promised, Sets
  <2>4. \A x : Append(<<x>>, Pongs) = <<x, Pongs>>
    BY AppendedPair
  <2>5. meant' = <<Answer(kind, n, motd)', Pongs>>
    BY <1>3, <2>2, <2>3, <2>4 DEF Writes
  <2>6. written' = WritePacket(0, WriteString(Text(n))) \o WritePacket(1, Pong)
    BY <1>3, <2>1, <2>2 DEF Writes
  <2> QED BY <2>5, <2>6 DEF Answered
<1>4. \/ UNCHANGED <<written, meant>>
      \/ Packet.kind = "ok" /\ Writes(1, Packet.value.data, Pongs)
  BY DEF ReadPing, WriteFails, Pongs
<1> QED BY <1>2, <1>3, <1>4

\* Answered is preserved by every step from a state in which the configuration
\* is loaded and the handler is where Place has it.
LEMMA NextAnswered ==
    Loaded /\ Place /\ Answered /\ [AdapterNext]_adapterVars => Answered'
<1> SUFFICES ASSUME Loaded, Place, Answered, [AdapterNext]_adapterVars PROVE Answered'
  OBVIOUS
<1>1. CASE ConfigNext /\ UNCHANGED <<client, handler>>
  <2>1. at = "none"
    BY <1>1 DEF ConfigNext, LoadNext, BuildNext, Place
  <2> QED BY <1>1, <2>1, QuietAnswered DEF handler
<1>2. ASSUME NEW i \in Instances, Accept(i) PROVE Answered'
  <2>1. at = "none" /\ UNCHANGED <<written, meant>>
    BY <1>2 DEF Accept, Place
  <2> QED BY <2>1, QuietAnswered
<1>3. CASE ClientSends \/ ClientCloses \/ UNCHANGED adapterVars
  BY <1>3, QuietAnswered DEF ClientSends, ClientCloses, adapterVars, config, client, handler
<1> QED BY <1>1, <1>2, <1>3, HandshakeAnswered, RequestAnswered, PingAnswered DEF AdapterNext

-----------------------------------------------------------------------------
(* What a client reads.                                                    *)

\* A packet is read, with another one after it or alone.
LEMMA ReadsAlone ==
    ASSUME NEW id \in Ints, NEW data \in Seq(Bytes), Fits(id, data)
    PROVE  /\ ReadPacket(WritePacket(id, data)) = Read([id |-> id, data |-> data], <<>>)
           /\ \A b \in Seq(Bytes) :
                 ReadPacket(WritePacket(id, data) \o b) = Read([id |-> id, data |-> data], b)
<1> DEFINE w == WritePacket(id, data)
<1>1. w \in Seq(Bytes) /\ Len(w) \in Nat /\ Len(WriteVarInt(id) \o data) \in Ints
  BY PacketType, Constants DEF Ints, Fits
<1>2. ASSUME NEW s \in Seq(Bytes), Begins(s, w)
      PROVE  ReadPacket(s) = Read([id |-> id, data |-> data], From(s, Len(w) + 1))
  BY <1>1, <1>2, PacketBack
<1> HIDE DEF w
<1>3. Begins(w, w) /\ From(w, Len(w) + 1) = <<>>
  BY <1>1, SubSeqEmpty DEF Begins, From
<1>4. ASSUME NEW b \in Seq(Bytes)
      PROVE  ReadPacket(w \o b) = Read([id |-> id, data |-> data], b)
  <2>1. w \o b \in Seq(Bytes) /\ Begins(w \o b, w) /\ From(w \o b, Len(w) + 1) = b
    BY <1>1, FromConcat
  <2> QED BY <1>2, <2>1
<1> QED BY <1>1, <1>2, <1>3, <1>4 DEF w

\* A string is read.
LEMMA StringAlone ==
    ASSUME NEW b \in Seq(Bytes), Len(b) \in Ints
    PROVE  ReadString(WriteString(b)) = Read(b, <<>>)
<1> DEFINE w == WriteString(b)
<1>1. w \in Seq(Bytes) /\ w = WriteVarInt(Len(b)) \o b
  <2>1. WriteVarInt(Len(b)) \in Seq(Bytes)
    BY WrittenIs, LenProperties
  <2> QED BY <2>1, ConcatProperties DEF WriteString
<1> HIDE DEF w
<1>2. Len(w) \in Nat /\ Begins(w, w) /\ From(w, Len(w) + 1) = <<>>
  BY <1>1, LenProperties, SubSeqEmpty DEF Begins, From
<1>3. ReadPrefixed(w) = Read(b, From(w, Len(w) + 1))
  BY <1>1, <1>2, PrefixedBack
<1> QED BY <1>2, <1>3 DEF ReadString, w

\* Two answers are read one after the other.
LEMMA TailIs ==
    ASSUME Len(meant) \in 0 .. 2
    PROVE  LET body(g) == [n \in 0 .. Len(meant) |->
                             IF n = 0 THEN written ELSE ReadPacket(g[n - 1]).rest]
               tail == CHOOSE g : g = body(g)
           IN  /\ tail[0] = written
               /\ Len(meant) >= 1 => tail[1] = ReadPacket(written).rest
               /\ Len(meant) >= 2 => tail[2] = ReadPacket(tail[1]).rest
<1> DEFINE body(g) == [n \in 0 .. Len(meant) |->
                         IF n = 0 THEN written ELSE ReadPacket(g[n - 1]).rest]
           tail == CHOOSE g : g = body(g)
           one == ReadPacket(written).rest
           left(n) == IF n = 0 THEN written ELSE IF n = 1 THEN one ELSE ReadPacket(one).rest
           h == [n \in 0 .. Len(meant) |-> left(n)]
<1>1. h = body(h)
  <2>1. ASSUME NEW n \in 0 .. Len(meant)
        PROVE  h[n] = IF n = 0 THEN written ELSE ReadPacket(h[n - 1]).rest
    <3>1. CASE n = 0
      BY <3>1
    <3>2. CASE n = 1
      <4>1. h[n - 1] = written
        BY <3>2
      <4> QED BY <3>2, <4>1
    <3>3. CASE n = 2
      <4>1. h[n - 1] = one
        BY <3>3
      <4> QED BY <3>3, <4>1
    <3>4. n \in 0 .. 2
      OBVIOUS
    <3>5. n = 0 \/ n = 1 \/ n = 2
      BY <3>4
    <3> QED BY <3>1, <3>2, <3>3, <3>5
  <2>2. h = [n \in 0 .. Len(meant) |-> h[n]]
    <3> HIDE DEF left
    <3> QED OBVIOUS
  <2> HIDE DEF h
  <2> QED BY <2>1, <2>2
<1>2. tail = body(tail)
  BY <1>1
<1> HIDE DEF tail, h
<1>3. \A n \in 0 .. Len(meant) :
         tail[n] = IF n = 0 THEN written ELSE ReadPacket(tail[n - 1]).rest
  BY <1>2
<1>4. tail[0] = written
  BY <1>3
<1>5. Len(meant) >= 1 => tail[1] = ReadPacket(tail[0]).rest
  BY <1>3
<1>6. Len(meant) >= 2 => tail[2] = ReadPacket(tail[1]).rest
  BY <1>3
<1> QED BY <1>4, <1>5, <1>6 DEF tail

\* A client that reads all that was written finds the answers that were meant.
LEMMA AnsweredIsRead == Place /\ Answered => AnswersAreRead
<1> SUFFICES ASSUME Place, Answered PROVE AnswersAreRead
  OBVIOUS
<1> DEFINE body(g) == [n \in 0 .. Len(meant) |->
                         IF n = 0 THEN written ELSE ReadPacket(g[n - 1]).rest]
           tail == CHOOSE g : g = body(g)
           Fine(m, packet) ==
              /\ packet.kind = "ok"
              /\ IF m.kind = "pong"
                 THEN packet.value = [id |-> 1, data |-> Pong]
                 ELSE LET text == ReadString(packet.value.data)
                      IN  /\ packet.value.id = 0
                          /\ text.kind = "ok"
                          /\ Len(text.value) = m.size
                          /\ text.rest = <<>>
                          /\ m.source = Promised(to, "minecraft_config", m.motd)
<1>1. woke /\ ~closed => Len(meant) = 1
  BY DEF Place
<1>2. AnswersAreRead <=>
        /\ tail[Len(meant)] = <<>>
        /\ woke /\ ~closed => Len(meant) = 1
        /\ \A n \in 1 .. Len(meant) : Fine(meant[n], ReadPacket(tail[n - 1]))
  BY DEF AnswersAreRead
<1>3. ASSUME Len(meant) \in 0 .. 2
      PROVE  /\ tail[0] = written
             /\ Len(meant) >= 1 => tail[1] = ReadPacket(written).rest
             /\ Len(meant) >= 2 => tail[2] = ReadPacket(tail[1]).rest
  BY <1>3, TailIs
<1> HIDE DEF tail
<1>4. CASE meant = <<>> /\ written = <<>>
  <2>1. Len(meant) = 0
    BY <1>4
  <2> QED BY <1>1, <1>2, <1>3, <1>4, <2>1
<1>5. ASSUME NEW kind \in {"disconnect", "status"}, NEW n \in Lengths, NEW motd \in Motds,
             \/ /\ meant = <<Answer(kind, n, motd)>>
                /\ written = WritePacket(0, WriteString(Text(n)))
             \/ /\ meant = <<Answer(kind, n, motd), Pongs>>
                /\ written = WritePacket(0, WriteString(Text(n))) \o WritePacket(1, Pong)
      PROVE  AnswersAreRead
  <2> DEFINE string == WriteString(Text(n))
             w == WritePacket(0, string)
             p == WritePacket(1, Pong)
             answer == Answer(kind, n, motd)
             text == Read([id |-> 0, data |-> string], <<>>)
  <2>1. string \in Seq(Bytes) /\ Fits(0, string) /\ 0 \in Ints /\ p \in Seq(Bytes)
    BY TextIs, PongIs, SmallInts
  <2>2. ReadPacket(w) = Read([id |-> 0, data |-> string], <<>>)
        /\ ReadPacket(w \o p) = Read([id |-> 0, data |-> string], p)
    <3> HIDE DEF p, string
    <3> QED BY <2>1, ReadsAlone
  <2>3. ReadPacket(p) = Read([id |-> 1, data |-> Pong], <<>>)
    BY PongIs, ReadsAlone
  <2>4. ReadString(string) = Read(Text(n), <<>>) /\ Len(Text(n)) = n
    BY TextIs, StringAlone
  <2>5. \A rest : Fine(answer, Read([id |-> 0, data |-> string], rest))
    BY <2>4 DEF Answer, Read
  <2>6. Fine(Pongs, ReadPacket(p))
    BY <2>3 DEF Pongs, Read
  <2> HIDE DEF string, w, p, answer, Fine
  <2>7. CASE meant = <<answer>> /\ written = w
    <3>1. Len(meant) = 1 /\ meant[1] = answer
      BY <2>7
    <3>2. tail[0] = w /\ tail[1] = <<>>
      BY <1>3, <2>2, <2>7, <3>1 DEF Read
    <3>3. Fine(meant[1], ReadPacket(tail[0]))
      BY <2>2, <2>5, <3>1, <3>2
    <3>4. \A k \in 1 .. Len(meant) : k = 1 /\ k - 1 = 0
      BY <3>1
    <3> QED BY <1>1, <1>2, <3>1, <3>2, <3>3, <3>4
  <2>8. CASE meant = <<answer, Pongs>> /\ written = w \o p
    <3>1. Len(meant) = 2 /\ meant[1] = answer /\ meant[2] = Pongs
      BY <2>8
    <3>2. tail[0] = w \o p /\ tail[1] = p /\ tail[2] = <<>>
      BY <1>3, <2>2, <2>3, <2>8, <3>1 DEF Read
    <3>3. Fine(meant[1], ReadPacket(tail[0])) /\ Fine(meant[2], ReadPacket(tail[1]))
      BY <2>2, <2>5, <2>6, <3>1, <3>2
    <3>4. \A k \in 1 .. Len(meant) : (k = 1 /\ k - 1 = 0) \/ (k = 2 /\ k - 1 = 1)
      BY <3>1
    <3> QED BY <1>1, <1>2, <3>1, <3>2, <3>3, <3>4
  <2> QED BY <1>5, <2>7, <2>8 DEF string, w, p, answer
<1> QED BY <1>4, <1>5 DEF Answered

-----------------------------------------------------------------------------

\* The inductive invariant of a process and a connection.
AdapterInv == Loaded /\ Kinds /\ Place /\ Answered

\* All of it, of every reachable state.
LEMMA AdapterInvHolds == AdapterSpec => []AdapterInv
<1>1. AdapterInit => AdapterInv
  <2> SUFFICES ASSUME AdapterInit PROVE AdapterInv
    OBVIOUS
  <2>1. Loaded /\ Place
    BY InitLoaded, InitPlace DEF AdapterInit
  <2>2. Kinds
    BY DEF AdapterInit, ConfigInit, Kinds, Stages
  <2>3. Answered
    BY DEF AdapterInit, Answered
  <2> QED BY <2>1, <2>2, <2>3 DEF AdapterInv
<1>2. AdapterInv /\ [AdapterNext]_adapterVars => AdapterInv'
  BY NextLoaded, NextKinds, NextPlace, NextAnswered DEF AdapterInv
<1> QED BY <1>1, <1>2, PTL DEF AdapterSpec

\* The state of the process and of a connection has its types, the client has
\* sent no more than it means to, the handler has read no more than was sent,
\* and all that it writes are bytes.
THEOREM AdapterTypeCorrect == AdapterSpec => []AdapterTypeOK
<1>1. AdapterInv => AdapterTypeOK
  BY LoadedTypes, AnsweredTypes DEF AdapterInv, AdapterTypeOK, Place
<1> QED BY <1>1, AdapterInvHolds, PTL

\* HandleSleeping returns true if and only if all of a good handshake that
\* announces a login has been sent: whatever the version of the client, however
\* its bytes come in pieces, and whether or not it closes the connection before
\* or after its answer is written.
THEOREM LoginsWake == AdapterSpec => []WakesOnLogin
<1>1. AdapterInv => WakesOnLogin
  <2> SUFFICES ASSUME Place, at = "done"
               PROVE  woke <=> /\ script.then = "login"
                               /\ script.length >= 0
                               /\ sent >= Len(Handshake(script))
    BY DEF AdapterInv, WakesOnLogin
  <2>1. script \in Scripts /\ sent \in Nat /\ Len(Handshake(script)) \in Nat
    BY ConversationIs DEF Place
  <2>2. CASE woke
    BY <2>2 DEF Place, Login
  <2>3. CASE ~woke
    BY <2>1, <2>3 DEF Place, Login
  <2> QED BY <2>2, <2>3
<1> QED BY <1>1, AdapterInvHolds, PTL

\* Who reads what HandleSleeping writes, packet by packet, finds the answers that
\* it meant, nothing before or after them, with the motd of the instance that
\* the connection is for.
THEOREM AnswersRead == AdapterSpec => []AnswersAreRead
<1>1. AdapterInv => AnswersAreRead
  BY AnsweredIsRead DEF AdapterInv
<1> QED BY <1>1, AdapterInvHolds, PTL

=============================================================================
