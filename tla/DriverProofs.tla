---------------------------- MODULE DriverProofs ----------------------------
(***************************************************************************)
(* Proofs about module Driver, for any number of builds, commands, modules *)
(* and processes: the types, that no step touches a file another build may *)
(* still need, and what a build leaves behind.                             *)
(*                                                                         *)
(* A step of a build changes the variables of that build and files it may  *)
(* name (Frame): so an invariant about one build is shown for its own      *)
(* steps, and a lemma "...Stays" takes it through the steps of the others. *)
(*   Based   the types, and the phase of each build;                       *)
(*   Owned   Based, whose names the files have, and that builds that run   *)
(*           are different processes: gives Isolated;                      *)
(*   Tidied  Owned, and what each build has written so far: gives Tidy.    *)
(***************************************************************************)
EXTENDS Driver, FiniteSetTheorems, SequenceTheorems, TLAPS

Item == [kind : {"directory", "c", "unknown"}, name : STRING, sources : Seq(STRING)]
ObjectName == {"bundle", "embedded"} \X (Pids \cup {0}) \X Nat

Types ==
  /\ TypeOK
  /\ analysis = [b \in Builds |-> Analysis(command[b])]
  /\ todo \in [Builds -> Seq(Item)]
  /\ modules \in [Builds -> Seq(DOMAIN Carried)]
  /\ temps \in [Builds -> Seq(ObjectName)] /\ items = temps
  /\ \A p \in DOMAIN files : files[p].by \in Builds

\* The names of the files build b may touch.
Temporary(b) == {"bundle", "embedded", "dir", "source", "header"} \X {pid[b]} \X Nat
Mine(b) == Outputs(b) \cup Temporary(b)

\* What a step of build b leaves to the other builds.
Same(c) ==
  /\ pc'[c] = pc[c] /\ step'[c] = step[c] /\ todo'[c] = todo[c] /\ modules'[c] = modules[c]
  /\ temps'[c] = temps[c] /\ count'[c] = count[c] /\ linked'[c] = linked[c] /\ pid'[c] = pid[c]
  /\ trouble'[c] = trouble[c] /\ exit'[c] = exit[c]
Touched(b) ==
  /\ \A p \in DOMAIN files \ Mine(b) : p \in DOMAIN files' /\ files'[p] = files[p]
  /\ \A p \in DOMAIN files' : \/ p \in DOMAIN files /\ files'[p] = files[p]
                              \/ p \in Mine(b) /\ files'[p].by = b
Frame(b) ==
  /\ command' = command /\ analysis' = analysis
  /\ \A c \in Builds \ {b} : Same(c)
  /\ Touched(b)

\* The bundle paths the linker is called with: the runtime, then those of the analysis.
LEMMA BundlesType ==
  ASSUME Types, NEW b \in Builds
  PROVE  /\ Bundles(b) \in Seq(Item)
         /\ Len(Bundles(b)) = Len(analysis[b].bundles) + 1
         /\ Bundles(b)[1] \in {Entry[Runtime], Missing}
         /\ \A k \in 2 .. Len(Bundles(b)) : Bundles(b)[k] = Entry[analysis[b].bundles[k - 1]]
<1> DEFINE found == analysis[b].bundles
           paths == <<Runtime>> \o found
           E(k)  == IF command[b].home \/ paths[k] # Runtime THEN Entry[paths[k]]
                    ELSE Missing
<1>1. found \in Seq(DOMAIN Entry \ {Runtime})
  BY AnalysisAssumption DEF Types, TypeOK
<1>2. /\ paths \in Seq(DOMAIN Entry) /\ Len(paths) = Len(found) + 1 /\ DOMAIN paths = 1 .. Len(paths)
      /\ Len(found) \in Nat
      /\ paths[1] = Runtime /\ \A k \in 2 .. Len(paths) : paths[k] = found[k - 1]
  <2>1. found \in Seq(DOMAIN Entry) /\ <<Runtime>> \in Seq(DOMAIN Entry)
    BY <1>1, EntryAssumption
  <2> HIDE DEF found
  <2>2. QED BY <2>1
<1>3. \A k \in 1 .. Len(paths) : E(k) \in Item
  <2> TAKE k \in 1 .. Len(paths)
  <2>1. paths[k] \in DOMAIN Entry
    BY <1>2
  <2>2. \A p \in DOMAIN Entry : Entry[p] \in Item
    BY EntryAssumption DEF Item
  <2>3. Missing \in Item
    <3>1. <<>> \in Seq(STRING)
      OBVIOUS
    <3>2. Entry[Runtime].name \in STRING
      BY EntryAssumption
    <3> QED BY <3>1, <3>2 DEF Missing, Item
  <2> HIDE DEF paths
  <2> QED BY <2>1, <2>2, <2>3
<1>4. Bundles(b) = [k \in 1 .. Len(paths) |-> E(k)]
  BY <1>2 DEF Bundles
<1>5. Bundles(b) \in Seq(Item) /\ Len(Bundles(b)) = Len(paths)
  <2> HIDE DEF paths, E
  <2> QED BY <1>2, <1>3, <1>4
<1>6. \A k \in 2 .. Len(paths) : Bundles(b)[k] = Entry[found[k - 1]]
  <2> TAKE k \in 2 .. Len(paths)
  <2>1. paths[k] = found[k - 1] /\ found[k - 1] # Runtime
    <3>1. k - 1 \in 1 .. Len(found)
      BY <1>2
    <3>2. found[k - 1] \in DOMAIN Entry \ {Runtime}
      BY <1>1, <3>1
    <3> QED BY <1>2, <3>2
  <2> HIDE DEF paths, found
  <2> QED BY <2>1, <1>2, <1>4
<1>7. Bundles(b)[1] \in {Entry[Runtime], Missing}
  <2> HIDE DEF paths, found
  <2> QED BY <1>2, <1>4
<1> QED BY <1>2, <1>5, <1>6, <1>7


\* The names a build makes up have its process in them.
LEMMA OwnNames ==
  ASSUME Types, NEW b \in Builds
  PROVE  /\ Object(b, "bundle") \in ObjectName \cap Temporary(b)
         /\ Object(b, "embedded") \in ObjectName \cap Temporary(b)
         /\ Directory(b) \in Temporary(b)
         /\ SourceFile(b) \in Temporary(b)
         /\ HeaderFile(b) \in Temporary(b)
BY DEF Types, TypeOK, ObjectName, Temporary, Object, Directory, SourceFile, HeaderFile


\* The parts of a step that set one variable of one build.
LEMMA Going ==
  ASSUME Types, NEW b \in Builds, NEW place \in Places, GoTo(b, place)
  PROVE  /\ pc' \in [Builds -> Places] /\ pc'[b] = place
         /\ \A c \in Builds \ {b} : pc'[c] = pc[c]
BY DEF Types, TypeOK, GoTo

\* The build exits.
LEMMA Exiting ==
  ASSUME Types, NEW b \in Builds, NEW code \in 0 .. 5, Exits(b, code)
  PROVE  /\ pc' \in [Builds -> Places] /\ pc'[b] = "exited"
         /\ exit' \in [Builds -> 0 .. 5] /\ exit'[b] = code
         /\ \A c \in Builds \ {b} : pc'[c] = pc[c] /\ exit'[c] = exit[c]
<1>1. "exited" \in Places
  BY DEF Places
<1>2. exit' = [exit EXCEPT ![b] = code] /\ GoTo(b, "exited")
  BY DEF Exits
<1>3. exit \in [Builds -> 0 .. 5]
  BY DEF Types, TypeOK
<1> QED BY <1>1, <1>2, <1>3, Going

\* The linker goes on.
LEMMA Stepping ==
  ASSUME Types, NEW b \in Builds, NEW s \in Steps, GoesTo(b, s)
  PROVE  /\ step' \in [Builds -> Steps] /\ step'[b] = s
         /\ \A c \in Builds \ {b} : step'[c] = step[c]
BY DEF Types, TypeOK, GoesTo

\* A call to the outside has failed.
LEMMA Troubling ==
  ASSUME Types, NEW b \in Builds, Troubled(b)
  PROVE  /\ trouble' \in [Builds -> BOOLEAN] /\ trouble'[b]
         /\ \A c \in Builds \ {b} : trouble'[c] = trouble[c]
<1>1. trouble \in [Builds -> BOOLEAN]
  BY DEF Types, TypeOK
<1>2. trouble' = [trouble EXCEPT ![b] = TRUE]
  BY DEF Troubled
<1> QED BY <1>1, <1>2

\* The linker that gives up.
LEMMA GivingUp ==
  ASSUME Types, NEW b \in Builds, GivesUp(b)
  PROVE  /\ step' \in [Builds -> Steps] /\ step'[b] = "cleanup"
         /\ linked' \in [Builds -> {"none", "ok", "failed"}] /\ linked'[b] = "failed"
         /\ \A c \in Builds \ {b} : step'[c] = step[c] /\ linked'[c] = linked[c]
<1>1. "cleanup" \in Steps
  BY DEF Steps
<1>2. linked' = [linked EXCEPT ![b] = "failed"] /\ GoesTo(b, "cleanup")
  BY DEF GivesUp
<1>3. linked \in [Builds -> {"none", "ok", "failed"}]
  BY DEF Types, TypeOK
<1> QED BY <1>1, <1>2, <1>3, Stepping

\* What a step does to the files: it writes one, or removes some.
LEMMA Writing ==
  ASSUME Types, NEW b \in Builds, NEW p \in Mine(b), NEW content, content.by = b,
         files' = With(files, p, content)
  PROVE  /\ Touched(b) /\ \A q \in DOMAIN files' : files'[q].by \in Builds
         /\ DOMAIN files' = DOMAIN files \cup {p} /\ files'[p] = content
         /\ \A q \in DOMAIN files \ {p} : files'[q] = files[q]
BY DEF Types, With, Touched

\* Files are removed.
LEMMA Removing ==
  ASSUME Types, NEW b \in Builds, NEW ps \in SUBSET Mine(b), files' = Without(files, ps)
  PROVE  /\ Touched(b) /\ \A q \in DOMAIN files' : files'[q].by \in Builds
         /\ DOMAIN files' = DOMAIN files \ ps
         /\ \A q \in DOMAIN files' : files'[q] = files[q]
BY DEF Types, Without, Touched

\* The files stay.
LEMMA Untouched ==
  ASSUME Types, NEW b \in Builds, UNCHANGED files
  PROVE  Touched(b) /\ \A q \in DOMAIN files' : files'[q].by \in Builds
BY DEF Types, Touched

\* A build is launched.
LEMMA Launching ==
  ASSUME Types, NEW b \in Builds, Launch(b)
  PROVE  Types' /\ Frame(b)
<1>1. UNCHANGED <<files, step, todo, modules, items, temps, count, linked, trouble, command, analysis, kills>>
  BY DEF Launch, given
<1>2. pid' \in [Builds -> Pids \cup {0}] /\ \A c \in Builds \ {b} : pid'[c] = pid[c]
  BY DEF Launch, Types, TypeOK
<1>3. /\ pc' \in [Builds -> Places] /\ exit' \in [Builds -> 0 .. 5]
      /\ \A c \in Builds \ {b} : pc'[c] = pc[c] /\ exit'[c] = exit[c]
  <2>1. command[b].usage \in {"ok", "help", "bad"}
    BY CommandsAssumption DEF Types, TypeOK
  <2>2. CASE command[b].usage = "ok"
    <3>1. GoTo(b, "read") /\ UNCHANGED exit
      BY <2>2 DEF Launch
    <3>2. "read" \in Places
      BY DEF Places
    <3> QED BY <3>1, <3>2, Going DEF Types, TypeOK
  <2>3. CASE command[b].usage = "help"
    <3>1. Exits(b, 0)
      BY <2>3 DEF Launch
    <3> QED BY <3>1, Exiting
  <2>4. CASE command[b].usage = "bad"
    <3>1. Exits(b, 1)
      BY <2>4 DEF Launch
    <3> QED BY <3>1, Exiting
  <2> QED BY <2>1, <2>2, <2>3, <2>4
<1>4. Touched(b) /\ \A q \in DOMAIN files' : files'[q].by \in Builds
  BY <1>1, Untouched
<1>5. Types'
  BY <1>1, <1>2, <1>3, <1>4 DEF Types, TypeOK
<1> QED BY <1>1, <1>2, <1>3, <1>4, <1>5 DEF Frame, Same

\* A step of the driver sets pc, and at most exit, trouble and the files.
LEMMA DriverFrame ==
  ASSUME Types, NEW b \in Builds,
         \/ \E place \in Places : GoTo(b, place) /\ UNCHANGED exit
         \/ \E code \in 0 .. 5 : Exits(b, code),
         Troubled(b) \/ UNCHANGED trouble,
         Touched(b), \A q \in DOMAIN files' : files'[q].by \in Builds,
         UNCHANGED <<step, todo, modules, items, temps, count, linked, pid, given, kills>>
  PROVE  Types' /\ Frame(b)
<1>1. /\ pc' \in [Builds -> Places] /\ exit' \in [Builds -> 0 .. 5]
      /\ \A c \in Builds \ {b} : pc'[c] = pc[c] /\ exit'[c] = exit[c]
  BY Going, Exiting DEF Types, TypeOK
<1>2. /\ trouble' \in [Builds -> BOOLEAN]
      /\ \A c \in Builds \ {b} : trouble'[c] = trouble[c]
  BY Troubling DEF Types, TypeOK
<1>3. Types'
  BY <1>1, <1>2 DEF Types, TypeOK, given
<1> QED BY <1>1, <1>2, <1>3 DEF Frame, Same, given

\* The steps of main before and after the linker.
LEMMA DriverSteps ==
  ASSUME Types, NEW b \in Builds,
         ReadSource(b) \/ Validate(b) \/ OpenIr(b) \/ EmitIr(b) \/ Finish(b)
  PROVE  Types' /\ Frame(b)
<1>0. LlPath(b) \in Mine(b)
  BY DEF Mine, Outputs
<1>1. /\ \/ \E place \in Places : GoTo(b, place) /\ UNCHANGED exit
         \/ \E code \in 0 .. 5 : Exits(b, code)
      /\ Troubled(b) \/ UNCHANGED trouble
      /\ UNCHANGED <<step, todo, modules, items, temps, count, linked, pid, given, kills>>
  BY DEF ReadSource, Validate, OpenIr, EmitIr, Finish, Places, linkerVars
<1>2. Touched(b) /\ \A q \in DOMAIN files' : files'[q].by \in Builds
  <2>1. Torn(b).by = b /\ Content(b, {b}).by = b
    BY DEF Torn, Content
  <2>2. \/ UNCHANGED files
        \/ files' = With(files, LlPath(b), Torn(b))
        \/ files' = With(files, LlPath(b), Content(b, {b}))
        \/ files' = Without(files, {LlPath(b)})
    BY DEF ReadSource, Validate, OpenIr, EmitIr, Finish, linkerVars
  <2> QED BY <1>0, <2>1, <2>2, Untouched, Writing, Removing
<1> QED BY <1>1, <1>2, DriverFrame

\* A build is killed.
LEMMA Killing ==
  ASSUME Types, NEW b \in Builds, Kill(b)
  PROVE  Types' /\ Frame(b)
<1>1. /\ kills' \in 0 .. MaxKills /\ GoTo(b, "killed") /\ "killed" \in Places
      /\ UNCHANGED <<linkerVars, given, exit>>
  BY CommandsAssumption DEF Kill, Places, Types, TypeOK
<1>2. /\ pc' \in [Builds -> Places] /\ \A c \in Builds \ {b} : pc'[c] = pc[c]
  BY <1>1, Going
<1>3. Touched(b) /\ \A q \in DOMAIN files' : files'[q].by \in Builds
  BY <1>1, Untouched DEF linkerVars
<1>4. Types'
  BY <1>1, <1>2, <1>3 DEF Types, TypeOK, linkerVars, given
<1> QED BY <1>1, <1>2, <1>3, <1>4 DEF Frame, Same, linkerVars, given

\* The linker is called.
LEMMA CallingLinker ==
  ASSUME Types, NEW b \in Builds, CallLinker(b)
  PROVE  Types' /\ Frame(b)
<1>1. todo' \in [Builds -> Seq(Item)] /\ \A c \in Builds \ {b} : todo'[c] = todo[c]
  BY BundlesType DEF Types, CallLinker, StartLink
<1>2. analysis[b].embedded \in Seq(DOMAIN Carried)
  BY AnalysisAssumption DEF Types, TypeOK
<1>3. modules' \in [Builds -> Seq(DOMAIN Carried)] /\ \A c \in Builds \ {b} : modules'[c] = modules[c]
  BY <1>2 DEF Types, CallLinker, StartLink
<1>4. /\ UNCHANGED <<files, items, temps, linked, pid, trouble, command, analysis, exit, kills>>
      /\ GoTo(b, "linking") /\ GoesTo(b, "bundle") /\ "linking" \in Places /\ "bundle" \in Steps
      /\ count' = [count EXCEPT ![b] = 0]
  BY DEF CallLinker, StartLink, given, Places, Steps
<1>5. /\ pc' \in [Builds -> Places] /\ step' \in [Builds -> Steps]
      /\ \A c \in Builds \ {b} : pc'[c] = pc[c] /\ step'[c] = step[c]
  BY <1>4, Going, Stepping
<1>6. count' \in [Builds -> Nat] /\ \A c \in Builds \ {b} : count'[c] = count[c]
  BY <1>4 DEF Types, TypeOK
<1>7. Touched(b) /\ \A q \in DOMAIN files' : files'[q].by \in Builds
  BY <1>4, Untouched
<1>8. Types'
  BY <1>1, <1>3, <1>4, <1>5, <1>6, <1>7 DEF Types, TypeOK
<1> QED BY <1>1, <1>3, <1>4, <1>5, <1>6, <1>7, <1>8 DEF Frame, Same

\* A function changed in one place at most.
LEMMA ChangedAt ==
  ASSUME NEW D, NEW T, NEW f \in [D -> T], NEW g, NEW b \in D,
         g = f \/ \E x \in T : g = [f EXCEPT ![b] = x]
  PROVE  g \in [D -> T] /\ \A c \in D \ {b} : g[c] = f[c]
OBVIOUS

\* The same for a step of the linker.
LEMMA LinkerFrame ==
  ASSUME Types, NEW b \in Builds,
         step' = step \/ \E s \in Steps : step' = [step EXCEPT ![b] = s],
         linked' = linked \/ \E r \in {"none", "ok", "failed"} : linked' = [linked EXCEPT ![b] = r],
         trouble' = trouble \/ \E t \in BOOLEAN : trouble' = [trouble EXCEPT ![b] = t],
         todo' = todo \/ \E q \in Seq(Item) : todo' = [todo EXCEPT ![b] = q],
         modules' = modules \/ \E q \in Seq(DOMAIN Carried) : modules' = [modules EXCEPT ![b] = q],
         temps' = temps \/ \E q \in Seq(ObjectName) : temps' = [temps EXCEPT ![b] = q],
         count' = count \/ \E n \in Nat : count' = [count EXCEPT ![b] = n],
         items' = temps',
         Touched(b), \A q \in DOMAIN files' : files'[q].by \in Builds,
         UNCHANGED <<pid, pc, given, exit, kills>>
  PROVE  Types' /\ Frame(b)
<1>1. step' \in [Builds -> Steps] /\ \A c \in Builds \ {b} : step'[c] = step[c]
  <2>1. step \in [Builds -> Steps]
    BY DEF Types, TypeOK
  <2> QED BY <2>1, ChangedAt
<1>2. linked' \in [Builds -> {"none", "ok", "failed"}] /\ \A c \in Builds \ {b} : linked'[c] = linked[c]
  <2>1. linked \in [Builds -> {"none", "ok", "failed"}]
    BY DEF Types, TypeOK
  <2> QED BY <2>1, ChangedAt
<1>3. trouble' \in [Builds -> BOOLEAN] /\ \A c \in Builds \ {b} : trouble'[c] = trouble[c]
  <2>1. trouble \in [Builds -> BOOLEAN]
    BY DEF Types, TypeOK
  <2> QED BY <2>1, ChangedAt
<1>4. todo' \in [Builds -> Seq(Item)] /\ \A c \in Builds \ {b} : todo'[c] = todo[c]
  <2>1. todo \in [Builds -> Seq(Item)]
    BY DEF Types, TypeOK
  <2> QED BY <2>1, ChangedAt
<1>5. modules' \in [Builds -> Seq(DOMAIN Carried)] /\ \A c \in Builds \ {b} : modules'[c] = modules[c]
  <2>1. modules \in [Builds -> Seq(DOMAIN Carried)]
    BY DEF Types, TypeOK
  <2> QED BY <2>1, ChangedAt
<1>6. temps' \in [Builds -> Seq(ObjectName)] /\ \A c \in Builds \ {b} : temps'[c] = temps[c]
  <2>1. temps \in [Builds -> Seq(ObjectName)]
    BY DEF Types, TypeOK
  <2> QED BY <2>1, ChangedAt
<1>7. count' \in [Builds -> Nat] /\ \A c \in Builds \ {b} : count'[c] = count[c]
  <2>1. count \in [Builds -> Nat]
    BY DEF Types, TypeOK
  <2> QED BY <2>1, ChangedAt
<1>8. Types'
  BY <1>1, <1>2, <1>3, <1>4, <1>5, <1>6, <1>7 DEF Types, TypeOK, given
<1> QED BY <1>1, <1>2, <1>3, <1>4, <1>5, <1>6, <1>7, <1>8 DEF Frame, Same, given

\* An object that is recorded.
LEMMA Recording ==
  ASSUME Types, NEW b \in Builds, NEW object \in ObjectName, Recorded(b, object)
  PROVE  /\ temps' = [temps EXCEPT ![b] = Append(temps[b], object)]
         /\ Append(temps[b], object) \in Seq(ObjectName)
         /\ items' = temps'
<1>1. temps[b] \in Seq(ObjectName) /\ items = temps
  BY DEF Types
<1> QED BY <1>1 DEF Recorded

\* A directory is replaced by the files in it.
Unfolded(b) ==
  LET each == [k \in DOMAIN Head(todo[b]).sources |->
                 [kind |-> "c", name |-> Head(todo[b]).sources[k], sources |-> <<>>]]
  IN each \o Tail(todo[b])

\* What the files of a directory look like in its place.
LEMMA Unfolding ==
  ASSUME Types, NEW b \in Builds, todo[b] # <<>>
  PROVE  LET first == Head(todo[b]).sources
             rest  == Tail(todo[b])
         IN  /\ first \in Seq(STRING) /\ rest \in Seq(Item) /\ Head(todo[b]) \in Item
             /\ Len(rest) = Len(todo[b]) - 1
             /\ Unfolded(b) \in Seq(Item)
             /\ Len(Unfolded(b)) = Len(first) + Len(rest)
             /\ \A k \in 1 .. Len(first) :
                  Unfolded(b)[k] = [kind |-> "c", name |-> first[k], sources |-> <<>>]
             /\ \A k \in 1 .. Len(rest) : rest[k] = todo[b][k + 1]
             /\ \A k \in 1 .. Len(rest) : Unfolded(b)[Len(first) + k] = rest[k]
<1> DEFINE first == Head(todo[b]).sources
           rest  == Tail(todo[b])
           C(k)  == [kind |-> "c", name |-> first[k], sources |-> <<>>]
           each  == [k \in 1 .. Len(first) |-> C(k)]
<1>1. todo[b] \in Seq(Item)
  BY DEF Types
<1>2. /\ Head(todo[b]) \in Item /\ rest \in Seq(Item) /\ Len(rest) = Len(todo[b]) - 1
      /\ \A k \in 1 .. Len(rest) : rest[k] = todo[b][k + 1]
  BY <1>1, HeadTailProperties
<1>3. first \in Seq(STRING)
  BY <1>2 DEF Item
<1>4. Len(first) \in Nat /\ DOMAIN first = 1 .. Len(first)
  <2> HIDE DEF first
  <2> QED BY <1>3
<1>5. \A k \in 1 .. Len(first) : C(k) \in Item
  <2> TAKE k \in 1 .. Len(first)
  <2>1. first[k] \in STRING
    <3> HIDE DEF first
    <3> QED BY <1>3
  <2>2. <<>> \in Seq(STRING)
    OBVIOUS
  <2> HIDE DEF first
  <2> QED BY <2>1, <2>2 DEF Item
<1>6. each \in Seq(Item) /\ Len(each) = Len(first)
  <2> HIDE DEF first, C
  <2> QED BY <1>4, <1>5
<1>7. Unfolded(b) = each \o rest
  BY <1>4 DEF Unfolded
<1>8. /\ each \o rest \in Seq(Item) /\ Len(each \o rest) = Len(first) + Len(rest)
      /\ \A k \in 1 .. Len(first) + Len(rest) :
           (each \o rest)[k] = IF k <= Len(first) THEN each[k] ELSE rest[k - Len(first)]
  <2>1. each \in Seq(Item) /\ rest \in Seq(Item) /\ Len(each) = Len(first)
    BY <1>2, <1>6
  <2> HIDE DEF each, first, rest
  <2>2. /\ each \o rest \in Seq(Item) /\ Len(each \o rest) = Len(each) + Len(rest)
        /\ \A k \in 1 .. Len(each) + Len(rest) :
             (each \o rest)[k] = IF k <= Len(each) THEN each[k] ELSE rest[k - Len(each)]
    BY <2>1, ConcatProperties
  <2> QED BY <2>1, <2>2
<1>9. \A k \in 1 .. Len(first) : (each \o rest)[k] = C(k)
  <2> HIDE DEF first, rest, C
  <2>1. Len(rest) \in Nat
    BY <1>2
  <2> QED BY <1>4, <1>8, <2>1
<1>10. \A k \in 1 .. Len(rest) : (each \o rest)[Len(first) + k] = rest[k]
  <2> HIDE DEF first, rest, each
  <2>1. Len(rest) \in Nat
    BY <1>2
  <2> QED BY <1>4, <1>8, <2>1
<1> HIDE DEF each, C
<1> QED BY <1>2, <1>3, <1>7, <1>8, <1>9, <1>10 DEF C

\* OpenDirectory keeps the types.
LEMMA OpeningDirectory ==
  ASSUME Types, NEW b \in Builds, OpenDirectory(b), UNCHANGED driverVars
  PROVE  Types' /\ Frame(b)
<1>1. todo[b] # <<>> /\ todo[b] \in Seq(Item)
  BY DEF OpenDirectory, Collecting, Types
<1>2. Unfolded(b) \in Seq(Item) /\ Tail(todo[b]) \in Seq(Item)
  BY <1>1, Unfolding
<1>3. \/ todo' = [todo EXCEPT ![b] = Unfolded(b)] /\ UNCHANGED trouble
      \/ todo' = [todo EXCEPT ![b] = Tail(todo[b])] /\ Troubled(b)
  BY DEF OpenDirectory, Unfolded
<1>4. UNCHANGED <<files, step, modules, items, temps, count, linked, pid>>
  BY DEF OpenDirectory
<1>5. trouble' = trouble \/ \E t \in BOOLEAN : trouble' = [trouble EXCEPT ![b] = t]
  BY <1>3 DEF Troubled
<1>6. \E q \in Seq(Item) : todo' = [todo EXCEPT ![b] = q]
  BY <1>2, <1>3
<1>7. Touched(b) /\ \A q \in DOMAIN files' : files'[q].by \in Builds
  BY <1>4, Untouched
<1>8. items' = temps'
  BY <1>4 DEF Types
<1> QED BY <1>4, <1>5, <1>6, <1>7, <1>8, LinkerFrame DEF driverVars

\* A step that only goes on, or gives up.
LEMMA QuietSteps ==
  ASSUME Types, NEW b \in Builds,
         UnknownPath(b) \/ BundlesCollected(b) \/ ModulesCollected(b), UNCHANGED driverVars
  PROVE  Types' /\ Frame(b)
<1>1. UNCHANGED <<files, trouble, todo, modules, items, temps, pid>>
  BY DEF UnknownPath, BundlesCollected, ModulesCollected, Quiet
<1>2. \E s \in Steps : step' = [step EXCEPT ![b] = s]
  BY DEF UnknownPath, BundlesCollected, ModulesCollected, GivesUp, GoesTo, Steps
<1>3. linked' = linked \/ linked' = [linked EXCEPT ![b] = "failed"]
  BY DEF UnknownPath, BundlesCollected, ModulesCollected, GivesUp
<1>4. count' = count \/ count' = [count EXCEPT ![b] = 0]
  BY DEF UnknownPath, BundlesCollected, ModulesCollected
<1>5. Touched(b) /\ \A q \in DOMAIN files' : files'[q].by \in Builds
  BY <1>1, Untouched
<1>6. items' = temps'
  BY <1>1 DEF Types
<1>7. linked' = linked \/ \E r \in {"none", "ok", "failed"} : linked' = [linked EXCEPT ![b] = r]
  BY <1>3
<1> QED BY <1>1, <1>2, <1>4, <1>5, <1>6, <1>7, LinkerFrame DEF driverVars

\* CompileSource keeps the types.
LEMMA CompilingSource ==
  ASSUME Types, NEW b \in Builds, CompileSource(b), UNCHANGED driverVars
  PROVE  Types' /\ Frame(b)
<1> DEFINE object == Object(b, "bundle")
<1>1. object \in ObjectName /\ object \in Mine(b)
  BY OwnNames DEF Mine
<1>2. count' = [count EXCEPT ![b] = count[b] + 1] /\ count[b] + 1 \in Nat
      /\ UNCHANGED <<modules, pid>>
  BY DEF CompileSource, Types, TypeOK
<1>3. todo[b] # <<>> /\ todo[b] \in Seq(Item) /\ Tail(todo[b]) \in Seq(Item)
  BY DEF CompileSource, Collecting, Types
<1>4. CASE Compiled(b)
  <2>1. files' = With(files, object, Content(b, {Head(todo[b]).name}))
    BY <1>4 DEF Compiled
  <2>2. Content(b, {Head(todo[b]).name}).by = b
    BY DEF Content
  <2>3. Touched(b) /\ \A q \in DOMAIN files' : files'[q].by \in Builds
    <3> HIDE DEF object
    <3> QED BY <1>1, <2>1, <2>2, Writing
  <2>4. Recorded(b, object) /\ todo' = [todo EXCEPT ![b] = Tail(todo[b])]
        /\ UNCHANGED <<step, linked, trouble>>
    BY <1>4 DEF Compiled
  <2>5. (\E q \in Seq(ObjectName) : temps' = [temps EXCEPT ![b] = q]) /\ items' = temps'
    <3> HIDE DEF object
    <3> QED BY <1>1, <2>4, Recording
  <2> QED BY <1>2, <1>3, <2>3, <2>4, <2>5, LinkerFrame DEF driverVars
<1>5. CASE NotCompiled(b)
  <2>1. files' \in {files, With(files, object, Torn(b)),
                    With(files, object, Content(b, {Head(todo[b]).name}))}
    BY <1>5 DEF NotCompiled
  <2>2. Content(b, {Head(todo[b]).name}).by = b /\ Torn(b).by = b
    BY DEF Content, Torn
  <2>3. Touched(b) /\ \A q \in DOMAIN files' : files'[q].by \in Builds
    <3> HIDE DEF object
    <3>1. CASE files' = files
      BY <3>1, Untouched
    <3>2. CASE files' = With(files, object, Torn(b))
      BY <1>1, <2>2, <3>2, Writing
    <3>3. CASE files' = With(files, object, Content(b, {Head(todo[b]).name}))
      BY <1>1, <2>2, <3>3, Writing
    <3> QED BY <2>1, <3>1, <3>2, <3>3
  <2>4. /\ UNCHANGED <<items, temps, todo>>
        /\ step' = [step EXCEPT ![b] = "cleanup"] /\ linked' = [linked EXCEPT ![b] = "failed"]
        /\ trouble' = [trouble EXCEPT ![b] = TRUE]
    BY <1>5 DEF NotCompiled, GivesUp, GoesTo, Troubled
  <2>5. items' = temps' /\ "cleanup" \in Steps
    BY <2>4 DEF Types, Steps
  <2> QED BY <1>2, <2>3, <2>4, <2>5, LinkerFrame DEF driverVars
<1> QED BY <1>4, <1>5 DEF CompileSource

\* MakeDirectory keeps the types.
LEMMA MakingDirectory ==
  ASSUME Types, NEW b \in Builds, MakeDirectory(b), UNCHANGED driverVars
  PROVE  Types' /\ Frame(b)
<1>1. Directory(b) \in Mine(b) /\ Content(b, {}).by = b
  BY OwnNames DEF Mine, Content
<1>2. files' = files \/ files' = With(files, Directory(b), Content(b, {}))
  BY DEF MakeDirectory, Quiet
<1>3. Touched(b) /\ \A q \in DOMAIN files' : files'[q].by \in Builds
  BY <1>1, <1>2, Writing, Untouched
<1>4. /\ UNCHANGED <<todo, modules, items, temps, count, pid>>
      /\ \E s \in Steps : step' = [step EXCEPT ![b] = s]
      /\ linked' = linked \/ linked' = [linked EXCEPT ![b] = "failed"]
      /\ trouble' = trouble \/ trouble' = [trouble EXCEPT ![b] = TRUE]
  BY DEF MakeDirectory, GoesTo, GivesUp, Troubled, Quiet, Steps
<1>5. items' = temps'
  BY <1>4 DEF Types
<1> QED BY <1>3, <1>4, <1>5, LinkerFrame DEF driverVars

\* WriteSource keeps the types; the source is there, or the linker has given up.
LEMMA WritingSource ==
  ASSUME Types, NEW b \in Builds, WriteSource(b), UNCHANGED driverVars
  PROVE  /\ Types' /\ Frame(b)
         /\ \/ /\ step' = [step EXCEPT ![b] = "object"] /\ UNCHANGED linked
               /\ DOMAIN files' \subseteq DOMAIN files \cup {SourceFile(b), HeaderFile(b)}
               /\ SourceFile(b) \in DOMAIN files'
               /\ \A q \in DOMAIN files \ {SourceFile(b), HeaderFile(b)} :
                    q \in DOMAIN files' /\ files'[q] = files[q]
               /\ \/ Carried[Head(modules[b])].header => HeaderFile(b) \in DOMAIN files'
                  \/ trouble'[b]
            \/ /\ step' = [step EXCEPT ![b] = "cleanup"]
               /\ linked' = [linked EXCEPT ![b] = "failed"] /\ trouble'[b]
               /\ files' = Without(files, {Directory(b)})
<1> DEFINE written == With(files, SourceFile(b), Content(b, {}))
<1>1. /\ SourceFile(b) \in Mine(b) /\ HeaderFile(b) \in Mine(b) /\ Directory(b) \in Mine(b)
      /\ Content(b, {}).by = b
  BY OwnNames DEF Mine, Content
<1>2. \/ files' = With(written, HeaderFile(b), Content(b, {})) /\ Carried[Head(modules[b])].header
      \/ files' = written /\ (Carried[Head(modules[b])].header => Troubled(b))
      \/ files' = Without(files, {Directory(b)})
  BY DEF WriteSource
<1>3. Touched(b) /\ \A q \in DOMAIN files' : files'[q].by \in Builds
  <2>1. CASE files' = With(written, HeaderFile(b), Content(b, {}))
    BY <1>1, <2>1 DEF With, Touched, Types
  <2>2. CASE files' = written
    <3> HIDE DEF written
    <3> QED BY <1>1, <2>2, Writing DEF written
  <2>3. CASE files' = Without(files, {Directory(b)})
    BY <1>1, <2>3, Removing
  <2> QED BY <1>2, <2>1, <2>2, <2>3
<1>4. /\ UNCHANGED <<todo, modules, items, temps, count, pid>>
      /\ \E s \in Steps : step' = [step EXCEPT ![b] = s]
      /\ linked' = linked \/ linked' = [linked EXCEPT ![b] = "failed"]
      /\ trouble' = trouble \/ trouble' = [trouble EXCEPT ![b] = TRUE]
  BY DEF WriteSource, GoesTo, GivesUp, Troubled, Steps
<1>5. items' = temps'
  BY <1>4 DEF Types
<1>6. Types' /\ Frame(b)
  BY <1>3, <1>4, <1>5, LinkerFrame DEF driverVars
<1>7. Troubled(b) => trouble'[b]
  BY Troubling
<1>8. CASE files' = With(written, HeaderFile(b), Content(b, {})) /\ GoesTo(b, "object") /\ UNCHANGED linked
  <2>1. DOMAIN files' = DOMAIN files \cup {SourceFile(b), HeaderFile(b)}
    BY <1>8 DEF With
  <2>2. \A q \in DOMAIN files \ {SourceFile(b), HeaderFile(b)} : files'[q] = files[q]
    BY <1>8 DEF With
  <2> QED BY <1>6, <1>8, <2>1, <2>2 DEF GoesTo
<1>9. CASE /\ files' = written /\ GoesTo(b, "object") /\ UNCHANGED linked
           /\ Carried[Head(modules[b])].header => Troubled(b)
  <2>1. DOMAIN files' = DOMAIN files \cup {SourceFile(b)}
    BY <1>9 DEF With
  <2>2. \A q \in DOMAIN files \ {SourceFile(b)} : files'[q] = files[q]
    BY <1>9 DEF With
  <2> QED BY <1>6, <1>7, <1>9, <2>1, <2>2 DEF GoesTo
<1>10. CASE files' = Without(files, {Directory(b)}) /\ GivesUp(b) /\ Troubled(b)
  BY <1>6, <1>7, <1>10 DEF GivesUp, GoesTo
<1> QED BY <1>8, <1>9, <1>10 DEF WriteSource


\* What a compilation that succeeds leaves, and one that fails.
LEMMA Replacing ==
  ASSUME Types, NEW b \in Builds, NEW ps \in SUBSET Mine(b), NEW p \in Mine(b), NEW content,
         content.by = b, files' = With(Without(files, ps), p, content)
  PROVE  /\ Touched(b) /\ \A q \in DOMAIN files' : files'[q].by \in Builds
         /\ DOMAIN files' = (DOMAIN files \ ps) \cup {p} /\ files'[p] = content
         /\ \A q \in DOMAIN files' \ {p} : files'[q] = files[q]
BY DEF Types, With, Without, Touched

\* A file that is written and removed has not been written.
LEMMA Discarding ==
  ASSUME Types, NEW b \in Builds, NEW ps \in SUBSET Mine(b), NEW p \in ps, NEW content,
         files' = Without(With(files, p, content), ps)
  PROVE  files' = Without(files, ps)
BY DEF With, Without

\* CompileModule keeps the types.
LEMMA CompilingModule ==
  ASSUME Types, NEW b \in Builds, CompileModule(b), modules[b] # <<>>, UNCHANGED driverVars
  PROVE  /\ Types' /\ Frame(b)
         /\ NotBuilt(b, Used(b) \cup {Object(b, "embedded")}) =>
              files' = Without(files, Used(b) \cup {Object(b, "embedded")})
<1> DEFINE object == Object(b, "embedded")
           source == Carried[Head(modules[b])].source
<1>1. object \in ObjectName /\ object \in Mine(b) /\ Used(b) \subseteq Mine(b)
  BY OwnNames DEF Mine, Used
<1>2. UNCHANGED <<todo, pid>>
  BY DEF CompileModule
<1>3. CASE Built(b)
  <2>1. files' = With(Without(files, Used(b)), object, Content(b, {source}))
    BY <1>3 DEF Built
  <2>2. Content(b, {source}).by = b
    BY DEF Content
  <2>3. Touched(b) /\ \A q \in DOMAIN files' : files'[q].by \in Builds
    <3> HIDE DEF object
    <3> QED BY <1>1, <2>1, <2>2, Replacing
  <2>4. /\ Recorded(b, object) /\ modules' = [modules EXCEPT ![b] = Tail(modules[b])]
        /\ count' = [count EXCEPT ![b] = count[b] + 1] /\ count[b] + 1 \in Nat
        /\ step' = [step EXCEPT ![b] = "module"] /\ UNCHANGED <<linked, trouble>>
    BY <1>3 DEF Built, GoesTo, Types, TypeOK
  <2>5. (\E q \in Seq(ObjectName) : temps' = [temps EXCEPT ![b] = q]) /\ items' = temps'
    <3> HIDE DEF object
    <3> QED BY <1>1, <2>4, Recording
  <2>6. Tail(modules[b]) \in Seq(DOMAIN Carried) /\ "module" \in Steps
    BY DEF Types, Steps
  <2>7. Types' /\ Frame(b)
    BY <1>2, <2>3, <2>4, <2>5, <2>6, LinkerFrame DEF driverVars
  <2>8. ~NotBuilt(b, Used(b) \cup {object})
    <3>1. NotBuilt(b, Used(b) \cup {object}) => step' = [step EXCEPT ![b] = "cleanup"]
      BY DEF NotBuilt, GivesUp, GoesTo
    <3> QED BY <2>4, <3>1 DEF Types, TypeOK
  <2> QED BY <2>7, <2>8
<1>4. CASE NotBuilt(b, Used(b) \cup {object})
  <2> DEFINE removed == Used(b) \cup {object}
  <2>1. files' = Without(With(files, object, Torn(b)), removed)
    BY <1>4 DEF NotBuilt
  <2>2. removed \subseteq Mine(b) /\ object \in removed
    BY <1>1
  <2>3. files' = Without(files, removed)
    <3> HIDE DEF object, removed
    <3> QED BY <2>1, <2>2, Discarding
  <2>4. Touched(b) /\ \A q \in DOMAIN files' : files'[q].by \in Builds
    <3> HIDE DEF object, removed
    <3> QED BY <2>2, <2>3, Removing
  <2>5. /\ UNCHANGED <<items, temps, modules, count>>
        /\ step' = [step EXCEPT ![b] = "cleanup"] /\ linked' = [linked EXCEPT ![b] = "failed"]
        /\ trouble' = [trouble EXCEPT ![b] = TRUE]
    BY <1>4 DEF NotBuilt, GivesUp, GoesTo, Troubled
  <2>6. items' = temps' /\ "cleanup" \in Steps
    BY <2>5 DEF Types, Steps
  <2> HIDE DEF object, removed
  <2>7. Types' /\ Frame(b)
    BY <1>2, <2>4, <2>5, <2>6, LinkerFrame DEF driverVars
  <2> QED BY <2>3, <2>7 DEF object, removed
<1> QED BY <1>3, <1>4 DEF CompileModule

\* RunClang keeps the types.
LEMMA RunningClang ==
  ASSUME Types, NEW b \in Builds, RunClang(b, LlPath(b), OutPath(b), Natives(b)),
         UNCHANGED driverVars
  PROVE  Types' /\ Frame(b)
<1> DEFINE parts == files[LlPath(b)].parts \cup (UNION {files[p].parts : p \in Range(items[b])})
                      \cup Natives(b)
<1>1. /\ UNCHANGED <<todo, modules, items, temps, count, pid>>
      /\ step' = [step EXCEPT ![b] = "cleanup"] /\ "cleanup" \in Steps
  BY DEF RunClang, GoesTo, Steps
<1>2. \E r \in {"none", "ok", "failed"} : linked' = [linked EXCEPT ![b] = r]
  BY DEF RunClang
<1>3. trouble' = trouble \/ \E t \in BOOLEAN : trouble' = [trouble EXCEPT ![b] = t]
  <2>1. trouble \in [Builds -> BOOLEAN]
    BY DEF Types, TypeOK
  <2>2. trouble' = trouble \/ trouble' = [trouble EXCEPT ![b] = trouble[b] \/ Linkable(b, LlPath(b))]
    BY DEF RunClang
  <2>3. (trouble[b] \/ Linkable(b, LlPath(b))) \in BOOLEAN
    BY <2>1
  <2> QED BY <2>2, <2>3
<1>4. files' = files \/ files' = With(files, OutPath(b), Content(b, parts))
  BY DEF RunClang
<1>5. OutPath(b) \in Mine(b) /\ Content(b, parts).by = b
  BY DEF Mine, Outputs, Content
<1>6. Touched(b) /\ \A q \in DOMAIN files' : files'[q].by \in Builds
  <2> HIDE DEF parts
  <2> QED BY <1>4, <1>5, Writing, Untouched
<1>7. items' = temps'
  BY <1>1 DEF Types
<1> QED BY <1>1, <1>2, <1>3, <1>6, <1>7, LinkerFrame DEF driverVars

\* CleanUp keeps the types.
LEMMA CleaningUp ==
  ASSUME Types, NEW b \in Builds, CleanUp(b), Range(temps[b]) \subseteq Temporary(b),
         UNCHANGED driverVars
  PROVE  Types' /\ Frame(b)
<1>1. Range(temps[b]) \subseteq Mine(b) /\ files' = Without(files, Range(temps[b]))
  BY DEF CleanUp, Mine
<1>2. Touched(b) /\ \A q \in DOMAIN files' : files'[q].by \in Builds
  BY <1>1, Removing
<1>3. /\ UNCHANGED <<todo, modules, count, linked, pid, trouble>>
      /\ step' = [step EXCEPT ![b] = "idle"] /\ "idle" \in Steps
      /\ temps' = [temps EXCEPT ![b] = <<>>] /\ <<>> \in Seq(ObjectName) /\ items' = temps'
  BY DEF CleanUp, GoesTo, Steps, Types
<1> QED BY <1>2, <1>3, LinkerFrame DEF driverVars


\* What a sequence holds when one more is appended.
LEMMA RangeAppended ==
  ASSUME NEW S, NEW q \in Seq(S), NEW x \in S
  PROVE  Range(Append(q, x)) = Range(q) \cup {x}
<1> DEFINE longer == Append(q, x)
<1>1. /\ DOMAIN q = 1 .. Len(q) /\ Len(q) \in Nat
      /\ DOMAIN longer = 1 .. Len(q) + 1
      /\ \A k \in 1 .. Len(q) : longer[k] = q[k]
      /\ longer[Len(q) + 1] = x
  OBVIOUS
<1> HIDE DEF longer
<1>2. DOMAIN longer = DOMAIN q \cup {Len(q) + 1} /\ Len(q) + 1 \notin DOMAIN q
  BY <1>1
<1> QED BY <1>1, <1>2 DEF Range, longer

(***************************************************************************)
(* Where the builds stand.                                                 *)
(***************************************************************************)
Before  == {"idle", "read", "validate", "open", "emit", "link"}
Collects == {"bundle", "module", "source", "object"}
Phase(b) ==
  /\ pc[b] \in Before => step[b] = "idle" /\ linked[b] = "none"
  /\ pc[b] = "linking" /\ step[b] = "idle" => linked[b] # "none"
  /\ pc[b] = "exited" => step[b] = "idle"
  /\ step[b] \in Collects \cup {"link"} => linked[b] = "none"
  /\ step[b] = "cleanup" => linked[b] # "none"
  /\ step[b] = "idle" => temps[b] = <<>>
  /\ step[b] \in {"source", "object"} => modules[b] # <<>>
  /\ step[b] \in {"module", "source", "object", "link"} => todo[b] = <<>>
  /\ step[b] = "link" => modules[b] = <<>>

Named(b) == \A k \in DOMAIN temps[b] : temps[b][k] \in Temporary(b)

\* Each is about the variables of one build: a step of another leaves it.
LEMMA PhaseStays ==
  ASSUME NEW b \in Builds, NEW c \in Builds, Same(c), Phase(c), Named(c)
  PROVE  Phase(c)' /\ Named(c)'
BY DEF Same, Phase, Named, Temporary

\* A launch.
LEMMA PhaseLaunch ==
  ASSUME Types, NEW b \in Builds, Launch(b), Phase(b)
  PROVE  Phase(b)' /\ Named(b)'
<1>1. pc[b] = "idle" /\ UNCHANGED <<step, todo, modules, temps, linked>>
  BY DEF Launch, At
<1>2. step[b] = "idle" /\ linked[b] = "none" /\ temps[b] = <<>>
  BY <1>1 DEF Phase, Before
<1>3. pc'[b] \in {"read", "exited"}
  <2>1. pc \in [Builds -> Places]
    BY DEF Types, TypeOK
  <2>2. command[b].usage \in {"ok", "help", "bad"}
    BY CommandsAssumption DEF Types, TypeOK
  <2>3. CASE command[b].usage = "ok"
    BY <2>1, <2>3 DEF Launch, GoTo
  <2>4. CASE command[b].usage = "help"
    BY <2>1, <2>4 DEF Launch, Exits, GoTo
  <2>5. CASE command[b].usage = "bad"
    BY <2>1, <2>5 DEF Launch, Exits, GoTo
  <2> QED BY <2>2, <2>3, <2>4, <2>5
<1> QED BY <1>1, <1>2, <1>3 DEF Phase, Named, Before, Collects

\* A step of main.
LEMMA PhaseDriver ==
  ASSUME Types, NEW b \in Builds, Phase(b), Named(b),
         ReadSource(b) \/ Validate(b) \/ OpenIr(b) \/ EmitIr(b) \/ Finish(b) \/ Kill(b)
  PROVE  Phase(b)' /\ Named(b)'
<1>1. UNCHANGED <<step, todo, modules, temps, linked, pid>>
  BY DEF ReadSource, Validate, OpenIr, EmitIr, Finish, Kill, linkerVars
<1>2. \/ pc[b] \in Before \ {"idle"} /\ pc'[b] \in Before
      \/ step[b] = "idle" /\ pc'[b] = "exited"
      \/ pc'[b] = "killed"
  <2>1. pc \in [Builds -> Places]
    BY DEF Types, TypeOK
  <2> QED BY <2>1 DEF ReadSource, Validate, OpenIr, EmitIr, Finish, Kill, At, GoTo, Exits, Before, Phase
<1> QED BY <1>1, <1>2 DEF Phase, Named, Temporary, Before, Collects


\* The call of the linker.
LEMMA PhaseCall ==
  ASSUME Types, NEW b \in Builds, CallLinker(b), Phase(b), Named(b)
  PROVE  Phase(b)' /\ Named(b)'
<1>1. pc[b] = "link" /\ UNCHANGED <<temps, linked, pid>>
  BY DEF CallLinker, StartLink, At
<1>2. pc'[b] = "linking" /\ step'[b] = "bundle"
  BY DEF CallLinker, StartLink, GoTo, GoesTo, Types, TypeOK
<1> QED BY <1>1, <1>2 DEF Phase, Named, Temporary, Before, Collects

\* A step of the linker goes from one of its places to the next, or gives up.
LEMMA PhaseLink ==
  ASSUME Types, NEW b \in Builds, Link(b), Phase(b), Named(b)
  PROVE  Phase(b)' /\ Named(b)'
<1>1. pc[b] = "linking" /\ UNCHANGED pc
  BY DEF Link, At, driverVars
<1>2. /\ step \in [Builds -> Steps] /\ linked \in [Builds -> {"none", "ok", "failed"}]
      /\ todo \in [Builds -> Seq(Item)] /\ modules \in [Builds -> Seq(DOMAIN Carried)]
      /\ temps \in [Builds -> Seq(ObjectName)]
  BY DEF Types, TypeOK
<1>3. CASE OpenDirectory(b)
  <2>1. step[b] = "bundle" /\ UNCHANGED <<step, modules, temps, linked, pid>>
    BY <1>3 DEF OpenDirectory, Collecting
  <2> QED BY <1>1, <2>1 DEF Phase, Named, Temporary, Before, Collects
<1>4. CASE UnknownPath(b)
  <2>1. step'[b] = "cleanup" /\ linked'[b] = "failed" /\ UNCHANGED <<temps, pid>>
    BY <1>2, <1>4 DEF UnknownPath, GivesUp, GoesTo
  <2> QED BY <1>1, <2>1 DEF Phase, Named, Temporary, Before, Collects
<1>5. CASE CompileSource(b)
  <2>0. UNCHANGED pid /\ step[b] = "bundle"
    BY <1>5 DEF CompileSource, Collecting
  <2>1. CASE Compiled(b)
    <3> DEFINE object == Object(b, "bundle")
    <3>1. object \in ObjectName /\ object \in Temporary(b)
      BY OwnNames
    <3>2. Recorded(b, object) /\ UNCHANGED <<step, linked>>
      BY <2>1 DEF Compiled
    <3> HIDE DEF object
    <3>3. temps'[b] = Append(temps[b], object)
      BY <1>2, <3>1, <3>2, Recording
    <3>4. Named(b)'
      BY <1>2, <2>0, <3>1, <3>3 DEF Named, Temporary
    <3> QED BY <1>1, <2>0, <3>2, <3>4 DEF Phase, Before, Collects
  <2>2. CASE NotCompiled(b)
    <3>1. step'[b] = "cleanup" /\ linked'[b] = "failed" /\ UNCHANGED temps
      BY <1>2, <2>2 DEF NotCompiled, GivesUp, GoesTo
    <3> QED BY <1>1, <2>0, <3>1 DEF Phase, Named, Temporary, Before, Collects
  <2> QED BY <1>5, <2>1, <2>2 DEF CompileSource
<1>6. CASE BundlesCollected(b)
  <2>1. /\ step[b] = "bundle" /\ todo[b] = <<>> /\ step'[b] = "module"
        /\ UNCHANGED <<todo, modules, temps, linked, pid>>
    BY <1>2, <1>6 DEF BundlesCollected, GoesTo
  <2> QED BY <1>1, <2>1 DEF Phase, Named, Temporary, Before, Collects
<1>7. CASE MakeDirectory(b)
  <2>1. /\ step[b] = "module" /\ modules[b] # <<>> /\ UNCHANGED <<todo, modules, temps, pid>>
        /\ \/ step'[b] = "source" /\ UNCHANGED linked
           \/ step'[b] = "cleanup" /\ linked'[b] = "failed"
    BY <1>2, <1>7 DEF MakeDirectory, GoesTo, GivesUp
  <2> QED BY <1>1, <2>1 DEF Phase, Named, Temporary, Before, Collects
<1>8. CASE WriteSource(b)
  <2>1. /\ step[b] = "source" /\ UNCHANGED <<todo, modules, temps, pid>>
        /\ \/ step'[b] = "object" /\ UNCHANGED linked
           \/ step'[b] = "cleanup" /\ linked'[b] = "failed"
    BY <1>2, <1>8 DEF WriteSource, GoesTo, GivesUp
  <2> QED BY <1>1, <2>1 DEF Phase, Named, Temporary, Before, Collects
<1>9. CASE CompileModule(b)
  <2>0. UNCHANGED <<todo, pid>> /\ step[b] = "object"
    BY <1>9 DEF CompileModule
  <2>1. CASE Built(b)
    <3> DEFINE object == Object(b, "embedded")
    <3>1. object \in ObjectName /\ object \in Temporary(b)
      BY OwnNames
    <3>2. Recorded(b, object) /\ step'[b] = "module" /\ UNCHANGED linked
      BY <1>2, <2>1 DEF Built, GoesTo
    <3> HIDE DEF object
    <3>3. temps'[b] = Append(temps[b], object)
      BY <1>2, <3>1, <3>2, Recording
    <3>4. Named(b)'
      BY <1>2, <2>0, <3>1, <3>3 DEF Named, Temporary
    <3> QED BY <1>1, <2>0, <3>2, <3>4 DEF Phase, Before, Collects
  <2>2. CASE NotBuilt(b, Used(b) \cup {Object(b, "embedded")})
    <3>1. step'[b] = "cleanup" /\ linked'[b] = "failed" /\ UNCHANGED temps
      BY <1>2, <2>2 DEF NotBuilt, GivesUp, GoesTo
    <3> QED BY <1>1, <2>0, <3>1 DEF Phase, Named, Temporary, Before, Collects
  <2> QED BY <1>9, <2>1, <2>2 DEF CompileModule
<1>10. CASE ModulesCollected(b)
  <2>1. /\ step[b] = "module" /\ modules[b] = <<>> /\ step'[b] = "link"
        /\ UNCHANGED <<todo, modules, temps, linked, pid>>
    BY <1>2, <1>10 DEF ModulesCollected, GoesTo
  <2> QED BY <1>1, <2>1 DEF Phase, Named, Temporary, Before, Collects
<1>11. CASE RunClang(b, LlPath(b), OutPath(b), Natives(b))
  <2>1. /\ step'[b] = "cleanup" /\ linked'[b] \in {"ok", "failed"}
        /\ UNCHANGED <<todo, modules, temps, pid>>
    BY <1>2, <1>11 DEF RunClang, GoesTo
  <2> QED BY <1>1, <2>1 DEF Phase, Named, Temporary, Before, Collects
<1>12. CASE CleanUp(b)
  <2>1. /\ step[b] = "cleanup" /\ step'[b] = "idle" /\ temps'[b] = <<>>
        /\ UNCHANGED <<todo, modules, linked, pid>>
    BY <1>2, <1>12 DEF CleanUp, GoesTo
  <2> QED BY <1>1, <2>1 DEF Phase, Named, Temporary, Before, Collects
<1> QED BY <1>3, <1>4, <1>5, <1>6, <1>7, <1>8, <1>9, <1>10, <1>11, <1>12 DEF Link, Collect

(***************************************************************************)
(* Every step keeps the types, leaves the variables of the other builds    *)
(* and touches its own files only.                                         *)
(***************************************************************************)
Based == Types /\ \A b \in Builds : Phase(b) /\ Named(b)

\* Every step keeps the types and leaves the variables of the other builds ...
LEMMA StepFrame ==
  ASSUME Based, NEW b \in Builds, Launch(b) \/ Step(b) \/ Kill(b)
  PROVE  Types' /\ Frame(b)
<1>1. Types /\ Phase(b) /\ Named(b)
  BY DEF Based
<1>2. CASE Launch(b)
  BY <1>1, <1>2, Launching
<1>3. CASE ReadSource(b) \/ Validate(b) \/ OpenIr(b) \/ EmitIr(b) \/ Finish(b)
  BY <1>1, <1>3, DriverSteps
<1>4. CASE CallLinker(b)
  BY <1>1, <1>4, CallingLinker
<1>5. CASE Kill(b)
  BY <1>1, <1>5, Killing
<1>6. CASE Link(b)
  <2>1. UNCHANGED driverVars
    BY <1>6 DEF Link
  <2>2. CASE OpenDirectory(b)
    BY <1>1, <2>1, <2>2, OpeningDirectory
  <2>3. CASE UnknownPath(b) \/ BundlesCollected(b) \/ ModulesCollected(b)
    BY <1>1, <2>1, <2>3, QuietSteps
  <2>4. CASE CompileSource(b)
    BY <1>1, <2>1, <2>4, CompilingSource
  <2>5. CASE MakeDirectory(b)
    BY <1>1, <2>1, <2>5, MakingDirectory
  <2>6. CASE WriteSource(b)
    BY <1>1, <2>1, <2>6, WritingSource
  <2>7. CASE CompileModule(b)
    <3>1. modules[b] # <<>>
      BY <1>1, <2>7 DEF CompileModule, Phase
    <3> QED BY <1>1, <2>1, <2>7, <3>1, CompilingModule
  <2>8. CASE RunClang(b, LlPath(b), OutPath(b), Natives(b))
    BY <1>1, <2>1, <2>8, RunningClang
  <2>9. CASE CleanUp(b)
    <3>1. Range(temps[b]) \subseteq Temporary(b)
      BY <1>1 DEF Named, Range
    <3> QED BY <1>1, <2>1, <2>9, <3>1, CleaningUp
  <2> QED BY <1>6, <2>2, <2>3, <2>4, <2>5, <2>6, <2>7, <2>8, <2>9 DEF Link, Collect
<1> QED BY <1>2, <1>3, <1>4, <1>5, <1>6 DEF Step

\* ... and the build that takes it goes from one phase to the next.
LEMMA StepPhase ==
  ASSUME Based, NEW b \in Builds, Launch(b) \/ Step(b) \/ Kill(b)
  PROVE  Phase(b)' /\ Named(b)'
<1>1. Types /\ Phase(b) /\ Named(b)
  BY DEF Based
<1>2. CASE Launch(b)
  BY <1>1, <1>2, PhaseLaunch
<1>3. CASE ReadSource(b) \/ Validate(b) \/ OpenIr(b) \/ EmitIr(b) \/ Finish(b) \/ Kill(b)
  BY <1>1, <1>3, PhaseDriver
<1>4. CASE CallLinker(b)
  BY <1>1, <1>4, PhaseCall
<1>5. CASE Link(b)
  BY <1>1, <1>5, PhaseLink
<1> QED BY <1>2, <1>3, <1>4, <1>5 DEF Step

\* So every step keeps the invariant.
LEMMA StepBased ==
  ASSUME Based, NEW b \in Builds, Launch(b) \/ Step(b) \/ Kill(b)
  PROVE  Based' /\ Frame(b)
<1>1. Types' /\ Frame(b) /\ Phase(b)' /\ Named(b)'
  BY StepFrame, StepPhase
<1>2. \A c \in Builds \ {b} : Phase(c)' /\ Named(c)'
  BY <1>1, PhaseStays DEF Frame, Based
<1> QED BY <1>1, <1>2 DEF Based


\* The invariant holds at first.
LEMMA InitBased ==
  ASSUME Init
  PROVE  Based
<1>1. command \in [Builds -> Commands]
  BY DEF Init, DriverInit, Injection
<1>2. TypeOK
  <2>1. "idle" \in Places /\ "idle" \in Steps
    BY DEF Places, Steps
  <2>2. 0 \in 0 .. 5 /\ 0 \in Nat /\ kills = 0 /\ MaxKills \in Nat
    BY CommandsAssumption DEF Init, DriverInit
  <2>3. kills \in 0 .. MaxKills
    BY <2>2
  <2> QED BY <1>1, <2>1, <2>2, <2>3 DEF Init, LinkerInit, DriverInit, TypeOK
<1>3. DOMAIN files = {}
  BY DEF Init, LinkerInit
<1>4. /\ todo \in [Builds -> Seq(Item)] /\ modules \in [Builds -> Seq(DOMAIN Carried)]
      /\ temps \in [Builds -> Seq(ObjectName)] /\ items = temps
      /\ analysis = [b \in Builds |-> Analysis(command[b])]
  BY DEF Init, LinkerInit, DriverInit
<1>5. Types
  BY <1>2, <1>3, <1>4 DEF Types
<1>6. \A b \in Builds : Phase(b) /\ Named(b)
  <2> TAKE b \in Builds
  <2>1. pc[b] = "idle" /\ step[b] = "idle" /\ linked[b] = "none" /\ temps[b] = <<>>
    BY DEF Init, LinkerInit, DriverInit
  <2> QED BY <2>1 DEF Phase, Named, Before, Collects
<1> QED BY <1>5, <1>6 DEF Based

\* A step that changes nothing keeps it.
LEMMA StutterBased ==
  ASSUME Based, UNCHANGED vars
  PROVE  Based'
BY DEF Based, vars, linkerVars, driverVars, given, Types, TypeOK, Phase, Named, Temporary

\* Every step of the specification keeps it.
LEMMA NextBased ==
  ASSUME Based, [Next]_vars
  PROVE  Based'
BY StepBased, StutterBased DEF Next

\* The types, and the phases of every build, hold in every behaviour.
THEOREM BasedAlways == Spec => []Based
BY InitBased, NextBased, PTL DEF Spec

\* The variables have their types, for any number of builds, commands, modules and kills.
THEOREM TypesHold == Spec => []TypeOK
<1>1. Based => TypeOK
  BY DEF Based, Types
<1> QED BY <1>1, BasedAlways, PTL


(***************************************************************************)
(* Each file has a name of the build that wrote it, and builds that run    *)
(* have different processes.                                               *)
(***************************************************************************)
Owners   == \A p \in DOMAIN files :
              \E c \in Builds : c = files[p].by /\ p \in Mine(c) /\ pc[c] # "idle"
Distinct == \A b, c \in Builds : b # c /\ Running(b) /\ Running(c) => pid[b] # pid[c]
Owned    == Based /\ Owners /\ Distinct

\* Only a build that runs takes a step, and it keeps its process.
LEMMA OwnStep ==
  ASSUME Based, NEW b \in Builds, Step(b) \/ Kill(b)
  PROVE  Running(b) /\ UNCHANGED pid /\ pc'[b] # "idle"
<1>1. pc \in [Builds -> Places]
  BY DEF Based, Types, TypeOK
<1>2. CASE ReadSource(b) \/ Validate(b) \/ OpenIr(b) \/ EmitIr(b) \/ CallLinker(b) \/ Finish(b)
  BY <1>1, <1>2 DEF ReadSource, Validate, OpenIr, EmitIr, CallLinker, StartLink, Finish, At, GoTo,
                    Exits, Running, linkerVars
<1>3. CASE Kill(b)
  BY <1>1, <1>3 DEF Kill, GoTo, linkerVars
<1>4. CASE Link(b)
  <2>1. pc[b] = "linking" /\ UNCHANGED pc
    BY <1>4 DEF Link, At, driverVars
  <2>2. UNCHANGED pid
    BY <1>4 DEF Link, Collect, OpenDirectory, UnknownPath, CompileSource, BundlesCollected,
                MakeDirectory, WriteSource, CompileModule, ModulesCollected, CleanUp, RunClang
  <2> QED BY <2>1, <2>2 DEF Running
<1> QED BY <1>2, <1>3, <1>4 DEF Step

\* A build that is launched gets a process no running build has.
LEMMA LaunchStep ==
  ASSUME Based, NEW b \in Builds, Launch(b)
  PROVE  /\ pc[b] = "idle" /\ UNCHANGED files
         /\ pc'[b] \in {"read", "exited"}
         /\ \A c \in Builds \ {b} : Running(c) => pid[c] # pid'[b]
<1>1. pc \in [Builds -> Places] /\ pid \in [Builds -> Pids \cup {0}]
  BY DEF Based, Types, TypeOK
<1>2. pc[b] = "idle" /\ UNCHANGED files
  BY DEF Launch, At
<1>3. \A c \in Builds \ {b} : Running(c) => pid[c] # pid'[b]
  BY <1>1 DEF Launch
<1>4. pc'[b] \in {"read", "exited"}
  <2>1. command[b].usage \in {"ok", "help", "bad"}
    BY CommandsAssumption DEF Based, Types, TypeOK
  <2>2. CASE command[b].usage = "ok"
    BY <1>1, <2>2 DEF Launch, GoTo
  <2>3. CASE command[b].usage = "help"
    BY <1>1, <2>3 DEF Launch, Exits, GoTo
  <2>4. CASE command[b].usage = "bad"
    BY <1>1, <2>4 DEF Launch, Exits, GoTo
  <2> QED BY <2>1, <2>2, <2>3, <2>4
<1> QED BY <1>2, <1>3, <1>4

\* A file goes on being one its writer may name.
LEMMA OwnersStay ==
  ASSUME Owned, NEW b \in Builds, Launch(b) \/ Step(b) \/ Kill(b)
  PROVE  Owners'
<1>1. Types /\ Frame(b) /\ Owners
  BY StepBased DEF Owned, Based
<1>2. \/ pc[b] = "idle" /\ UNCHANGED files /\ pc'[b] # "idle"
      \/ UNCHANGED pid /\ pc[b] # "idle" /\ pc'[b] # "idle"
  BY LaunchStep, OwnStep DEF Owned, Running
<1>3. \A c \in Builds : pc[c] # "idle" => Mine(c)' = Mine(c) /\ pc'[c] # "idle"
  <2> TAKE c \in Builds
  <2> HAVE pc[c] # "idle"
  <2>1. pid'[c] = pid[c] /\ pc'[c] # "idle" /\ command' = command
    BY <1>1, <1>2 DEF Frame, Same
  <2> QED BY <2>1 DEF Mine, Outputs, LlPath, OutPath, Temporary
<1>4. ASSUME NEW q \in DOMAIN files'
      PROVE  \E c \in Builds : c = files'[q].by /\ q \in Mine(c)' /\ pc'[c] # "idle"
  <2>1. CASE q \in DOMAIN files /\ files'[q] = files[q]
    <3>1. PICK c \in Builds : c = files[q].by /\ q \in Mine(c) /\ pc[c] # "idle"
      BY <1>1, <2>1 DEF Owners
    <3> QED BY <1>3, <2>1, <3>1
  <2>2. CASE ~(q \in DOMAIN files /\ files'[q] = files[q])
    <3>1. q \in Mine(b) /\ files'[q].by = b
      BY <1>1, <2>2 DEF Frame, Touched
    <3>2. pc[b] # "idle"
      BY <1>2, <2>2
    <3> QED BY <1>3, <3>1, <3>2
  <2> QED BY <2>1, <2>2
<1> QED BY <1>4 DEF Owners


\* Running builds go on having different processes.
LEMMA DistinctStays ==
  ASSUME Owned, NEW b \in Builds, Launch(b) \/ Step(b) \/ Kill(b)
  PROVE  Distinct'
<1>1. Frame(b) /\ Distinct
  BY StepBased DEF Owned
<1>2. \A c \in Builds \ {b} : pid'[c] = pid[c] /\ pc'[c] = pc[c]
  BY <1>1 DEF Frame, Same
<1>3. CASE Launch(b)
  <2>1. \A c \in Builds \ {b} : Running(c) => pid[c] # pid'[b]
    BY <1>3, LaunchStep DEF Owned
  <2> QED BY <1>1, <1>2, <2>1 DEF Distinct, Running
<1>4. CASE Step(b) \/ Kill(b)
  <2>1. Running(b) /\ UNCHANGED pid
    BY <1>4, OwnStep DEF Owned
  <2> QED BY <1>1, <1>2, <2>1 DEF Distinct, Running
<1> QED BY <1>3, <1>4

\* No file has an owner at first.
LEMMA InitOwned ==
  ASSUME Init
  PROVE  Owned
<1>1. DOMAIN files = {}
  BY DEF Init, LinkerInit
<1>2. \A b \in Builds : ~Running(b)
  BY DEF Init, DriverInit, Running
<1> QED BY <1>1, <1>2, InitBased DEF Owned, Owners, Distinct

\* Every step keeps the owners.
LEMMA NextOwned ==
  ASSUME Owned, [Next]_vars
  PROVE  Owned'
<1>1. CASE UNCHANGED vars
  <2>1. /\ UNCHANGED <<files, pid, pc, command>> /\ Owners /\ Distinct /\ Based'
    BY <1>1, StutterBased DEF vars, linkerVars, driverVars, given, Owned
  <2> QED BY <2>1 DEF Owned, Owners, Distinct, Running, Mine, Outputs, LlPath, OutPath, Temporary
<1>2. CASE Next
  <2>1. PICK b \in Builds : Launch(b) \/ Step(b) \/ Kill(b)
    BY <1>2 DEF Next
  <2> QED BY <2>1, StepBased, OwnersStay, DistinctStays DEF Owned
<1> QED BY <1>1, <1>2

\* Every file is one its writer may name, and no two running builds share a process.
THEOREM OwnedAlways == Spec => []Owned
BY InitOwned, NextOwned, PTL DEF Spec

\* A build that takes a step is seen to.
LEMMA OpeningMoves ==
  ASSUME Types, NEW b \in Builds, OpenDirectory(b)
  PROVE  todo'[b] # todo[b]
<1> DEFINE first == Head(todo[b]).sources
           rest  == Tail(todo[b])
<1>1. /\ todo \in [Builds -> Seq(Item)] /\ todo[b] \in Seq(Item) /\ todo[b] # <<>>
      /\ Head(todo[b]).kind = "directory"
  BY DEF Types, OpenDirectory, Collecting
<1>2. todo'[b] \in {Unfolded(b), rest}
  BY <1>1 DEF OpenDirectory, Unfolded
<1>3. /\ Len(todo[b]) \in Nat /\ Len(rest) = Len(todo[b]) - 1 /\ todo[b][1] = Head(todo[b])
  BY <1>1, HeadTailProperties
<1>4. rest # todo[b]
  <2> HIDE DEF rest
  <2> QED BY <1>3
<1>5. Unfolded(b) # todo[b]
  <2>1. /\ Len(first) \in Nat /\ Len(Unfolded(b)) = Len(first) + Len(rest)
        /\ \A k \in 1 .. Len(first) : Unfolded(b)[k].kind = "c"
    <3>1. /\ first \in Seq(STRING) /\ Len(Unfolded(b)) = Len(first) + Len(rest)
          /\ \A k \in 1 .. Len(first) :
               Unfolded(b)[k] = [kind |-> "c", name |-> first[k], sources |-> <<>>]
      BY <1>1, Unfolding
    <3> HIDE DEF first, rest
    <3>2. Len(first) \in Nat
      BY <3>1
    <3>3. \A k \in 1 .. Len(first) : Unfolded(b)[k].kind = "c"
      <4> TAKE k \in 1 .. Len(first)
      <4>1. Unfolded(b)[k] = [kind |-> "c", name |-> first[k], sources |-> <<>>]
        BY <3>1
      <4> QED BY <4>1
    <3> QED BY <3>1, <3>2, <3>3
  <2>2. CASE Len(first) = 0
    <3> HIDE DEF first, rest
    <3> QED BY <1>3, <2>1, <2>2
  <2>3. CASE Len(first) > 0
    <3>1. Unfolded(b)[1].kind = "c"
      <4> HIDE DEF first, rest
      <4> QED BY <2>1, <2>3
    <3> QED BY <1>1, <1>3, <3>1
  <2> QED BY <2>1, <2>2, <2>3
<1> QED BY <1>2, <1>4, <1>5

\* The same for every step.
LEMMA Moves ==
  ASSUME Based, NEW b \in Builds, Launch(b) \/ Step(b) \/ Kill(b)
  PROVE  ~(pc'[b] = pc[b] /\ step'[b] = step[b] /\ count'[b] = count[b] /\ todo'[b] = todo[b])
<1>1. pc \in [Builds -> Places] /\ step \in [Builds -> Steps] /\ count \in [Builds -> Nat]
  BY DEF Based, Types, TypeOK
<1>2. CASE Launch(b)
  BY <1>2, LaunchStep
<1>3. CASE ReadSource(b) \/ Validate(b) \/ OpenIr(b) \/ EmitIr(b) \/ CallLinker(b) \/ Finish(b)
  BY <1>1, <1>3 DEF ReadSource, Validate, OpenIr, EmitIr, CallLinker, Finish, At, GoTo, Exits
<1>4. CASE Kill(b)
  BY <1>1, <1>4 DEF Kill, GoTo, Running
<1>5. CASE Link(b)
  <2>1. CASE OpenDirectory(b)
    BY <2>1, OpeningMoves DEF Based
  <2>2. CASE CompileSource(b)
    <3>1. count'[b] = count[b] + 1 /\ count[b] \in Nat
      BY <1>1, <2>2 DEF CompileSource
    <3> QED BY <3>1
  <2>3. CASE UnknownPath(b) \/ BundlesCollected(b) \/ MakeDirectory(b)
    BY <1>1, <2>3 DEF UnknownPath, BundlesCollected, MakeDirectory, Collecting, GivesUp, GoesTo
  <2>4. CASE WriteSource(b) \/ ModulesCollected(b)
    BY <1>1, <2>4 DEF WriteSource, ModulesCollected, GivesUp, GoesTo
  <2>5. CASE CompileModule(b)
    BY <1>1, <2>5 DEF CompileModule, Built, NotBuilt, GivesUp, GoesTo
  <2>6. CASE CleanUp(b) \/ RunClang(b, LlPath(b), OutPath(b), Natives(b))
    BY <1>1, <2>6 DEF CleanUp, RunClang, GoesTo
  <2> QED BY <1>5, <2>1, <2>2, <2>3, <2>4, <2>5, <2>6 DEF Link, Collect
<1> QED BY <1>2, <1>3, <1>4, <1>5 DEF Step

\* What another build has is not among the names a build may touch.
LEMMA Apart ==
  ASSUME Owned, NEW b \in Builds, NEW c \in Builds \ {b}, Unshared(c), pc[b] # "idle",
         NEW p \in Mine(c), Running(b), Running(c) \/ p \in Outputs(c)
  PROVE  p \notin Mine(b)
<1>1. Outputs(c) \cap Outputs(b) = {}
  BY DEF Unshared
<1>2. \A d \in Builds : Outputs(d) \cap Temporary(b) = {}
  <2> SUFFICES ASSUME NEW d \in Builds, NEW q \in Outputs(d) PROVE q \notin Temporary(b)
    OBVIOUS
  <2>1. q[1] \in {"path", "ll"}
    <3>1. command[d] \in Commands
      BY DEF Owned, Based, Types, TypeOK
    <3> QED BY <3>1, CommandsAssumption DEF Outputs, LlPath, OutPath
  <2> QED BY <2>1 DEF Temporary
<1>3. \A d \in Builds : Outputs(d) \cap Temporary(c) = {}
  <2> SUFFICES ASSUME NEW d \in Builds, NEW q \in Outputs(d) PROVE q \notin Temporary(c)
    OBVIOUS
  <2>1. q[1] \in {"path", "ll"}
    <3>1. command[d] \in Commands
      BY DEF Owned, Based, Types, TypeOK
    <3> QED BY <3>1, CommandsAssumption DEF Outputs, LlPath, OutPath
  <2> QED BY <2>1 DEF Temporary
<1>4. CASE p \in Outputs(c)
  BY <1>1, <1>2, <1>4 DEF Mine
<1>5. CASE p \in Temporary(c) /\ Running(c)
  <2>1. pid[b] # pid[c]
    BY <1>5 DEF Owned, Distinct
  <2>2. Temporary(b) \cap Temporary(c) = {}
    BY <2>1 DEF Temporary
  <2> QED BY <1>3, <1>5, <2>2 DEF Mine
<1> QED BY <1>4, <1>5 DEF Mine

\* A step of a build leaves the files that another needs.
LEMMA Preserved ==
  ASSUME Owned, NEW b \in Builds, Launch(b) \/ Step(b) \/ Kill(b),
         NEW c \in Builds \ {b}, Unshared(c), NEW p \in Kept(c)
  PROVE  p \in DOMAIN files' /\ files'[p] = files[p]
<1>1. p \in DOMAIN files /\ files[p].by = c /\ (Running(c) \/ p \in Outputs(c))
  BY DEF Kept, WrittenBy
<1>2. p \in Mine(c)
  BY <1>1 DEF Owned, Owners
<1>3. CASE Launch(b)
  BY <1>1, <1>3, LaunchStep DEF Owned
<1>4. CASE Step(b) \/ Kill(b)
  <2>1. Running(b)
    BY <1>4, OwnStep DEF Owned
  <2>2. p \notin Mine(b)
    BY <1>1, <1>2, <2>1, Apart DEF Running
  <2>3. Touched(b)
    BY StepBased DEF Owned, Frame
  <2> QED BY <1>1, <2>2, <2>3 DEF Touched
<1> QED BY <1>3, <1>4

\* No step touches a file that another build has and still may need.
THEOREM IsolatedHolds == Spec => Isolated
<1>1. ASSUME Owned, [Next]_vars, NEW c \in Builds
      PROVE  Undisturbed(c)
  <2> SUFFICES ASSUME Unshared(c), UNCHANGED <<pc[c], step[c], count[c], todo[c]>>, NEW p \in Kept(c)
               PROVE  p \in DOMAIN files' /\ files'[p] = files[p]
    BY DEF Undisturbed
  <2>1. p \in DOMAIN files
    BY DEF Kept, WrittenBy
  <2>2. CASE UNCHANGED vars
    BY <2>1, <2>2 DEF vars, linkerVars
  <2>3. CASE Next
    <3>1. PICK b \in Builds : Launch(b) \/ Step(b) \/ Kill(b)
      BY <2>3 DEF Next
    <3>2. b # c
      BY <1>1, <3>1, Moves DEF Owned
    <3> QED BY <1>1, <3>1, <3>2, Preserved
  <2> QED BY <1>1, <2>2, <2>3
<1>2. Owned /\ [Next]_vars => [\A b \in Builds : Undisturbed(b)]_vars
  BY <1>1
<1>3. Spec => []Owned /\ [][Next]_vars
  BY OwnedAlways, PTL DEF Spec
<1>4. []Owned /\ [][Next]_vars => [][\A b \in Builds : Undisturbed(b)]_vars
  BY <1>2, PTL
<1> QED BY <1>3, <1>4, PTL DEF Isolated


(***************************************************************************)
(* What the exit status says of the way to it.                             *)
(***************************************************************************)
Course(b) ==
  /\ Running(b) => command[b].usage = "ok"
  /\ pc[b] \in {"open", "emit", "link", "linking"} => analysis[b].errors = 0
  /\ pc[b] \in {"link", "linking"} => ~command[b].raw
  /\ linked[b] = "ok" => ~command[b].raw
  /\ pc[b] = "exited" =>
       /\ exit[b] = 0 /\ command[b].usage = "ok" => linked[b] = "ok" \/ command[b].raw
       /\ exit[b] = 5 <=> linked[b] = "failed"
       /\ exit[b] = 1 => command[b].usage # "ok"
       /\ exit[b] \in {2, 4} => trouble[b]
       /\ exit[b] = 3 => analysis[b].errors # 0

\* A step of another build.
LEMMA CourseStays ==
  ASSUME NEW b \in Builds, NEW c \in Builds, Same(c), command' = command, analysis' = analysis,
         Course(c)
  PROVE  Course(c)'
BY DEF Same, Course, Running

\* A step of the build: its course goes on.
LEMMA StepCourse ==
  ASSUME Based, NEW b \in Builds, Launch(b) \/ Step(b) \/ Kill(b), Course(b)
  PROVE  Course(b)'
<1>0. /\ pc \in [Builds -> Places] /\ exit \in [Builds -> 0 .. 5]
      /\ linked \in [Builds -> {"none", "ok", "failed"}] /\ trouble \in [Builds -> BOOLEAN]
      /\ Phase(b) /\ Frame(b)
  BY StepBased DEF Based, Types, TypeOK
<1>1. command' = command /\ analysis' = analysis
  BY <1>0 DEF Frame
<1>2. pc[b] \in Before => linked[b] = "none"
  BY <1>0 DEF Phase
<1>3. CASE Launch(b)
  <2>1. pc[b] = "idle" /\ linked'[b] = "none"
    BY <1>2, <1>3 DEF Launch, At, Before
  <2>2. command[b].usage \in {"ok", "help", "bad"}
    BY CommandsAssumption DEF Based, Types, TypeOK
  <2>3. \/ command[b].usage = "ok" /\ pc'[b] = "read"
        \/ command[b].usage = "help" /\ pc'[b] = "exited" /\ exit'[b] = 0
        \/ command[b].usage = "bad" /\ pc'[b] = "exited" /\ exit'[b] = 1
    <3>1. CASE command[b].usage = "ok"
      BY <1>0, <1>3, <3>1 DEF Launch, GoTo
    <3>2. CASE command[b].usage = "help"
      BY <1>0, <1>3, <3>2 DEF Launch, Exits, GoTo
    <3>3. CASE command[b].usage = "bad"
      BY <1>0, <1>3, <3>3 DEF Launch, Exits, GoTo
    <3> QED BY <2>2, <3>1, <3>2, <3>3
  <2> QED BY <1>1, <2>1, <2>3 DEF Course, Running
<1>4. CASE ReadSource(b)
  <2>1. /\ pc[b] = "read" /\ UNCHANGED linked
        /\ \/ pc'[b] = "validate"
           \/ pc'[b] = "exited" /\ exit'[b] = 2 /\ trouble'[b]
    BY <1>0, <1>4 DEF ReadSource, At, GoTo, Exits, Troubled
  <2> QED BY <1>1, <1>2, <2>1 DEF Course, Running, Before
<1>5. CASE Validate(b)
  <2>1. /\ pc[b] = "validate" /\ UNCHANGED linked
        /\ \/ pc'[b] = "open" /\ analysis[b].errors = 0
           \/ pc'[b] = "exited" /\ exit'[b] = 3 /\ analysis[b].errors # 0
    BY <1>0, <1>5 DEF Validate, At, GoTo, Exits, linkerVars
  <2> QED BY <1>1, <1>2, <2>1 DEF Course, Running, Before
<1>6. CASE OpenIr(b)
  <2>1. /\ pc[b] = "open" /\ UNCHANGED linked
        /\ \/ pc'[b] = "emit"
           \/ pc'[b] = "exited" /\ exit'[b] = 4 /\ trouble'[b]
    BY <1>0, <1>6 DEF OpenIr, At, GoTo, Exits, Troubled
  <2> QED BY <1>1, <1>2, <2>1 DEF Course, Running, Before
<1>7. CASE EmitIr(b)
  <2>1. /\ pc[b] = "emit" /\ UNCHANGED linked
        /\ \/ pc'[b] = "link" /\ ~command[b].raw
           \/ pc'[b] = "exited" /\ exit'[b] = 0 /\ command[b].raw
           \/ pc'[b] = "exited" /\ exit'[b] = 4 /\ trouble'[b]
    BY <1>0, <1>7 DEF EmitIr, At, GoTo, Exits, Troubled
  <2> QED BY <1>1, <1>2, <2>1 DEF Course, Running, Before
<1>8. CASE CallLinker(b)
  <2>1. pc[b] = "link" /\ UNCHANGED linked /\ pc'[b] = "linking"
    BY <1>0, <1>8 DEF CallLinker, StartLink, At, GoTo
  <2> QED BY <1>1, <1>2, <2>1 DEF Course, Running, Before
<1>9. CASE Link(b)
  <2>1. pc[b] = "linking" /\ pc'[b] = "linking"
    BY <1>9 DEF Link, At, driverVars
  <2> QED BY <1>1, <2>1 DEF Course, Running
<1>10. CASE Finish(b)
  <2>1. linked[b] \in {"ok", "failed"} /\ UNCHANGED linked
    BY <1>0, <1>10 DEF Finish, At, Phase
  <2>2. /\ pc[b] = "linking" /\ pc'[b] = "exited"
        /\ exit'[b] = IF linked[b] = "ok" THEN 0 ELSE 5
    BY <1>0, <1>10 DEF Finish, At, GoTo, Exits
  <2> QED BY <1>1, <2>1, <2>2 DEF Course, Running
<1>11. CASE Kill(b)
  <2>1. Running(b) /\ UNCHANGED linked /\ pc'[b] = "killed"
    BY <1>0, <1>11 DEF Kill, GoTo, linkerVars
  <2> QED BY <1>1, <2>1 DEF Course, Running
<1> QED BY <1>3, <1>4, <1>5, <1>6, <1>7, <1>8, <1>9, <1>10, <1>11 DEF Step


(***************************************************************************)
(* What a build has written is its output or a temporary file in use; once *)
(* the linker has given up, also the object of a bundle's C file.          *)
(***************************************************************************)
Leftover(b) ==
  Range(temps[b])
    \cup (IF step[b] = "source" THEN {Directory(b)} ELSE {})
    \cup (IF step[b] = "object" THEN Used(b) ELSE {})
    \cup (IF linked[b] = "failed" THEN {<<"bundle", pid[b], count[b] - 1>>} ELSE {})

Written(b) ==
  /\ pc[b] \in {"idle", "read", "validate", "open"} => WrittenBy(b) = {}
  /\ pc[b] = "exited" /\ exit[b] \in {1, 2, 3} => WrittenBy(b) = {}
  /\ pc[b] = "exited" /\ command[b].usage # "ok" => WrittenBy(b) = {}
  /\ pc[b] # "killed" => WrittenBy(b) \subseteq Outputs(b) \cup Leftover(b)
  /\ pc[b] = "exited" /\ exit[b] = 0 /\ ~command[b].raw => LlPath(b) \notin WrittenBy(b)

\* What the builds have written after a step, from what they had before.
LEMMA OthersWrite ==
  ASSUME NEW b \in Builds, NEW c \in Builds \ {b}, Touched(b)
  PROVE  WrittenBy(c)' \subseteq WrittenBy(c)
BY DEF Touched, WrittenBy

\* A step of another build.
LEMMA WrittenStays ==
  ASSUME NEW b \in Builds, NEW c \in Builds \ {b}, Frame(b), Written(c)
  PROVE  Written(c)'
<1>1. WrittenBy(c)' \subseteq WrittenBy(c)
  BY OthersWrite DEF Frame
<1>2. Leftover(c)' = Leftover(c) /\ Outputs(c)' = Outputs(c) /\ LlPath(c)' = LlPath(c)
  BY DEF Frame, Same, Leftover, Used, Directory, SourceFile, HeaderFile, Outputs, LlPath, OutPath
<1>3. pc'[c] = pc[c] /\ exit'[c] = exit[c] /\ command' = command
  BY DEF Frame, Same
<1> QED BY <1>1, <1>2, <1>3 DEF Written

\* A file is written.
LEMMA WrittenWriting ==
  ASSUME NEW b, NEW p, NEW content, content.by = b, files' = With(files, p, content)
  PROVE  WrittenBy(b)' = WrittenBy(b) \cup {p}
BY DEF With, WrittenBy

\* Files are removed.
LEMMA WrittenRemoving ==
  ASSUME NEW b, NEW ps, files' = Without(files, ps)
  PROVE  WrittenBy(b)' = WrittenBy(b) \ ps
BY DEF Without, WrittenBy

\* Files are removed and one is written.
LEMMA WrittenReplacing ==
  ASSUME NEW b, NEW ps, NEW p, NEW content, content.by = b,
         files' = With(Without(files, ps), p, content)
  PROVE  WrittenBy(b)' = (WrittenBy(b) \ ps) \cup {p}
BY DEF With, Without, WrittenBy

\* Two files are written.
LEMMA WrittenTwice ==
  ASSUME NEW b, NEW p, NEW q, NEW content, content.by = b,
         files' = With(With(files, p, content), q, content)
  PROVE  WrittenBy(b)' = WrittenBy(b) \cup {p, q}
BY DEF With, WrittenBy

\* Steps of the driver.
LEMMA WrittenDriver ==
  ASSUME Based, NEW b \in Builds, Written(b), Course(b), Course(b)',
         \/ Launch(b) \/ ReadSource(b) \/ Validate(b) \/ OpenIr(b) \/ EmitIr(b) \/ CallLinker(b)
         \/ Finish(b) \/ Kill(b)
  PROVE  Written(b)'
<1>1. /\ pc \in [Builds -> Places] /\ exit \in [Builds -> 0 .. 5] /\ Phase(b) /\ Types
      /\ command' = command
  BY StepFrame DEF Based, Types, TypeOK, Frame, Step
<1>2. /\ Outputs(b)' = Outputs(b) /\ LlPath(b)' = LlPath(b) /\ LlPath(b) \in Outputs(b)
  BY <1>1 DEF Outputs, LlPath, OutPath
<1>3. Torn(b).by = b /\ Content(b, {b}).by = b
  BY DEF Torn, Content
<1>4. UNCHANGED files => WrittenBy(b)' = WrittenBy(b)
  BY DEF WrittenBy
<1>5. CASE Launch(b)
  <2>1. WrittenBy(b)' = {}
    BY <1>4, <1>5, LaunchStep DEF Written
  <2> QED BY <2>1 DEF Written
<1>6. CASE ReadSource(b) \/ Validate(b)
  <2>1. WrittenBy(b)' = {}
    BY <1>4, <1>6 DEF ReadSource, Validate, At, Written, linkerVars
  <2> QED BY <2>1 DEF Written
<1>7. CASE OpenIr(b)
  <2>1. WrittenBy(b) = {} /\ pc[b] = "open"
    BY <1>7 DEF OpenIr, At, Written
  <2>2. /\ WrittenBy(b)' \subseteq Outputs(b)
        /\ \/ pc'[b] = "emit"
           \/ pc'[b] = "exited" /\ exit'[b] = 4
    BY <1>1, <1>2, <1>3, <1>4, <1>7, <2>1, WrittenWriting DEF OpenIr, GoTo, Exits
  <2>3. command'[b].usage = "ok"
    BY <1>1, <2>1 DEF Course, Running
  <2> QED BY <1>2, <2>2, <2>3 DEF Written
<1>8. CASE EmitIr(b)
  <2>1. pc[b] = "emit" /\ linked[b] = "none" /\ step[b] = "idle" /\ temps[b] = <<>>
    BY <1>1, <1>8 DEF EmitIr, At, Phase, Before
  <2>2. WrittenBy(b) \subseteq Outputs(b)
    BY <2>1 DEF Written, Leftover, Range
  <2>3. /\ WrittenBy(b)' \subseteq Outputs(b)
        /\ \/ pc'[b] = "link"
           \/ pc'[b] = "exited" /\ exit'[b] = 0 /\ command[b].raw
           \/ pc'[b] = "exited" /\ exit'[b] = 4
    <3>1. \/ files' = files \/ files' = With(files, LlPath(b), Content(b, {b}))
      BY <1>8 DEF EmitIr
    <3>2. WrittenBy(b)' \subseteq Outputs(b)
      BY <1>2, <1>3, <1>4, <2>2, <3>1, WrittenWriting
    <3> QED BY <1>1, <1>8, <3>2 DEF EmitIr, GoTo, Exits
  <2>4. command'[b].usage = "ok"
    BY <1>1, <2>1 DEF Course, Running
  <2> QED BY <1>1, <1>2, <2>3, <2>4 DEF Written
<1>9. CASE CallLinker(b)
  <2>1. pc[b] = "link" /\ linked[b] = "none" /\ step[b] = "idle" /\ temps[b] = <<>>
    BY <1>1, <1>9 DEF CallLinker, At, Phase, Before
  <2>2. WrittenBy(b) \subseteq Outputs(b)
    BY <2>1 DEF Written, Leftover, Range
  <2>3. WrittenBy(b)' = WrittenBy(b) /\ pc'[b] = "linking"
    BY <1>1, <1>4, <1>9 DEF CallLinker, StartLink, GoTo
  <2> QED BY <1>2, <2>2, <2>3 DEF Written
<1>10. CASE Finish(b)
  <2>1. pc[b] = "linking" /\ step[b] = "idle" /\ temps[b] = <<>> /\ linked[b] \in {"ok", "failed"}
    <3>1. linked[b] \in {"none", "ok", "failed"}
      BY DEF Based, Types, TypeOK
    <3> QED BY <1>1, <1>10, <3>1 DEF Finish, At, Phase
  <2>2. pc'[b] = "exited" /\ exit'[b] = (IF linked[b] = "ok" THEN 0 ELSE 5)
    BY <1>1, <1>10 DEF Finish, GoTo, Exits
  <2>3. command'[b].usage = "ok"
    BY <1>1, <2>1 DEF Course, Running
  <2>4. UNCHANGED <<step, temps, linked, pid, count>>
    BY <1>10 DEF Finish
  <2>5. Leftover(b)' = Leftover(b)
    BY <2>4 DEF Leftover, Used, Directory, SourceFile, HeaderFile
  <2>6. CASE linked[b] = "ok"
    <3>1. WrittenBy(b)' = WrittenBy(b) \ {LlPath(b)}
      BY <1>10, <2>6, WrittenRemoving DEF Finish
    <3> QED BY <1>2, <2>1, <2>2, <2>3, <2>5, <2>6, <3>1 DEF Written
  <2>7. CASE linked[b] = "failed"
    <3>1. WrittenBy(b)' = WrittenBy(b)
      BY <1>4, <1>10, <2>7 DEF Finish
    <3> QED BY <1>2, <2>1, <2>2, <2>3, <2>5, <2>7, <3>1 DEF Written
  <2> QED BY <2>1, <2>6, <2>7
<1>11. CASE Kill(b)
  <2>1. pc'[b] = "killed"
    BY <1>1, <1>11 DEF Kill, GoTo
  <2> QED BY <2>1 DEF Written
<1> QED BY <1>5, <1>6, <1>7, <1>8, <1>9, <1>10, <1>11


\* Steps of the linker.  A build that links only has to keep to its outputs and what is in use.
LEMMA WrittenLink ==
  ASSUME Based, NEW b \in Builds, Written(b), Link(b)
  PROVE  Written(b)'
<1> DEFINE own == Outputs(b) \cup Leftover(b)
<1>1. /\ Types /\ Phase(b) /\ pc[b] = "linking" /\ UNCHANGED <<pc, exit, command>>
      /\ WrittenBy(b) \subseteq own
  BY DEF Based, Link, At, driverVars, given, Written
<1>2. /\ step \in [Builds -> Steps] /\ linked \in [Builds -> {"none", "ok", "failed"}]
      /\ temps \in [Builds -> Seq(ObjectName)] /\ count \in [Builds -> Nat]
  BY <1>1 DEF Types, TypeOK
<1>3. SUFFICES WrittenBy(b)' \subseteq Outputs(b)' \cup Leftover(b)'
  BY <1>1 DEF Written
<1>4. Outputs(b)' = Outputs(b) /\ OutPath(b) \in Outputs(b)
  BY <1>1 DEF Outputs, LlPath, OutPath
<1>5. UNCHANGED files => WrittenBy(b)' = WrittenBy(b)
  BY DEF WrittenBy
<1>6. \A parts : Content(b, parts).by = b /\ Torn(b).by = b
  BY DEF Content, Torn
<1>7. UNCHANGED pid
  BY OwnStep DEF Step
<1>8. CASE OpenDirectory(b)
  <2>1. UNCHANGED <<files, step, temps, count, linked>>
    BY <1>8 DEF OpenDirectory
  <2>2. Leftover(b)' = Leftover(b)
    BY <1>7, <2>1 DEF Leftover, Used, Directory, SourceFile, HeaderFile
  <2> QED BY <1>1, <1>4, <1>5, <2>1, <2>2
<1>9. CASE UnknownPath(b) \/ BundlesCollected(b) \/ ModulesCollected(b)
  <2>1. /\ UNCHANGED <<files, temps>> /\ step[b] \in {"bundle", "module"}
    BY <1>9 DEF UnknownPath, BundlesCollected, ModulesCollected, Quiet, Collecting
  <2>2. linked[b] # "failed" /\ WrittenBy(b) \subseteq Outputs(b) \cup Range(temps[b])
    BY <1>1, <2>1 DEF Phase, Collects, Leftover
  <2>3. Range(temps[b]) \subseteq Leftover(b)'
    BY <2>1 DEF Leftover
  <2> QED BY <1>4, <1>5, <2>1, <2>2, <2>3
<1>10. CASE CompileSource(b)
  <2> DEFINE object == Object(b, "bundle")
  <2>1. step[b] = "bundle" /\ count'[b] = count[b] + 1 /\ count[b] \in Nat
    BY <1>2, <1>10 DEF CompileSource, Collecting
  <2>2. WrittenBy(b) \subseteq Outputs(b) \cup Range(temps[b])
    BY <1>1, <2>1 DEF Phase, Collects, Leftover
  <2>3. WrittenBy(b)' \subseteq WrittenBy(b) \cup {object}
    <3>1. \/ files' = files
          \/ files' = With(files, object, Torn(b))
          \/ files' = With(files, object, Content(b, {Head(todo[b]).name}))
      BY <1>10 DEF CompileSource, Compiled, NotCompiled
    <3> HIDE DEF object
    <3> QED BY <1>5, <1>6, <3>1, WrittenWriting
  <2>4. Range(temps[b]) \cup {object} \subseteq Leftover(b)'
    <3>1. CASE Compiled(b)
      <4>1. object \in ObjectName /\ Recorded(b, object)
        BY <1>1, <3>1, OwnNames DEF Compiled
      <4> HIDE DEF object
      <4>2. temps'[b] = Append(temps[b], object)
        BY <1>1, <1>2, <4>1, Recording
      <4>3. Range(temps'[b]) = Range(temps[b]) \cup {object}
        BY <1>2, <4>1, <4>2, RangeAppended
      <4> QED BY <4>3 DEF Leftover
    <3>2. CASE NotCompiled(b)
      <4>1. UNCHANGED temps /\ linked'[b] = "failed"
        BY <1>2, <3>2 DEF NotCompiled, GivesUp
      <4>2. object = <<"bundle", pid'[b], count'[b] - 1>>
        <5>1. count'[b] - 1 = count[b]
          BY <2>1
        <5> QED BY <1>7, <5>1 DEF Object
      <4> HIDE DEF object
      <4> QED BY <4>1, <4>2 DEF Leftover
    <3> QED BY <1>10, <3>1, <3>2 DEF CompileSource
  <2> HIDE DEF object
  <2> QED BY <1>4, <2>2, <2>3, <2>4
<1>11. CASE MakeDirectory(b)
  <2>1. step[b] = "module" /\ UNCHANGED <<temps, count>>
    BY <1>11 DEF MakeDirectory
  <2>2. WrittenBy(b) \subseteq Outputs(b) \cup Range(temps[b])
    BY <1>1, <2>1 DEF Phase, Collects, Leftover
  <2>3. Range(temps[b]) \subseteq Leftover(b)'
    BY <2>1 DEF Leftover
  <2>4. CASE UNCHANGED files
    BY <1>4, <1>5, <2>2, <2>3, <2>4
  <2>5. CASE files' = With(files, Directory(b), Content(b, {})) /\ step'[b] = "source"
    <3>1. WrittenBy(b)' = WrittenBy(b) \cup {Directory(b)}
      BY <1>6, <2>5, WrittenWriting
    <3>2. Directory(b) \in Leftover(b)'
      BY <1>7, <2>1, <2>5 DEF Leftover, Directory
    <3> QED BY <1>4, <2>2, <2>3, <3>1, <3>2
  <2> QED BY <1>2, <1>11, <2>4, <2>5 DEF MakeDirectory, GoesTo, Quiet
<1>12. CASE WriteSource(b)
  <2>1. step[b] = "source" /\ UNCHANGED <<temps, count>>
    BY <1>12 DEF WriteSource
  <2>2. WrittenBy(b) \subseteq Outputs(b) \cup Range(temps[b]) \cup {Directory(b)}
    BY <1>1, <2>1 DEF Phase, Collects, Leftover
  <2>3. Range(temps[b]) \subseteq Leftover(b)'
    BY <2>1 DEF Leftover
  <2>4. CASE step'[b] = "object" /\ WrittenBy(b)' \subseteq WrittenBy(b) \cup {SourceFile(b), HeaderFile(b)}
    <3>1. Used(b)' \subseteq Leftover(b)'
      BY <2>4 DEF Leftover
    <3>2. Used(b)' = Used(b)
      BY <1>7, <2>1 DEF Used, Directory, SourceFile, HeaderFile
    <3> QED BY <1>4, <2>2, <2>3, <2>4, <3>1, <3>2 DEF Used
  <2>5. CASE WrittenBy(b)' = WrittenBy(b) \ {Directory(b)}
    BY <1>4, <2>2, <2>3, <2>5
  <2>6. \/ step'[b] = "object" /\ WrittenBy(b)' \subseteq WrittenBy(b) \cup {SourceFile(b), HeaderFile(b)}
        \/ WrittenBy(b)' = WrittenBy(b) \ {Directory(b)}
    <3> DEFINE written == With(files, SourceFile(b), Content(b, {}))
    <3>1. \/ GoesTo(b, "object") /\ files' = With(written, HeaderFile(b), Content(b, {}))
          \/ GoesTo(b, "object") /\ files' = written
          \/ files' = Without(files, {Directory(b)})
      BY <1>12 DEF WriteSource
    <3>2. GoesTo(b, "object") => step'[b] = "object"
      BY <1>2 DEF GoesTo
    <3>3. CASE files' = With(written, HeaderFile(b), Content(b, {}))
      BY <1>6, <3>1, <3>2, <3>3, WrittenTwice, WrittenRemoving
    <3>4. CASE files' = written
      BY <1>6, <3>1, <3>2, <3>4, WrittenWriting, WrittenRemoving
    <3>5. CASE files' = Without(files, {Directory(b)})
      BY <3>5, WrittenRemoving
    <3> QED BY <3>1, <3>3, <3>4, <3>5
  <2> QED BY <2>4, <2>5, <2>6
<1>13. CASE CompileModule(b)
  <2> DEFINE object == Object(b, "embedded")
             removed == Used(b) \cup {object}
  <2>1. step[b] = "object" /\ linked[b] # "failed" /\ modules[b] # <<>>
    BY <1>1, <1>13 DEF CompileModule, Phase, Collects
  <2>2. WrittenBy(b) \subseteq Outputs(b) \cup Range(temps[b]) \cup Used(b)
    BY <2>1, <1>1 DEF Leftover
  <2>3. CASE Built(b)
    <3>1. WrittenBy(b)' = (WrittenBy(b) \ Used(b)) \cup {object}
      <4> HIDE DEF object
      <4>1. files' = With(Without(files, Used(b)), object, Content(b, {Carried[Head(modules[b])].source}))
        BY <2>3 DEF Built, object
      <4> QED BY <1>6, <4>1, WrittenReplacing
    <3>2. object \in ObjectName /\ Recorded(b, object)
      BY <1>1, <2>3, OwnNames DEF Built
    <3> HIDE DEF object
    <3>3. temps'[b] = Append(temps[b], object)
      BY <1>1, <1>2, <3>2, Recording
    <3>4. Range(temps'[b]) = Range(temps[b]) \cup {object}
      BY <1>2, <3>2, <3>3, RangeAppended
    <3>5. Range(temps'[b]) \subseteq Leftover(b)'
      BY DEF Leftover
    <3> QED BY <1>4, <2>2, <3>1, <3>4, <3>5
  <2>4. CASE NotBuilt(b, removed)
    <3>1. files' = Without(files, removed)
      BY <1>1, <1>13, <2>1, <2>4, CompilingModule DEF Link
    <3>2. WrittenBy(b)' = WrittenBy(b) \ removed
      <4> HIDE DEF removed
      <4> QED BY <3>1, WrittenRemoving
    <3>3. UNCHANGED temps
      BY <2>4 DEF NotBuilt
    <3>4. Range(temps[b]) \subseteq Leftover(b)'
      BY <3>3 DEF Leftover
    <3> QED BY <1>4, <2>2, <3>2, <3>4
  <2> QED BY <1>13, <2>3, <2>4 DEF CompileModule
<1>14. CASE RunClang(b, LlPath(b), OutPath(b), Natives(b))
  <2>1. /\ step[b] = "link" /\ UNCHANGED temps
        /\ \/ UNCHANGED files
           \/ \E parts : files' = With(files, OutPath(b), Content(b, parts))
    BY <1>14 DEF RunClang
  <2>2. WrittenBy(b) \subseteq Outputs(b) \cup Range(temps[b])
    BY <1>1, <2>1 DEF Phase, Collects, Leftover
  <2>3. Range(temps[b]) \subseteq Leftover(b)'
    BY <2>1 DEF Leftover
  <2>4. WrittenBy(b)' \subseteq WrittenBy(b) \cup {OutPath(b)}
    BY <1>5, <1>6, <2>1, WrittenWriting
  <2> QED BY <1>4, <2>2, <2>3, <2>4
<1>15. CASE CleanUp(b)
  <2>1. step[b] = "cleanup" /\ files' = Without(files, Range(temps[b])) /\ UNCHANGED <<linked, count>>
    BY <1>15 DEF CleanUp
  <2>2. WrittenBy(b)' = WrittenBy(b) \ Range(temps[b])
    BY <2>1, WrittenRemoving
  <2>3. Leftover(b) \ Range(temps[b]) \subseteq Leftover(b)'
    BY <1>7, <2>1 DEF Leftover
  <2> QED BY <1>1, <1>4, <2>2, <2>3
<1> QED BY <1>8, <1>9, <1>10, <1>11, <1>12, <1>13, <1>14, <1>15 DEF Link, Collect


Tidied == Owned /\ \A b \in Builds : Course(b) /\ Written(b)

\* Nothing is written at first.
LEMMA InitTidied ==
  ASSUME Init
  PROVE  Tidied
<1>1. DOMAIN files = {}
  BY DEF Init, LinkerInit
<1>2. \A b \in Builds : pc[b] = "idle" /\ linked[b] = "none"
  BY DEF Init, LinkerInit, DriverInit
<1>3. \A b \in Builds : WrittenBy(b) = {}
  BY <1>1 DEF WrittenBy
<1> QED BY <1>2, <1>3, InitOwned DEF Tidied, Course, Written, Running

\* A step keeps what every build has written in order ...
LEMMA StepTidied ==
  ASSUME Tidied, NEW b \in Builds, Launch(b) \/ Step(b) \/ Kill(b)
  PROVE  \A c \in Builds : Course(c)' /\ Written(c)'
<1>1. Based /\ Frame(b) /\ Course(b) /\ Written(b)
  BY StepBased DEF Tidied, Owned
<1>2. Course(b)'
  BY <1>1, StepCourse
<1>3. Written(b)'
  BY <1>1, <1>2, WrittenDriver, WrittenLink DEF Step
<1>4. \A c \in Builds \ {b} : Course(c)' /\ Written(c)'
  <2> TAKE c \in Builds \ {b}
  <2>1. Same(c) /\ command' = command /\ analysis' = analysis /\ Course(c) /\ Written(c)
    BY <1>1 DEF Frame, Tidied
  <2> QED BY <1>1, <2>1, CourseStays, WrittenStays
<1> QED BY <1>2, <1>3, <1>4

\* ... so the specification does.
LEMMA NextTidied ==
  ASSUME Tidied, [Next]_vars
  PROVE  Tidied'
<1>1. CASE UNCHANGED vars
  <2>1. Owned'
    BY NextOwned DEF Tidied
  <2>2. \A b \in Builds : Course(b)' /\ Written(b)'
    <3> TAKE b \in Builds
    <3>1. Course(b) /\ Written(b) /\ UNCHANGED <<files, pc, command, analysis, exit, linked, trouble,
                                                 step, temps, pid, count>>
      BY <1>1 DEF Tidied, vars, linkerVars, driverVars, given
    <3>2. WrittenBy(b)' = WrittenBy(b) /\ Outputs(b)' = Outputs(b) /\ LlPath(b)' = LlPath(b)
          /\ Leftover(b)' = Leftover(b)
      BY <3>1 DEF WrittenBy, Outputs, LlPath, OutPath, Leftover, Used, Directory, SourceFile, HeaderFile
    <3> QED BY <3>1, <3>2 DEF Course, Written, Running
  <2> QED BY <2>1, <2>2 DEF Tidied
<1>2. CASE Next
  <2>1. PICK b \in Builds : Launch(b) \/ Step(b) \/ Kill(b)
    BY <1>2 DEF Next
  <2> QED BY <2>1, NextOwned, StepTidied DEF Tidied
<1> QED BY <1>1, <1>2

\* What a build has written is accounted for in every behaviour.
THEOREM TidiedAlways == Spec => []Tidied
BY InitTidied, NextTidied, PTL DEF Spec

\* A build that has ended leaves at most the object of one C file beside its output.
THEOREM TidyHolds == Spec => []Tidy
<1>1. ASSUME Tidied, NEW b \in Builds, At(b, "exited")
      PROVE  LET left == WrittenBy(b) \ Outputs(b)
             IN  /\ exit[b] # 5 => left = {}
                 /\ Cardinality(left) <= 1 /\ \A p \in left : p[1] = "bundle"
                 /\ LlPath(b) \in WrittenBy(b) => command[b].raw \/ exit[b] \in {4, 5}
  <2> DEFINE left == WrittenBy(b) \ Outputs(b)
             last == <<"bundle", pid[b], count[b] - 1>>
  <2>1. /\ Course(b) /\ Written(b) /\ Phase(b) /\ pc[b] = "exited" /\ exit[b] \in 0 .. 5
    BY <1>1 DEF Tidied, Owned, Based, Types, TypeOK, At
  <2>2. step[b] = "idle" /\ temps[b] = <<>> /\ Range(temps[b]) = {}
    BY <2>1 DEF Phase, Range
  <2>3. left \subseteq IF exit[b] = 5 THEN {last} ELSE {}
    BY <2>1, <2>2 DEF Course, Written, Leftover
  <2>4. Cardinality(left) <= 1 /\ \A p \in left : p[1] = "bundle"
    <3>1. IsFiniteSet({last}) /\ Cardinality({last}) = 1
      BY FS_Singleton
    <3> HIDE DEF left
    <3>2. left \subseteq {last}
      BY <2>3
    <3>3. Cardinality(left) <= Cardinality({last})
      BY <3>1, <3>2, FS_Subset
    <3> QED BY <3>1, <3>2, <3>3
  <2>5. LlPath(b) \in WrittenBy(b) => command[b].raw \/ exit[b] \in {4, 5}
    BY <2>1 DEF Written
  <2> QED BY <2>3, <2>4, <2>5
<1>2. Tidied => Tidy
  BY <1>1 DEF Tidy
<1> QED BY <1>2, TidiedAlways, PTL
=============================================================================
