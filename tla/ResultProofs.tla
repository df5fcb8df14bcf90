---------------------------- MODULE ResultProofs ----------------------------
(***************************************************************************)
(* Proofs about module Driver: what the exit status of a build says.       *)
(*   Sound   Tidied, the objects of a build have different names, and what *)
(*           is compiled, what waits and what is carried are together what *)
(*           the program needs: gives Honest;                              *)
(*   Blamed  Sound, no source is compiled twice, and a linker that failed  *)
(*           had a reason: gives Blameless.                                *)
(***************************************************************************)
EXTENDS DriverProofs

(***************************************************************************)
(* The objects of a build have different names.                            *)
(***************************************************************************)
Numbered(b) ==
  /\ step[b] = "bundle" =>
       \A k \in DOMAIN temps[b] : temps[b][k][1] = "bundle" /\ temps[b][k][3] < count[b]
  /\ step[b] \in {"module", "source", "object"} =>
       \A k \in DOMAIN temps[b] : temps[b][k][1] = "embedded" => temps[b][k][3] < count[b]

\* A step of another build.
LEMMA NumberedStays ==
  ASSUME NEW b \in Builds, NEW c \in Builds, Same(c), Numbered(c)
  PROVE  Numbered(c)'
BY DEF Same, Numbered

\* A step of main.
LEMMA NumberedDriver ==
  ASSUME Based, NEW b \in Builds, Numbered(b),
         \/ Launch(b) \/ ReadSource(b) \/ Validate(b) \/ OpenIr(b) \/ EmitIr(b) \/ CallLinker(b)
         \/ Finish(b) \/ Kill(b)
  PROVE  Numbered(b)'
<1>1. CASE CallLinker(b)
  <2>1. temps[b] = <<>> /\ UNCHANGED temps
    BY <1>1 DEF CallLinker, StartLink, At, Based, Phase, Before
  <2> QED BY <2>1 DEF Numbered
<1>2. CASE \/ Launch(b) \/ ReadSource(b) \/ Validate(b) \/ OpenIr(b) \/ EmitIr(b)
           \/ Finish(b) \/ Kill(b)
  <2>1. UNCHANGED <<step, temps, count>>
    BY <1>2 DEF Launch, ReadSource, Validate, OpenIr, EmitIr, Finish, Kill, linkerVars
  <2> QED BY <2>1 DEF Numbered
<1> QED BY <1>1, <1>2

\* A step of the linker.
LEMMA NumberedLink ==
  ASSUME Based, NEW b \in Builds, Numbered(b), Link(b)
  PROVE  Numbered(b)'
<1>1. /\ step \in [Builds -> Steps] /\ count \in [Builds -> Nat]
      /\ temps \in [Builds -> Seq(ObjectName)] /\ Types
  BY DEF Based, Types, TypeOK
<1>2. CASE OpenDirectory(b)
  BY <1>2 DEF OpenDirectory, Numbered
<1>3. CASE BundlesCollected(b)
  <2>1. step[b] = "bundle" /\ step'[b] = "module" /\ UNCHANGED temps
    BY <1>1, <1>3 DEF BundlesCollected, GoesTo
  <2> QED BY <2>1 DEF Numbered
<1>4. CASE MakeDirectory(b) \/ WriteSource(b) \/ ModulesCollected(b)
  <2>1. /\ step[b] \in {"module", "source"} /\ step'[b] \in {"source", "object", "link", "cleanup"}
        /\ UNCHANGED <<temps, count>>
    BY <1>1, <1>4 DEF MakeDirectory, WriteSource, ModulesCollected, GoesTo, GivesUp
  <2> QED BY <2>1 DEF Numbered
<1>5. CASE UnknownPath(b) \/ NotCompiled(b) \/ NotBuilt(b, Used(b) \cup {Object(b, "embedded")})
           \/ RunClang(b, LlPath(b), OutPath(b), Natives(b)) \/ CleanUp(b)
  <2>1. step'[b] \in {"cleanup", "idle"}
    BY <1>1, <1>5 DEF UnknownPath, NotCompiled, NotBuilt, RunClang, CleanUp, GoesTo, GivesUp
  <2> QED BY <2>1 DEF Numbered
<1>6. CASE CompileSource(b) /\ Compiled(b)
  <2> DEFINE object == Object(b, "bundle")
  <2>1. object \in ObjectName /\ Recorded(b, object) /\ UNCHANGED step /\ step[b] = "bundle"
    BY <1>1, <1>6, OwnNames DEF Compiled, CompileSource, Collecting
  <2>2. count'[b] = count[b] + 1 /\ count[b] \in Nat
    BY <1>1, <1>6 DEF CompileSource
  <2>3. object[1] = "bundle" /\ object[3] = count[b]
    BY DEF Object
  <2> HIDE DEF object
  <2>4. temps'[b] = Append(temps[b], object)
    BY <1>1, <2>1, Recording
  <2>5. \A k \in DOMAIN temps'[b] : \/ k \in DOMAIN temps[b] /\ temps'[b][k] = temps[b][k]
                                    \/ temps'[b][k] = object
    BY <1>1, <2>1, <2>4
  <2>6. \A k \in DOMAIN temps[b] : temps[b][k] \in ObjectName
    BY <1>1
  <2>7. \A k \in DOMAIN temps[b] : temps[b][k][3] \in Nat
    BY <2>6 DEF ObjectName
  <2>8. \A k \in DOMAIN temps'[b] : temps'[b][k][1] = "bundle" /\ temps'[b][k][3] < count'[b]
    BY <2>1, <2>2, <2>3, <2>5, <2>7 DEF Numbered
  <2> QED BY <2>1, <2>8 DEF Numbered
<1>7. CASE CompileModule(b) /\ Built(b)
  <2> DEFINE object == Object(b, "embedded")
  <2>1. /\ object \in ObjectName /\ Recorded(b, object)
        /\ step[b] = "object" /\ step'[b] = "module"
    BY <1>1, <1>7, OwnNames DEF Built, CompileModule, GoesTo
  <2>2. count'[b] = count[b] + 1 /\ count[b] \in Nat
    BY <1>1, <1>7 DEF Built
  <2>3. object[1] = "embedded" /\ object[3] = count[b]
    BY DEF Object
  <2> HIDE DEF object
  <2>4. temps'[b] = Append(temps[b], object)
    BY <1>1, <2>1, Recording
  <2>5. \A k \in DOMAIN temps'[b] : \/ k \in DOMAIN temps[b] /\ temps'[b][k] = temps[b][k]
                                    \/ temps'[b][k] = object
    BY <1>1, <2>1, <2>4
  <2>6. \A k \in DOMAIN temps[b] : temps[b][k] \in ObjectName
    BY <1>1
  <2>7. \A k \in DOMAIN temps[b] : temps[b][k][3] \in Nat
    BY <2>6 DEF ObjectName
  <2>8. \A k \in DOMAIN temps'[b] : temps'[b][k][1] = "embedded" => temps'[b][k][3] < count'[b]
    BY <2>1, <2>2, <2>3, <2>5, <2>7 DEF Numbered
  <2> QED BY <2>1, <2>8 DEF Numbered
<1> QED BY <1>2, <1>3, <1>4, <1>5, <1>6, <1>7 DEF Link, Collect, CompileSource, CompileModule

\* So the object that is about to be made is not one of those there are.
LEMMA Fresh ==
  ASSUME Based, NEW b \in Builds, Numbered(b)
  PROVE  /\ step[b] = "bundle" => Object(b, "bundle") \notin Range(temps[b])
         /\ step[b] = "object" => Object(b, "embedded") \notin Range(temps[b])
         /\ Range(temps[b]) \cap Used(b) = {}
         /\ Outputs(b) \cap Temporary(b) = {}
         /\ Range(temps[b]) \subseteq Temporary(b)
<1>1. /\ \A k \in DOMAIN temps[b] : temps[b][k] \in ObjectName
      /\ count[b] \in Nat /\ command[b] \in Commands
  BY DEF Based, Types, TypeOK
<1>2. \A k \in DOMAIN temps[b] : temps[b][k][1] \in {"bundle", "embedded"} /\ temps[b][k][3] \in Nat
  BY <1>1 DEF ObjectName
<1>3. step[b] = "bundle" => Object(b, "bundle") \notin Range(temps[b])
  BY <1>1, <1>2 DEF Numbered, Object, Range
<1>4. step[b] = "object" => Object(b, "embedded") \notin Range(temps[b])
  BY <1>1, <1>2 DEF Numbered, Object, Range
<1>5. Range(temps[b]) \cap Used(b) = {}
  BY <1>2 DEF Range, Used, Directory, SourceFile, HeaderFile
<1>6. Outputs(b) \cap Temporary(b) = {}
  <2> SUFFICES ASSUME NEW q \in Outputs(b) PROVE q \notin Temporary(b)
    OBVIOUS
  <2>1. q[1] \in {"path", "ll"}
    BY <1>1, CommandsAssumption DEF Outputs, LlPath, OutPath
  <2> QED BY <2>1 DEF Temporary
<1>7. Range(temps[b]) \subseteq Temporary(b)
  BY DEF Based, Named, Range
<1> QED BY <1>3, <1>4, <1>5, <1>6, <1>7


(***************************************************************************)
(* What a step does to the files it does not name.                         *)
(***************************************************************************)
Stays(p) == p \in DOMAIN files' /\ files'[p] = files[p]

\* What stays when a file is written ...
LEMMA StayingWriting ==
  ASSUME NEW p, NEW content, files' = With(files, p, content)
  PROVE  /\ \A q \in DOMAIN files \ {p} : Stays(q)
         /\ p \in DOMAIN files' /\ files'[p] = content
BY DEF With, Stays

\* ... when two are ...
LEMMA StayingTwice ==
  ASSUME NEW p, NEW r, NEW content, files' = With(With(files, p, content), r, content)
  PROVE  /\ \A q \in DOMAIN files \ {p, r} : Stays(q)
         /\ \A q \in {p, r} : q \in DOMAIN files' /\ files'[q] = content
BY DEF With, Stays

\* ... when some are removed ...
LEMMA StayingRemoving ==
  ASSUME NEW ps, files' = Without(files, ps)
  PROVE  \A q \in DOMAIN files \ ps : Stays(q)
BY DEF Without, Stays

\* ... when one takes the place of others ...
LEMMA StayingReplacing ==
  ASSUME NEW ps, NEW p, NEW content, files' = With(Without(files, ps), p, content)
  PROVE  /\ \A q \in DOMAIN files \ (ps \cup {p}) : Stays(q)
         /\ p \in DOMAIN files' /\ files'[p] = content
BY DEF With, Without, Stays

\* ... and when the source of an embedded module is written.
LEMMA StayingSource ==
  ASSUME Based, NEW b \in Builds, WriteSource(b)
  PROVE  \/ /\ step'[b] = "object" /\ UNCHANGED linked
            /\ \A q \in DOMAIN files \ {SourceFile(b), HeaderFile(b)} : Stays(q)
         \/ /\ step'[b] = "cleanup" /\ linked'[b] = "failed"
            /\ \A q \in DOMAIN files \ {Directory(b)} : Stays(q)
<1> DEFINE written == With(files, SourceFile(b), Content(b, {}))
<1>1. \/ GoesTo(b, "object") /\ UNCHANGED linked /\ files' = With(written, HeaderFile(b), Content(b, {}))
      \/ GoesTo(b, "object") /\ UNCHANGED linked /\ files' = written
      \/ GivesUp(b) /\ files' = Without(files, {Directory(b)})
  BY DEF WriteSource
<1>2. /\ GoesTo(b, "object") => step'[b] = "object"
      /\ GivesUp(b) => step'[b] = "cleanup" /\ linked'[b] = "failed"
  BY DEF GoesTo, GivesUp, Based, Types, TypeOK
<1>3. CASE files' = With(written, HeaderFile(b), Content(b, {}))
  <2>1. \A q \in DOMAIN files \ {SourceFile(b), HeaderFile(b)} : Stays(q)
    BY <1>3, StayingTwice
  <2>2. CASE GivesUp(b) /\ files' = Without(files, {Directory(b)})
    BY <1>2, <2>2, StayingRemoving
  <2> HIDE DEF written
  <2> QED BY <1>1, <1>2, <2>1, <2>2
<1>4. CASE files' = written
  <2>1. \A q \in DOMAIN files \ {SourceFile(b)} : Stays(q)
    BY <1>4, StayingWriting
  <2>2. CASE GivesUp(b) /\ files' = Without(files, {Directory(b)})
    BY <1>2, <2>2, StayingRemoving
  <2> HIDE DEF written
  <2> QED BY <1>1, <1>2, <2>1, <2>2
<1>5. CASE GivesUp(b) /\ files' = Without(files, {Directory(b)})
  BY <1>2, <1>5, StayingRemoving
<1> HIDE DEF written
<1> QED BY <1>1, <1>3, <1>4, <1>5

\* The linker leaves the file of IR, and writes the executable in one step.
LEMMA StayingLink ==
  ASSUME Based, NEW b \in Builds, Numbered(b), Link(b)
  PROVE  /\ \A q \in DOMAIN files \ (Temporary(b) \cup {OutPath(b)}) : Stays(q)
         /\ step[b] # "link" /\ OutPath(b) \in DOMAIN files => Stays(OutPath(b))
<1>1. /\ Types /\ Phase(b) /\ OutPath(b) \in Outputs(b)
      /\ Range(temps[b]) \subseteq Temporary(b) /\ Outputs(b) \cap Temporary(b) = {}
      /\ Used(b) \cup {Object(b, "embedded"), Object(b, "bundle")} \subseteq Temporary(b)
  BY Fresh, OwnNames DEF Based, Outputs, Used
<1> DEFINE named == Temporary(b) \cup (IF step[b] = "link" THEN {OutPath(b)} ELSE {})
<1>2. SUFFICES \A q \in DOMAIN files \ named : Stays(q)
  BY <1>1
<1>3. CASE \/ OpenDirectory(b) \/ UnknownPath(b) \/ BundlesCollected(b) \/ ModulesCollected(b)
  BY <1>3 DEF OpenDirectory, UnknownPath, BundlesCollected, ModulesCollected, Quiet, Stays
<1>4. CASE CompileSource(b)
  <2>1. \/ files' = files
        \/ files' = With(files, Object(b, "bundle"), Torn(b))
        \/ files' = With(files, Object(b, "bundle"), Content(b, {Head(todo[b]).name}))
    BY <1>4 DEF CompileSource, Compiled, NotCompiled
  <2>2. \A q \in DOMAIN files \ {Object(b, "bundle")} : Stays(q)
    BY <2>1, StayingWriting DEF Stays
  <2> QED BY <1>1, <2>2
<1>5. CASE MakeDirectory(b)
  <2>1. files' = files \/ files' = With(files, Directory(b), Content(b, {}))
    BY <1>5 DEF MakeDirectory, Quiet
  <2>2. \A q \in DOMAIN files \ {Directory(b)} : Stays(q)
    BY <2>1, StayingWriting DEF Stays
  <2> QED BY <1>1, <2>2 DEF Used
<1>6. CASE WriteSource(b)
  <2>1. \A q \in DOMAIN files \ Used(b) : Stays(q)
    BY <1>6, StayingSource DEF Used
  <2> QED BY <1>1, <2>1
<1>7. CASE CompileModule(b)
  <2> DEFINE removed == Used(b) \cup {Object(b, "embedded")}
  <2>1. CASE Built(b)
    <3>1. files' = With(Without(files, Used(b)), Object(b, "embedded"),
                        Content(b, {Carried[Head(modules[b])].source}))
      BY <2>1 DEF Built
    <3> QED BY <1>1, <3>1, StayingReplacing
  <2>2. CASE NotBuilt(b, removed)
    <3>1. files' = Without(files, removed)
      BY <1>1, <1>7, <2>2, CompilingModule DEF Link, CompileModule, Phase
    <3> QED BY <1>1, <3>1, StayingRemoving
  <2> QED BY <1>7, <2>1, <2>2 DEF CompileModule
<1>8. CASE RunClang(b, LlPath(b), OutPath(b), Natives(b))
  <2>1. step[b] = "link" /\ (files' = files \/ \E content : files' = With(files, OutPath(b), content))
    BY <1>8 DEF RunClang
  <2>2. \A q \in DOMAIN files \ {OutPath(b)} : Stays(q)
    BY <2>1, StayingWriting DEF Stays
  <2> QED BY <2>1, <2>2
<1>9. CASE CleanUp(b)
  <2>1. files' = Without(files, Range(temps[b]))
    BY <1>9 DEF CleanUp
  <2> QED BY <1>1, <2>1, StayingRemoving
<1> QED BY <1>3, <1>4, <1>5, <1>6, <1>7, <1>8, <1>9 DEF Link, Collect

(***************************************************************************)
(* What is in the files of a build that shares no output.                  *)
(***************************************************************************)
SourcesOf(item) == IF item.kind = "c" THEN {item.name} ELSE Range(item.sources)
Waiting(b) == UNION {SourcesOf(item) : item \in Range(todo[b])}
Carry(b)   == {Carried[m].source : m \in Range(modules[b])}
Parts(b)   == UNION {files[p].parts : p \in Range(temps[b])}
Sources(b) == EmbeddedSources(b) \cup BundledSources(b)
Whole(b)   == {b} \cup Sources(b) \cup Natives(b)

IrWhole(b)   == LlPath(b) \in WrittenBy(b) /\ files[LlPath(b)] = Content(b, {b})
Collected(b) == /\ Range(temps[b]) \subseteq WrittenBy(b)
                /\ ~trouble[b] => Parts(b) \cup Waiting(b) \cup Carry(b) = Sources(b)
Delivered(b) == /\ OutPath(b) \in WrittenBy(b)
                /\ ~trouble[b] => files[OutPath(b)].parts = Whole(b)
Safe(b) ==
  /\ pc[b] = "emit" => LlPath(b) \in WrittenBy(b)
  /\ pc[b] \in {"link", "linking"} => IrWhole(b)
  /\ pc[b] = "linking" /\ linked[b] = "none" => Collected(b)
  /\ pc[b] \in {"linking", "exited"} /\ linked[b] = "ok" => Delivered(b)


\* What a program needs is settled when its analysis is.
LEMMA Settled ==
  ASSUME NEW b \in Builds, command' = command, analysis' = analysis
  PROVE  /\ Sources(b)' = Sources(b) /\ Whole(b)' = Whole(b) /\ Outputs(b)' = Outputs(b)
         /\ LlPath(b)' = LlPath(b) /\ OutPath(b)' = OutPath(b) /\ Natives(b)' = Natives(b)
         /\ Twice(b)' = Twice(b) /\ Bundles(b)' = Bundles(b)
<1>1. /\ Outputs(b)' = Outputs(b) /\ LlPath(b)' = LlPath(b) /\ OutPath(b)' = OutPath(b)
      /\ Natives(b)' = Natives(b)
  BY DEF Outputs, LlPath, OutPath, Natives
<1>2. Bundles(b)' = Bundles(b)
  BY DEF Bundles
<1>3. BundledSources(b)' = BundledSources(b)
  BY <1>2 DEF BundledSources
<1>4. EmbeddedSources(b)' = EmbeddedSources(b)
  BY DEF EmbeddedSources
<1> QED BY <1>1, <1>2, <1>3, <1>4 DEF Sources, Whole, Twice

\* Who shares outputs goes on sharing them.
LEMMA UnsharedBefore ==
  ASSUME Based, NEW b \in Builds, Launch(b) \/ Step(b) \/ Kill(b), NEW c \in Builds, Unshared(c)'
  PROVE  Unshared(c)
<1>1. Frame(b) /\ command' = command
  BY StepBased DEF Frame
<1>2. \A d \in Builds : pc[d] # "idle" => pc'[d] # "idle"
  <2> TAKE d \in Builds
  <2>1. CASE d = b
    BY <2>1, LaunchStep, OwnStep
  <2>2. CASE d # b
    BY <1>1, <2>2 DEF Frame, Same
  <2> QED BY <2>1, <2>2
<1>3. /\ LlPath(c)' = LlPath(c) /\ OutPath(c)' = OutPath(c)
      /\ \A d \in Builds : Outputs(d)' = Outputs(d)
  BY <1>1 DEF Outputs, LlPath, OutPath
<1> QED BY <1>2, <1>3 DEF Unshared

\* Objects that stay hold what they held.
LEMMA PartsStay ==
  ASSUME NEW b \in Builds, temps'[b] = temps[b], Range(temps[b]) \subseteq WrittenBy(b),
         \A p \in Range(temps[b]) : Stays(p)
  PROVE  Parts(b)' = Parts(b) /\ Range(temps[b])' \subseteq WrittenBy(b)'
<1>1. \A p \in Range(temps[b]) : p \in DOMAIN files' /\ files'[p] = files[p] /\ files[p].by = b
  BY DEF Stays, WrittenBy
<1>2. Range(temps[b])' = Range(temps[b])
  BY DEF Range
<1>3. Parts(b)' = Parts(b)
  BY <1>1, <1>2 DEF Parts
<1>4. Range(temps[b])' \subseteq WrittenBy(b)'
  BY <1>1, <1>2 DEF WrittenBy
<1> QED BY <1>3, <1>4

\* A step of another build.
LEMMA SafeStays ==
  ASSUME Owned, NEW b \in Builds, Launch(b) \/ Step(b) \/ Kill(b),
         NEW c \in Builds \ {b}, Unshared(c), Safe(c)
  PROVE  Safe(c)'
<1>1. Frame(b) /\ Same(c) /\ command' = command /\ analysis' = analysis
  BY StepBased DEF Owned, Frame
<1>2. \A p \in Kept(c) : Stays(p)
  BY Preserved DEF Stays
<1>3. \A p : p \in WrittenBy(c) /\ Stays(p) => p \in WrittenBy(c)' /\ files'[p] = files[p]
  BY DEF WrittenBy, Stays
<1>4. \A p \in WrittenBy(c) : Running(c) \/ p \in Outputs(c) => Stays(p)
  BY <1>2 DEF Kept
<1>5. /\ Sources(c)' = Sources(c) /\ Whole(c)' = Whole(c)
      /\ LlPath(c)' = LlPath(c) /\ OutPath(c)' = OutPath(c) /\ OutPath(c) \in Outputs(c)
  BY <1>1, Settled DEF Outputs
<1>6. /\ pc'[c] = pc[c] /\ linked'[c] = linked[c] /\ trouble'[c] = trouble[c]
      /\ todo'[c] = todo[c] /\ modules'[c] = modules[c] /\ temps'[c] = temps[c]
  BY <1>1 DEF Same
<1>7. pc[c] = "emit" => LlPath(c)' \in WrittenBy(c)'
  BY <1>3, <1>4, <1>5 DEF Safe, Running
<1>8. pc[c] \in {"link", "linking"} => IrWhole(c)'
  BY <1>3, <1>4, <1>5 DEF Safe, IrWhole, Running, Content
<1>9. pc[c] = "linking" /\ linked[c] = "none" => Collected(c)'
  <2> SUFFICES ASSUME pc[c] = "linking", linked[c] = "none"
               PROVE  Collected(c)'
    OBVIOUS
  <2>1. Collected(c) /\ Running(c)
    BY DEF Safe, Running
  <2>2. Parts(c)' = Parts(c) /\ Range(temps[c])' \subseteq WrittenBy(c)'
    BY <1>4, <1>6, <2>1, PartsStay DEF Collected
  <2>3. Waiting(c)' = Waiting(c) /\ Carry(c)' = Carry(c)
    BY <1>6 DEF Waiting, Carry, SourcesOf
  <2> QED BY <1>5, <1>6, <2>1, <2>2, <2>3 DEF Collected
<1>10. pc[c] \in {"linking", "exited"} /\ linked[c] = "ok" => Delivered(c)'
  BY <1>3, <1>4, <1>5, <1>6 DEF Safe, Delivered
<1> QED BY <1>6, <1>7, <1>8, <1>9, <1>10 DEF Safe

\* What waits when the first of a sequence is dealt with.
LEMMA RangeHead ==
  ASSUME NEW S, NEW q \in Seq(S), q # <<>>
  PROVE  Range(q) = {Head(q)} \cup Range(Tail(q)) /\ Head(q) \in S /\ Tail(q) \in Seq(S)
<1> DEFINE rest == Tail(q)
<1>1. /\ Head(q) \in S /\ rest \in Seq(S) /\ Len(rest) = Len(q) - 1 /\ Len(q) \in Nat \ {0}
      /\ Head(q) = q[1] /\ \A k \in 1 .. Len(rest) : rest[k] = q[k + 1]
      /\ DOMAIN q = 1 .. Len(q) /\ DOMAIN rest = 1 .. Len(rest)
  BY HeadTailProperties
<1> HIDE DEF rest
<1>2. \A k \in DOMAIN q : k = 1 \/ (k - 1 \in DOMAIN rest /\ rest[k - 1] = q[k])
  BY <1>1
<1>3. Range(q) \subseteq {Head(q)} \cup Range(rest)
  BY <1>1, <1>2 DEF Range
<1>4. \A k \in DOMAIN rest : k + 1 \in DOMAIN q /\ q[k + 1] = rest[k]
  BY <1>1
<1>5. {Head(q)} \cup Range(rest) \subseteq Range(q)
  BY <1>1, <1>4 DEF Range
<1> QED BY <1>1, <1>3, <1>5 DEF rest

\* The bundle path at the front ...
LEMMA WaitingHead ==
  ASSUME Types, NEW b \in Builds, todo[b] # <<>>
  PROVE  Waiting(b) = SourcesOf(Head(todo[b])) \cup UNION {SourcesOf(i) : i \in Range(Tail(todo[b]))}
<1>1. Range(todo[b]) = {Head(todo[b])} \cup Range(Tail(todo[b]))
  BY RangeHead DEF Types
<1> QED BY <1>1 DEF Waiting

\* ... and the embedded module at the front.
LEMMA CarryHead ==
  ASSUME Types, NEW b \in Builds, modules[b] # <<>>
  PROVE  /\ Head(modules[b]) \in DOMAIN Carried
         /\ Carry(b) = {Carried[Head(modules[b])].source}
                         \cup {Carried[m].source : m \in Range(Tail(modules[b]))}
<1>1. Range(modules[b]) = {Head(modules[b])} \cup Range(Tail(modules[b]))
      /\ Head(modules[b]) \in DOMAIN Carried
  BY RangeHead DEF Types
<1> QED BY <1>1 DEF Carry


\* A step of main.
LEMMA SafeDriver ==
  ASSUME Tidied, NEW b \in Builds, Unshared(b), Safe(b),
         \/ Launch(b) \/ ReadSource(b) \/ Validate(b) \/ OpenIr(b) \/ EmitIr(b)
         \/ Finish(b) \/ Kill(b)
  PROVE  Safe(b)'
<1>1. /\ pc \in [Builds -> Places] /\ Types /\ Phase(b) /\ Frame(b)
      /\ command' = command /\ analysis' = analysis
  BY StepBased DEF Tidied, Owned, Based, Types, TypeOK, Frame, Step
<1>2. /\ LlPath(b)' = LlPath(b) /\ OutPath(b)' = OutPath(b) /\ Whole(b)' = Whole(b)
  BY <1>1, Settled
<1>3. Torn(b).by = b /\ Content(b, {b}).by = b
  BY DEF Torn, Content
<1>4. CASE Launch(b) \/ ReadSource(b) \/ Validate(b)
  <2>1. /\ pc'[b] \in {"read", "validate", "open", "exited"} /\ linked'[b] = "none"
    <3>1. pc[b] \in Before /\ UNCHANGED linked
      BY <1>4 DEF Launch, ReadSource, Validate, At, Before, linkerVars
    <3>2. linked[b] = "none"
      BY <1>1, <3>1 DEF Phase
    <3>3. pc'[b] \in {"read", "validate", "open", "exited"}
      BY <1>1, <1>4, LaunchStep DEF Tidied, Owned, ReadSource, Validate, GoTo, Exits
    <3> QED BY <3>1, <3>2, <3>3
  <2> QED BY <2>1 DEF Safe
<1>5. CASE OpenIr(b)
  <2>1. pc[b] = "open" /\ linked'[b] = "none"
    BY <1>1, <1>5 DEF OpenIr, At, Phase, Before
  <2>2. \/ pc'[b] = "emit" /\ files' = With(files, LlPath(b), Torn(b))
        \/ pc'[b] = "exited"
    BY <1>1, <1>5 DEF OpenIr, GoTo, Exits
  <2>3. pc'[b] = "emit" => LlPath(b) \in WrittenBy(b)'
    BY <1>3, <2>2, WrittenWriting
  <2> QED BY <1>2, <2>1, <2>2, <2>3 DEF Safe
<1>6. CASE EmitIr(b)
  <2>1. pc[b] = "emit" /\ linked'[b] = "none" /\ LlPath(b) \in DOMAIN files
    BY <1>1, <1>6 DEF EmitIr, At, Phase, Before, Safe, WrittenBy
  <2>2. \/ pc'[b] = "link" /\ files' = With(files, LlPath(b), Content(b, {b}))
        \/ pc'[b] = "exited"
    BY <1>1, <1>6, <2>1 DEF EmitIr, GoTo, Exits, Exists
  <2>3. pc'[b] = "link" => LlPath(b) \in WrittenBy(b)' /\ files'[LlPath(b)] = Content(b, {b})
    BY <1>3, <2>2, WrittenWriting, StayingWriting
  <2>4. pc'[b] = "link" => IrWhole(b)'
    BY <1>2, <2>3 DEF IrWhole, Content
  <2> QED BY <2>1, <2>2, <2>4 DEF Safe
<1>7. CASE Finish(b)
  <2>1. pc[b] = "linking" /\ pc'[b] = "exited" /\ UNCHANGED <<linked, trouble>>
    BY <1>1, <1>7 DEF Finish, At, GoTo, Exits
  <2>2. SUFFICES ASSUME linked[b] = "ok" PROVE Delivered(b)'
    BY <2>1 DEF Safe
  <2>3. Delivered(b) /\ files' = Without(files, {LlPath(b)}) /\ OutPath(b) # LlPath(b)
    BY <1>7, <2>1, <2>2 DEF Safe, Finish, Unshared
  <2>4. OutPath(b) \in WrittenBy(b)'
    BY <2>3, WrittenRemoving DEF Delivered
  <2>5. files'[OutPath(b)] = files[OutPath(b)]
    BY <2>3, StayingRemoving DEF Delivered, WrittenBy, Stays
  <2> QED BY <1>2, <2>1, <2>3, <2>4, <2>5 DEF Delivered
<1>8. CASE Kill(b)
  <2>1. pc'[b] = "killed"
    BY <1>1, <1>8 DEF Kill, GoTo
  <2> QED BY <2>1 DEF Safe
<1> QED BY <1>4, <1>5, <1>6, <1>7, <1>8

\* What the linker is called with are the sources of the program's modules.
LEMMA CalledWith ==
  ASSUME Types, NEW b \in Builds, todo'[b] = Bundles(b), modules'[b] = analysis[b].embedded
  PROVE  Waiting(b)' = BundledSources(b) /\ Carry(b)' = EmbeddedSources(b)
<1>1. \A k \in DOMAIN Bundles(b) : Bundles(b)[k].kind # "c"
  <2>1. /\ Len(Bundles(b)) = Len(analysis[b].bundles) + 1 /\ DOMAIN Bundles(b) = 1 .. Len(Bundles(b))
        /\ Bundles(b)[1] \in {Entry[Runtime], Missing}
        /\ \A k \in 2 .. Len(Bundles(b)) : Bundles(b)[k] = Entry[analysis[b].bundles[k - 1]]
    BY BundlesType
  <2>2. analysis[b].bundles \in Seq(DOMAIN Entry)
    BY AnalysisAssumption DEF Types, TypeOK
  <2>3. \A p \in DOMAIN Entry : Entry[p].kind = "directory"
    BY EntryAssumption
  <2>4. Missing.kind = "unknown" /\ Entry[Runtime].kind = "directory"
    BY EntryAssumption DEF Missing
  <2> TAKE k \in DOMAIN Bundles(b)
  <2>5. CASE k = 1
    BY <2>1, <2>4, <2>5
  <2>6. CASE k # 1
    <3> DEFINE found == analysis[b].bundles
    <3>1. Len(found) \in Nat /\ k \in 2 .. Len(found) + 1 /\ Bundles(b)[k] = Entry[found[k - 1]]
      BY <2>1, <2>2, <2>6
    <3>2. found[k - 1] \in DOMAIN Entry
      <4> HIDE DEF found
      <4>1. k - 1 \in 1 .. Len(found)
        BY <3>1
      <4>2. found \in Seq(DOMAIN Entry)
        BY <2>2 DEF found
      <4> QED BY <4>1, <4>2
    <3> QED BY <2>3, <3>1, <3>2
  <2> QED BY <2>5, <2>6
<1>2. Waiting(b)' = BundledSources(b)
  <2>1. Waiting(b)' = UNION {SourcesOf(item) : item \in Range(Bundles(b))}
    BY DEF Waiting, SourcesOf
  <2>2. \A k \in DOMAIN Bundles(b) : SourcesOf(Bundles(b)[k]) = Range(Bundles(b)[k].sources)
    BY <1>1 DEF SourcesOf
  <2> QED BY <2>1, <2>2 DEF BundledSources, Range
<1>3. Carry(b)' = EmbeddedSources(b)
  <2>1. analysis[b].embedded \in Seq(DOMAIN Carried)
    BY AnalysisAssumption DEF Types, TypeOK
  <2>2. Range(analysis[b].embedded) \subseteq DOMAIN Carried
    BY <2>1 DEF Range
  <2> QED BY <2>2 DEF Carry, EmbeddedSources
<1> QED BY <1>2, <1>3

\* The call of the linker.
LEMMA SafeCall ==
  ASSUME Tidied, NEW b \in Builds, Safe(b), CallLinker(b)
  PROVE  Safe(b)'
<1>1. /\ Types /\ Phase(b) /\ command' = command /\ analysis' = analysis
      /\ pc[b] = "link" /\ pc'[b] = "linking" /\ UNCHANGED <<files, temps, linked>>
  BY DEF Tidied, Owned, Based, Types, TypeOK, CallLinker, StartLink, At, GoTo, given
<1>2. linked[b] = "none" /\ temps[b] = <<>>
  BY <1>1 DEF Phase, Before
<1>3. todo'[b] = Bundles(b) /\ modules'[b] = analysis[b].embedded
  BY <1>1 DEF CallLinker, StartLink, Types
<1>4. Waiting(b)' \cup Carry(b)' = Sources(b)
  BY <1>1, <1>3, CalledWith DEF Sources
<1>5. Range(temps'[b]) = {}
  BY <1>1, <1>2 DEF Range
<1>6. Collected(b)'
  BY <1>1, <1>4, <1>5, Settled DEF Collected, Parts
<1>7. IrWhole(b)'
  <2>1. LlPath(b)' = LlPath(b) /\ WrittenBy(b)' = WrittenBy(b)
    BY <1>1, Settled DEF WrittenBy
  <2> QED BY <1>1, <2>1 DEF Safe, IrWhole, Content
<1> QED BY <1>1, <1>2, <1>6, <1>7 DEF Safe


\* A directory is replaced by the sources in it.
LEMMA OpenedEffect ==
  ASSUME Types, NEW b \in Builds, todo[b] # <<>>, Head(todo[b]).kind = "directory",
         todo'[b] = Unfolded(b)
  PROVE  Waiting(b)' = Waiting(b)
<1> DEFINE first == Head(todo[b]).sources
           rest  == Tail(todo[b])
           all   == Unfolded(b)
           C(n)  == [kind |-> "c", name |-> n, sources |-> <<>>]
<1>1. /\ first \in Seq(STRING) /\ rest \in Seq(Item) /\ all \in Seq(Item)
      /\ Len(all) = Len(first) + Len(rest)
      /\ \A k \in 1 .. Len(first) : all[k] = C(first[k])
      /\ \A k \in 1 .. Len(rest) : all[Len(first) + k] = rest[k]
  BY Unfolding
<1>2. SourcesOf(Head(todo[b])) = Range(first)
  BY DEF SourcesOf
<1>3. \A n : SourcesOf(C(n)) = {n}
  BY DEF SourcesOf
<1>4. Waiting(b) = Range(first) \cup UNION {SourcesOf(i) : i \in Range(rest)}
  BY <1>2, WaitingHead
<1>5. Waiting(b)' = UNION {SourcesOf(i) : i \in Range(all)}
  BY DEF Waiting, SourcesOf
<1> HIDE DEF first, rest, all, C
<1>6. /\ DOMAIN first = 1 .. Len(first) /\ DOMAIN rest = 1 .. Len(rest)
      /\ DOMAIN all = 1 .. Len(first) + Len(rest) /\ Len(first) \in Nat /\ Len(rest) \in Nat
  BY <1>1
<1>7. /\ \A k \in DOMAIN first : all[k] = C(first[k])
      /\ \A k \in DOMAIN rest : all[Len(first) + k] = rest[k]
  BY <1>1, <1>6
<1>8. /\ \A k \in DOMAIN first : k \in DOMAIN all
      /\ \A k \in DOMAIN rest : Len(first) + k \in DOMAIN all
  BY <1>6
<1>9. ASSUME NEW k \in DOMAIN all, k \notin DOMAIN first
      PROVE  k - Len(first) \in DOMAIN rest /\ k = Len(first) + (k - Len(first))
  BY <1>6, <1>9
<1>10. Range(all) = {C(n) : n \in Range(first)} \cup Range(rest)
  <2>1. \A k \in DOMAIN all : k \in DOMAIN first \/ (\E j \in DOMAIN rest : k = Len(first) + j)
    BY <1>9
  <2> QED BY <1>7, <1>8, <2>1 DEF Range
<1> QED BY <1>3, <1>4, <1>5, <1>10

\* A source that is compiled is the object's, and waits no more.
LEMMA CompiledEffect ==
  ASSUME Based, NEW b \in Builds, Numbered(b), Range(temps[b]) \subseteq WrittenBy(b),
         CompileSource(b), Compiled(b)
  PROVE  LET object == Object(b, "bundle")
             name   == Head(todo[b]).name
         IN  /\ object \in ObjectName /\ temps'[b] = Append(temps[b], object)
             /\ \A p \in Range(temps[b]) : p \in DOMAIN files' /\ files'[p] = files[p]
             /\ files'[object].parts = {name}
             /\ Range(temps'[b]) \subseteq WrittenBy(b)'
             /\ Parts(b)' = Parts(b) \cup {name}
             /\ SourcesOf(Head(todo[b])) = {name} /\ Waiting(b) = {name} \cup Waiting(b)'
             /\ todo[b] # <<>> /\ todo'[b] = Tail(todo[b]) /\ UNCHANGED <<modules, trouble>>
<1> DEFINE object == Object(b, "bundle")
           name   == Head(todo[b]).name
<1>1. /\ Types /\ step[b] = "bundle" /\ todo[b] # <<>> /\ Head(todo[b]).kind = "c"
      /\ UNCHANGED <<modules, trouble>>
  BY DEF Based, CompileSource, Collecting, Compiled
<1>2. /\ todo \in [Builds -> Seq(Item)] /\ temps \in [Builds -> Seq(ObjectName)]
  BY <1>1 DEF Types
<1>3. /\ files' = With(files, object, Content(b, {name})) /\ Recorded(b, object)
      /\ todo'[b] = Tail(todo[b]) /\ object \in ObjectName
  BY <1>1, <1>2, OwnNames DEF Compiled
<1>4. object \notin Range(temps[b])
  BY <1>1, Fresh
<1>5. Content(b, {name}).by = b /\ Content(b, {name}).parts = {name}
  BY DEF Content
<1>6. SourcesOf(Head(todo[b])) = {name}
  BY <1>1 DEF SourcesOf
<1>7. Waiting(b) = {name} \cup Waiting(b)'
  <2>1. Waiting(b)' = UNION {SourcesOf(i) : i \in Range(Tail(todo[b]))}
    BY <1>3 DEF Waiting, SourcesOf
  <2> QED BY <1>1, <1>6, <2>1, WaitingHead
<1> HIDE DEF object, name
<1>8. temps'[b] = Append(temps[b], object)
  BY <1>1, <1>2, <1>3, Recording
<1>9. Range(temps'[b]) = Range(temps[b]) \cup {object}
  BY <1>2, <1>3, <1>8, RangeAppended
<1>10. /\ \A p \in Range(temps[b]) : p \in DOMAIN files' /\ files'[p] = files[p]
       /\ files'[object] = Content(b, {name})
  BY <1>3, <1>4, StayingWriting DEF Stays, WrittenBy
<1>11. Range(temps'[b]) \subseteq WrittenBy(b)'
  BY <1>3, <1>5, <1>9, WrittenWriting
<1>12. Parts(b)' = Parts(b) \cup {name}
  BY <1>5, <1>9, <1>10 DEF Parts
<1> QED BY <1>1, <1>3, <1>5, <1>6, <1>7, <1>8, <1>10, <1>11, <1>12 DEF object, name

\* The same for a module the compiler carries.
LEMMA BuiltEffect ==
  ASSUME Based, NEW b \in Builds, Numbered(b), Range(temps[b]) \subseteq WrittenBy(b),
         CompileModule(b), Built(b)
  PROVE  LET object == Object(b, "embedded")
             source == Carried[Head(modules[b])].source
         IN  /\ object \in ObjectName /\ temps'[b] = Append(temps[b], object)
             /\ \A p \in Range(temps[b]) : p \in DOMAIN files' /\ files'[p] = files[p]
             /\ files'[object].parts = {source}
             /\ Range(temps'[b]) \subseteq WrittenBy(b)'
             /\ Parts(b)' = Parts(b) \cup {source}
             /\ Carry(b) = {source} \cup Carry(b)'
             /\ modules[b] # <<>> /\ modules'[b] = Tail(modules[b]) /\ UNCHANGED <<todo, trouble>>
<1> DEFINE object == Object(b, "embedded")
           source == Carried[Head(modules[b])].source
<1>1. /\ Types /\ step[b] = "object" /\ modules[b] # <<>> /\ UNCHANGED <<todo, trouble>>
  BY DEF Based, CompileModule, Built, Phase
<1>2. /\ modules \in [Builds -> Seq(DOMAIN Carried)] /\ temps \in [Builds -> Seq(ObjectName)]
  BY <1>1 DEF Types
<1>3. /\ files' = With(Without(files, Used(b)), object, Content(b, {source})) /\ Recorded(b, object)
      /\ modules'[b] = Tail(modules[b]) /\ object \in ObjectName
  BY <1>1, <1>2, OwnNames DEF Built
<1>4. object \notin Range(temps[b]) /\ Range(temps[b]) \cap Used(b) = {}
  BY <1>1, Fresh
<1>5. Content(b, {source}).by = b /\ Content(b, {source}).parts = {source}
  BY DEF Content
<1>6. Carry(b) = {source} \cup Carry(b)'
  <2>1. Carry(b)' = {Carried[m].source : m \in Range(Tail(modules[b]))}
    BY <1>3 DEF Carry
  <2> QED BY <1>1, <2>1, CarryHead
<1> HIDE DEF object, source
<1>7. temps'[b] = Append(temps[b], object)
  BY <1>1, <1>2, <1>3, Recording
<1>8. Range(temps'[b]) = Range(temps[b]) \cup {object}
  BY <1>2, <1>3, <1>7, RangeAppended
<1>9. /\ \A p \in Range(temps[b]) : p \in DOMAIN files' /\ files'[p] = files[p]
      /\ files'[object] = Content(b, {source})
  <2>1. /\ \A q \in DOMAIN files \ (Used(b) \cup {object}) : Stays(q)
        /\ files'[object] = Content(b, {source})
    BY <1>3, StayingReplacing
  <2>2. Range(temps[b]) \subseteq DOMAIN files
    BY DEF WrittenBy
  <2> QED BY <1>4, <2>1, <2>2 DEF Stays
<1>10. Range(temps'[b]) \subseteq WrittenBy(b)'
  <2>1. WrittenBy(b)' = (WrittenBy(b) \ Used(b)) \cup {object}
    BY <1>3, <1>5, WrittenReplacing
  <2> QED BY <1>4, <1>8, <2>1
<1>11. Parts(b)' = Parts(b) \cup {source}
  <2>1. Parts(b)' = UNION {files'[p].parts : p \in Range(temps[b]) \cup {object}}
    BY <1>8 DEF Parts
  <2>2. files'[object].parts = {source}
    BY <1>5, <1>9
  <2>3. \A p \in Range(temps[b]) : files'[p].parts = files[p].parts
    BY <1>9
  <2> QED BY <2>1, <2>2, <2>3 DEF Parts
<1> QED BY <1>1, <1>3, <1>5, <1>6, <1>7, <1>9, <1>10, <1>11 DEF object, source

\* The other steps of the collection leave the objects.
LEMMA ObjectsStay ==
  ASSUME Based, NEW b \in Builds, Numbered(b), Range(temps[b]) \subseteq WrittenBy(b),
         linked'[b] = "none",
         \/ OpenDirectory(b) \/ BundlesCollected(b) \/ MakeDirectory(b) \/ WriteSource(b)
         \/ ModulesCollected(b)
  PROVE  /\ temps'[b] = temps[b] /\ \A p \in Range(temps[b]) : Stays(p)
         /\ modules'[b] = modules[b] /\ (~OpenDirectory(b) => todo'[b] = todo[b])
         /\ trouble[b] => trouble'[b]
<1>1. UNCHANGED <<temps, modules>> /\ (~OpenDirectory(b) => UNCHANGED todo)
  BY DEF OpenDirectory, BundlesCollected, MakeDirectory, WriteSource, ModulesCollected
<1>2. Range(temps[b]) \cap Used(b) = {}
  BY Fresh
<1>3. trouble[b] => trouble'[b]
  <2>1. trouble \in [Builds -> BOOLEAN]
    BY DEF Based, Types, TypeOK
  <2> QED BY <2>1 DEF OpenDirectory, BundlesCollected, MakeDirectory, WriteSource, ModulesCollected,
                      Troubled, Quiet
<1>4. \A p \in Range(temps[b]) : Stays(p)
  <2>1. CASE MakeDirectory(b)
    <3>1. files' = files \/ files' = With(files, Directory(b), Content(b, {}))
      BY <2>1 DEF MakeDirectory, Quiet
    <3>2. \A q \in DOMAIN files \ {Directory(b)} : Stays(q)
      BY <3>1, StayingWriting DEF Stays
    <3> QED BY <1>2, <3>2 DEF Used, WrittenBy
  <2>2. CASE WriteSource(b)
    <3>1. \A q \in DOMAIN files \ Used(b) : Stays(q)
      BY <2>2, StayingSource DEF Used
    <3> QED BY <1>2, <3>1 DEF WrittenBy
  <2>3. CASE OpenDirectory(b) \/ BundlesCollected(b) \/ ModulesCollected(b)
    BY <2>3 DEF OpenDirectory, BundlesCollected, ModulesCollected, Quiet, Stays, WrittenBy
  <2> QED BY <2>1, <2>2, <2>3
<1> QED BY <1>1, <1>3, <1>4

\* While it collects, what has been compiled, what waits and what is carried are together what the
\* program needs.
LEMMA CollectedStays ==
  ASSUME Based, NEW b \in Builds, Numbered(b), Collected(b), linked'[b] = "none",
         \/ OpenDirectory(b) \/ CompileSource(b) \/ BundlesCollected(b) \/ MakeDirectory(b)
         \/ WriteSource(b) \/ CompileModule(b) \/ ModulesCollected(b),
         command' = command, analysis' = analysis
  PROVE  Collected(b)'
<1>1. Types /\ Sources(b)' = Sources(b) /\ Range(temps[b]) \subseteq WrittenBy(b)
  BY Settled DEF Based, Collected
<1>2. /\ trouble \in [Builds -> BOOLEAN] /\ linked \in [Builds -> {"none", "ok", "failed"}]
      /\ todo \in [Builds -> Seq(Item)]
  BY <1>1 DEF Types, TypeOK
<1>3. CASE CompileSource(b)
  <2>1. Compiled(b)
    BY <1>2, <1>3 DEF CompileSource, NotCompiled, GivesUp
  <2>2. /\ Range(temps'[b]) \subseteq WrittenBy(b)' /\ Parts(b)' = Parts(b) \cup {Head(todo[b]).name}
        /\ Waiting(b) = {Head(todo[b]).name} \cup Waiting(b)' /\ UNCHANGED <<modules, trouble>>
    BY <1>1, <1>3, <2>1, CompiledEffect
  <2>3. Carry(b)' = Carry(b)
    BY <2>2 DEF Carry
  <2> QED BY <1>1, <2>2, <2>3 DEF Collected
<1>4. CASE CompileModule(b)
  <2> DEFINE source == Carried[Head(modules[b])].source
  <2>1. Built(b)
    BY <1>2, <1>4 DEF CompileModule, NotBuilt, GivesUp
  <2>2. /\ Range(temps'[b]) \subseteq WrittenBy(b)' /\ Parts(b)' = Parts(b) \cup {source}
        /\ Carry(b) = {source} \cup Carry(b)' /\ UNCHANGED <<todo, trouble>>
    BY <1>1, <1>4, <2>1, BuiltEffect
  <2>3. Waiting(b)' = Waiting(b)
    BY <2>2 DEF Waiting, SourcesOf
  <2> HIDE DEF source
  <2> QED BY <1>1, <2>2, <2>3 DEF Collected
<1>5. CASE \/ OpenDirectory(b) \/ BundlesCollected(b) \/ MakeDirectory(b) \/ WriteSource(b)
           \/ ModulesCollected(b)
  <2>1. /\ temps'[b] = temps[b] /\ \A p \in Range(temps[b]) : Stays(p)
        /\ modules'[b] = modules[b] /\ (~OpenDirectory(b) => todo'[b] = todo[b])
        /\ trouble[b] => trouble'[b]
    BY <1>1, <1>5, ObjectsStay
  <2>2. Parts(b)' = Parts(b) /\ Range(temps[b])' \subseteq WrittenBy(b)'
    BY <1>1, <2>1, PartsStay
  <2>3. Carry(b)' = Carry(b)
    BY <2>1 DEF Carry
  <2>4. ~trouble'[b] => Waiting(b)' = Waiting(b)
    <3>1. CASE OpenDirectory(b)
      <4>1. todo[b] # <<>> /\ Head(todo[b]).kind = "directory"
        BY <3>1 DEF OpenDirectory, Collecting
      <4>2. ~trouble'[b] => todo'[b] = Unfolded(b)
        BY <1>2, <3>1 DEF OpenDirectory, Unfolded, Troubled
      <4> QED BY <1>1, <4>1, <4>2, OpenedEffect
    <3>2. CASE ~OpenDirectory(b)
      BY <2>1, <3>2 DEF Waiting, SourcesOf
    <3> QED BY <3>1, <3>2
  <2> QED BY <1>1, <2>1, <2>2, <2>3, <2>4 DEF Collected
<1> QED BY <1>3, <1>4, <1>5

\* What is linked is the program's IR, all that was collected and the libraries.
LEMMA DeliveredLinked ==
  ASSUME Tidied, NEW b \in Builds, Unshared(b), IrWhole(b), Collected(b), linked'[b] = "ok",
         RunClang(b, LlPath(b), OutPath(b), Natives(b)), command' = command, analysis' = analysis
  PROVE  Delivered(b)'
<1> DEFINE parts == files[LlPath(b)].parts \cup (UNION {files[p].parts : p \in Range(items[b])})
                      \cup Natives(b)
<1>1. /\ Types /\ Phase(b) /\ step[b] = "link" /\ items[b] = temps[b]
      /\ Whole(b)' = Whole(b) /\ OutPath(b)' = OutPath(b)
  BY Settled DEF Tidied, Owned, Based, Types, RunClang
<1>2. /\ trouble \in [Builds -> BOOLEAN] /\ linked \in [Builds -> {"none", "ok", "failed"}]
  BY <1>1 DEF Types, TypeOK
<1>3. /\ files' = With(files, OutPath(b), Content(b, parts)) /\ UNCHANGED trouble
  BY <1>2 DEF RunClang
<1>4. Content(b, parts).by = b /\ Content(b, parts).parts = parts
  BY DEF Content
<1>5. ~trouble[b] => parts = Whole(b)
  <2>1. todo[b] = <<>> /\ modules[b] = <<>>
    BY <1>1 DEF Phase
  <2>2. Waiting(b) = {} /\ Carry(b) = {}
    BY <2>1 DEF Waiting, Carry, Range
  <2>3. files[LlPath(b)].parts = {b}
    BY DEF IrWhole, Content
  <2>4. (UNION {files[p].parts : p \in Range(items[b])}) = Parts(b)
    BY <1>1 DEF Parts
  <2>5. ~trouble[b] => Parts(b) = Sources(b)
    BY <2>2 DEF Collected
  <2> QED BY <2>3, <2>4, <2>5 DEF Whole
<1> HIDE DEF parts
<1>6. OutPath(b) \in WrittenBy(b)' /\ files'[OutPath(b)] = Content(b, parts)
  BY <1>3, <1>4, WrittenWriting, StayingWriting
<1> QED BY <1>1, <1>3, <1>4, <1>5, <1>6 DEF Delivered

\* A step of the linker.
LEMMA SafeLink ==
  ASSUME Tidied, NEW b \in Builds, Unshared(b), Numbered(b), Safe(b), Link(b)
  PROVE  Safe(b)'
<1>1. /\ Based /\ Types /\ Phase(b) /\ pc[b] = "linking" /\ pc'[b] = "linking"
      /\ command' = command /\ analysis' = analysis
      /\ linked \in [Builds -> {"none", "ok", "failed"}] /\ trouble \in [Builds -> BOOLEAN]
  BY DEF Tidied, Owned, Based, Types, TypeOK, Link, At, driverVars, given
<1>2. /\ LlPath(b)' = LlPath(b) /\ OutPath(b)' = OutPath(b) /\ Whole(b)' = Whole(b)
      /\ LlPath(b) # OutPath(b) /\ {LlPath(b), OutPath(b)} \cap Temporary(b) = {}
  BY <1>1, Settled, Fresh DEF Unshared, Outputs
<1>3. IrWhole(b)'
  <2>1. IrWhole(b) /\ Stays(LlPath(b))
    BY <1>1, <1>2, StayingLink DEF Safe, IrWhole, WrittenBy
  <2> QED BY <1>2, <2>1 DEF IrWhole, WrittenBy, Stays, Content
<1>4. linked'[b] = "none" => Collected(b)'
  <2> SUFFICES ASSUME linked'[b] = "none" PROVE Collected(b)'
    OBVIOUS
  <2>1. ~UnknownPath(b) /\ ~RunClang(b, LlPath(b), OutPath(b), Natives(b)) /\ ~CleanUp(b)
    BY <1>1 DEF UnknownPath, RunClang, CleanUp, GivesUp, Phase
  <2>2. linked[b] = "none"
    <3>1. step[b] \in Collects
      BY <1>1, <2>1 DEF Link, Collect, OpenDirectory, CompileSource, BundlesCollected, MakeDirectory,
                        WriteSource, CompileModule, ModulesCollected, Collecting, Collects
    <3> QED BY <1>1, <3>1 DEF Phase
  <2>3. Collected(b)
    BY <1>1, <2>2 DEF Safe
  <2> QED BY <1>1, <2>1, <2>3, CollectedStays DEF Link, Collect
<1>5. linked'[b] = "ok" => Delivered(b)'
  <2> SUFFICES ASSUME linked'[b] = "ok" PROVE Delivered(b)'
    OBVIOUS
  <2>1. CASE RunClang(b, LlPath(b), OutPath(b), Natives(b))
    <3>1. linked[b] = "none"
      BY <1>1, <2>1 DEF RunClang, Phase
    <3> QED BY <1>1, <2>1, <3>1, DeliveredLinked DEF Safe
  <2>2. CASE ~RunClang(b, LlPath(b), OutPath(b), Natives(b))
    <3>1. step[b] # "link" /\ (linked'[b] = linked[b] \/ linked'[b] = "failed")
      <4>1. step[b] # "link"
        BY <2>2 DEF Link, Collect, OpenDirectory, UnknownPath, CompileSource, BundlesCollected,
                    MakeDirectory, WriteSource, CompileModule, ModulesCollected, CleanUp, Collecting
      <4>2. linked' = linked \/ linked' = [linked EXCEPT ![b] = "failed"]
        BY <2>2 DEF Link, Collect, OpenDirectory, UnknownPath, CompileSource, Compiled, NotCompiled,
                    BundlesCollected, MakeDirectory, WriteSource, CompileModule, Built, NotBuilt,
                    ModulesCollected, CleanUp, GivesUp
      <4> QED BY <1>1, <4>1, <4>2
    <3>2. Delivered(b) /\ (trouble[b] => trouble'[b])
      <4>1. linked[b] = "ok"
        BY <3>1
      <4>2. CleanUp(b)
        <5>1. step[b] \notin Collects
          BY <1>1, <4>1 DEF Phase
        <5> QED BY <2>2, <5>1 DEF Link, Collect, OpenDirectory, UnknownPath, CompileSource,
                    BundlesCollected, MakeDirectory, WriteSource, CompileModule, ModulesCollected,
                    Collecting, Collects
      <4> QED BY <1>1, <4>1, <4>2 DEF Safe, CleanUp
    <3>3. Stays(OutPath(b))
      BY <1>1, <3>1, <3>2, StayingLink DEF Delivered, WrittenBy
    <3> QED BY <1>2, <3>2, <3>3 DEF Delivered, WrittenBy, Stays
  <2> QED BY <2>1, <2>2
<1> QED BY <1>1, <1>3, <1>4, <1>5 DEF Safe

(***************************************************************************)
(* The invariant, and what it says of a build that has ended.              *)
(***************************************************************************)
Sound == Tidied /\ \A b \in Builds : Numbered(b) /\ (Unshared(b) => Safe(b))

\* The invariant holds at first.
LEMMA InitSound ==
  ASSUME Init
  PROVE  Sound
<1>1. \A b \in Builds : pc[b] = "idle" /\ step[b] = "idle"
  BY DEF Init, LinkerInit, DriverInit
<1> QED BY <1>1, InitTidied DEF Sound, Numbered, Safe

\* A step of one build keeps it for every build.
LEMMA StepSound ==
  ASSUME Sound, NEW b \in Builds, Launch(b) \/ Step(b) \/ Kill(b)
  PROVE  \A c \in Builds : Numbered(c)' /\ (Unshared(c)' => Safe(c)')
<1>1. Tidied /\ Owned /\ Based /\ Frame(b)
  BY StepBased DEF Sound, Tidied, Owned
<1>2. Numbered(b)'
  BY <1>1, NumberedDriver, NumberedLink DEF Step, Sound
<1>3. \A c \in Builds \ {b} : Numbered(c)'
  <2> TAKE c \in Builds \ {b}
  <2>1. Same(c) /\ Numbered(c)
    BY <1>1 DEF Frame, Sound
  <2> QED BY <2>1, NumberedStays
<1>4. ASSUME NEW c \in Builds, Unshared(c)' PROVE Safe(c)'
  <2>1. Unshared(c) /\ Safe(c) /\ Numbered(c)
    BY <1>1, <1>4, UnsharedBefore DEF Sound
  <2>2. CASE c # b
    BY <1>1, <2>1, <2>2, SafeStays
  <2>3. CASE c = b
    BY <1>1, <2>1, <2>3, SafeDriver, SafeCall, SafeLink DEF Step
  <2> QED BY <2>2, <2>3
<1> QED BY <1>2, <1>3, <1>4

\* A step that changes nothing keeps it.
LEMMA StutterSound ==
  ASSUME Sound, UNCHANGED vars, NEW b \in Builds
  PROVE  Numbered(b)' /\ (Unshared(b)' => Safe(b)')
<1>1. /\ Numbered(b) /\ (Unshared(b) => Safe(b))
      /\ UNCHANGED <<files, step, todo, modules, temps, count, linked, pid, trouble, pc, command, analysis>>
  BY DEF Sound, vars, linkerVars, driverVars, given
<1>2. /\ WrittenBy(b)' = WrittenBy(b) /\ Parts(b)' = Parts(b) /\ Waiting(b)' = Waiting(b)
      /\ Carry(b)' = Carry(b)
  BY <1>1 DEF WrittenBy, Parts, Waiting, Carry, SourcesOf
<1>3. /\ LlPath(b)' = LlPath(b) /\ OutPath(b)' = OutPath(b) /\ Whole(b)' = Whole(b)
      /\ Sources(b)' = Sources(b)
  BY <1>1, Settled
<1>4. Unshared(b)' = Unshared(b)
  BY <1>1 DEF Unshared, Outputs, LlPath, OutPath
<1>5. IrWhole(b)' = IrWhole(b)
  BY <1>1, <1>2, <1>3 DEF IrWhole, Content
<1>6. Collected(b)' = Collected(b)
  BY <1>1, <1>2, <1>3 DEF Collected
<1>7. Delivered(b)' = Delivered(b)
  BY <1>1, <1>2, <1>3 DEF Delivered
<1> QED BY <1>1, <1>2, <1>3, <1>4, <1>5, <1>6, <1>7 DEF Numbered, Safe

\* Every step of the specification keeps it.
LEMMA NextSound ==
  ASSUME Sound, [Next]_vars
  PROVE  Sound'
<1>1. Tidied'
  BY NextTidied DEF Sound
<1>2. CASE UNCHANGED vars
  BY <1>1, <1>2, StutterSound DEF Sound
<1>3. CASE Next
  <2>1. PICK b \in Builds : Launch(b) \/ Step(b) \/ Kill(b)
    BY <1>3 DEF Next
  <2> QED BY <1>1, <2>1, StepSound DEF Sound
<1> QED BY <1>2, <1>3

\* What is collected is what the program needs, in every behaviour.
THEOREM SoundAlways == Spec => []Sound
BY InitSound, NextSound, PTL DEF Spec

\* A build that says it has made an executable has, from everything the program needs and nothing else.
THEOREM HonestHolds == Spec => []Honest
<1>1. ASSUME Sound, NEW b \in Builds,
             At(b, "exited"), exit[b] = 0, command[b].usage = "ok", ~command[b].raw,
             Unshared(b), ~trouble[b]
      PROVE  /\ Exists(OutPath(b))
             /\ files[OutPath(b)].by = b
             /\ files[OutPath(b)].parts =
                  {b} \cup EmbeddedSources(b) \cup BundledSources(b)
                      \cup Range(command[b].libraries) \cup Range(analysis[b].natives)
  <2>1. Course(b) /\ Safe(b) /\ pc[b] = "exited"
    BY <1>1 DEF Sound, Tidied, At
  <2>2. linked[b] = "ok"
    BY <1>1, <2>1 DEF Course
  <2>3. OutPath(b) \in WrittenBy(b) /\ files[OutPath(b)].parts = Whole(b)
    BY <1>1, <2>1, <2>2 DEF Safe, Delivered
  <2>4. Whole(b) = {b} \cup EmbeddedSources(b) \cup BundledSources(b)
                       \cup Range(command[b].libraries) \cup Range(analysis[b].natives)
    BY DEF Whole, Sources, Natives, AppendCsv
  <2> QED BY <2>3, <2>4 DEF WrittenBy, Exists
<1>2. Sound => Honest
  BY <1>1 DEF Honest
<1> QED BY <1>2, SoundAlways, PTL

(***************************************************************************)
(* No source is compiled twice.                                            *)
(***************************************************************************)
Fine(q) == \A j \in DOMAIN q :
  /\ IsInjective(q[j].sources) /\ q[j].kind # "unknown"
  /\ \A k \in DOMAIN q \ {j} : SourcesOf(q[j]) \cap SourcesOf(q[k]) = {}

\* The first of the sources that wait has nothing in common with the rest.
LEMMA FineTail ==
  ASSUME NEW q \in Seq(Item), q # <<>>, Fine(q)
  PROVE  /\ Fine(Tail(q))
         /\ SourcesOf(Head(q)) \cap UNION {SourcesOf(i) : i \in Range(Tail(q))} = {}
         /\ IsInjective(Head(q).sources) /\ Head(q).kind # "unknown"
<1> DEFINE rest == Tail(q)
<1>1. /\ DOMAIN q = 1 .. Len(q) /\ Len(q) \in Nat \ {0} /\ Head(q) = q[1]
      /\ DOMAIN rest = 1 .. Len(q) - 1 /\ \A k \in 1 .. Len(q) - 1 : rest[k] = q[k + 1]
  BY HeadTailProperties
<1>2. 1 \in DOMAIN q /\ IsInjective(Head(q).sources) /\ Head(q).kind # "unknown"
  BY <1>1 DEF Fine
<1> HIDE DEF rest
<1>3. \A k \in DOMAIN rest : k + 1 \in DOMAIN q \ {1} /\ rest[k] = q[k + 1]
  BY <1>1
<1>4. Fine(rest)
  <2> SUFFICES ASSUME NEW j \in DOMAIN rest
               PROVE  /\ IsInjective(rest[j].sources) /\ rest[j].kind # "unknown"
                      /\ \A k \in DOMAIN rest \ {j} : SourcesOf(rest[j]) \cap SourcesOf(rest[k]) = {}
    BY DEF Fine
  <2>1. j + 1 \in DOMAIN q /\ rest[j] = q[j + 1]
    BY <1>3
  <2>2. IsInjective(rest[j].sources) /\ rest[j].kind # "unknown"
    BY <2>1 DEF Fine
  <2>3. ASSUME NEW k \in DOMAIN rest \ {j} PROVE SourcesOf(rest[j]) \cap SourcesOf(rest[k]) = {}
    <3>1. k + 1 \in DOMAIN q \ {j + 1} /\ rest[k] = q[k + 1]
      BY <1>1, <1>3
    <3> QED BY <2>1, <3>1 DEF Fine
  <2> QED BY <2>2, <2>3
<1>5. SourcesOf(Head(q)) \cap UNION {SourcesOf(i) : i \in Range(rest)} = {}
  <2>1. \A k \in DOMAIN rest : SourcesOf(Head(q)) \cap SourcesOf(rest[k]) = {}
    BY <1>1, <1>2, <1>3 DEF Fine
  <2> QED BY <2>1 DEF Range
<1> QED BY <1>2, <1>4, <1>5 DEF rest

\* A directory in place of which its files have come.
LEMMA FineUnfolded ==
  ASSUME Types, NEW b \in Builds, todo[b] # <<>>, Fine(todo[b]), Head(todo[b]).kind # "c"
  PROVE  Fine(Unfolded(b))
<1> DEFINE first == Head(todo[b]).sources
           rest  == Tail(todo[b])
           all   == Unfolded(b)
           C(n)  == [kind |-> "c", name |-> n, sources |-> <<>>]
<1>1. /\ first \in Seq(STRING) /\ rest \in Seq(Item) /\ all \in Seq(Item)
      /\ Len(all) = Len(first) + Len(rest)
      /\ \A k \in 1 .. Len(first) : all[k] = C(first[k])
      /\ \A k \in 1 .. Len(rest) : all[Len(first) + k] = rest[k]
  BY Unfolding
<1>2. /\ Fine(rest) /\ IsInjective(first)
      /\ SourcesOf(Head(todo[b])) \cap UNION {SourcesOf(i) : i \in Range(rest)} = {}
  BY FineTail DEF Types
<1>3. SourcesOf(Head(todo[b])) = Range(first)
  BY DEF SourcesOf
<1>4. \A n : SourcesOf(C(n)) = {n} /\ IsInjective(C(n).sources) /\ C(n).kind # "unknown"
  BY DEF SourcesOf, IsInjective
<1> HIDE DEF first, rest, all, C
<1>5. /\ DOMAIN first = 1 .. Len(first) /\ DOMAIN rest = 1 .. Len(rest)
      /\ DOMAIN all = 1 .. Len(first) + Len(rest) /\ Len(first) \in Nat /\ Len(rest) \in Nat
  BY <1>1
<1>6. \A k \in DOMAIN first : all[k] = C(first[k])
  BY <1>1, <1>5
<1>7. \A k \in DOMAIN all \ DOMAIN first : k - Len(first) \in DOMAIN rest /\ all[k] = rest[k - Len(first)]
  <2> SUFFICES ASSUME NEW k \in DOMAIN all \ DOMAIN first
               PROVE  k - Len(first) \in DOMAIN rest /\ all[k] = rest[k - Len(first)]
    OBVIOUS
  <2>1. k - Len(first) \in 1 .. Len(rest) /\ k = Len(first) + (k - Len(first))
    BY <1>5
  <2> QED BY <1>1, <1>5, <2>1
<1>8. \A k \in DOMAIN rest : SourcesOf(rest[k]) \cap Range(first) = {}
  BY <1>2, <1>3 DEF Range
<1>9. ASSUME NEW j \in DOMAIN all
      PROVE  IsInjective(all[j].sources) /\ all[j].kind # "unknown"
  <2>1. CASE j \in DOMAIN first
    BY <1>4, <1>6, <2>1
  <2>2. CASE j \notin DOMAIN first
    BY <1>2, <1>7, <2>2 DEF Fine
  <2> QED BY <2>1, <2>2
<1>10. ASSUME NEW j \in DOMAIN all, NEW k \in DOMAIN all \ {j}
       PROVE  SourcesOf(all[j]) \cap SourcesOf(all[k]) = {}
  <2>1. CASE j \in DOMAIN first /\ k \in DOMAIN first
    <3>1. first[j] # first[k]
      BY <1>2, <2>1 DEF IsInjective
    <3> QED BY <1>4, <1>6, <2>1, <3>1
  <2>2. CASE j \in DOMAIN first /\ k \notin DOMAIN first
    <3>1. SourcesOf(all[j]) \subseteq Range(first)
      BY <1>4, <1>6, <2>2 DEF Range
    <3> QED BY <1>7, <1>8, <2>2, <3>1
  <2>3. CASE j \notin DOMAIN first /\ k \in DOMAIN first
    <3>1. SourcesOf(all[k]) \subseteq Range(first)
      BY <1>4, <1>6, <2>3 DEF Range
    <3> QED BY <1>7, <1>8, <2>3, <3>1
  <2>4. CASE j \notin DOMAIN first /\ k \notin DOMAIN first
    <3>1. /\ j - Len(first) \in DOMAIN rest /\ all[j] = rest[j - Len(first)]
          /\ k - Len(first) \in DOMAIN rest /\ all[k] = rest[k - Len(first)]
      BY <1>7, <2>4
    <3>2. j - Len(first) # k - Len(first)
      BY <1>5
    <3> QED BY <1>2, <3>1, <3>2 DEF Fine
  <2> QED BY <2>1, <2>2, <2>3, <2>4
<1>11. Fine(all)
  BY <1>9, <1>10 DEF Fine
<1> QED BY <1>11 DEF all

\* The bundles of a program that is compiled at home.
LEMMA FineBundles ==
  ASSUME Types, NEW b \in Builds, command[b].home
  PROVE  Fine(Bundles(b))
<1> DEFINE found == analysis[b].bundles
           P(k)  == IF k = 1 THEN Runtime ELSE found[k - 1]
<1>1. /\ found \in Seq(DOMAIN Entry \ {Runtime}) /\ IsInjective(found)
  BY AnalysisAssumption DEF Types, TypeOK
<1>2. /\ DOMAIN Bundles(b) = 1 .. Len(found) + 1
      /\ Bundles(b)[1] = Entry[Runtime]
      /\ \A k \in 2 .. Len(found) + 1 : Bundles(b)[k] = Entry[found[k - 1]]
  <2>1. /\ Bundles(b) \in Seq(Item) /\ Len(Bundles(b)) = Len(found) + 1
        /\ \A k \in 2 .. Len(Bundles(b)) : Bundles(b)[k] = Entry[found[k - 1]]
    BY BundlesType
  <2>2. Bundles(b)[1] = Entry[Runtime]
    <3> DEFINE paths == <<Runtime>> \o found
    <3>1. paths[1] = Runtime /\ 1 \in DOMAIN paths
      <4>1. found \in Seq(DOMAIN Entry) /\ <<Runtime>> \in Seq(DOMAIN Entry)
        BY <1>1, EntryAssumption
      <4> HIDE DEF found
      <4> QED BY <4>1
    <3> HIDE DEF paths
    <3>2. Bundles(b) = [k \in DOMAIN paths |-> IF command[b].home \/ paths[k] # Runtime
                                                THEN Entry[paths[k]] ELSE Missing]
      BY DEF Bundles, paths
    <3> QED BY <3>1, <3>2
  <2> HIDE DEF found
  <2> QED BY <2>1, <2>2
<1>3. \A k \in DOMAIN Bundles(b) : P(k) \in DOMAIN Entry /\ Bundles(b)[k] = Entry[P(k)]
  <2> TAKE k \in DOMAIN Bundles(b)
  <2>1. CASE k = 1
    BY <1>2, <2>1, EntryAssumption
  <2>2. CASE k # 1
    <3> HIDE DEF found
    <3>1. k - 1 \in 1 .. Len(found) /\ k \in 2 .. Len(found) + 1
      BY <1>1, <1>2, <2>2
    <3> QED BY <1>1, <1>2, <2>2, <3>1
  <2> QED BY <2>1, <2>2
<1>4. \A j, k \in DOMAIN Bundles(b) : j # k => P(j) # P(k)
  <2> HIDE DEF found
  <2>1. Len(found) \in Nat /\ DOMAIN found = 1 .. Len(found)
    BY <1>1
  <2>2. \A k \in DOMAIN Bundles(b) \ {1} : k - 1 \in DOMAIN found /\ P(k) = found[k - 1]
    BY <1>2, <2>1
  <2>3. \A k \in DOMAIN Bundles(b) \ {1} : P(k) # Runtime
    BY <1>1, <2>1, <2>2
  <2>4. \A j, k \in DOMAIN Bundles(b) \ {1} : j # k => P(j) # P(k)
    <3> SUFFICES ASSUME NEW j \in DOMAIN Bundles(b) \ {1}, NEW k \in DOMAIN Bundles(b) \ {1}, j # k
                 PROVE  P(j) # P(k)
      OBVIOUS
    <3>1. j - 1 # k - 1
      BY <1>2, <2>1
    <3> QED BY <1>1, <2>2, <3>1 DEF IsInjective
  <2>5. P(1) = Runtime
    OBVIOUS
  <2> HIDE DEF P
  <2> QED BY <2>3, <2>4, <2>5
<1> HIDE DEF P
<1>5. \A p \in DOMAIN Entry :
        /\ Entry[p].kind = "directory" /\ IsInjective(Entry[p].sources)
        /\ SourcesOf(Entry[p]) = Range(Entry[p].sources)
        /\ \A r \in DOMAIN Entry \ {p} : Range(Entry[p].sources) \cap Range(Entry[r].sources) = {}
  BY EntryAssumption DEF SourcesOf
<1> QED BY <1>3, <1>4, <1>5 DEF Fine


\* The objects of a build that links, what waits and what is carried have no source in common.
Distinguished(b) ==
  /\ \A p \in Range(temps[b]) : files[p].parts # {}
  /\ \A j, k \in DOMAIN temps[b] : j # k => files[temps[b][j]].parts \cap files[temps[b][k]].parts = {}
Separate(b) ==
  /\ Distinguished(b)
  /\ Parts(b) \cap Waiting(b) = {} /\ Parts(b) \cap Carry(b) = {} /\ Waiting(b) \cap Carry(b) = {}
  /\ Fine(todo[b]) /\ IsInjective(modules[b])
Single(b) == pc[b] = "linking" /\ linked[b] = "none" => Separate(b)
AtHome(b) == Unshared(b) /\ Twice(b) = {} /\ command[b].home

\* Objects that stay.
LEMMA DistinguishedStays ==
  ASSUME NEW b \in Builds, temps'[b] = temps[b], \A p \in Range(temps[b]) : Stays(p), Distinguished(b)
  PROVE  Distinguished(b)'
<1>1. \A k \in DOMAIN temps[b] : files'[temps[b][k]] = files[temps[b][k]]
  BY DEF Stays, Range
<1>2. \A p \in Range(temps[b]) : files'[p] = files[p]
  BY DEF Stays
<1>3. Range(temps'[b]) = Range(temps[b])
  OBVIOUS
<1> QED BY <1>1, <1>2, <1>3 DEF Distinguished

\* An object of a source that none of the others has.
LEMMA DistinguishedAppended ==
  ASSUME NEW b \in Builds, temps[b] \in Seq(ObjectName), NEW object \in ObjectName, NEW source,
         temps'[b] = Append(temps[b], object), Distinguished(b), source \notin Parts(b),
         \A p \in Range(temps[b]) : files'[p] = files[p], files'[object].parts = {source}
  PROVE  Distinguished(b)'
<1> DEFINE old == temps[b]
           new == temps'[b]
           n   == Len(temps[b]) + 1
<1>1. /\ DOMAIN old = 1 .. Len(old) /\ DOMAIN new = 1 .. Len(old) + 1 /\ Len(old) \in Nat
      /\ \A k \in DOMAIN old : new[k] = old[k]
      /\ new[n] = object
  OBVIOUS
<1>2. \A k \in DOMAIN new : k \in DOMAIN old \/ k = n
  <2> HIDE DEF old, new
  <2> QED BY <1>1 DEF old
<1>3. \A k \in DOMAIN old : files'[new[k]].parts = files[old[k]].parts /\ source \notin files[old[k]].parts
  BY <1>1 DEF Parts, Range
<1>4. files'[new[n]].parts = {source}
  BY <1>1
<1>5. \A j, k \in DOMAIN old : j # k => files[old[j]].parts \cap files[old[k]].parts = {}
  BY DEF Distinguished
<1>6. \A k \in DOMAIN old : files[old[k]].parts # {}
  BY DEF Distinguished, Range
<1> HIDE DEF old, new, n
<1>7. \A j, k \in DOMAIN new : j # k => files'[new[j]].parts \cap files'[new[k]].parts = {}
  BY <1>2, <1>3, <1>4, <1>5
<1>8. \A k \in DOMAIN new : files'[new[k]].parts # {}
  BY <1>2, <1>3, <1>4, <1>6
<1>9. \A p \in Range(new) : files'[p].parts # {}
  BY <1>8 DEF Range
<1> QED BY <1>7, <1>9 DEF Distinguished, new

\* Nothing is collected.
LEMMA SeparateStays ==
  ASSUME NEW b \in Builds, temps'[b] = temps[b], todo'[b] = todo[b], modules'[b] = modules[b],
         \A p \in Range(temps[b]) : Stays(p), Range(temps[b]) \subseteq WrittenBy(b), Separate(b)
  PROVE  Separate(b)'
<1>1. Parts(b)' = Parts(b)
  BY PartsStay
<1>2. Waiting(b)' = Waiting(b) /\ Carry(b)' = Carry(b)
  BY DEF Waiting, Carry, SourcesOf
<1>3. Fine(todo[b])' /\ IsInjective(modules[b])'
  BY DEF Separate, Fine, SourcesOf, IsInjective
<1>4. Distinguished(b)'
  BY DistinguishedStays DEF Separate
<1> QED BY <1>1, <1>2, <1>3, <1>4 DEF Separate

\* A step of another build.
LEMMA SingleStays ==
  ASSUME Owned, NEW b \in Builds, Launch(b) \/ Step(b) \/ Kill(b),
         NEW c \in Builds \ {b}, Unshared(c), Safe(c), Single(c)
  PROVE  Single(c)'
<1>1. Same(c)
  BY StepBased DEF Owned, Frame
<1>2. SUFFICES ASSUME pc[c] = "linking", linked[c] = "none" PROVE Separate(c)'
  BY <1>1 DEF Same, Single
<1>3. Separate(c) /\ Range(temps[c]) \subseteq WrittenBy(c)
  BY <1>2 DEF Single, Safe, Collected
<1>4. \A p \in Range(temps[c]) : Stays(p)
  BY <1>2, <1>3, Preserved DEF Kept, Running, Stays
<1> QED BY <1>1, <1>3, <1>4, SeparateStays DEF Same

\* The call of the linker: what it is called with has no source twice.
LEMMA SingleCall ==
  ASSUME Tidied, NEW b \in Builds, CallLinker(b), AtHome(b)
  PROVE  Single(b)'
<1>1. /\ Types /\ Phase(b) /\ pc[b] = "link" /\ UNCHANGED temps
  BY DEF Tidied, Owned, Based, CallLinker, StartLink, At
<1>2. temps'[b] = <<>>
  BY <1>1 DEF Phase, Before
<1>3. todo'[b] = Bundles(b) /\ modules'[b] = analysis[b].embedded
  BY <1>1 DEF CallLinker, StartLink, Types
<1>4. Waiting(b)' = BundledSources(b) /\ Carry(b)' = EmbeddedSources(b)
  BY <1>1, <1>3, CalledWith
<1>5. Parts(b)' = {} /\ Distinguished(b)'
  BY <1>2 DEF Parts, Distinguished, Range
<1>6. IsInjective(modules'[b])
  BY <1>1, <1>3, AnalysisAssumption DEF Types, TypeOK
<1>7. Fine(todo'[b])
  BY <1>1, <1>3, FineBundles DEF AtHome
<1>8. Separate(b)'
  <2>1. Waiting(b)' \cap Carry(b)' = {}
    BY <1>4 DEF AtHome, Twice
  <2>2. Fine(todo[b])' /\ IsInjective(modules[b])'
    BY <1>6, <1>7 DEF Fine, SourcesOf, IsInjective
  <2> QED BY <1>5, <2>1, <2>2 DEF Separate
<1> QED BY <1>8 DEF Single


\* The other steps of main: the linker does not run after them.
LEMMA SingleDriver ==
  ASSUME Based, NEW b \in Builds,
         \/ Launch(b) \/ ReadSource(b) \/ Validate(b) \/ OpenIr(b) \/ EmitIr(b)
         \/ Finish(b) \/ Kill(b)
  PROVE  Single(b)'
<1>1. pc \in [Builds -> Places]
  BY DEF Based, Types, TypeOK
<1>2. pc'[b] # "linking"
  BY <1>1, LaunchStep DEF ReadSource, Validate, OpenIr, EmitIr, Finish, Kill, GoTo, Exits
<1> QED BY <1>2 DEF Single

\* What is compiled has not been and does not come again.
LEMMA SeparateSteps ==
  ASSUME Based, NEW b \in Builds, Numbered(b), Separate(b), Range(temps[b]) \subseteq WrittenBy(b),
         linked'[b] = "none",
         \/ OpenDirectory(b) \/ CompileSource(b) \/ BundlesCollected(b) \/ MakeDirectory(b)
         \/ WriteSource(b) \/ CompileModule(b) \/ ModulesCollected(b)
  PROVE  Separate(b)'
<1>1. /\ Types /\ linked \in [Builds -> {"none", "ok", "failed"}]
      /\ temps[b] \in Seq(ObjectName) /\ modules[b] \in Seq(DOMAIN Carried)
      /\ todo \in [Builds -> Seq(Item)] /\ todo[b] \in Seq(Item)
  BY DEF Based, Types, TypeOK
<1>2. /\ Distinguished(b) /\ Fine(todo[b]) /\ IsInjective(modules[b])
      /\ Parts(b) \cap Waiting(b) = {} /\ Parts(b) \cap Carry(b) = {} /\ Waiting(b) \cap Carry(b) = {}
  BY DEF Separate
<1>3. Fine(todo'[b]) => Fine(todo[b])'
  BY DEF Fine, SourcesOf, IsInjective
<1>4. IsInjective(modules'[b]) => IsInjective(modules[b])'
  BY DEF IsInjective
<1>5. CASE CompileSource(b)
  <2> DEFINE object == Object(b, "bundle")
             name   == Head(todo[b]).name
  <2>1. Compiled(b)
    BY <1>1, <1>5 DEF CompileSource, NotCompiled, GivesUp
  <2>2. /\ object \in ObjectName /\ temps'[b] = Append(temps[b], object)
        /\ \A p \in Range(temps[b]) : p \in DOMAIN files' /\ files'[p] = files[p]
        /\ files'[object].parts = {name}
        /\ Parts(b)' = Parts(b) \cup {name}
        /\ SourcesOf(Head(todo[b])) = {name} /\ Waiting(b) = {name} \cup Waiting(b)'
        /\ todo[b] # <<>> /\ todo'[b] = Tail(todo[b]) /\ UNCHANGED <<modules, trouble>>
    BY <1>5, <2>1, CompiledEffect
  <2>3. /\ Fine(Tail(todo[b]))
        /\ SourcesOf(Head(todo[b])) \cap UNION {SourcesOf(i) : i \in Range(Tail(todo[b]))} = {}
    BY <1>1, <1>2, <2>2, FineTail
  <2>4. Waiting(b)' = UNION {SourcesOf(i) : i \in Range(Tail(todo[b]))}
    BY <2>2 DEF Waiting, SourcesOf
  <2> HIDE DEF object, name
  <2>5. Distinguished(b)'
    <3>1. name \notin Parts(b)
      BY <1>2, <2>2
    <3> QED BY <1>1, <1>2, <2>2, <3>1, DistinguishedAppended
  <2>6. Carry(b)' = Carry(b)
    BY <2>2 DEF Carry
  <2>7. Fine(todo[b])' /\ IsInjective(modules[b])'
    BY <1>2, <1>3, <1>4, <2>2, <2>3
  <2>8. name \notin Waiting(b)'
    BY <2>2, <2>3, <2>4
  <2>9. Parts(b)' \cap Waiting(b)' = {} /\ Parts(b)' \cap Carry(b)' = {} /\ Waiting(b)' \cap Carry(b)' = {}
    BY <1>2, <2>2, <2>6, <2>8
  <2> QED BY <2>5, <2>7, <2>9 DEF Separate
<1>6. CASE CompileModule(b)
  <2> DEFINE object == Object(b, "embedded")
             source == Carried[Head(modules[b])].source
  <2>1. Built(b)
    BY <1>1, <1>6 DEF CompileModule, NotBuilt, GivesUp
  <2>2. /\ object \in ObjectName /\ temps'[b] = Append(temps[b], object)
        /\ \A p \in Range(temps[b]) : p \in DOMAIN files' /\ files'[p] = files[p]
        /\ files'[object].parts = {source}
        /\ Parts(b)' = Parts(b) \cup {source}
        /\ Carry(b) = {source} \cup Carry(b)'
        /\ modules[b] # <<>> /\ modules'[b] = Tail(modules[b]) /\ UNCHANGED <<todo, trouble>>
    BY <1>6, <2>1, BuiltEffect
  <2>3. IsInjective(modules'[b]) /\ source \notin Carry(b)'
    <3> DEFINE all  == modules[b]
               rest == Tail(modules[b])
    <3>1. /\ DOMAIN all = 1 .. Len(all) /\ Len(all) \in Nat \ {0} /\ Head(all) = all[1]
          /\ DOMAIN rest = 1 .. Len(all) - 1 /\ \A k \in 1 .. Len(all) - 1 : rest[k] = all[k + 1]
      BY <1>1, <2>2, HeadTailProperties
    <3>2. IsInjective(all) /\ \A k \in DOMAIN all : all[k] \in DOMAIN Carried
      BY <1>1, <1>2
    <3>3. Carry(b)' = {Carried[m].source : m \in Range(rest)}
      BY <2>2 DEF Carry
    <3>4. source = Carried[Head(all)].source
      OBVIOUS
    <3> HIDE DEF all, rest, source
    <3>5. \A k \in DOMAIN rest : k + 1 \in DOMAIN all \ {1} /\ rest[k] = all[k + 1]
      BY <3>1
    <3>6. 1 \in DOMAIN all
      BY <3>1
    <3>7. \A k \in DOMAIN rest : rest[k] # Head(all) /\ rest[k] \in DOMAIN Carried
      BY <3>1, <3>2, <3>5, <3>6 DEF IsInjective
    <3>8. \A m \in Range(rest) : m # Head(all) /\ m \in DOMAIN Carried
      BY <3>7 DEF Range
    <3>9. Head(all) \in DOMAIN Carried
      BY <3>1, <3>2, <3>6
    <3>10. source \notin Carry(b)'
      BY <3>3, <3>4, <3>8, <3>9, EntryAssumption
    <3>11. IsInjective(rest)
      <4> SUFFICES ASSUME NEW j \in DOMAIN rest, NEW k \in DOMAIN rest, rest[j] = rest[k]
                   PROVE  j = k
        BY DEF IsInjective
      <4>1. j + 1 = k + 1
        BY <3>2, <3>5 DEF IsInjective
      <4> QED BY <3>1, <4>1
    <3> QED BY <2>2, <3>10, <3>11 DEF rest
  <2> HIDE DEF object, source
  <2>4. Distinguished(b)'
    <3>1. source \notin Parts(b)
      BY <1>2, <2>2
    <3> QED BY <1>1, <1>2, <2>2, <3>1, DistinguishedAppended
  <2>5. Waiting(b)' = Waiting(b)
    BY <2>2 DEF Waiting, SourcesOf
  <2>6. Fine(todo[b])' /\ IsInjective(modules[b])'
    BY <1>2, <1>3, <1>4, <2>2, <2>3
  <2>7. Parts(b)' \cap Waiting(b)' = {} /\ Parts(b)' \cap Carry(b)' = {} /\ Waiting(b)' \cap Carry(b)' = {}
    BY <1>2, <2>2, <2>3, <2>5
  <2> QED BY <2>4, <2>6, <2>7 DEF Separate
<1>7. CASE OpenDirectory(b)
  <2>1. /\ temps'[b] = temps[b] /\ modules'[b] = modules[b]
        /\ \A p \in Range(temps[b]) : Stays(p)
    BY <1>7, ObjectsStay
  <2>2. todo[b] # <<>> /\ Head(todo[b]).kind = "directory" /\ todo'[b] \in {Unfolded(b), Tail(todo[b])}
    BY <1>1, <1>7 DEF OpenDirectory, Collecting, Unfolded
  <2>3. Fine(todo'[b])
    BY <1>1, <1>2, <2>2, FineTail, FineUnfolded
  <2>4. Waiting(b)' \subseteq Waiting(b)
    <3>1. CASE todo'[b] = Unfolded(b)
      BY <1>1, <2>2, <3>1, OpenedEffect
    <3>2. CASE todo'[b] = Tail(todo[b])
      <4>1. Waiting(b)' = UNION {SourcesOf(i) : i \in Range(Tail(todo[b]))}
        BY <3>2 DEF Waiting, SourcesOf
      <4> QED BY <1>1, <2>2, <4>1, WaitingHead
    <3> QED BY <2>2, <3>1, <3>2
  <2>5. Parts(b)' = Parts(b) /\ Carry(b)' = Carry(b)
    <3>1. Parts(b)' = Parts(b)
      BY <2>1, PartsStay
    <3>2. Carry(b)' = Carry(b)
      BY <2>1 DEF Carry
    <3> QED BY <3>1, <3>2
  <2>6. Distinguished(b)'
    BY <1>2, <2>1, DistinguishedStays
  <2>7. Fine(todo[b])' /\ IsInjective(modules[b])'
    BY <1>2, <1>3, <1>4, <2>1, <2>3
  <2>8. Parts(b)' \cap Waiting(b)' = {} /\ Parts(b)' \cap Carry(b)' = {} /\ Waiting(b)' \cap Carry(b)' = {}
    BY <1>2, <2>4, <2>5
  <2> QED BY <2>6, <2>7, <2>8 DEF Separate
<1>8. CASE \/ BundlesCollected(b) \/ MakeDirectory(b) \/ WriteSource(b) \/ ModulesCollected(b)
  <2>1. ~OpenDirectory(b) => /\ temps'[b] = temps[b] /\ \A p \in Range(temps[b]) : Stays(p)
                             /\ modules'[b] = modules[b] /\ todo'[b] = todo[b]
    BY <1>8, ObjectsStay
  <2> QED BY <1>7, <2>1, SeparateStays
<1> QED BY <1>5, <1>6, <1>7, <1>8

\* A step of the linker.
LEMMA SingleLink ==
  ASSUME Tidied, NEW b \in Builds, Numbered(b), Safe(b), Single(b), Link(b)
  PROVE  Single(b)'
<1>1. /\ Based /\ Phase(b) /\ pc[b] = "linking" /\ linked \in [Builds -> {"none", "ok", "failed"}]
  BY DEF Tidied, Owned, Based, Types, TypeOK, Link, At
<1>2. SUFFICES ASSUME linked'[b] = "none" PROVE Separate(b)'
  BY DEF Single
<1>3. ~UnknownPath(b) /\ ~RunClang(b, LlPath(b), OutPath(b), Natives(b)) /\ ~CleanUp(b)
  BY <1>1, <1>2 DEF UnknownPath, RunClang, CleanUp, GivesUp, Phase
<1>4. \/ OpenDirectory(b) \/ CompileSource(b) \/ BundlesCollected(b) \/ MakeDirectory(b)
      \/ WriteSource(b) \/ CompileModule(b) \/ ModulesCollected(b)
  BY <1>3 DEF Link, Collect
<1>5. linked[b] = "none"
  <2>1. step[b] \in Collects
    BY <1>4 DEF OpenDirectory, CompileSource, BundlesCollected, MakeDirectory,
                WriteSource, CompileModule, ModulesCollected, Collecting, Collects
  <2> QED BY <1>1, <2>1 DEF Phase
<1>6. Separate(b) /\ Range(temps[b]) \subseteq WrittenBy(b)
  BY <1>1, <1>5 DEF Single, Safe, Collected
<1> QED BY <1>1, <1>2, <1>4, <1>6, SeparateSteps


(***************************************************************************)
(* A build that gives up has a reason.                                     *)
(***************************************************************************)
Blame(b) == Buildable(b) /\ ~trouble[b] => linked[b] # "failed"

\* The temporary directory of a build can be made: no file has its name.
LEMMA Clean ==
  ASSUME Tidied, NEW b \in Builds, Buildable(b), Running(b), step[b] = "module"
  PROVE  ~Exists(Directory(b))
<1> SUFFICES ASSUME Directory(b) \in DOMAIN files PROVE FALSE
  BY DEF Exists
<1> DEFINE p == Directory(b)
<1>1. PICK d \in Builds : d = files[p].by /\ p \in Mine(d) /\ pc[d] # "idle"
  BY DEF Tidied, Owned, Owners
<1>2. /\ p \in WrittenBy(d) /\ p[1] = "dir" /\ p[2] = pid[b]
  BY <1>1 DEF WrittenBy, Directory
<1>3. p \notin Outputs(d)
  <2>1. command[d] \in Commands
    BY DEF Tidied, Owned, Based, Types, TypeOK
  <2> QED BY <1>2, <2>1, CommandsAssumption DEF Outputs, LlPath, OutPath
<1>4. pid[d] = pid[b]
  BY <1>1, <1>2, <1>3 DEF Mine, Temporary
<1>5. \A k \in DOMAIN temps[d] : temps[d][k][1] # "dir"
  <2>1. \A k \in DOMAIN temps[d] : temps[d][k] \in ObjectName
    BY DEF Tidied, Owned, Based, Types
  <2> QED BY <2>1 DEF ObjectName
<1>6. pc[d] # "killed"
  BY <1>4 DEF Buildable
<1>7. p \in Leftover(d)
  BY <1>2, <1>3, <1>6 DEF Tidied, Written
<1>8. p \notin Range(temps[d])
  BY <1>2, <1>5 DEF Range
<1>9. step[d] \in {"source", "object"}
  <2>1. p # <<"bundle", pid[d], count[d] - 1>>
    BY <1>2
  <2> HIDE DEF p
  <2> QED BY <1>7, <1>8, <2>1 DEF Leftover
<1>10. d # b
  BY <1>9
<1>11. ~Running(d)
  BY <1>4, <1>10 DEF Tidied, Owned, Distinct
<1>12. pc[d] = "exited"
  BY <1>1, <1>6, <1>11 DEF Running
<1>13. step[d] = "idle"
  BY <1>12 DEF Tidied, Owned, Based, Phase
<1> QED BY <1>9, <1>13

\* What is reported of a build that could be linked is the outside's doing.
LEMMA CanLink ==
  ASSUME Tidied, NEW b \in Builds, IrWhole(b), Distinguished(b), Range(temps[b]) \subseteq WrittenBy(b)
  PROVE  Linkable(b, LlPath(b))
<1>1. items[b] = temps[b]
  BY DEF Tidied, Owned, Based, Types
<1>2. Exists(LlPath(b)) /\ files[LlPath(b)].whole
  BY DEF IrWhole, Content, Exists, WrittenBy
<1>3. \A k \in DOMAIN temps[b] : temps[b][k] \in Range(temps[b])
  BY DEF Range
<1>4. \A k \in DOMAIN temps[b] : Exists(temps[b][k])
  BY <1>3 DEF Exists, WrittenBy
<1>5. \A j, k \in DOMAIN temps[b] : files[temps[b][j]].parts = files[temps[b][k]].parts => j = k
  BY <1>3 DEF Distinguished
<1> QED BY <1>1, <1>2, <1>4, <1>5 DEF Linkable

\* The linker of a build that can be built fails only when a call to the outside does.
LEMMA BlameLink ==
  ASSUME Tidied, NEW b \in Builds, Buildable(b), Safe(b), Single(b), Link(b), linked[b] # "failed",
         linked'[b] = "failed"
  PROVE  trouble'[b]
<1>1. /\ Based /\ Types /\ Phase(b) /\ pc[b] = "linking" /\ Running(b)
      /\ linked \in [Builds -> {"none", "ok", "failed"}] /\ trouble \in [Builds -> BOOLEAN]
      /\ todo[b] \in Seq(Item)
  BY DEF Tidied, Owned, Based, Types, TypeOK, Link, At, Running
<1>2. Troubled(b) => trouble'[b]
  BY <1>1 DEF Troubled
<1>3. step[b] \in Collects \cup {"link"} => Separate(b)
  BY <1>1 DEF Phase, Single
<1>4. CASE UnknownPath(b)
  <2>1. step[b] = "bundle" /\ todo[b] # <<>> /\ Head(todo[b]).kind = "unknown"
    BY <1>4 DEF UnknownPath, Collecting
  <2>2. Head(todo[b]).kind # "unknown"
    BY <1>1, <1>3, <2>1, FineTail DEF Separate, Collects
  <2> QED BY <2>1, <2>2
<1>5. CASE MakeDirectory(b)
  <2>1. step[b] = "module" /\ modules[b] # <<>>
    BY <1>5 DEF MakeDirectory
  <2>2. Head(modules[b]) \in DOMAIN Carried /\ ~Exists(Directory(b))
    BY <1>1, <2>1, Clean, CarryHead
  <2> QED BY <1>1, <1>2, <1>5, <2>2 DEF MakeDirectory
<1>6. CASE CompileSource(b)
  BY <1>1, <1>2, <1>6 DEF CompileSource, Compiled, NotCompiled
<1>7. CASE WriteSource(b)
  BY <1>1, <1>2, <1>7 DEF WriteSource
<1>8. CASE CompileModule(b)
  BY <1>1, <1>2, <1>8 DEF CompileModule, Built, NotBuilt
<1>9. CASE RunClang(b, LlPath(b), OutPath(b), Natives(b))
  <2>1. step[b] = "link"
    BY <1>9 DEF RunClang
  <2>2. linked[b] = "none"
    BY <1>1, <2>1 DEF Phase
  <2>3. IrWhole(b) /\ Distinguished(b) /\ Range(temps[b]) \subseteq WrittenBy(b)
    BY <1>1, <1>3, <2>1, <2>2 DEF Safe, Collected, Separate
  <2>4. Linkable(b, LlPath(b))
    BY <2>3, CanLink
  <2>5. trouble' = [trouble EXCEPT ![b] = trouble[b] \/ Linkable(b, LlPath(b))]
    BY <1>1, <1>9 DEF RunClang
  <2> QED BY <1>1, <2>4, <2>5
<1>10. CASE OpenDirectory(b) \/ BundlesCollected(b) \/ ModulesCollected(b) \/ CleanUp(b)
  BY <1>10 DEF OpenDirectory, BundlesCollected, ModulesCollected, CleanUp
<1> QED BY <1>4, <1>5, <1>6, <1>7, <1>8, <1>9, <1>10 DEF Link, Collect

\* Trouble is not forgotten.
LEMMA TroubleStays ==
  ASSUME Based, NEW b \in Builds, Launch(b) \/ Step(b) \/ Kill(b), trouble[b]
  PROVE  trouble'[b]
<1>1. trouble \in [Builds -> BOOLEAN]
  BY DEF Based, Types, TypeOK
<1>2. Troubled(b) => trouble'[b]
  BY <1>1 DEF Troubled
<1>3. CASE \/ Launch(b) \/ ReadSource(b) \/ Validate(b) \/ OpenIr(b) \/ EmitIr(b) \/ CallLinker(b)
           \/ Finish(b) \/ Kill(b)
  BY <1>2, <1>3 DEF Launch, ReadSource, Validate, OpenIr, EmitIr, CallLinker, StartLink, Finish, Kill,
                    linkerVars
<1>4. CASE Link(b) /\ ~RunClang(b, LlPath(b), OutPath(b), Natives(b))
  BY <1>2, <1>4 DEF Link, Collect, OpenDirectory, UnknownPath, CompileSource, Compiled, NotCompiled,
                    BundlesCollected, MakeDirectory, WriteSource, CompileModule, Built, NotBuilt,
                    ModulesCollected, CleanUp, Quiet
<1>5. CASE RunClang(b, LlPath(b), OutPath(b), Natives(b))
  <2>1. trouble' = trouble \/ trouble' = [trouble EXCEPT ![b] = trouble[b] \/ Linkable(b, LlPath(b))]
    BY <1>5 DEF RunClang
  <2>2. trouble[b] \/ Linkable(b, LlPath(b))
    OBVIOUS
  <2> QED BY <1>1, <2>1, <2>2
<1> QED BY <1>3, <1>4, <1>5 DEF Step


\* A build that cannot be built does not become one that can, unless it is launched.
LEMMA BuildableBefore ==
  ASSUME Owned, NEW b \in Builds, Launch(b) \/ Step(b) \/ Kill(b), NEW c \in Builds,
         c # b \/ ~Launch(b), Buildable(c)'
  PROVE  Buildable(c)
<1>1. /\ Frame(b) /\ command' = command /\ analysis' = analysis
  BY StepBased DEF Owned, Frame
<1>2. Unshared(c)
  BY UnsharedBefore DEF Owned, Buildable
<1>3. Twice(c)' = Twice(c)
  BY <1>1, Settled
<1>4. \A d \in Builds : pc[d] = "killed" => pc'[d] = "killed" /\ pid'[d] = pid[d]
  <2> TAKE d \in Builds
  <2>1. CASE d = b
    BY <2>1, LaunchStep, OwnStep DEF Owned, Running
  <2>2. CASE d # b
    BY <1>1, <2>2 DEF Frame, Same
  <2> QED BY <2>1, <2>2
<1>5. pid'[c] = pid[c]
  BY <1>1, OwnStep DEF Frame, Same, Owned
<1> QED BY <1>1, <1>2, <1>3, <1>4, <1>5 DEF Buildable

\* A step of the build.
LEMMA BlameStep ==
  ASSUME Sound, NEW b \in Builds, Step(b) \/ Kill(b), AtHome(b) => Single(b), Blame(b)
  PROVE  Blame(b)'
<1>1. Tidied /\ Owned /\ Based
  BY DEF Sound, Tidied, Owned
<1>2. SUFFICES ASSUME Buildable(b)', ~trouble'[b], linked'[b] = "failed" PROVE FALSE
  BY DEF Blame
<1>3. Buildable(b)
  <2>1. ~Launch(b)
    BY <1>1, LaunchStep, OwnStep DEF Running
  <2> QED BY <1>1, <1>2, <2>1, BuildableBefore
<1>4. ~trouble[b] /\ linked[b] # "failed"
  BY <1>1, <1>2, <1>3, TroubleStays DEF Blame
<1>5. Safe(b) /\ Single(b)
  BY <1>3 DEF Sound, Buildable, AtHome
<1>6. CASE Link(b)
  BY <1>1, <1>2, <1>3, <1>4, <1>5, <1>6, BlameLink
<1>7. CASE ~Link(b)
  <2>1. UNCHANGED linked
    BY <1>7 DEF Step, ReadSource, Validate, OpenIr, EmitIr, CallLinker, StartLink, Finish, Kill, linkerVars
  <2> QED BY <1>2, <1>4, <2>1
<1> QED BY <1>6, <1>7

Blamed == Sound /\ \A b \in Builds : (AtHome(b) => Single(b)) /\ Blame(b)

\* The invariant holds at first.
LEMMA InitBlamed ==
  ASSUME Init
  PROVE  Blamed
<1>1. \A b \in Builds : pc[b] = "idle" /\ linked[b] = "none"
  BY DEF Init, LinkerInit, DriverInit
<1> QED BY <1>1, InitSound DEF Blamed, Single, Blame

\* A step of one build keeps it for every build.
LEMMA StepBlamed ==
  ASSUME Blamed, NEW b \in Builds, Launch(b) \/ Step(b) \/ Kill(b)
  PROVE  \A c \in Builds : (AtHome(c)' => Single(c)') /\ Blame(c)'
<1>1. Sound /\ Tidied /\ Owned /\ Based /\ Frame(b) /\ command' = command /\ analysis' = analysis
  BY StepBased DEF Blamed, Sound, Tidied, Owned, Frame
<1>2. ASSUME NEW c \in Builds, AtHome(c)' PROVE Single(c)'
  <2>1. AtHome(c)
    BY <1>1, <1>2, UnsharedBefore, Settled DEF AtHome
  <2>2. Single(c) /\ Unshared(c) /\ Safe(c) /\ Numbered(c)
    BY <1>1, <2>1 DEF Blamed, Sound, AtHome
  <2>3. CASE c # b
    BY <1>1, <2>2, <2>3, SingleStays
  <2>4. CASE c = b
    BY <1>1, <2>1, <2>2, <2>4, SingleDriver, SingleCall, SingleLink DEF Step
  <2> QED BY <2>3, <2>4
<1>3. ASSUME NEW c \in Builds PROVE Blame(c)'
  <2>1. CASE c # b
    <3>1. Same(c) /\ Blame(c)
      BY <1>1, <2>1 DEF Frame, Blamed
    <3>2. Buildable(c)' => Buildable(c)
      BY <1>1, <2>1, BuildableBefore
    <3> QED BY <3>1, <3>2 DEF Blame, Same
  <2>2. CASE c = b /\ Launch(b)
    <3>1. pc[b] = "idle" /\ UNCHANGED linked
      BY <2>2 DEF Launch, At
    <3>2. linked[b] = "none"
      BY <1>1, <3>1 DEF Based, Phase, Before
    <3> QED BY <2>2, <3>1, <3>2 DEF Blame
  <2>3. CASE c = b /\ (Step(b) \/ Kill(b))
    BY <1>1, <2>3, BlameStep DEF Blamed
  <2> QED BY <2>1, <2>2, <2>3
<1> QED BY <1>2, <1>3

\* Every step of the specification keeps it.
LEMMA NextBlamed ==
  ASSUME Blamed, [Next]_vars
  PROVE  Blamed'
<1>1. Sound'
  BY NextSound DEF Blamed
<1>2. CASE UNCHANGED vars
  <2>1. \A b \in Builds : (AtHome(b)' => Single(b)') /\ Blame(b)'
    <3> TAKE b \in Builds
    <3>1. /\ (AtHome(b) => Single(b)) /\ Blame(b) /\ (Unshared(b) => Safe(b))
          /\ UNCHANGED <<files, step, todo, modules, temps, count, linked, pid, trouble, pc, command, analysis>>
      BY <1>2 DEF Blamed, Sound, vars, linkerVars, driverVars, given
    <3>2. /\ Twice(b)' = Twice(b) /\ Unshared(b)' = Unshared(b)
      BY <3>1, Settled DEF Unshared, Outputs, LlPath, OutPath
    <3>3. AtHome(b)' = AtHome(b) /\ Buildable(b)' = Buildable(b)
      BY <3>1, <3>2 DEF AtHome, Buildable
    <3>4. ASSUME AtHome(b), pc[b] = "linking", linked[b] = "none" PROVE Separate(b)'
      <4>1. Separate(b) /\ Range(temps[b]) \subseteq WrittenBy(b)
        BY <3>1, <3>4 DEF Single, Safe, Collected, AtHome
      <4>2. \A p \in Range(temps[b]) : Stays(p)
        BY <3>1, <4>1 DEF Stays, WrittenBy
      <4> QED BY <3>1, <4>1, <4>2, SeparateStays
    <3>5. Blame(b)'
      BY <3>1, <3>3 DEF Blame
    <3>6. AtHome(b)' => Single(b)'
      BY <3>1, <3>3, <3>4 DEF Single
    <3> QED BY <3>5, <3>6
  <2> QED BY <1>1, <2>1 DEF Blamed
<1>3. CASE Next
  <2>1. PICK b \in Builds : Launch(b) \/ Step(b) \/ Kill(b)
    BY <1>3 DEF Next
  <2> QED BY <1>1, <2>1, StepBlamed DEF Blamed
<1> QED BY <1>2, <1>3

\* A build that has failed has a reason, in every behaviour.
THEOREM BlamedAlways == Spec => []Blamed
BY InitBlamed, NextBlamed, PTL DEF Spec

\* A correct program is built unless something outside the compiler fails.
THEOREM BlamelessHolds == Spec => []Blameless
<1>1. ASSUME Blamed, NEW b \in Builds, At(b, "exited"), Buildable(b), ~trouble[b]
      PROVE  exit[b] = 0
  <2>1. Course(b) /\ Blame(b) /\ pc[b] = "exited" /\ exit[b] \in 0 .. 5
    BY <1>1 DEF Blamed, Sound, Tidied, Owned, Based, Types, TypeOK, At
  <2>2. exit[b] \notin {1, 2, 3, 4, 5}
    BY <1>1, <2>1 DEF Course, Blame, Buildable
  <2> QED BY <2>1, <2>2
<1>2. Blamed => Blameless
  BY <1>1 DEF Blameless
<1> QED BY <1>2, BlamedAlways, PTL
=============================================================================
