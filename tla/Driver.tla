------------------------------- MODULE Driver -------------------------------
(***************************************************************************)
(* main of main.c: from the command line to the executable, through the    *)
(* analysis, the file of IR and module Linker.  Builds may run at one      *)
(* time, be killed at any point, and get the process identifier of one     *)
(* that has ended.                                                         *)
(*                                                                         *)
(* A command is [usage, base, program, raw, out, libraries, home]: whether *)
(* the options can be used, the source path without its extension, the     *)
(* source, -r, -o or the default, -l, and whether it is given where libs/  *)
(* and src/backend/runtime are.                                            *)
(***************************************************************************)
EXTENDS Linker

CONSTANTS Commands,
          Analysis(_), \* Analysis(c): what the analysis makes of the program of c, see module Build:
                       \* [errors, bundles, embedded, natives]
          Entry,       \* Entry[path]: what a bundle path is: [kind, name, sources]
          MaxKills     \* bound on the builds that are killed

VARIABLES
  pc,       \* "idle", "read", "validate", "open", "emit", "link", "linking", "exited" or "killed"
  command,  \* command[b]: what build b was started with
  analysis, \* analysis[b]: what the analysis makes of its program
  exit,     \* exit[b]: its exit status
  kills

given      == <<command, analysis>>
driverVars == <<pc, given, exit, kills>>
vars == <<linkerVars, driverVars>>

Runtime == "src/backend/runtime"

\* No output is given the name of a temporary file.
ASSUME CommandsAssumption ==
  /\ MaxKills \in Nat
  /\ \A c \in Commands :
       /\ c.usage \in {"ok", "help", "bad"}
       /\ c.out = <<>> \/ c.out[1] \in {"path", "ll"}

\* The analysis names directories that exist and modules the compiler carries, none twice.
ASSUME AnalysisAssumption == \A c \in Commands :
  LET a == Analysis(c)
  IN /\ a.errors \in Nat
     /\ a.bundles \in Seq(DOMAIN Entry \ {Runtime}) /\ IsInjective(a.bundles)
     /\ a.embedded \in Seq(DOMAIN Carried) /\ IsInjective(a.embedded)

\* Every file of libs/ is in one directory, and belongs to one module.
ASSUME EntryAssumption ==
  /\ Entry \in [DOMAIN Entry -> [kind : {"directory"}, name : STRING, sources : Seq(STRING)]]
  /\ Runtime \in DOMAIN Entry
  /\ \A p \in DOMAIN Entry :
       /\ IsInjective(Entry[p].sources)
       /\ \A q \in DOMAIN Entry \ {p} : Range(Entry[p].sources) \cap Range(Entry[q].sources) = {}
  /\ Carried \in [DOMAIN Carried -> [source : STRING, header : BOOLEAN]]
  /\ \A p, q \in DOMAIN Carried : Carried[p].source = Carried[q].source => p = q

Running(b) == pc[b] \notin {"idle", "exited", "killed"}

LlPath(b)  == <<"ll", command[b].base>>
\* Without -o the source path without its extension; in a directory, the stem of the source in it.
OutPath(b) == IF command[b].out = <<>> THEN <<"path", command[b].base>> ELSE command[b].out

\* The libraries given with -l and those the program names, each once.
AppendCsv(csv, values) == csv \cup Range(values)
Natives(b) == AppendCsv(AppendCsv({}, command[b].libraries), analysis[b].natives)

\* build_combined_bundle_paths: the runtime first, which is not there away from home.
Missing == [kind |-> "unknown", name |-> Entry[Runtime].name, sources |-> <<>>]
Bundles(b) ==
  LET paths == <<Runtime>> \o analysis[b].bundles
  IN [k \in DOMAIN paths |->
        IF command[b].home \/ paths[k] # Runtime THEN Entry[paths[k]] ELSE Missing]

DriverInit ==
  /\ pc = [b \in Builds |-> "idle"]
  /\ command \in Injection(Builds, Commands)
  /\ analysis = [b \in Builds |-> Analysis(command[b])]
  /\ exit = [b \in Builds |-> 0]
  /\ kills = 0

Init == LinkerInit /\ DriverInit

GoTo(b, place) == pc' = [pc EXCEPT ![b] = place]
Exits(b, code) == GoTo(b, "exited") /\ exit' = [exit EXCEPT ![b] = code]
At(b, place)   == pc[b] = place

\* The operating system gives a build an identifier that no running process has.
Launch(b) ==
  /\ At(b, "idle")
  /\ \E p \in Pids :
       /\ \A c \in Builds : Running(c) => pid[c] # p
       /\ pid' = [pid EXCEPT ![b] = p]
  /\ CASE command[b].usage = "ok"   -> GoTo(b, "read") /\ UNCHANGED exit
       [] command[b].usage = "help" -> Exits(b, 0)
       [] command[b].usage = "bad"  -> Exits(b, 1)
  /\ UNCHANGED <<files, step, todo, modules, items, temps, count, linked, trouble, given, kills>>

\* Errors of the parser are printed, and the tree it recovered goes on.
ReadSource(b) ==
  /\ At(b, "read")
  /\ \/ GoTo(b, "validate") /\ UNCHANGED <<exit, trouble>>
     \/ Exits(b, 2) /\ Troubled(b)
  /\ UNCHANGED <<files, step, todo, modules, items, temps, count, linked, pid, given, kills>>

Validate(b) ==
  /\ At(b, "validate")
  /\ IF analysis[b].errors = 0 THEN GoTo(b, "open") /\ UNCHANGED exit ELSE Exits(b, 3)
  /\ UNCHANGED <<linkerVars, given, kills>>

\* backend_compile_ast_to_llvm_file opens the file, which empties it, ...
OpenIr(b) ==
  /\ At(b, "open")
  /\ \/ /\ files' = With(files, LlPath(b), Torn(b))
        /\ GoTo(b, "emit") /\ UNCHANGED <<exit, trouble>>
     \/ Exits(b, 4) /\ Troubled(b) /\ UNCHANGED files
  /\ UNCHANGED <<step, todo, modules, items, temps, count, linked, pid, given, kills>>

\* ... and writes it, unless it was removed meanwhile.  What was emitted before a failure stays.
EmitIr(b) ==
  /\ At(b, "emit")
  /\ \/ /\ files' = IF Exists(LlPath(b)) THEN With(files, LlPath(b), Content(b, {b})) ELSE files
        /\ IF command[b].raw THEN Exits(b, 0) ELSE GoTo(b, "link") /\ UNCHANGED exit
        /\ UNCHANGED trouble
     \/ Exits(b, 4) /\ Troubled(b) /\ UNCHANGED files
  /\ UNCHANGED <<step, todo, modules, items, temps, count, linked, pid, given, kills>>

CallLinker(b) ==
  /\ At(b, "link")
  /\ GoTo(b, "linking")
  /\ StartLink(b, Bundles(b), analysis[b].embedded)
  /\ UNCHANGED <<given, exit, kills>>

Link(b) ==
  /\ At(b, "linking")
  /\ Collect(b) \/ RunClang(b, LlPath(b), OutPath(b), Natives(b))
  /\ UNCHANGED driverVars

\* Mutant: the status is what the linker returned.
MutFinish(b) ==
  /\ At(b, "linking") /\ step[b] = "idle"
  /\ IF linked[b] = "ok" THEN files' = Without(files, {LlPath(b)}) /\ Exits(b, 0)
     ELSE Exits(b, -1) /\ UNCHANGED files
  /\ UNCHANGED <<step, todo, modules, items, temps, count, linked, pid, trouble, given, kills>>

\* The file of IR goes once it is linked.
Finish(b) ==
  /\ At(b, "linking") /\ step[b] = "idle"
  /\ IF linked[b] = "ok" THEN files' = Without(files, {LlPath(b)}) /\ Exits(b, 0)
     ELSE Exits(b, 5) /\ UNCHANGED files
  /\ UNCHANGED <<step, todo, modules, items, temps, count, linked, pid, trouble, given, kills>>

\* A signal, or the machine: what is on disk stays.
Kill(b) ==
  /\ Running(b) /\ kills < MaxKills
  /\ kills' = kills + 1
  /\ GoTo(b, "killed")
  /\ UNCHANGED <<linkerVars, given, exit>>

Step(b) == \/ ReadSource(b) \/ Validate(b) \/ OpenIr(b) \/ EmitIr(b)
           \/ CallLinker(b) \/ Link(b) \/ Finish(b)

Next == \E b \in Builds : Launch(b) \/ Step(b) \/ Kill(b)

\* A build that runs goes on: every call it makes returns.
Spec == Init /\ [][Next]_vars /\ \A b \in Builds : WF_vars(Step(b))

(***************************************************************************)
(* Properties.                                                             *)
(***************************************************************************)
Places == {"idle", "read", "validate", "open", "emit", "link", "linking", "exited", "killed"}
Steps  == {"idle", "bundle", "module", "source", "object", "link", "cleanup"}
TypeOK ==
  /\ pc \in [Builds -> Places]
  /\ step \in [Builds -> Steps]
  /\ linked \in [Builds -> {"none", "ok", "failed"}]
  /\ pid \in [Builds -> Pids \cup {0}] /\ count \in [Builds -> Nat]
  /\ exit \in [Builds -> 0 .. 5] /\ kills \in 0 .. MaxKills
  /\ trouble \in [Builds -> BOOLEAN] /\ command \in [Builds -> Commands]

\* Builds of different sources, with outputs that are no file of IR.
Outputs(b) == {LlPath(b), OutPath(b)}
Unshared(b) ==
  /\ LlPath(b) # OutPath(b)
  /\ \A c \in Builds \ {b} : pc[c] # "idle" => Outputs(b) \cap Outputs(c) = {}

\* The C files a program needs, and those that come both from a directory and with the compiler.
EmbeddedSources(b) == {Carried[p].source : p \in Range(analysis[b].embedded) \cap DOMAIN Carried}
BundledSources(b)  == UNION {Range(Bundles(b)[k].sources) : k \in DOMAIN Bundles(b)}
Twice(b)           == EmbeddedSources(b) \cap BundledSources(b)

\* A build that says it has made an executable has: from the IR of its own program, from every C
\* source the program's modules need, and with every library it names; also when other builds run
\* or died and have left files behind.  A directory that cannot be read is passed over in silence.
Honest == \A b \in Builds :
  At(b, "exited") /\ exit[b] = 0 /\ command[b].usage = "ok" /\ ~command[b].raw
  /\ Unshared(b) /\ ~trouble[b]
    => /\ Exists(OutPath(b))
       /\ files[OutPath(b)].by = b
       /\ files[OutPath(b)].parts =
            {b} \cup EmbeddedSources(b) \cup BundledSources(b)
                \cup Range(command[b].libraries) \cup Range(analysis[b].natives)

\* What a build that was not killed leaves behind: the executable, or with -r and after a failure
\* the IR, and after a failed compilation from a bundle at most its object.
WrittenBy(b) == {p \in DOMAIN files : files[p].by = b}
Tidy == \A b \in Builds :
  At(b, "exited") =>
    LET left    == WrittenBy(b) \ Outputs(b)
    IN /\ exit[b] # 5 => left = {}
       /\ Cardinality(left) <= 1 /\ \A p \in left : p[1] = "bundle"
       /\ LlPath(b) \in WrittenBy(b) => command[b].raw \/ exit[b] \in {4, 5}

\* A correct program is built where nothing outside fails: a failure has a reason.  The reasons the
\* code adds itself: a directory left by a build that was killed with the same identifier, and a C
\* file that comes from a directory and with the compiler.
Buildable(b) ==
  /\ command[b].usage = "ok" /\ command[b].home /\ Unshared(b)
  /\ analysis[b].errors = 0 /\ Twice(b) = {}
  /\ \A c \in Builds : pc[c] = "killed" => pid[c] # pid[b]
Blameless == \A b \in Builds :
  At(b, "exited") /\ Buildable(b) /\ ~trouble[b] => exit[b] = 0

\* A step of one build touches no file that another has and still may need: all that one that runs
\* has written, and the executable and the IR of one that has ended.
Kept(b) == IF Running(b) THEN WrittenBy(b) ELSE WrittenBy(b) \cap Outputs(b)
Undisturbed(b) ==
  Unshared(b) /\ UNCHANGED <<pc[b], step[b], count[b], todo[b]>> =>
    \A p \in Kept(b) : p \in DOMAIN files' /\ files'[p] = files[p]
Isolated == [][\A b \in Builds : Undisturbed(b)]_vars

\* Every build that is not killed ends.
Ends == \A b \in Builds : At(b, "read") ~> At(b, "exited") \/ At(b, "killed")
=============================================================================
