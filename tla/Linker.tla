------------------------------- MODULE Linker -------------------------------
(***************************************************************************)
(* linker_link of linker.c, for several builds that run at one time on one *)
(* file system: it collects the C sources a program needs, from bundle     *)
(* paths and from the text the compiler carries, has each one compiled to  *)
(* a temporary object, has everything linked and removes the objects.      *)
(*                                                                         *)
(* A path is a tuple.  What a file holds is [by, parts, whole]: the build  *)
(* that wrote it, the set of what went into it, and whether it was written *)
(* to its end.                                                             *)
(* What the operating system and clang answer is chosen; an answer that is *)
(* a failure is remembered in trouble.                                     *)
(***************************************************************************)
EXTENDS Integers, Sequences, FiniteSets, SequencesExt

CONSTANTS Builds,    \* the builds, strings
          Pids,      \* process identifiers
          Carried    \* Carried[path]: the C file of an embedded module, and whether it has a header

VARIABLES
  files,    \* the files there are, paths to contents
  step,     \* step[b]: where linker_link stands, "idle" before and after
  todo,     \* the bundle paths still to be collected: [kind, name, sources]
  modules,  \* the embedded modules still to be collected
  items,    \* link_items
  temps,    \* temp_objs
  count,    \* tmpid
  linked,   \* what linker_link returned: "none", "ok" or "failed"
  pid,      \* the process of the build
  trouble   \* a call to the outside failed

linkerVars == <<files, step, todo, modules, items, temps, count, linked, pid, trouble>>

\* Mutant: the names of objects have no process in them.
MutObject(b, kind) == <<kind, count[b]>>

Object(b, kind) == <<kind, pid[b], count[b]>>
Directory(b)    == <<"dir", pid[b], count[b]>>
SourceFile(b)   == <<"source", pid[b], count[b]>>
HeaderFile(b)   == <<"header", pid[b], count[b]>>

Exists(p)       == p \in DOMAIN files
Content(b, parts) == [by |-> b, parts |-> parts, whole |-> TRUE]
Torn(b)           == [by |-> b, parts |-> {}, whole |-> FALSE]
With(fs, p, content) == [q \in DOMAIN fs \cup {p} |-> IF q = p THEN content ELSE fs[q]]
Without(fs, ps)      == [p \in DOMAIN fs \ ps |-> fs[p]]

\* Steps that change neither the files nor the outside's answers.
Quiet == UNCHANGED <<files, trouble>>

GoesTo(b, s)   == step' = [step EXCEPT ![b] = s]
Troubled(b)    == trouble' = [trouble EXCEPT ![b] = TRUE]
GivesUp(b)     == GoesTo(b, "cleanup") /\ linked' = [linked EXCEPT ![b] = "failed"]

LinkerInit ==
  /\ files = <<>>
  /\ step = [b \in Builds |-> "idle"]
  /\ todo = [b \in Builds |-> <<>>] /\ modules = [b \in Builds |-> <<>>]
  /\ items = [b \in Builds |-> <<>>] /\ temps = [b \in Builds |-> <<>>]
  /\ count = [b \in Builds |-> 0]
  /\ linked = [b \in Builds |-> "none"]
  /\ pid = [b \in Builds |-> 0]
  /\ trouble = [b \in Builds |-> FALSE]

(***************************************************************************)
(* collect_bundle_link_items                                               *)
(***************************************************************************)
Collecting(b, kind) ==
  step[b] = "bundle" /\ todo[b] # <<>> /\ Head(todo[b]).kind = kind

\* The C files of a directory take its place; a directory that cannot be opened is left out.
OpenDirectory(b) ==
  /\ Collecting(b, "directory")
  /\ \/ LET each == [k \in DOMAIN Head(todo[b]).sources |->
                       [kind |-> "c", name |-> Head(todo[b]).sources[k], sources |-> <<>>]]
        IN todo' = [todo EXCEPT ![b] = each \o Tail(@)] /\ UNCHANGED trouble
     \/ todo' = [todo EXCEPT ![b] = Tail(@)] /\ Troubled(b)
  /\ UNCHANGED <<files, step, modules, items, temps, count, linked, pid>>

\* Neither a directory nor a file.
UnknownPath(b) ==
  /\ Collecting(b, "unknown")
  /\ GivesUp(b)
  /\ Quiet /\ UNCHANGED <<todo, modules, items, temps, count, pid>>

\* The object takes part in the link.
Recorded(b, object) ==
  /\ items' = [items EXCEPT ![b] = Append(@, object)]
  /\ temps' = [temps EXCEPT ![b] = Append(@, object)]

Compiled(b) ==
  LET object == Object(b, "bundle")
  IN /\ files' = With(files, object, Content(b, {Head(todo[b]).name}))
     /\ Recorded(b, object)
     /\ todo' = [todo EXCEPT ![b] = Tail(@)]
     /\ UNCHANGED <<step, linked, trouble>>

\* clang fails with or without having begun the object; or the object is there and is not recorded
\* for want of memory.
NotCompiled(b) ==
  LET object == Object(b, "bundle")
  IN /\ files' \in {files, With(files, object, Torn(b)),
                    With(files, object, Content(b, {Head(todo[b]).name}))}
     /\ GivesUp(b) /\ Troubled(b)
     /\ UNCHANGED <<items, temps, todo>>

\* Mutant: the counter of temporary names stays.
MutCompileSource(b) ==
  /\ Collecting(b, "c")
  /\ Compiled(b) \/ NotCompiled(b)
  /\ UNCHANGED <<count, modules, pid>>

\* compile_c_file
CompileSource(b) ==
  /\ Collecting(b, "c")
  /\ count' = [count EXCEPT ![b] = @ + 1]
  /\ Compiled(b) \/ NotCompiled(b)
  /\ UNCHANGED <<modules, pid>>

BundlesCollected(b) ==
  /\ step[b] = "bundle" /\ todo[b] = <<>>
  /\ GoesTo(b, "module")
  /\ count' = [count EXCEPT ![b] = 0]
  /\ Quiet /\ UNCHANGED <<todo, modules, items, temps, linked, pid>>

(***************************************************************************)
(* collect_embedded_link_items                                             *)
(***************************************************************************)
\* A module without C source, or a directory that cannot be made: also one that is there already.
MakeDirectory(b) ==
  /\ step[b] = "module" /\ modules[b] # <<>>
  /\ \/ /\ Head(modules[b]) \in DOMAIN Carried /\ ~Exists(Directory(b))
        /\ files' = With(files, Directory(b), Content(b, {}))
        /\ GoesTo(b, "source") /\ UNCHANGED <<linked, trouble>>
     \/ /\ Head(modules[b]) \notin DOMAIN Carried \/ Exists(Directory(b))
        /\ GivesUp(b) /\ Quiet
     \/ GivesUp(b) /\ Troubled(b) /\ UNCHANGED files
  /\ UNCHANGED <<todo, modules, items, temps, count, pid>>

\* The header that cannot be written is left out.
WriteSource(b) ==
  LET written == With(files, SourceFile(b), Content(b, {}))
  IN /\ step[b] = "source"
     /\ \/ /\ files' = IF Carried[Head(modules[b])].header
                       THEN With(written, HeaderFile(b), Content(b, {})) ELSE written
           /\ GoesTo(b, "object") /\ UNCHANGED <<linked, trouble>>
        \/ /\ Carried[Head(modules[b])].header
           /\ files' = written
           /\ GoesTo(b, "object") /\ Troubled(b) /\ UNCHANGED linked
        \/ /\ files' = Without(files, {Directory(b)})
           /\ GivesUp(b) /\ Troubled(b)
     /\ UNCHANGED <<todo, modules, items, temps, count, pid>>

\* What a module has in its temporary directory, and the directory.
Used(b) == {SourceFile(b), HeaderFile(b), Directory(b)}

Built(b) ==
  LET object == Object(b, "embedded")
      module == Carried[Head(modules[b])]
  IN /\ module.header => Exists(HeaderFile(b))
     /\ files' = With(Without(files, Used(b)), object, Content(b, {module.source}))
     /\ Recorded(b, object)
     /\ modules' = [modules EXCEPT ![b] = Tail(@)]
     /\ count' = [count EXCEPT ![b] = @ + 1]
     /\ GoesTo(b, "module") /\ UNCHANGED <<linked, trouble>>

NotBuilt(b, removed) ==
  /\ files' = Without(With(files, Object(b, "embedded"), Torn(b)), removed)
  /\ GivesUp(b) /\ Troubled(b) /\ UNCHANGED <<items, temps, modules, count>>

\* Mutant: the object of a compilation that failed stays.
MutCompileModule(b) ==
  /\ step[b] = "object"
  /\ Built(b) \/ NotBuilt(b, Used(b))
  /\ UNCHANGED <<todo, pid>>

\* Whatever clang answers the directory goes; if it fails, or there is no memory, the object too.
CompileModule(b) ==
  /\ step[b] = "object"
  /\ Built(b) \/ NotBuilt(b, Used(b) \cup {Object(b, "embedded")})
  /\ UNCHANGED <<todo, pid>>

ModulesCollected(b) ==
  /\ step[b] = "module" /\ modules[b] = <<>>
  /\ GoesTo(b, "link")
  /\ Quiet /\ UNCHANGED <<todo, modules, items, temps, count, linked, pid>>

(***************************************************************************)
(* linker_link                                                             *)
(***************************************************************************)
StartLink(b, bundles, embedded) ==
  /\ todo' = [todo EXCEPT ![b] = bundles]
  /\ modules' = [modules EXCEPT ![b] = embedded]
  /\ count' = [count EXCEPT ![b] = 0]
  /\ GoesTo(b, "bundle")
  /\ UNCHANGED <<files, items, temps, linked, pid, trouble>>

\* clang wants every input to be there in full, and no source twice among them.
Linkable(b, ll) ==
  /\ Exists(ll) /\ files[ll].whole
  /\ \A k \in DOMAIN items[b] : Exists(items[b][k])
  /\ \A j, k \in DOMAIN items[b] :
       files[items[b][j]].parts = files[items[b][k]].parts => j = k

\* Mutant: the status of clang is not looked at.
MutRunClang(b, ll, out, libraries) ==
  /\ step[b] = "link"
  /\ IF Linkable(b, ll) THEN files' = With(files, out, Content(b, files[ll].parts))
     ELSE UNCHANGED files
  /\ linked' = [linked EXCEPT ![b] = "ok"]
  /\ GoesTo(b, "cleanup")
  /\ UNCHANGED <<todo, modules, items, temps, count, pid, trouble>>

\* The executable, from the IR, the items and the libraries.
RunClang(b, ll, out, libraries) ==
  /\ step[b] = "link"
  /\ \/ /\ Linkable(b, ll)
        /\ LET objects == UNION {files[p].parts : p \in Range(items[b])}
           IN files' = With(files, out, Content(b, files[ll].parts \cup objects \cup libraries))
        /\ linked' = [linked EXCEPT ![b] = "ok"] /\ UNCHANGED trouble
     \/ /\ linked' = [linked EXCEPT ![b] = "failed"]
        /\ trouble' = [trouble EXCEPT ![b] = @ \/ Linkable(b, ll)]
        /\ UNCHANGED files
  /\ GoesTo(b, "cleanup")
  /\ UNCHANGED <<todo, modules, items, temps, count, pid>>

\* Mutant: there is nothing to do when no object was made.
MutCleanUp(b) ==
  /\ step[b] = "cleanup" /\ temps[b] # <<>>
  /\ files' = Without(files, Range(temps[b]))
  /\ items' = [items EXCEPT ![b] = <<>>]
  /\ temps' = [temps EXCEPT ![b] = <<>>]
  /\ GoesTo(b, "idle")
  /\ UNCHANGED <<todo, modules, count, linked, pid, trouble>>

\* cleanup_temp_objects
CleanUp(b) ==
  /\ step[b] = "cleanup"
  /\ files' = Without(files, Range(temps[b]))
  /\ items' = [items EXCEPT ![b] = <<>>]
  /\ temps' = [temps EXCEPT ![b] = <<>>]
  /\ GoesTo(b, "idle")
  /\ UNCHANGED <<todo, modules, count, linked, pid, trouble>>

Collect(b) ==
  \/ OpenDirectory(b) \/ UnknownPath(b) \/ CompileSource(b)
  \/ BundlesCollected(b) \/ MakeDirectory(b) \/ WriteSource(b) \/ CompileModule(b)
  \/ ModulesCollected(b) \/ CleanUp(b)
=============================================================================
