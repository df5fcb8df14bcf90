------------------------------ MODULE MCDriver ------------------------------
(***************************************************************************)
(* Two builds, two identifiers, one kill.  Programs: one without imports,  *)
(* one with a carried module, one with a module from libs/, one whose      *)
(* module comes both ways, one that is wrong.                              *)
(***************************************************************************)
EXTENDS Build, TLC

Io      == <<"adan", "io">>
Math    == <<"adan", "math">>
Process == <<"adan", "process">>
Run     == <<"adan", "process", "run">>

Imports(p) == [op |-> "import", path |-> p]
LinkTo(l)  == [op |-> "link", value |-> l, search |-> FALSE]
MainWith(uses) == [op |-> "function", name |-> <<"main">>, type |-> <<"i32">>, params |-> 0,
                   library |-> "", extern |-> FALSE, body |-> uses, home |-> <<"main">>]
File(decls, embedded, bundle) == [decls |-> decls, embedded |-> embedded, bundle |-> bundle]
MCLibrary == (Io      :> File(<<LinkTo("m")>>, TRUE, "libs/io"))
          @@ (Math    :> File(<<LinkTo("m")>>, FALSE, "libs/math"))
          @@ (Process :> File(<<Imports(Run)>>, TRUE, "libs/process"))
          @@ (Run     :> File(<<>>, FALSE, "libs/process"))
MCEntry ==
  [p \in {"src/backend/runtime", "libs/math", "libs/process"} |->
     CASE p = "src/backend/runtime" -> [kind |-> "directory", name |-> p, sources |-> <<"runtime.c">>]
       [] p = "libs/math"     -> [kind |-> "directory", name |-> p, sources |-> <<"math.c">>]
       [] p = "libs/process"  -> [kind |-> "directory", name |-> p, sources |-> <<"process.c">>]]
MCCarried == (Io      :> [source |-> "io.c", header |-> TRUE])
          @@ (Process :> [source |-> "process.c", header |-> FALSE])

Command(base, program, home) ==
  [usage |-> "ok", base |-> base, program |-> program, raw |-> FALSE, out |-> <<>>,
   libraries |-> <<"m", "z">>, home |-> home]
Both == <<Imports(Math), Imports(Io), MainWith(<<>>)>>
MCCommands ==
  {Command("p", Both, TRUE),
   Command("q", <<Imports(Process), MainWith(<<>>)>>, TRUE),
   Command("q", <<Imports(Io), MainWith(<<>>)>>, FALSE),
   Command("q", <<Imports(Math), MainWith(<<>>)>>, FALSE),
   [Command("q", <<MainWith(<<>>)>>, TRUE) EXCEPT !.raw = TRUE],
   [Command("q", <<MainWith(<<>>)>>, TRUE) EXCEPT !.out = <<"path", "o">>],
   [Command("q", Both, TRUE) EXCEPT !.usage = "bad"],
   [Command("q", Both, TRUE) EXCEPT !.usage = "help"]}
=============================================================================
