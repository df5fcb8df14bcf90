------------------------------ MODULE Imports ------------------------------
(***************************************************************************)
(* What validator.c makes of a program and the modules it imports: one     *)
(* walk that validates each module where it is imported first, gives its   *)
(* declarations names of their own (__ns_<module>_<name>), registers its   *)
(* exports and puts the declarations behind those of the importer.         *)
(*                                                                         *)
(* A path is the sequence of its segments.  A name is <<text>> as it is    *)
(* written and <<module, text>> once it is internal.  A library is a       *)
(* function from paths to [decls, embedded, bundle]: the declarations of   *)
(* the file, whether the compiler carries its text, and the directories    *)
(* that exist for it.  A declaration is one of                             *)
(*   [op |-> "import", path]          [op |-> "link", value, search]       *)
(*   [op |-> "variable", name, type, home]                                 *)
(*   [op |-> "function", name, type, params, library, extern, body, home]  *)
(* where home is the file that holds it.  A use in a body is               *)
(* [in, name, call, args, callee, ok]: the module it names or "", whether  *)
(* it is a call, and what validation makes of it.                          *)
(***************************************************************************)
EXTENDS Integers, Sequences, TLC

\* Names that begin with two underscores belong to the library that declares them.
Private(f) == f \in {"__p", "__q"}

Plain(f)        == <<f>>
Internal(ns, f) == <<ns, f>>
IsInternal(name) == Len(name) = 2

Namespace(path)  == path[Len(path)]
IsStandard(path) == Len(path) > 1 /\ path[1] = "adan"
LibraryRoot(path) == path[2]

\* The analysis before the first declaration.
Start(main) ==
  [prog       |-> main,           \* the declarations of the file being validated
   scopes     |-> << <<>> >>,     \* the symbol table stack, names to types
   exports    |-> <<>>,           \* module_exports, in the order of registration
   imported   |-> {},             \* imported_paths
   signatures |-> <<>>,           \* function_signatures, names to parameter counts
   root       |-> "",             \* the library being validated
   bundles    |-> <<>>, embedded |-> <<>>, natives |-> <<>>, searches |-> <<>>,
   errors     |-> 0,
   hangs      |-> FALSE]          \* a loop that does not end was entered

Fail(a) == [a EXCEPT !.errors = @ + 1]
Elements(s) == {s[k] : k \in DOMAIN s}
Marked(s, x) == IF x \in Elements(s) THEN s ELSE Append(s, x)

InScope(a, name) == \E k \in DOMAIN a.scopes : name \in DOMAIN a.scopes[k]

\* declare_symbol: twice with one type is let through.
Declare(a, name, type) ==
  LET top == a.scopes[Len(a.scopes)]
  IN IF name \in DOMAIN top THEN IF top[name] = type THEN a ELSE Fail(a)
     ELSE [a EXCEPT !.scopes[Len(a.scopes)] = (name :> type) @@ top]

\* register_function_signature keeps the first that came with a name.
Signed(a, decl) == [a EXCEPT !.signatures = @ @@ (decl.name :> decl.params)]

(***************************************************************************)
(* The registry of exports.                                                *)
(***************************************************************************)
Visible(a, e) == ~e.private \/ a.root # ""

\* The first of the exports with a place in ks.
NoExport == [module |-> "", public |-> ""]
FirstExport(a, ks) ==
  IF ks = {} THEN NoExport ELSE a.exports[CHOOSE k \in ks : \A j \in ks : k <= j]

FindExport(a, ns, f) ==
  LET Is(e) == e.module = ns /\ e.public = f /\ Visible(a, e)
  IN FirstExport(a, {k \in DOMAIN a.exports : Is(a.exports[k])})
FindByInternal(a, name) ==
  FirstExport(a, {k \in DOMAIN a.exports : a.exports[k].internal = name})

Register(a, e) ==
  IF FindExport(a, e.module, e.public) # NoExport THEN a ELSE [a EXCEPT !.exports = Append(@, e)]

RECURSIVE RegisterAll(_, _, _)
RegisterAll(a, es, ns) ==
  IF es = <<>> THEN a ELSE RegisterAll(Register(a, [Head(es) EXCEPT !.module = ns]), Tail(es), ns)

\* module_type_for_name: the text lists the exports that are visible here.
ModuleType(a, ns) ==
  LET listed == SelectSeq(a.exports, LAMBDA e : e.module = ns /\ Visible(a, e))
  IN <<"module">> \o [k \in DOMAIN listed |-> listed[k].public]

(***************************************************************************)
(* Uses.                                                                   *)
(***************************************************************************)
\* A call, once its callee is known, wants the name in scope and the count of its arguments.
Checked(a, u, name) ==
  [u EXCEPT !.callee = name,
            !.ok = /\ InScope(a, name)
                   /\ name \in DOMAIN a.signatures /\ a.signatures[name] = u.args]

\* An unqualified private name means the first export that has it, whatever module that is of.
PlainCallee(a, f) ==
  LET e == FirstExport(a, {k \in DOMAIN a.exports : a.exports[k].public = f})
  IN IF Private(f) /\ e # NoExport THEN e.internal ELSE Plain(f)

\* Mutant: only what is in scope under the internal name is found.
MutQualified(a, ns, f, functions) == IF InScope(a, Internal(ns, f)) THEN Internal(ns, f) ELSE <<>>

\* What ns.f stands for: an export, else whatever has the internal name, else nothing.
Qualified(a, ns, f, functions) ==
  LET e == FindExport(a, ns, f)
  IN IF e # NoExport /\ (functions => e.function) THEN e.internal
     ELSE IF InScope(a, Internal(ns, f)) THEN Internal(ns, f) ELSE <<>>

\* The parser makes a module call of ns.f( behind an import that ends in ns, else a call of a method.
IsModuleCall(a, u, k) ==
  \E j \in 1 .. k - 1 : a.prog[j].op = "import" /\ Namespace(a.prog[j].path) = u.in

Call(a, u, k) ==
  LET target == Qualified(a, u.in, u.name, IsModuleCall(a, u, k))
  IN IF u.in = "" THEN Checked(a, u, PlainCallee(a, u.name))
     ELSE IF target # <<>> THEN Checked(a, u, target)
     ELSE [u EXCEPT !.ok = FALSE]

\* A member of a module is read as a variable, or left to be an access to an object.
Read(a, u) ==
  IF u.in = "" THEN [u EXCEPT !.callee = Plain(u.name), !.ok = InScope(a, Plain(u.name))]
  ELSE LET e == FindExport(a, u.in, u.name)
       IN [u EXCEPT !.ok = InScope(a, Plain(u.in)),
                    !.callee = IF e # NoExport /\ e.function THEN <<>>
                               ELSE Qualified(a, u.in, u.name, FALSE)]

Use(a, u, k) == IF u.call THEN Call(a, u, k) ELSE Read(a, u)

(***************************************************************************)
(* Exports of a module, collected behind its validation.                   *)
(***************************************************************************)
Export(decl, ns) ==
  [module |-> ns, public |-> decl.name[1], internal |-> Internal(ns, decl.name[1]),
   type |-> decl.type, private |-> Private(decl.name[1]), function |-> decl.op = "function"]

\* Whose exports the loop over them registers for ns.  With the module's own last segment it reads
\* what it appends, and appends without end what it does not see to be registered.
Reexported(a, path, ns) ==
  LET es == SelectSeq(a.exports, LAMBDA e : e.module = Namespace(path))
  IN IF Namespace(path) # ns THEN RegisterAll(a, es, ns)
     ELSE [a EXCEPT !.hangs = @ \/ \E k \in DOMAIN es :
                                      FindExport(a, ns, es[k].public) = NoExport]

Collected(a, decl, ns) ==
  CASE decl.op = "import" -> Reexported(a, decl.path, ns)
    [] decl.op \in {"function", "variable"} /\ IsInternal(decl.name) ->
         LET e == FindByInternal(a, decl.name)
         IN IF e = NoExport THEN a ELSE Register(a, [e EXCEPT !.module = ns])
    [] decl.op \in {"function", "variable"} -> Register(a, Export(decl, ns))
    [] OTHER -> a

RECURSIVE CollectExports(_, _, _)
CollectExports(a, decls, ns) ==
  IF decls = <<>> THEN a ELSE CollectExports(Collected(a, Head(decls), ns), Tail(decls), ns)

\* The names a module's own declarations bind, by what they declare.
Bound(decls, op) == {decls[k].name[1] : k \in {j \in DOMAIN decls :
                       decls[j].op = op /\ ~IsInternal(decls[j].name)}}

Renamed(name, ns, bound) ==
  IF Len(name) = 1 /\ name[1] \in bound THEN Internal(ns, name[1]) ELSE name

\* rewrite_import_bindings_in_node: the declarations and the uses without a module.
RewrittenUse(u, ns, functions, variables) ==
  [u EXCEPT !.callee = Renamed(@, ns, IF u.call THEN functions ELSE functions \cup variables)]

Rewritten(decls, ns) ==
  LET functions == Bound(decls, "function")
      variables == Bound(decls, "variable")
      Body(body) == [i \in DOMAIN body |-> RewrittenUse(body[i], ns, functions, variables)]
  IN [k \in DOMAIN decls |->
        LET d == decls[k]
        IN CASE d.op = "function" ->
                  [d EXCEPT !.name = Renamed(@, ns, functions), !.body = Body(@)]
             [] d.op = "variable" -> [d EXCEPT !.name = Renamed(@, ns, variables)]
             [] OTHER -> d]

(***************************************************************************)
(* The walk.                                                               *)
(***************************************************************************)
\* declare_imported_symbols: the module's names come into the scope of the importer.
Declared(a, decl) ==
  LET e == FindByInternal(a, decl.name)
  IN IF IsInternal(decl.name) /\ (e = NoExport \/ ~Visible(a, e)) THEN a
     ELSE LET here == Declare(a, decl.name, decl.type)
          IN IF decl.op = "function" THEN Signed(here, decl) ELSE here

RECURSIVE DeclareImported(_, _)
DeclareImported(a, decls) ==
  IF decls = <<>> THEN a
  ELSE DeclareImported(IF Head(decls).op \in {"function", "variable"} THEN Declared(a, Head(decls))
                       ELSE a, Tail(decls))

RECURSIVE DeclareExports(_, _)
DeclareExports(a, es) ==
  IF es = <<>> THEN a ELSE DeclareExports(Declare(a, Head(es).internal, Head(es).type), Tail(es))

\* redeclare_known_module_import
Redeclare(a, ns) ==
  DeclareExports(Declare(a, Plain(ns), ModuleType(a, ns)),
                 SelectSeq(a.exports, LAMBDA e : e.module = ns /\ Visible(a, e)))

Merged(decls, more) == decls \o SelectSeq(more, LAMBDA d : d.op # "import")

ValidateVariable(a, decl) == Declare(a, decl.name, decl.type)

ValidateLink(a, decl) ==
  IF decl.search THEN [a EXCEPT !.searches = Marked(@, decl.value)]
  ELSE [a EXCEPT !.natives = Marked(@, decl.value)]

ValidateFunction(a, decl, k) ==
  LET linked == IF decl.extern /\ decl.library # ""
                THEN [a EXCEPT !.natives = Marked(@, decl.library)] ELSE a
      here   == Signed(Declare(linked, decl.name, decl.type), decl)
      body   == [i \in DOMAIN decl.body |-> Use(here, decl.body[i], k)]
      bad    == Len(SelectSeq(body, LAMBDA u : ~u.ok))
  IN IF decl.extern THEN here
     ELSE [here EXCEPT !.prog[k].body = body, !.errors = @ + bad]

RECURSIVE ValidateDeclarations(_, _, _, _)

\* Mutant: the library of the importer is not restored.
MutReturned(a, done) == [done EXCEPT !.prog = a.prog, !.scopes = a.scopes]

\* Back in the file of the importer.
Returned(a, done) == [done EXCEPT !.prog = a.prog, !.scopes = a.scopes, !.root = a.root]

\* The path is marked before the module is validated; the directory only when it is not embedded.
Entered(a, path, file) ==
  [a EXCEPT !.imported = @ \cup {path},
            !.scopes   = Append(@, <<>>),
            !.prog     = file.decls,
            !.embedded = IF file.embedded THEN Append(@, path) ELSE @,
            !.bundles  = IF ~file.embedded /\ file.bundle # "" THEN Marked(@, file.bundle) ELSE @]

ImportFile(library, a, path, file) ==
  LET ns       == Namespace(path)
      entered  == DeclareImported(Entered(a, path, file), file.decls)
      done     == ValidateDeclarations(library, [entered EXCEPT !.root = LibraryRoot(path)],
                                       1, Len(file.decls))
      exported == CollectExports(Returned(a, done), done.prog, ns)
      renamed  == Rewritten(done.prog, ns)
      declared == DeclareImported(Declare(exported, Plain(ns), ModuleType(exported, ns)), renamed)
  IN [declared EXCEPT !.prog = Merged(@, renamed)]

ValidateImport(library, a, path) ==
  CASE ~IsStandard(path)        -> a
    [] path \in a.imported      -> Redeclare(a, Namespace(path))
    [] path \notin DOMAIN library -> Fail(a)
    [] OTHER                    -> ImportFile(library, a, path, library[path])

\* validate_program: up to the declarations there were when it began.
ValidateDeclarations(library, a, k, count) ==
  IF k > count \/ a.hangs THEN a
  ELSE LET decl == a.prog[k]
       IN ValidateDeclarations(library,
            CASE decl.op = "import"   -> ValidateImport(library, a, decl.path)
              [] decl.op = "link"     -> ValidateLink(a, decl)
              [] decl.op = "variable" -> ValidateVariable(a, decl)
              [] decl.op = "function" -> ValidateFunction(a, decl, k), k + 1, count)

Analyze(library, main) == ValidateDeclarations(library, Start(main), 1, Len(main))

\* find_function_declaration of lower.c: the first with the name; the same for variables.
NoDeclaration == [op |-> "none"]
First(prog, name, op) ==
  LET ks == {k \in DOMAIN prog : prog[k].op = op /\ prog[k].name = name}
  IN IF ks = {} THEN NoDeclaration ELSE prog[CHOOSE k \in ks : \A j \in ks : k <= j]
=============================================================================
