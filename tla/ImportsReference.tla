-------------------------- MODULE ImportsReference --------------------------
(***************************************************************************)
(* What imports promise, stated over the files and not over the order in   *)
(* which validator.c walks them: what a call means, that every module is   *)
(* merged, and when the walk ends.                                         *)
(***************************************************************************)
EXTENDS Imports, FiniteSets

MainFile == <<"main">>

\* The files a program is made of, its own among them.
Files(library, main) == (MainFile :> [decls |-> main, embedded |-> FALSE, bundle |-> ""]) @@ library

Names(d, f) == d.op \in {"function", "variable"} /\ d.name = Plain(f)
Owns(files, p, f) == \E d \in Elements(files[p].decls) : Names(d, f)

\* The imports of a file, in order.
ImportsOf(files, p) ==
  LET ds == SelectSeq(files[p].decls, LAMBDA d : d.op = "import" /\ d.path \in DOMAIN files)
  IN [k \in DOMAIN ds |-> ds[k].path]

RECURSIVE ReachFrom(_, _)
ReachFrom(files, S) ==
  LET more == S \cup UNION {Elements(ImportsOf(files, p)) : p \in S}
  IN IF more = S THEN S ELSE ReachFrom(files, more)
Behind(files, p)     == ReachFrom(files, Elements(ImportsOf(files, p)))
Modules(files)       == Behind(files, MainFile)
ProgramFiles(files)  == Modules(files) \cup {MainFile}

\* The file whose f a file offers under its own name: itself, else the first import that offers one.
Nowhere == <<>>
RECURSIVE Provider(_, _, _, _)
RECURSIVE FirstProvider(_, _, _, _)
FirstProvider(files, ps, f, seen) ==
  IF ps = <<>> THEN Nowhere
  ELSE LET p == Provider(files, Head(ps), f, seen)
       IN IF p # Nowhere THEN p ELSE FirstProvider(files, Tail(ps), f, seen)
Provider(files, p, f, seen) ==
  IF p \in seen THEN Nowhere
  ELSE IF Owns(files, p, f) THEN p
  ELSE FirstProvider(files, ImportsOf(files, p), f, seen \cup {p})

Declaration(files, p, f) == CHOOSE d \in Elements(files[p].decls) : Names(d, f)

\* What a call in function d means: the function of the file itself, or of a module it imports, or,
\* when it is private, one of those behind its imports.  What a file has behind d does not count, but
\* for the functions of a module, which know each other.
IndexOf(decls, d) == CHOOSE k \in DOMAIN decls : decls[k].op = "function" /\ decls[k].name = d.name

Meaning(files, d, u) ==
  LET p       == d.home
      file    == files[p].decls
      before  == SubSeq(file, 1, IndexOf(file, Declaration(files, p, d.name[Len(d.name)])))
      known   == [files EXCEPT ![p].decls = before]
      imports == ImportsOf(known, p)
      named   == SelectSeq(imports, LAMBDA q : Namespace(q) = u.in)
  IN IF u.in # ""
     THEN IF named = <<>> \/ (p = MainFile /\ Private(u.name)) THEN Nowhere
          ELSE Provider(files, named[1], u.name, {})
     ELSE IF Owns(IF p = MainFile THEN known ELSE files, p, u.name) THEN p
     ELSE IF Private(u.name) /\ p # MainFile
     THEN FirstProvider(files, imports, u.name, {}) ELSE Nowhere

Functions(files) == {d \in UNION {Elements(files[p].decls) : p \in ProgramFiles(files)} :
                       d.op = "function"}

(* Where the names tell the modules apart. *)
Acyclic(files) == \A p \in Modules(files) : p \notin Behind(files, p)

DistinctNamespaces(files) ==
  \A p, q \in Modules(files) : Namespace(p) = Namespace(q) => p = q

OnceDeclared(files) ==
  \A p \in ProgramFiles(files) : \A d, e \in Elements(files[p].decls) :
    {d.op, e.op} \subseteq {"function", "variable"} /\ d.name = e.name => d = e

NoneShadowed(files) ==
  \A p \in Modules(files) : \A d \in Elements(files[p].decls) :
    d.op \in {"function", "variable"} =>
      FirstProvider(files, ImportsOf(files, p), d.name[1], {p}) = Nowhere

DistinctPrivates(files) ==
  \A d, e \in Functions(files) : d.name = e.name /\ Private(d.name[1]) => d = e

SameCounts(files) == \A d, e \in Functions(files) : d.name = e.name => d.params = e.params

\* Every call of a function that is there, with the arguments it wants, and every use of a variable
\* is accepted, and the name it got is the first to be found with this declaration.  A private function
\* that the program imports itself has no signature for the modules that come later: it is left out.
Bind(files, r) ==
  \A d \in {x \in Elements(r.prog) : x.op = "function"} : \A u \in Elements(d.body) :
    LET p      == Meaning(files, d, u)
        wanted == Declaration(files, p, u.name)
        lost   == Private(u.name) /\ p # d.home /\ p \in Elements(ImportsOf(files, MainFile))
        target == First(r.prog, u.callee, wanted.op)
    IN p # Nowhere /\ (u.call <=> wanted.op = "function") =>
         ((u.call => u.args = wanted.params /\ ~lost) =>
            u.ok /\ target # NoDeclaration /\ target.home = p)

\* The walk ends.
Ends(library, main) ==
  LET files == Files(library, main)
  IN (\A p \in Modules(files) : \A q \in Elements(ImportsOf(files, p)) : Namespace(p) # Namespace(q))
       => ~Analyze(library, main).hangs

\* Whatever the shape of the imports, every function of every module stands once in the program.
MergedOnce(library, main) ==
  LET files == Files(library, main)
      r     == Analyze(library, main)
      Is(d, x) == x.op = "function" /\ x.home = d.home /\ x.name[Len(x.name)] = d.name[1]
  IN ~r.hangs => \A d \in Functions(files) : Cardinality({k \in DOMAIN r.prog : Is(d, r.prog[k])}) = 1

\* No accepted call of the program itself ends in a private function of a module.
PrivateKept(library, main) ==
  LET r == Analyze(library, main)
  IN \A d \in {x \in Elements(r.prog) : x.op = "function" /\ x.home = MainFile} :
       \A u \in Elements(d.body) : u.call /\ u.ok /\ ~r.hangs =>
         LET target == First(r.prog, u.callee, "function")
         IN target # NoDeclaration /\ target.home # MainFile => ~Private(target.name[Len(target.name)])

\* Where no name stands for two things, calls mean what the files say.
CallsMean(library, main) ==
  LET files == Files(library, main)
      r     == Analyze(library, main)
  IN Acyclic(files) /\ DistinctNamespaces(files) /\ OnceDeclared(files) /\ NoneShadowed(files)
       /\ DistinctPrivates(files) /\ SameCounts(files) => ~r.hangs /\ Bind(files, r)

\* The same where a module may define a name that one of its imports exports.
OwnFirst(library, main) ==
  LET files == Files(library, main)
      r     == Analyze(library, main)
  IN Acyclic(files) /\ DistinctNamespaces(files) /\ OnceDeclared(files)
       /\ DistinctPrivates(files) /\ SameCounts(files) => Bind(files, r)
=============================================================================
