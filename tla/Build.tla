-------------------------------- MODULE Build --------------------------------
(***************************************************************************)
(* The compiler as a whole: the driver and the linker of module Driver,    *)
(* with the analysis that module Imports makes of a program.               *)
(***************************************************************************)
EXTENDS Driver

Modules == INSTANCE Imports

CONSTANT Library   \* the files of libs/, as in module Imports

\* Away from home only the modules the compiler carries can be read.
LibraryOf(c) ==
  IF c.home THEN Library
  ELSE [p \in {q \in DOMAIN Library : Library[q].embedded} |-> Library[p]]

\* What the driver asks of the analysis: the value of its constant Analysis.
AnalysisOf(c) ==
  LET a == Modules!Analyze(LibraryOf(c), c.program)
  IN [errors |-> a.errors, bundles |-> a.bundles, embedded |-> a.embedded, natives |-> a.natives]
=============================================================================
