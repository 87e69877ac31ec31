---------------------------- MODULE MCKeyInputs ----------------------------
(***************************************************************************)
(* Instances of KeyInputs for TLC: two runs, in two checkouts or in "/",   *)
(* given empty files and arguments, paths within arguments, libraries that *)
(* are empty or missing, variables that matter and that do not, a          *)
(* dependency that is taken for the command, and contents with a 0 in      *)
(* them, some of which look like more than one.                            *)
(***************************************************************************)
EXTENDS KeyInputs, TLC

MCSymbol ==
  {"/", ":", "-", "o", "x", "python", "a.so", "b.so", "c.py", "HOME=/", "ZIVID_A=1"}
MCFiles == <<"a.so", "b.so", "c.py">>
MCVariables == <<"ZIVID_A=1">>

Path == <<Base, "/", "x">>
Arguments == {<<>>, <<"x">>, Path, <<"-", "o">> \o Path, Path \o <<":">> \o Path,
              <<Base>>, <<Base, "/">>}

Builds(packages, environments) ==
  [exe : {<<"python">>}, package : packages, outputs : {<<Path, Path>>},
   deps : SeqOf({<<>>, <<"ZIVID_A=1">>}, 2) \cup {<<<<>>, <<>>, <<"python">>>>},
   env : environments,
   args : {<<<<"python">>>> \o s :
             s \in SeqOf(Arguments, 1) \cup {<<<<>>, <<>>>>, <<<<>>, <<>>, <<"python">>>>}}]

Usable ==
  Builds({[f \in {"a.so", "c.py"} |-> <<>>]}, {{"HOME=/"}, {"HOME=/", "ZIVID_A=1"}})
    \cup Builds({[f \in {"a.so", "b.so"} |-> <<"x">>]}, {{"HOME=/"}})

Unusable ==
  {[g EXCEPT !.package = [f \in {"c.py"} |-> <<"x">>]] :
     g \in {u \in Usable : u.deps = <<>> /\ u.env = {"HOME=/"}}}

\* A 0 in the builder and in libraries, behind what another of them is on its own
\* and elsewhere ...
BinaryLibraries ==
  [exe : {<<"python">>, <<"python", Nul, "a.so", Nul, "x">>, <<Nul, Nul>>},
   package : {[f \in {"a.so", "b.so"} |-> <<"x">>],
              [f \in {"a.so"} |-> <<"x">>], [f \in {"b.so"} |-> <<"x">>],
              [f \in {"a.so"} |-> <<"x", Nul, "b.so", Nul, "x">>],
              [f \in {"a.so", "b.so"} |-> <<Nul>>]},
   outputs : {<<Path, Path>>},
   deps : {<<>>, <<<<"x">>>>, <<<<"x", Nul, "x">>>>},
   env : {{"HOME=/"}},
   args : {<<<<"python">>>>}]

\* ... and in dependencies, of which some have the command between 0s.
BinaryDependencies ==
  [exe : {<<"python">>},
   package : {[f \in {"a.so", "b.so"} |-> <<"x">>]},
   outputs : {<<Path, Path>>},
   deps : SeqOf({<<"x">>, <<"x", Nul, "x">>, <<Nul, "x">>}, 2)
            \cup {<<<<Nul, Nul, "python">>>>, <<<<"x">>, <<"python", Nul, "x">>>>},
   env : {{"HOME=/"}},
   args : {<<<<"python">>>>, <<<<"python">>, <<>>, <<>>, <<"python">>>>}]

MCGiven == Usable \cup Unusable \cup BinaryLibraries \cup BinaryDependencies

Symmetry == Permutations(Run)
=============================================================================
