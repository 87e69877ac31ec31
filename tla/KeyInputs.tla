----------------------------- MODULE KeyInputs -----------------------------
(***************************************************************************)
(* The key of a run of halide-cache (halide-cache/src/main.rs): what is    *)
(* fed to the hash, and how the directory of the checkout is kept out.     *)
(*                                                                         *)
(* Strings and file contents are sequences of symbols.  The hash itself is *)
(* taken to be injective, so that a key is the sequence that is hashed.    *)
(* Paths are those of Unix, where normalize_separators changes nothing.    *)
(***************************************************************************)
EXTENDS Integers, Sequences, SequencesExt

CONSTANTS
  Run,        \* runs of the client, each on some machine
  Symbol,     \* what names, variables and arguments are made of, and contents ...
  Checkout,   \* the directories a repository may be checked out to
  Root,       \* "/", which may be one of them
  Base,       \* in an argument: the run's own checkout
  Given,      \* what a run may be given
  Native,     \* the files of the halide package that hash_package takes, ...
  Files,      \* ... and all of its files, in their order
  Variables,  \* the environment variables named ZIVID_..., in their order
  Nul,        \* ... which may have the byte 0 in them besides
  None

Text == Seq(Symbol \cup {Nul})
Argument == Seq(Symbol \cup {Base})

\* What a run may be given: the contents of its builder, of the files of the
\* halide package and of its dependencies, its environment, and its command and
\* its two outputs.
IsInput(g) ==
  /\ g.exe \in Text /\ g.deps \in Seq(Text) /\ g.env \subseteq Symbol
  /\ DOMAIN g.package \subseteq Range(Files) /\ g.package \in [DOMAIN g.package -> Text]
  /\ g.args \in Seq(Argument) /\ g.outputs \in Seq(Argument) /\ Len(g.outputs) = 2

\* The system passes no 0 in an argument, in a variable or in the name of a file.
\* No argument has the path of a checkout other than as the run's own.
ASSUME SymbolAssumption ==
  /\ Nul \notin Symbol \cup Checkout /\ Base \notin Symbol \cup Checkout
  /\ "/" \in Symbol /\ Checkout \cap Symbol = {} /\ Root \in Checkout
ASSUME NamesAssumption ==
  /\ Files \in Seq(Symbol) /\ IsInjective(Files)
  /\ Variables \in Seq(Symbol) /\ IsInjective(Variables)
ASSUME GivenAssumption == (\A g \in Given : IsInput(g)) /\ None \notin Checkout

VARIABLES
  at,         \* the checkout of each run, or None before it starts
  given,      \* what it is given
  key         \* what it has hashed, or None

vars == <<at, given, key>>

Init ==
  /\ at = [r \in Run |-> None]
  /\ given = [r \in Run |-> None]
  /\ key = [r \in Run |-> None]

\* The string that s is in checkout c.
In(c, s) ==
  FlattenSeq([i \in DOMAIN s |-> IF s[i] # Base THEN <<s[i]>>
                                 ELSE IF c = Root THEN <<>> ELSE <<c>>])

-----------------------------------------------------------------------------
(* PathStripper *)

Prefix(c) == IF c = Root THEN <<"/">> ELSE <<c, "/">>

\* str::replace by nothing: every occurrence of p from the left, and no second
\* look at what that has put together.
Without(p, s) ==
  LET rest[i \in 1 .. Len(s) + 1] ==
        IF i > Len(s) THEN <<>>
        ELSE IF IsPrefix(p, SubSeq(s, i, Len(s))) THEN rest[i + Len(p)]
        ELSE <<s[i]>> \o rest[i + 1]
  IN rest[1]

\* Only at the start, as str::strip_prefix does.  (A mutant: the specification
\* does not use it.)
StripStart(c, s) ==
  IF Prefix(c) # <<"/">> /\ IsPrefix(Prefix(c), s)
  THEN SubSeq(s, Len(Prefix(c)) + 1, Len(s)) ELSE s

Strip(c, s) == IF Prefix(c) = <<"/">> THEN s ELSE Without(Prefix(c), s)

\* The client locates the file of the builder first, so a command is not all
\* stripped away, as the path of a directory may be.
ASSUME CommandAssumption ==
  \A g \in Given, c \in Checkout :
    g.args # <<>> /\ Strip(c, In(c, g.args[1])) # <<>>

-----------------------------------------------------------------------------
(* KeyInputs::address *)

\* field, called on each of the fields.
Frame(fields) == FlattenSeq([i \in DOMAIN fields |-> Append(fields[i], Nul)])

\* Nothing ends a group.  (A mutant: the specification does not use it.)
GroupOpen(fields) == fields

\* GROUP_END, an empty field, behind a group.
Group(fields) == Append(fields, <<>>)

\* hash_package: the native libraries of the package with their names, by name.
HashPackage(package) ==
  FlattenSeq([i \in DOMAIN Files |->
                IF Files[i] \in Native \cap DOMAIN package
                THEN <<<<Files[i]>>, package[Files[i]]>> ELSE <<>>])

\* collect_zivid_env: the variables, sorted.
ZividEnv(env) ==
  FlattenSeq([i \in DOMAIN Variables |->
                IF Variables[i] \in env THEN <<<<Variables[i]>>>> ELSE <<>>])

Stripped(c, strings) == [i \in DOMAIN strings |-> Strip(c, In(c, strings[i]))]

\* The builder's executable stands for the scheme and the platform as well.
Address(c, g) ==
  Frame(Group(<<g.exe>> \o HashPackage(g.package))
          \o Group(Stripped(c, g.outputs)) \o Group(g.deps)
          \o Group(ZividEnv(g.env)) \o Group(Stripped(c, g.args)))

\* main, up to the lookup; an unusable halide package is an error.
Hash(r) ==
  /\ at[r] = None
  /\ \E c \in Checkout, g \in Given :
       /\ at' = [at EXCEPT ![r] = c]
       /\ given' = [given EXCEPT ![r] = g]
       /\ IF HashPackage(g.package) = <<>> THEN UNCHANGED key
          ELSE key' = [key EXCEPT ![r] = Address(c, g)]

Next == \E r \in Run : Hash(r)

Spec == Init /\ [][Next]_vars

-----------------------------------------------------------------------------
(* Properties *)

\* What the key is there to tell apart: the builder, the libraries, the contents
\* of the dependencies, the variables, and every argument and output but for
\* where the checkout is, except that what names the checkout itself, with no
\* slash behind it, is that checkout's only.
Portable(c, s) == In(c, IF c = Root THEN s ELSE Without(<<Base, "/">>, s))

Meaning(c, g) ==
  [exe |-> g.exe, deps |-> g.deps,
   libraries |-> [f \in Native \cap DOMAIN g.package |-> g.package[f]],
   env |-> g.env \cap Range(Variables),
   args |-> [i \in DOMAIN g.args |-> Portable(c, g.args[i])],
   outputs |-> [i \in DOMAIN g.outputs |-> Portable(c, g.outputs[i])]]

Hashed(r) == key[r] # None

\* "Keys are now stable across machines: the base directory is stripped"
\* (CHANGELOG.md:47-48), wherever and however often it occurs: two runs that mean
\* the same have one key.
KeysPortable ==
  \A r, s \in Run :
    Hashed(r) /\ Hashed(s) /\ Meaning(at[r], given[r]) = Meaning(at[s], given[s])
      => key[r] = key[s]

\* x is y up to a 0 that y goes on behind.
CutShort(x, y) == IsPrefix(Append(x, Nul), y)

\* A content of g is the one that h has for it, cut short: the builder, a library
\* of one name or the dependency at one place.
Clash(g, h) ==
  \/ CutShort(g.exe, h.exe)
  \/ \E f \in Native \cap DOMAIN g.package \cap DOMAIN h.package :
       CutShort(g.package[f], h.package[f])
  \/ \E i \in DOMAIN g.deps \cap DOMAIN h.deps : CutShort(g.deps[i], h.deps[i])

\* x is what y has between two of its 0s, or between one of them and an end.
Piece(x, y) ==
  \E i, j \in 0 .. Len(y) :
    /\ x = SubSeq(y, i + 1, j)
    /\ i = 0 \/ y[i] = Nul
    /\ j = Len(y) \/ y[j + 1] = Nul

\* What r has in the fields before its arguments has s's command among it.
Confusable(r, s) ==
  LET command == Strip(at[s], In(at[s], given[s].args[1]))
  IN \/ \E i \in DOMAIN given[r].deps : Piece(command, given[r].deps[i])
     \/ command \in Range(ZividEnv(given[r].env))

\* A key is that of one build only, although nothing but a 0 separates the
\* fields and nothing but an empty field the groups, although executables and
\* libraries are full of 0s, and although an empty file or argument is an empty
\* field too and the stripping may leave one: two runs that have one key mean the
\* same, as long as neither has a dependency with the other's command between 0s,
\* nor a content that is the other's for it, cut short in front of a 0.
KeysDistinct ==
  \A r, s \in Run :
    /\ Hashed(r) /\ Hashed(s) /\ key[r] = key[s]
    /\ ~Confusable(r, s) /\ ~Confusable(s, r)
    /\ ~Clash(given[r], given[s]) /\ ~Clash(given[s], given[r])
    => Meaning(at[r], given[r]) = Meaning(at[s], given[s])
=============================================================================
