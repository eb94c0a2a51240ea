---------------------------- MODULE CommandLine -----------------------------
(***************************************************************************)
(* What a child is told: its command line and its environment, as          *)
(* runtime/windows_supervisor.rs builds them, and what the child makes of  *)
(* them.                                                                   *)
(*                                                                         *)
(* Text is a sequence over "a" (any ordinary character), " " (white        *)
(* space), "q" (a quotation mark), "b" (a backslash), "u" (a code unit that *)
(* is no character, half of a surrogate pair, which the name of a file may *)
(* hold) and "r" (the replacement character).  An environment is a set of  *)
(* entries [name, spelling, value]: Windows compares names without regard  *)
(* to case, which is the spelling.                                         *)
(***************************************************************************)
EXTENDS Naturals, SequencesExt

Copies(n, c) == [i \in 1 .. n |-> c]

\* External: OsStr::to_string_lossy.
ToStringLossy(arg) == [i \in DOMAIN arg |-> IF arg[i] = "u" THEN "r" ELSE arg[i]]

\* The fold of quote_windows_arg's loop: the backslashes counted so far are
\* written when it is known what follows them.
FaultyQuoteChar(acc, c) ==
  CASE c = "b" -> [acc EXCEPT !.slashes = @ + 1]
    [] c = "q" -> [out |-> acc.out \o Copies(acc.slashes + 1, "b") \o <<"q">>, slashes |-> 0]
    [] c \in {"a", " ", "r"} -> [out |-> acc.out \o Copies(acc.slashes, "b") \o <<c>>, slashes |-> 0]
QuoteChar(acc, c) ==
  CASE c = "b" -> [acc EXCEPT !.slashes = @ + 1]
    [] c = "q" -> [out |-> acc.out \o Copies(2 * acc.slashes + 1, "b") \o <<"q">>, slashes |-> 0]
    [] c \in {"a", " ", "r"} -> [out |-> acc.out \o Copies(acc.slashes, "b") \o <<c>>, slashes |-> 0]

Quote(arg) ==
  LET text == ToStringLossy(arg)
      all == FoldLeft(QuoteChar, [out |-> <<"q">>, slashes |-> 0], text)
  IN IF text # <<>> /\ \A i \in DOMAIN text : text[i] \notin {" ", "q"}
       THEN text
       ELSE all.out \o Copies(2 * all.slashes, "b") \o <<"q">>

\* build_command_line, after the executable.
BuildCommandLine(args) ==
  FoldLeft(LAMBDA line, arg : line \o <<" ">> \o Quote(arg), <<>>, args)

\* External: how the C runtime of the child splits its command line.  Half of
\* the backslashes before a quotation mark are text, and an odd one escapes it.
SplitChar(acc, c) ==
  LET text == acc.text \o Copies(acc.slashes, "b")
      half == acc.text \o Copies(acc.slashes \div 2, "b")
  IN CASE c = "b" -> [acc EXCEPT !.slashes = @ + 1, !.open = TRUE]
       [] c = "q" /\ acc.slashes % 2 = 1 ->
            [acc EXCEPT !.text = half \o <<"q">>, !.slashes = 0, !.open = TRUE]
       [] c = "q" /\ acc.slashes % 2 = 0 ->
            [acc EXCEPT !.text = half, !.slashes = 0, !.open = TRUE, !.quoted = ~@]
       [] c = " " /\ ~acc.quoted ->
            [argv |-> IF acc.open THEN Append(acc.argv, text) ELSE acc.argv,
             text |-> <<>>, slashes |-> 0, quoted |-> FALSE, open |-> FALSE]
       [] c \in {"a", "r"} \/ (c = " " /\ acc.quoted) ->
            [acc EXCEPT !.text = text \o <<c>>, !.slashes = 0, !.open = TRUE]
Argv(line) ==
  FoldLeft(SplitChar, [argv |-> <<>>, text |-> <<>>, slashes |-> 0, quoted |-> FALSE,
                       open |-> FALSE], line \o <<" ">>).argv

-----------------------------------------------------------------------------
(* The environment.                                                        *)

\* env_names_equal.
SameName(x, y) == x.name = y.name

\* A ManagedProcessSpec's overrides and removals, and what env and env_remove
\* do to them.
NoEdits == [set |-> {}, removed |-> {}]
Env(spec, entry) ==
  [set |-> {e \in spec.set : ~SameName(e, entry)} \cup {entry},
   removed |-> {r \in spec.removed : ~SameName(r, entry)}]
EnvRemove(spec, entry) ==
  [set |-> {e \in spec.set : ~SameName(e, entry)},
   removed |-> IF \E r \in spec.removed : SameName(r, entry) THEN spec.removed
               ELSE spec.removed \cup {entry}]

\* build_environment_block; without edits the child inherits the block itself.
EnvironmentBlock(spec, parent) ==
  {e \in parent : /\ \A o \in spec.set : ~SameName(e, o)
                  /\ \A r \in spec.removed : ~SameName(e, r)} \cup spec.set
=============================================================================
