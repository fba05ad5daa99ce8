----------------------------- MODULE CommandLine -----------------------------
(***************************************************************************)
(* The command line (mtnbli.cpp, main): which files there are, which name  *)
(* given with -o belongs to which, and what the switches mean together.    *)
(*                                                                         *)
(* An argument is a sequence of tokens.  A switch begins with "-"; its     *)
(* letters follow, or one of the words "pnm", "-pnm" and "pc", and then    *)
(* maybe a value.  Any other argument is a name: one file, or the sorted   *)
(* files a wildcard stands for.  Letters are as in the usage text; that    *)
(* most of them have a second case, and that -M takes words, is left out.  *)
(***************************************************************************)
EXTENDS Naturals, Sequences, SequencesExt

Digits == <<"0", "1", "2", "3", "4", "5", "6", "7", "8", "9">>
DigitsTo(n) == {Digits[k + 1] : k \in 0..n}

\* The state of main's loop: the arguments not looked at, what it has
\* collected, and the globals it sets.
Start(args) ==
    [rest |-> args, srcs |-> <<>>, dsts |-> <<>>, nextIsDst |-> FALSE, refused |-> FALSE,
     on |-> {}, nbliOpt |-> FALSE, mode |-> "F", modeSet |-> FALSE,
     near |-> "0", level |-> "6", threads |-> <<"0">>, tiles |-> <<"1">>, ended |-> FALSE]

Refused(s) == [s EXCEPT !.refused = TRUE]
Eaten(s) == [s EXCEPT !.rest = Tail(@)]
From(arg, k) == SubSeq(arg, k, Len(arg))

\* The value of -M and -pc: the rest of the argument, or the next one, if any.
Inline(arg, k) == IF k <= Len(arg) /\ arg[k] = "=" THEN From(arg, k + 1) ELSE From(arg, k)
TakesNext(s, arg, k) == Inline(arg, k) = <<>> /\ s.rest # <<>>
Value(s, arg, k) == IF TakesNext(s, arg, k) THEN Head(s.rest) ELSE Inline(arg, k)
Past(s, arg, k) == IF TakesNext(s, arg, k) THEN Eaten(s) ELSE s

SetLevel(s, v) ==
    IF Len(v) = 1 /\ v[1] \in DigitsTo(9) THEN [s EXCEPT !.level = v[1]] ELSE Refused(s)

\* What follows in the argument was the value.
SetMode(s, v) ==
    LET set == [s EXCEPT !.modeSet = TRUE, !.ended = TRUE]
    IN  CASE v \in {<<"N">>, <<"F">>} -> [set EXCEPT !.mode = v[1]]
          [] v \in {<<"M", "T">>, <<"T">>} -> [set EXCEPT !.mode = "MT"]
          [] v \in {<<"T", "N">>, <<"N", "T">>} -> [set EXCEPT !.mode = "MT", !.nbliOpt = TRUE]
          [] OTHER -> Refused(s)

\* One letter; -t and -T take the next argument, whatever it is, if there is one.
Letter(s, arg, k) ==
    CASE arg[k] \in {"v", "f", "x", "d"} -> [s EXCEPT !.on = @ \cup {arg[k]}]
      [] arg[k] \in {"g", "a"} -> [s EXCEPT !.on = @ \cup {arg[k]}, !.nbliOpt = TRUE]
      [] arg[k] = "o" -> [s EXCEPT !.nextIsDst = TRUE]
      [] arg[k] = "t" /\ s.rest # <<>> -> [Eaten(s) EXCEPT !.threads = Head(s.rest)]
      [] arg[k] = "T" /\ s.rest # <<>> -> [Eaten(s) EXCEPT !.tiles = Head(s.rest)]
      [] arg[k] = "N" -> Refused(s)
      [] arg[k] = "M" -> SetMode(Past(s, arg, k + 1), Value(s, arg, k + 1))
      [] arg[k] \in DigitsTo(7) -> [s EXCEPT !.near = arg[k], !.nbliOpt = TRUE]
      [] OTHER -> s

Switch(s, arg) ==
    CASE From(arg, 2) \in {<<"pnm">>, <<"-", "pnm">>} -> [s EXCEPT !.on = @ \cup {"pnm"}]
      [] arg[2] = "pc" -> SetLevel(Past(s, arg, 3), Value(s, arg, 3))
      [] OTHER -> LET read(t, k) == IF t.ended \/ t.refused THEN t ELSE Letter(t, arg, k)
                  IN  [FoldLeft(read, s, [k \in 1..(Len(arg) - 1) |-> k + 1]) EXCEPT !.ended = FALSE]

\* Faulty: one short.
PaddedShort(s) == IF Len(s.dsts) + 2 < Len(s.srcs)
                  THEN [k \in 1..(Len(s.srcs) - 2) |-> IF k <= Len(s.dsts) THEN s.dsts[k] ELSE ""]
                  ELSE s.dsts
\* A name after -o is that of the last source so far.
Padded(s) == IF Len(s.dsts) + 1 < Len(s.srcs)
             THEN [k \in 1..(Len(s.srcs) - 1) |-> IF k <= Len(s.dsts) THEN s.dsts[k] ELSE ""]
             ELSE s.dsts
Name(s, arg) ==
    IF s.nextIsDst THEN [s EXCEPT !.nextIsDst = FALSE, !.dsts = Append(Padded(s), arg[1])]
    ELSE [s EXCEPT !.srcs = @ \o arg]

Argument(s, arg) ==
    CASE arg[1] = "-" /\ Len(arg) > 1 /\ arg[2] # "0" -> Switch(s, arg)
      [] arg[1] = "-" /\ Len(arg) > 1 /\ arg[2] = "0" -> [s EXCEPT !.near = "0", !.nbliOpt = TRUE]
      [] OTHER -> Name(s, arg)

Parsed(args) ==
    LET turn(s, k) == IF s.refused \/ s.rest = <<>> THEN s ELSE Argument(Eaten(s), Head(s.rest))
    IN  FoldLeft(turn, Start(args), [k \in DOMAIN args |-> k])

-----------------------------------------------------------------------------
(* What the switches mean together, and the jobs.                          *)

Mode(s) == IF ~s.modeSet /\ s.nbliOpt THEN "N" ELSE s.mode

Contradiction(s) == ("d" \in s.on /\ s.modeSet) \/ (Mode(s) = "F" /\ s.nbliOpt)

\* Empty when nothing is run: a line that is refused, or has no source.
Jobs(args) ==
    LET s == Parsed(args)
    IN  IF s.refused \/ Contradiction(s) THEN <<>>
        ELSE [k \in DOMAIN s.srcs |-> [src |-> s.srcs[k], dst |-> IF k <= Len(s.dsts) THEN s.dsts[k] ELSE ""]]

\* The settings the jobs run with.
Settings(args) ==
    LET s == Parsed(args)
    IN  [on |-> s.on, near |-> s.near, level |-> s.level, threads |-> s.threads, tiles |-> s.tiles,
         mode |-> Mode(s), nbliOpt |-> s.nbliOpt]
=============================================================================
