------------------------------- MODULE MCBatch -------------------------------
(* Instances of Batch for TLC. *)
EXTENDS Batch, TLC

User(k) == [kind |-> k, by |-> -1]

\* Three jobs with outputs of their own: a tiled image, a stream and a
\* source whose output exists already.
Names3 == {"a.png", "a.tnbli", "b.nbli", "b.png", "c.pgm", "c.fnbli", "c.png"}
Src3 == 0 :> "a.png" @@ 1 :> "b.nbli" @@ 2 :> "c.pgm"
Comp3 == 0 :> "a.tnbli" @@ 1 :> "b.nbli" @@ 2 :> "c.fnbli"
Exp3 == 0 :> "a.png" @@ 1 :> "b.png" @@ 2 :> "c.png"
Tiles3 == 0 :> 2 @@ 1 :> 0 @@ 2 :> 0
FS3 == [f \in Names3 |-> CASE f \in {"a.png", "c.pgm"} -> User("image")
                           [] f \in {"b.nbli", "c.fnbli"} -> User("stream")
                           [] OTHER -> Absent]

\* Two sources that differ in the suffix only: both become a.fnbli.
NamesS == {"a.pgm", "a.ppm", "a.fnbli", "a.png"}
SrcS == 0 :> "a.pgm" @@ 1 :> "a.ppm"
CompS == 0 :> "a.fnbli" @@ 1 :> "a.fnbli"
ExpS == 0 :> "a.png" @@ 1 :> "a.png"
TilesS == 0 :> 0 @@ 1 :> 0
FSS == [f \in NamesS |-> IF f \in {"a.pgm", "a.ppm"} THEN User("image") ELSE Absent]

Plain ==
    [threads |-> 2, force |-> FALSE, decode |-> FALSE, verbose |-> TRUE, tty |-> TRUE,
     throws |-> {}, full |-> FALSE, fs |-> FS3]

\* FS3 with another kind of source.
With3(f, kind) == [FS3 EXCEPT ![f] = User(kind)]

\* -v on a console with an RGBA source; without -v; -f -v into a log file on a
\* full disk; -d; one thread, where an exception ends the process, with a PNG
\* that is refused.
OptionsLive ==
    {[Plain EXCEPT !.fs = With3("a.png", "alpha")],
     [Plain EXCEPT !.verbose = FALSE, !.full = TRUE],
     [Plain EXCEPT !.tty = FALSE, !.force = TRUE, !.full = TRUE],
     [Plain EXCEPT !.decode = TRUE],
     [Plain EXCEPT !.threads = 1, !.throws = {1}, !.fs = With3("c.pgm", "odd")]}

OptionsPlain == {[Plain EXCEPT !.verbose = FALSE, !.fs = FSS]}
=============================================================================
