---------------------------- MODULE MCCommandLine ----------------------------
(* Command lines, and what is to come of them.                              *)
EXTENDS CommandLine, FiniteSets, TLC

\* A group is a source, one file or the two of a wildcard, and maybe a name.
Groups == [files : {1, 2}, named : BOOLEAN]
FilesOf(k, g) == [f \in 1..g.files |-> ToString(<<k, f>>)]
NameOf(k) == ToString(<<"out", k>>)
Line(gs) ==
    FlattenSeq([k \in DOMAIN gs |->
        <<FilesOf(k, gs[k])>> \o (IF gs[k].named THEN <<<<"-", "o">>, <<NameOf(k)>>>> ELSE <<>>)])
Paired(gs) ==
    FlattenSeq([k \in DOMAIN gs |->
        [f \in 1..gs[k].files |-> [src |-> FilesOf(k, gs[k])[f],
                                   dst |-> IF gs[k].named /\ f = gs[k].files THEN NameOf(k) ELSE ""]]])

\* Switches with their values, and what the usage text says of them.
Fast     == <<<<"-", "M">>, <<"F">>>>
Tiled    == <<<<"-", "M", "M", "T">>>>
TiledN   == <<<<"-", "v", "M", "=", "T", "N">>>>
Decoding == <<<<"-", "v", "d">>>>
Lossless == <<<<"-", "0">>>>
Lossy    == <<<<"-", "x", "3", "g">>>>
Others   == {<<<<"-", "f", "t">>, <<"4">>>>, <<<<"-", "pc", "=", "9">>>>}
Modes    == {Fast, Tiled, TiledN}
Switches == Modes \cup {Decoding, Lossless, Lossy} \cup Others

\* Two switches, one after so many arguments and the other first or last.
Lines == [groups : UNION {[1..m -> Groups] : m \in 1..2}, sw : Switches \X Switches,
          after : 0..6, other : {"first", "last"}]
         \cup [groups : [1..4 -> Groups], sw : Others \X Others, after : {3}, other : {"last"}]

Inserted(line, k, sw) == SubSeq(line, 1, k) \o sw \o SubSeq(line, k + 1, Len(line))
WholeLine(i) ==
    LET line == Line(i.groups)
        with == Inserted(line, IF i.after < Len(line) THEN i.after ELSE Len(line), i.sw[1])
    IN  IF i.other = "first" THEN i.sw[2] \o with ELSE with \o i.sw[2]

InOrder(i) == IF i.other = "first" THEN <<i.sw[2], i.sw[1]>> ELSE i.sw
SwitchesOf(i) == FlattenSeq(InOrder(i))
LastMode(i) == IF InOrder(i)[2] \in Modes THEN InOrder(i)[2] ELSE InOrder(i)[1]
Excluded(i) ==
    \/ \E m, n \in 1..2 : i.sw[m] = Decoding /\ i.sw[n] \in Modes
    \/ LastMode(i) = Fast /\ Range(i.sw) \cap {Lossless, Lossy, TiledN} # {}
=============================================================================
