------------------------------ MODULE TableCode ------------------------------
(***************************************************************************)
(* How a normalised table of the rANS coder is stored (FnbliHist::encode   *)
(* and decode; Histogram in nbli/rANS.h writes the same words): words   *)
(* of 16 bits in six shapes that hold one value, two differences, two,     *)
(* three or four small values, or a run.  Entry 0 is what is left of the   *)
(* sum, and is not stored.                                                 *)
(***************************************************************************)
EXTENDS Integers, Sequences, FiniteSetsExt

CONSTANTS
    NEntries,   \* 512
    Pad         \* FNBLI_HIST_PAD: entries behind the table that may be written, 8

ASSUME TableAssumption == NEntries \in 2..512 /\ Pad \in Nat

TableSum == 16384       \* FNBLI_NORM_SUM; differences are taken modulo it
Beyond   == 32767       \* INT16_MAX, in place of the entries behind the last one

Entry(h, i) == IF i < NEntries THEN h[i] ELSE Beyond

\* How often entry i is repeated from there on.
RunAt(h, i) == Max({len \in 1..(NEntries - i) : \A k \in i..(i + len - 1) : h[k] = h[i]})

\* From the entry before, which is 0 for the first one, and to the next one.
Drop(h, i) == ((IF i = 1 THEN 0 ELSE h[i - 1]) - h[i]) % TableSum
NextDrop(h, i) == IF i + 1 < NEntries THEN (h[i] - h[i + 1]) % TableSum ELSE Beyond

\* Faulty: a value that needs one bit more than there is.
FourFitLoose(h, i) == \A k \in 0..3 : Entry(h, i + k) <= 8
FourFit(h, i) == \A k \in 0..3 : Entry(h, i + k) < 8
ThreeFit(h, i) == Entry(h, i) < 32 /\ Entry(h, i + 1) < 16 /\ Entry(h, i + 2) < 16
TwoFit(h, i) == Entry(h, i) < 128 /\ Entry(h, i + 1) < 128
DropsFit(h, i) == Drop(h, i) < 128 /\ NextDrop(h, i) < 128

\* The word for the entries from i on, and how many they are.
Coded(h, i) ==
    LET e(k) == Entry(h, i + k)
    IN  IF RunAt(h, i) > 3 /\ h[i] < 4 THEN
            [word |-> 61440 + h[i] * 1024 + (RunAt(h, i) - 1), n |-> RunAt(h, i)]
        ELSE IF FourFit(h, i) THEN
            [word |-> 57344 + e(0) * 512 + e(1) * 64 + e(2) * 8 + e(3), n |-> 4]
        ELSE IF ThreeFit(h, i) THEN
            [word |-> 49152 + e(0) * 256 + e(1) * 16 + e(2), n |-> 3]
        ELSE IF TwoFit(h, i) THEN
            [word |-> 32768 + e(0) * 128 + e(1), n |-> 2]
        ELSE IF DropsFit(h, i) THEN
            [word |-> 16384 + Drop(h, i) * 128 + NextDrop(h, i), n |-> 2]
        ELSE [word |-> h[i], n |-> 1]

\* One more word, while entries are left.
WriteWord(h, b) ==
    IF b.i >= NEntries THEN b
    ELSE [words |-> Append(b.words, Coded(h, b.i).word), i |-> b.i + Coded(h, b.i).n]

Words(h) ==
    LET upto[k \in 0..NEntries] ==
            IF k = 0 THEN [words |-> <<>>, i |-> 1] ELSE WriteWord(h, upto[k - 1])
    IN  upto[NEntries].words

\* The entries a word stands for, after an entry prev.
Entries(word, prev) ==
    LET field(unit, size) == (word \div unit) % size
        top == word \div 4096
    IN  CASE top \in 0..3   -> <<word>>
          [] top \in 4..7   -> LET first == (prev - field(128, 128)) % TableSum
                               IN  <<first, (first - field(1, 128)) % TableSum>>
          [] top \in 8..11  -> <<field(128, 128), field(1, 128)>>
          [] top \in 12..13 -> <<field(256, 32), field(16, 16), field(1, 16)>>
          [] top = 14       -> <<field(512, 8), field(64, 8), field(8, 8), field(1, 8)>>
          [] OTHER          -> [k \in 1..(field(1, 512) + 1) |-> field(1024, 4)]

\* One more word, while entries are missing.
ReadWord(b, word) ==
    IF Len(b.got) + 1 >= NEntries THEN b
    ELSE [got |-> b.got \o Entries(word, IF b.got = <<>> THEN 0 ELSE b.got[Len(b.got)]), used |-> b.used + 1]

\* The table, how many words it took, and whether the words ran out or ran
\* over the entries behind the table.
Read(words) ==
    LET upto[k \in 0..Len(words)] ==
            IF k = 0 THEN [got |-> <<>>, used |-> 0] ELSE ReadWord(upto[k - 1], words[k])
        b == upto[Len(words)]
    IN  [table |-> b.got, used |-> b.used, fail |-> Len(b.got) + 1 \notin NEntries..(NEntries + Pad)]
=============================================================================
