------------------------------- MODULE MCPixels -------------------------------
(* Images, steps and values for the coders of pixels, coded and decoded.    *)
EXTENDS NbliCodec, FnbliPixel, GolombCode

CONSTANTS
    Images,     \* images for NBLI, and how near to them the decoder must get
    StepSeqs,   \* the steps of the coding loop of fNBLI
    Codings     \* values for the code trees

\* Pixels are colours or gray levels.
IsImage(i) ==
    /\ i.rgb \in BOOLEAN /\ i.width \in Nat \ {0} /\ i.near \in Nat
    /\ i.img \in Seq(IF i.rgb THEN [1..3 -> 0..MaxY] ELSE 0..MaxY) /\ i.img # <<>>
ASSUME ImagesAssumption == \A i \in Images : IsImage(i)

\* Every step has the same planes and lanes.
ASSUME StepSeqsAssumption ==
    \A steps \in StepSeqs :
        /\ steps # <<>>
        /\ \E planes \in PlaneSets : steps \in Seq(StepsOf(planes, Len(steps[1].t["Y"])))

\* Values are below the end of the last tree.
IsCoding(vals) == vals \in Seq([ch : Nat, qd : 0..(NCtx - 1), val : 0..(2 * TreeSize - 1)])
ASSUME CodingsAssumption == \A vals \in Codings : IsCoding(vals)

-----------------------------------------------------------------------------
(* What TLC runs through.                                                  *)

Colours == {<<0, 0, 0>>, <<MaxY, 3, 9>>, <<10, 200, 30>>, <<0, MaxY, MaxY>>}
SmallImages ==
    [img : [1..6 -> {0, 1, MaxY}], rgb : {FALSE}, width : {2, 3}, near : {0, 1, 7}]
        \cup [img : [1..4 -> Colours], rgb : {TRUE}, width : {2}, near : {0, 1, 7}]

\* fNBLI: two lanes.  A place is a neighbourhood, in quarters of the largest level.
Place(a, b, c, d, e, f, g) == [a |-> a, b |-> b, c |-> c, d |-> d, e |-> e, f |-> f, g |-> g]
Places == {Place(0, 0, 0, 0, 0, 0, 0), Place(4, 4, 0, 4, 4, 4, 4), Place(1, 2, 2, 3, 1, 2, 3)}
At(place, plane) == [s \in DOMAIN place |-> (place[s] * MaxOf(plane)) \div 4]
StepOf(planes, q1, q2, x1, x2, start) ==
    [t |-> [p \in planes |-> <<At(q1, p), At(q2, p)>>], x |-> [p \in planes |-> <<x1[p], x2[p]>>],
     start |-> start]
Gray(x) == [Y |-> x]
GraySteps == {StepOf({"Y"}, q1, q2, Gray(x1), Gray(x2), start) :
                 q1, q2 \in Places, x1 \in {0, MaxLevel}, x2 \in {5, MaxLevel - 1}, start \in {{}, {1}}}
ColourSteps == {StepOf({"U", "V", "Y"}, q1, q2, RGB2YUV(c1), RGB2YUV(c2), {}) :
                   q1 \in Places, q2 \in {Place(1, 2, 2, 3, 1, 2, 3)}, c1, c2 \in Colours}
\* Two steps, each twice: contexts are met again, by the same lane or another.
SmallStepSeqs ==
    {<<s1, s2, s1, s2>> : s1, s2 \in GraySteps}
        \cup {<<s1, s2, s1, s2>> : s1, s2 \in ColourSteps}

\* The code trees of NBLI: values at the edges of their levels.
Edgy == {0, 1, 7, 8, 15, 16, 17, 31, 32, 63, 64, 127, 128, 150, 254, 255}
Coding == [ch : {0}, qd : 0..(NCtx - 1), val : Edgy]
CodingFew == [ch : {0, 1}, qd : {0, 4, NCtx - 1}, val : {0, 20, 127, 254}]
SmallCodings == [1..1 -> Coding] \cup [1..2 -> CodingFew]

-----------------------------------------------------------------------------
(* Encoder, then decoder.                                                  *)

NbliBothWays(i) ==
    LET e     == Encoded(i.img, i.rgb, i.width, i.near)
        blank == [k \in DOMAIN i.img |-> IF i.rgb THEN <<0, 0, 0>> ELSE 0]
    IN  <<e, Decoded(e, blank, i.near)>>

FnbliBothWays(steps) ==
    LET e == CodeSteps(TRUE, steps, <<>>)
    IN  <<e, CodeSteps(FALSE, steps, e.st.code)>>

TreeBothWays(vals) ==
    LET e == Encode(vals)
    IN  <<e, Decode(Flushed(e), vals)>>
=============================================================================
