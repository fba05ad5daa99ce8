------------------------------- MODULE Wavefront -------------------------------
(***************************************************************************)
(* The order in which fNBLI codes the pixels of an image (fnbli_scalar.h,  *)
(* fnbli_api.h).  The first rows, the banner, are walked row by row; the   *)
(* body below it is walked by L lanes (16 in the program), each on a row   *)
(* of its own, two columns behind the lane on the row above.  A lane gets  *)
(* most of its neighbours from the registers of that lane and not from the *)
(* image.  A pixel value is modelled by where it comes from: its position, *)
(* Mid for the grey the coder starts with, Raw for memory not yet decoded. *)
(***************************************************************************)
EXTENDS Integers

CONSTANTS
    L,          \* FNBLI_N_LANE
    MinArea,    \* an image with fewer pixels gets no body: 64 * 64
    Shapes      \* the images: rows, columns, 1-lane coder forced, encoding

ASSUME LanesAssumption ==
    /\ L \in Nat /\ L >= 2
    /\ MinArea \in Nat
    /\ Shapes \subseteq [h : Nat \ {0}, w : Nat \ {0}, oneLane : BOOLEAN, enc : BOOLEAN]

VARIABLES
    shape,      \* the image at hand
    phase,      \* "banner", "body" or "over"
    step,       \* what the loop does next: "templates" or "code"
    i, j,       \* i[k], j[k]: row, relative to the part, and column of lane k
    t,          \* t[k]: the registers a..g of lane k
    x,          \* x[k]: the pixel lane k coded last
    coded,      \* the pixels that went through the entropy coder
    recoded     \* those that went through it more than once

vars == <<shape, phase, step, i, j, t, x, coded, recoded>>

Mid == <<-1, -1>>
Raw == <<-2, -2>>

H == shape.h
W == shape.w

NarrowAllowed == H >= L + 2 /\ W >= 2 * L - 1 /\ H * W >= MinArea    \* faulty: width bound
\* fnbliSizeLarge: 18 rows, 32 columns, 4096 pixels.
SizeLarge == H >= L + 2 /\ W >= 2 * L /\ H * W >= MinArea

IsLarge == SizeLarge /\ ~shape.oneLane

AlwaysTwoRows == IF IsLarge THEN 2 ELSE H            \* faulty: body not a multiple of L
\* FNBLI_DIVIDE_BANNER: at least two rows, and the rest is a multiple of L.
BannerHeight ==
    IF ~IsLarge THEN H ELSE IF H % L < 2 THEN (H % L) + L ELSE H % L

BodyHeight == H - BannerHeight

Top == IF phase = "body" THEN BannerHeight ELSE 0        \* first row of the part
Height == IF phase = "body" THEN BodyHeight ELSE BannerHeight
Lanes == IF phase = "body" THEN 0..(L - 1) ELSE {0}

\* loadAt of row r of the part: an encoder has the whole image, a decoder what
\* it has decoded.
Load(r, c) ==
    IF r + Top \in 0..(H - 1) /\ c \in 0..(W - 1)
        /\ (shape.enc \/ <<r + Top, c>> \in coded)
    THEN <<r + Top, c>>
    ELSE Raw

Grey == [a |-> Mid, b |-> Mid, c |-> Mid, d |-> Mid, e |-> Mid, f |-> Mid, g |-> Mid]

Init ==
    /\ shape \in Shapes
    /\ phase = "banner" /\ step = "templates"
    /\ i = [k \in {0} |-> 0] /\ j = [k \in {0} |-> 0]
    /\ t = [k \in {0} |-> Grey] /\ x = [k \in {0} |-> Mid]
    /\ coded = {} /\ recoded = {}

-----------------------------------------------------------------------------
(* FnbliSampler1: one lane in raster order.                                *)

\* The registers move one column on; d and g stay until they are replaced.
Move(reg, last) ==
    [a |-> last,  b |-> reg.d, c |-> reg.b, d |-> reg.d,
     e |-> reg.a, f |-> reg.g, g |-> reg.g]

UpRight(reg, d, g) ==
    [a |-> reg.a, b |-> reg.b, c |-> reg.c, d |-> d, e |-> reg.e, f |-> reg.f, g |-> g]

\* At a new row they start with the pixels above.
Enter(r, reg) ==
    LET b == IF r > 0 THEN Load(r - 1, 0) ELSE reg.b
        f == IF r > 1 THEN Load(r - 2, 0) ELSE IF r > 0 THEN b ELSE reg.f
    IN  [a |-> b, b |-> b, c |-> b, d |-> reg.d, e |-> b, f |-> f, g |-> reg.g]

TemplatesOne(r, c, reg, last) ==
    LET moved == IF c = 0 THEN Enter(r, reg) ELSE Move(reg, last)
        d == IF r < 1 THEN moved.a ELSE IF c + 1 < W THEN Load(r - 1, c + 1) ELSE moved.d
        g == IF r < 2 THEN d ELSE IF c + 1 < W THEN Load(r - 2, c + 1) ELSE moved.g
    IN  UpRight(moved, d, g)

BannerTemplates ==
    /\ phase = "banner" /\ step = "templates"
    /\ t' = [k \in {0} |-> TemplatesOne(i[0], j[0], t[0], x[0])]
    /\ step' = "code"
    /\ UNCHANGED <<shape, phase, i, j, x, coded, recoded>>

-----------------------------------------------------------------------------
(* FnbliSampler16: L lanes along a diagonal.                               *)

\* initIJ: lane L-1 starts at the first pixel, the others are still on the
\* rows before the body, each two columns behind the lane above it.
LaneRow(k) == IF k = L - 1 THEN 0 ELSE -1 - k

LaneColumnClose(k) == IF k = L - 1 THEN 0 ELSE W - (L - 1 - k)     \* faulty: one column
LaneColumn(k) == IF k = L - 1 THEN 0 ELSE W - 2 * (L - 1 - k)

Shifted(k) == Move(t[k], x[k])

RingedStale(k) ==                                   \* faulty: before the shift
    IF k < L - 1 /\ j[k] < W - 1
    THEN UpRight(Shifted(k), t[k + 1].a, t[k + 1].c)
    ELSE Shifted(k)

\* ring_shift_right: the pixels up right come from the lane on the row above.
Ringed(k) ==
    IF k < L - 1 /\ j[k] < W - 1
    THEN UpRight(Shifted(k), Shifted(k + 1).a, Shifted(k + 1).c)
    ELSE Shifted(k)

\* getTemplatesStartOfLine: the first lane at column 0 gives the row for all
\* lanes at column 0.
LineStart(k) ==
    LET k0 == CHOOSE m \in Lanes : j[m] = 0 /\ \A n \in Lanes : j[n] = 0 => m <= n
        Above(r, c) == IF i[k0] < Height THEN Load(i[k0] - r, c) ELSE Mid
        b == Above(1, 0)
    IN  IF j[k] # 0 THEN Ringed(k)
        ELSE [a |-> b, b |-> b, c |-> b, e |-> b,
              d |-> Above(1, 1), f |-> Above(2, 0), g |-> Above(2, 1)]

\* The first lane has no lane above it and loads from the image.
TemplatesLane(k) ==
    IF k = L - 1 /\ i[k] < Height /\ j[k] < W - 1
    THEN UpRight(LineStart(k), Load(i[k] - 1, j[k] + 1), Load(i[k] - 2, j[k] + 1))
    ELSE LineStart(k)

BodyTemplates ==
    /\ phase = "body" /\ step = "templates"
    /\ t' = [k \in Lanes |-> TemplatesLane(k)]
    /\ step' = "code"
    /\ UNCHANGED <<shape, phase, i, j, x, coded, recoded>>

-----------------------------------------------------------------------------
(* Coding the pixels of this step, storing them and moving on.             *)

\* A lane before the first or behind the last row codes a grey pixel.
Active(k) == i[k] > -1 /\ i[k] < Height

Position(k) == <<i[k] + Top, j[k]>>

\* The lanes S put their pixels through the entropy coder, whatever went
\* through it before.
CodePixels(S) ==
    /\ coded' = coded \cup {Position(k) : k \in S}
    /\ recoded' = recoded \cup
          {Position(k) : k \in {m \in S : \/ Position(m) \in coded
                                        \/ \E n \in S \ {m} : Position(n) = Position(m)}}

StartBody ==
    /\ phase' = "body"
    /\ i' = [k \in 0..(L - 1) |-> LaneRow(k)]
    /\ j' = [k \in 0..(L - 1) |-> LaneColumn(k)]
    /\ t' = [k \in 0..(L - 1) |-> Grey]
    /\ x' = [k \in 0..(L - 1) |-> Mid]

BannerCode ==
    /\ phase = "banner" /\ step = "code"
    /\ CodePixels({0})
    /\ step' = "templates"
    /\ UNCHANGED shape
    /\ LET row == IF j[0] + 1 >= W THEN i[0] + 1 ELSE i[0]
       IN  \/ /\ row < Height
              /\ i' = [k \in {0} |-> row]
              /\ j' = [k \in {0} |-> IF j[0] + 1 >= W THEN 0 ELSE j[0] + 1]
              /\ x' = [k \in {0} |-> Position(0)]
              /\ UNCHANGED <<phase, t>>
           \/ /\ row >= Height /\ IsLarge
              /\ StartBody
           \/ /\ row >= Height /\ ~IsLarge
              /\ phase' = "over"
              /\ UNCHANGED <<i, j, t, x>>

WrapsLate(k) == j[k] + 1 > W                         \* faulty: one column too far
Wraps(k) == j[k] + 1 = W

NextRowSame(k) == i[k]                               \* faulty: the row is coded again
NextRow(k) == IF Wraps(k) THEN i[k] + L ELSE i[k]

BodyCode ==
    /\ phase = "body" /\ step = "code"
    /\ x' = [k \in Lanes |-> IF Active(k) THEN Position(k) ELSE Mid]
    /\ CodePixels({k \in Lanes : Active(k)})
    /\ j' = [k \in Lanes |-> IF Wraps(k) THEN 0 ELSE j[k] + 1]
    /\ i' = [k \in Lanes |-> NextRow(k)]
    /\ phase' = IF i'[0] < Height THEN "body" ELSE "over"
    /\ step' = "templates"
    /\ UNCHANGED <<shape, t>>

Next == BannerTemplates \/ BannerCode \/ BodyTemplates \/ BodyCode

SafeSpec == Init /\ [][Next]_vars
Spec == SafeSpec /\ WF_vars(Next)

-----------------------------------------------------------------------------
(* Properties                                                              *)

Pixels == {Mid} \cup ((0..(H - 1)) \X (0..(W - 1)))

Registers(S) == [a : S, b : S, c : S, d : S, e : S, f : S, g : S]

\* Rows and columns of the lanes stay where int16_t and the image have room.
TypeOK ==
    /\ shape \in Shapes
    /\ phase \in {"banner", "body", "over"} /\ step \in {"templates", "code"}
    /\ i \in [DOMAIN i -> (-L)..(H + L - 1)]
    /\ j \in [DOMAIN i -> 0..(W - 1)]
    /\ t \in [DOMAIN i -> Registers(Pixels \cup {Raw})]
    /\ x \in [DOMAIN i -> Pixels]
    /\ coded \subseteq (0..(H - 1)) \X (0..(W - 1)) /\ recoded \subseteq coded

\* The neighbours of a pixel as the format defines them, for rows from the
\* third on: at the left border the row above stands in for the left pixels,
\* at the right border the pixel above for the one up right.
Neighbours(r, c) ==
    LET right == IF c + 1 < W THEN c + 1 ELSE c
    IN  [a |-> IF c > 0 THEN <<r, c - 1>> ELSE <<r - 1, 0>>,
         b |-> <<r - 1, c>>,
         c |-> <<r - 1, IF c > 0 THEN c - 1 ELSE 0>>,
         d |-> <<r - 1, right>>,
         e |-> IF c > 1 THEN <<r, c - 2>> ELSE <<r - 1, 0>>,
         f |-> <<r - 2, c>>,
         g |-> <<r - 2, right>>]

\* Encoder and decoder, the 1-lane loop and the wave front predict a pixel
\* from the same neighbours (an image of one column has none up right).
SameNeighbours ==
    step = "code" /\ W > 1 =>
        \A k \in Lanes : Active(k) /\ i[k] + Top >= 2 =>
            t[k] = Neighbours(i[k] + Top, j[k])

\* A decoder never looks at memory it has not decoded, not even for a lane
\* outside of the image: its symbols, too, must be those of the encoder.
NothingRaw ==
    \A k \in DOMAIN t : t[k] \in Registers(Pixels)

\* Every pixel is coded after its neighbours and no pixel a second time, be it
\* later or by another lane in the same step, and the loops end with the last
\* one.
Scan == INSTANCE CausalScan WITH over <- (phase = "over")
ScanIsCausal == Scan!CSSpec

\* The loops end.
ScanEnds == <>(phase = "over")
=============================================================================
