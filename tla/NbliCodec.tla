------------------------------ MODULE NbliCodec ------------------------------
(***************************************************************************)
(* The image coder of NBLI (nbli/NBLIcodec.h, NBLI.cpp): pixel by pixel,   *)
(* the planes U, V and Y of a colour image, or Y alone, each coded knowing *)
(* the errors of the planes before it.  Encoder and decoder run the same   *)
(* code over a buffer of pixels; the encoder's holds the image, and gets   *)
(* in its place what the decoder will see.                                 *)
(*                                                                         *)
(* A code is a sequence of numbers, each with the context of its histogram *)
(* or code tree (Rans and GolombCode turn them into words), and the masks  *)
(* of the chroma values that occur (their words: Mapper).                  *)
(***************************************************************************)
EXTENDS PlaneModel, Sequences

CONSTANT MaxY       \* MAX_Y, the largest level: 255

ASSUME MaxYAssumption == MaxY \in Nat \ {0}

MaxUV == 2 * MaxY
UV == INSTANCE Mapper WITH MaxVal <- MaxUV, Lit <- 15, RunBase <- 16, RunSpan <- 512, FlipMax <- 64

-----------------------------------------------------------------------------
(* Colours: <<R, G, B>> to Y, U, V and back.                               *)

ToYUV(p) ==
    LET u == p[1] - p[2]
        v == p[3] - p[2]
    IN  [Y |-> p[2] + (u + v + 2) \div 4, U |-> u + MaxY, V |-> v - u \div 4 + MaxY]

ToRGB(c) ==
    LET u == c.U - MaxY
        v == c.V - MaxY + u \div 4
        y == c.Y - (u + v + 2) \div 4
    IN  <<Clip(u + y, 0, MaxY), Clip(y, 0, MaxY), Clip(v + y, 0, MaxY)>>

\* The values of a chroma plane that occur, as a mask.
MaskOf(img, plane) ==
    LET seen == {ToYUV(img[k])[plane] : k \in DOMAIN img}
    IN  [v \in UV!Values |-> IF v \in seen THEN 1 ELSE 0]

\* load_YUV_with_map() and store_YUV_with_map(); gray levels as they are.
Load(st, px) ==
    CASE ~st.rgb -> [Y |-> px]
      [] st.rgb /\ st.masks = <<>> -> ToYUV(px)
      [] OTHER -> LET c == ToYUV(px)
                  IN  [c EXCEPT !.U = UV!Forward(st.masks.U, @), !.V = UV!Forward(st.masks.V, @)]
Store(st, c) ==
    CASE ~st.rgb -> c.Y
      [] st.rgb /\ st.masks = <<>> -> ToRGB(c)
      [] OTHER -> ToRGB([c EXCEPT !.U = UV!Backward(st.masks.U, @), !.V = UV!Backward(st.masks.V, @)])

-----------------------------------------------------------------------------
(* One sample.  st.m holds the models of the planes, st.x the sample.      *)

Planes(rgb) == IF rgb THEN {"U", "V", "Y"} ELSE {"Y"}
Steps(plane) == IF plane = "Y" THEN Qd1Steps ELSE Qd2Steps

\* prepare() .. postpare(): the encoder appends the number, the decoder takes
\* the next one, which makes sense in the context it was coded in.
CodePrepared(st, plane, m, p) ==
    LET ctx == <<plane, p.qd>>
        w   == CASE st.enc -> MapXtoW(st.x[plane], p.pxc, p.sign, m.maxval, m.near)
                 [] ~st.enc /\ st.code # <<>> /\ Head(st.code).ctx = ctx -> Head(st.code).w
                 [] OTHER -> 0
        x   == MapWtoX(w, p.pxc, p.sign, m.maxval, m.near)
    IN  [st EXCEPT !.m[plane] = Postpared(m, p, x),
                   !.x[plane] = x,
                   !.lost = @ \/ (~st.enc /\ (st.code = <<>> \/ Head(st.code).ctx # ctx)),
                   !.code = CASE st.enc -> Append(@, [ctx |-> ctx, w |-> w])
                              [] ~st.enc /\ @ # <<>> -> Tail(@)
                              [] OTHER -> @]
CodeSample(st, plane, extra) ==
    CodePrepared(st, plane, st.m[plane], Prepared(st.m[plane], Steps(plane), extra))

Err(st, plane) == st.m[plane].err2
Size(err) == Gap(err, 0)

CodeU(st) == CodeSample(st, "U", <<>>)
CodeV(st) ==
    CodeSample([st EXCEPT !.m["V"].err2 = (Size(@) + Size(Err(st, "U")) + 1) \div 2],
               "V", <<Err(st, "U") > 0>>)
CodeY(st) ==
    CodeSample([st EXCEPT !.m["Y"].err2 = (Size(@) + Size(Err(st, "U")) + Size(Err(st, "V"))) \div 2],
               "Y", <<Err(st, "U") > 0, Err(st, "V") > 0>>)

-----------------------------------------------------------------------------
(* An image.                                                               *)

\* The neighbours to the upper right, from the buffer; at the borders others.
Neighbours(st, i, j) ==
    LET at(up, right) == Load(st, st.buf[(i - up) * st.width + j + right + 1])
        d == IF i > 0 /\ j + 1 < st.width THEN at(1, 1) ELSE [p \in Planes(st.rgb) |-> st.m[p].a]
        r == IF i > 1 /\ j + 2 < st.width THEN at(2, 2) ELSE d
    IN  [st EXCEPT !.m = [p \in Planes(st.rgb) |-> [st.m[p] EXCEPT !.d = d[p], !.r = r[p]]],
                   !.x = IF st.enc THEN at(0, 0) ELSE [p \in Planes(st.rgb) |-> 0]]

StartOfLine(st, j) ==
    IF j > 0 THEN st
    ELSE [st EXCEPT !.m = [p \in Planes(st.rgb) |-> AtStartOfLine(st.m[p])]]

\* Faulty: the encoder goes on with the pixels of the image.
WrittenNot(st, k) ==
    [st EXCEPT !.buf[k] = IF st.enc THEN @ ELSE Store(st, st.x),
               !.m = [p \in Planes(st.rgb) |-> Moved(st.m[p], st.x[p])]]
Written(st, k) ==
    [st EXCEPT !.buf[k] = Store(st, st.x),
               !.m = [p \in Planes(st.rgb) |-> Moved(st.m[p], st.x[p])]]

CodePlanes(st) == IF st.rgb THEN CodeY(CodeV(CodeU(st))) ELSE CodeSample(st, "Y", <<>>)
CodePixel(st, k) ==
    LET j == (k - 1) % st.width
    IN  Written(CodePlanes(Neighbours(StartOfLine(st, j), (k - 1) \div st.width, j)), k)

\* Encoder or decoder, before the first pixel.
Begin(enc, rgb, buf, width, near, masks, code) ==
    LET top == [p \in Planes(rgb) |->
                  CASE p = "Y" -> MaxY
                    [] p # "Y" /\ masks = <<>> -> MaxUV
                    [] OTHER -> UV!Forward(masks[p], MaxUV + 1) - 1]
    IN  [enc |-> enc, rgb |-> rgb, buf |-> buf, width |-> width, masks |-> masks, code |-> code,
         m |-> [p \in Planes(rgb) |-> Fresh(top[p], near)],
         x |-> [p \in Planes(rgb) |-> 0], lost |-> FALSE]

CodedImage(st) ==
    LET upto[k \in 0..Len(st.buf)] == IF k = 0 THEN st ELSE CodePixel(upto[k - 1], k)
    IN  upto[Len(st.buf)]

\* Masks are for colour images without loss.
Encoded(img, rgb, width, near) ==
    LET masks == IF rgb /\ near = 0 THEN [p \in {"U", "V"} |-> MaskOf(img, p)] ELSE <<>>
    IN  CodedImage(Begin(TRUE, rgb, img, width, near, masks, <<>>))

\* The decoder's buffer is not initialised.
Decoded(e, blank, near) ==
    CodedImage(Begin(FALSE, e.rgb, blank, e.width, near, e.masks, e.code))
=============================================================================
