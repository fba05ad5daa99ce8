------------------------------ MODULE FnbliPixel ------------------------------
(***************************************************************************)
(* From pixels to symbols in fNBLI (fnbli_scalar.h): the colours, the      *)
(* prediction of a sample from its neighbours, and the correction of the   *)
(* prediction by the mean error of its context.  One lane or many code a   *)
(* pixel each per step; they share the contexts.  Where the neighbours     *)
(* come from is Wavefront's.                                               *)
(***************************************************************************)
EXTENDS PlaneModel, Sequences

CONSTANT MaxLevel      \* FNBLI_MAX_Y: 255

ASSUME LevelAssumption == MaxLevel \in 1..255 /\ \E n \in 1..8 : MaxLevel = 2^n - 1

MaxOf(plane) == IF plane = "Y" THEN MaxLevel ELSE 2 * MaxLevel + 1   \* FNBLI_MAX_UV

-----------------------------------------------------------------------------
(* Colours <<R, G, B>>; nothing is clamped on the way back.                *)

RGB2YUV(p) ==
    LET u == p[1] - p[2]
        v == p[3] - p[2]
    IN  [Y |-> p[2] + (u + v + 2) \div 4, U |-> u + MaxLevel, V |-> v - u \div 4 + MaxLevel]

YUV2RGB(c) ==
    LET u == c.U - MaxLevel
        v == c.V - MaxLevel + u \div 4
        y == c.Y - (u + v + 2) \div 4
    IN  <<u + y, y, v + y>>

-----------------------------------------------------------------------------
(* Prediction.  t holds the neighbours a .. g.                             *)

RoughV(t) == Gap(t.a, t.c) + Gap(t.b, t.f) + Gap(t.d, t.g)
RoughH(t) == Gap(t.a, t.e) + Gap(t.b, t.c) + Gap(t.b, t.d)

\* fnbliPredict(): the smoother the two directions alike, the more of both.
Predicted(t, maxval) ==
    LET dvh == RoughV(t) - RoughH(t)
        ab  == IF dvh > 0 THEN t.a ELSE t.b
        px  == Clip((t.a + t.b) * 9 + 2 * t.d - 2 * t.c - t.e - t.f, 0, 16 * maxval)
    IN  CASE Gap(dvh, 0) > 80 -> ab
          [] Gap(dvh, 0) \in 33..80 -> (px + 16 * ab + 16) \div 32
          [] Gap(dvh, 0) \in 9..32 -> (3 * px + 16 * ab + 32) \div 64
          [] OTHER -> (px + 8) \div 16

\* fnbliGetQD(); its table is the first of NBLI's.
GetQD(t, err) == Step(Qd1Steps, RoughV(t) + RoughH(t) + 2 * Gap(err, 0))

ContextAddr(t, px, qd, extra) == Adr(t, qd, px, extra)

-----------------------------------------------------------------------------
(* Correction.                                                             *)

FineScale == 128    \* 1 << CTX_SCALE

Sign(ctx) == (ctx \div (FineScale \div 2)) % 2
Corrected(px, ctx, maxval) == Clip(px + Sign(ctx) + ctx \div FineScale, 0, maxval)

\* The difference modulo the number of levels, and the sample again.
ToSymbol(x, pxc, sign, maxval) == (IF sign = 1 THEN x - pxc ELSE pxc - x) % (maxval + 1)
\* Faulty: the sign is left out.
ToSampleUp(w, pxc, sign, maxval) == (pxc - w) % (maxval + 1)
ToSample(w, pxc, sign, maxval) == (IF sign = 1 THEN pxc + w ELSE pxc - w) % (maxval + 1)

Error(x, px, maxval) == Clip(x - px, -(maxval \div 2), maxval \div 2)

\* updateContext(), with a shift that rounds down.
UpdateContext(ctx, err) == ((Coef - 1) * ctx + FineScale * err + (Coef \div 2 - 1)) \div Coef

-----------------------------------------------------------------------------
(* One plane of a step.  A step gives, for every plane and lane, the       *)
(* neighbours and, to the encoder, the sample.                             *)

CtxAt(st, plane, adr) == IF adr \in DOMAIN st.ctxs[plane] THEN st.ctxs[plane][adr] ELSE 0

\* What both sides know before the symbols: prediction, roughness, context, its
\* mean error, and the prediction it corrects.
Known(st, plane, ts, extra) ==
    LET max == MaxOf(plane)
        px  == [k \in DOMAIN ts |-> Predicted(ts[k], max)]
        qd  == [k \in DOMAIN ts |-> GetQD(ts[k], st.err[plane][k])]
        adr == [k \in DOMAIN ts |-> ContextAddr(ts[k], px[k], qd[k], extra[k])]
        ctx == [k \in DOMAIN ts |-> CtxAt(st, plane, adr[k])]
    IN  [px |-> px, qd |-> qd, adr |-> adr, ctx |-> ctx,
         pxc |-> [k \in DOMAIN ts |-> Corrected(px[k], ctx[k], max)]]

ToSymbols(g, x, max) == [k \in DOMAIN x |-> ToSymbol(x[k], g.pxc[k], Sign(g.ctx[k]), max)]
ToSamples(g, w, max) == [k \in DOMAIN w |-> ToSample(w[k], g.pxc[k], Sign(g.ctx[k]), max)]

\* Of the lanes that share a context the last to write stays.
Writer(adr, a) == CHOOSE k \in DOMAIN adr : adr[k] = a /\ \A j \in DOMAIN adr : adr[j] = a => j <= k

\* What both sides learn from the samples.
Learned(ctxs, g, err) ==
    [a \in DOMAIN ctxs \cup Range(g.adr) |->
        IF a \in Range(g.adr) THEN UpdateContext(g.ctx[Writer(g.adr, a)], err[Writer(g.adr, a)])
        ELSE ctxs[a]]

\* act(), act_x16(): all contexts are read before any is written.
Sent(st, plane, g) ==
    IF st.enc THEN [plane |-> plane, qd |-> g.qd, w |-> ToSymbols(g, st.x[plane], MaxOf(plane))]
    ELSE Head(st.code)
Settled(st, plane, g, sym) ==
    LET x   == IF st.enc THEN st.x[plane] ELSE ToSamples(g, sym.w, MaxOf(plane))
        err == [k \in DOMAIN g.px |-> Error(x[k], g.px[k], MaxOf(plane))]
    IN  [st EXCEPT
          !.lost = @ \/ sym.plane # plane \/ sym.qd # g.qd,
          !.code = IF st.enc THEN Append(@, sym) ELSE Tail(@),
          !.x[plane] = x,
          !.err[plane] = err,
          !.ctxs[plane] = Learned(@, g, err)]
Act(st, plane, ts, extra) ==
    LET g == Known(st, plane, ts, extra) IN Settled(st, plane, g, Sent(st, plane, g))

-----------------------------------------------------------------------------
(* A step of the coding loops fnbliCodec1 and fnbliCodec16.                *)

Errs(st, plane, k) == Gap(st.err[plane][k], 0)

ActU(st, t) == Act(st, "U", t["U"], [k \in DOMAIN t["U"] |-> <<>>])
ActV(st, t) ==
    Act([st EXCEPT !.err["V"] = [k \in DOMAIN @ |-> (Errs(st, "V", k) + Errs(st, "U", k) + 1) \div 2]],
        "V", t["V"], [k \in DOMAIN t["V"] |-> <<st.err["U"][k] > 0>>])
ActY(st, t) ==
    Act([st EXCEPT !.err["Y"] =
            [k \in DOMAIN @ |-> (Errs(st, "Y", k) + Errs(st, "U", k) + Errs(st, "V", k) + 1) \div 2]],
        "Y", t["Y"], [k \in DOMAIN t["Y"] |-> <<st.err["U"][k] > 0, st.err["V"][k] > 0>>])
ActGray(st, t) == Act(st, "Y", t["Y"], [k \in DOMAIN t["Y"] |-> <<>>])

\* clearAtStartOfLine(), and loadPixels() of an encoder.
Ready(st, step) ==
    [st EXCEPT !.err = [p \in DOMAIN @ |-> [k \in DOMAIN @[p] |-> IF k \in step.start THEN 0 ELSE @[p][k]]],
               !.x = IF st.enc THEN step.x ELSE @]

CodeTemplates(st, t) == IF "U" \in DOMAIN t THEN ActY(ActV(ActU(st, t), t), t) ELSE ActGray(st, t)
CodeStep(st, step) == CodeTemplates(Ready(st, step), step.t)

\* The samples of every step so far are kept.
Kept(out, st) == [st |-> st, out |-> Append(out, st.x)]
Stepped(run, step) == Kept(run.out, CodeStep(run.st, step))

CodeSteps(enc, steps, code) ==
    LET planes == DOMAIN steps[1].t
        zero == [p \in planes |-> [k \in DOMAIN steps[1].t[p] |-> 0]]
        upto[n \in 0..Len(steps)] ==
            IF n = 0
            THEN [st |-> [enc |-> enc, code |-> code, lost |-> FALSE, err |-> zero, x |-> zero,
                          ctxs |-> [p \in planes |-> <<>>]],
                  out |-> <<>>]
            ELSE Stepped(upto[n - 1], steps[n])
    IN  upto[Len(steps)]

-----------------------------------------------------------------------------
(* What the loops are given: gray levels or colours, any number of lanes.  *)

PlaneSets == {{"Y"}, {"U", "V", "Y"}}
Neighbourhood == [a : Int, b : Int, c : Int, d : Int, e : Int, f : Int, g : Int]
Samples(planes, lanes) ==
    {x \in [planes -> [1..lanes -> Nat]] : \A p \in planes : \A k \in 1..lanes : x[p][k] \in 0..MaxOf(p)}
StepsOf(planes, lanes) ==
    [t : [planes -> [1..lanes -> Neighbourhood]], x : Samples(planes, lanes), start : SUBSET (1..lanes)]
=============================================================================
