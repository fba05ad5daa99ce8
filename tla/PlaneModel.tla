------------------------------ MODULE PlaneModel ------------------------------
(***************************************************************************)
(* One plane of NBLI (nbli/PlaneModel.h): what is expected of the next     *)
(* sample from its neighbours and from the errors made before in a like    *)
(* place, and the number w, small for a good guess, that is coded for it.  *)
(*                                                                         *)
(*            s h f g r                                                    *)
(*            q c b d                                                      *)
(*          e a x                                                          *)
(*                                                                         *)
(* Levels are 0..maxval, reproduced to within near.  The second predictor  *)
(* (AdvancedPredictor.h) is left out: its sums need 64 bits.               *)
(***************************************************************************)
EXTENDS Integers, FiniteSets, Functions

Scale == 2048       \* 1 << CTX_SCALE: the fixed point of a context's mean error
Coef  == 64         \* 1 << CTX_COEF: the weight of the errors before

Gap(x, y) == IF x < y THEN y - x ELSE x - y
Least(x, y) == IF x < y THEN x ELSE y
Clip(x, low, high) == IF x < low THEN low ELSE IF x > high THEN high ELSE x

\* The tables, by the indices at which their entries go up by one.
PtSteps    == {5, 12, 34, 78, 194, 431, 601}
Qd1Steps   == {1, 2, 4, 6, 9, 15, 25, 39, 63, 101, 151}
Qd2Steps   == {1, 2, 3, 4, 6, 10, 16, 25, 43, 75, 118}
Step(steps, x) == Cardinality({t \in steps : t <= x})

\* The constructor; of the contexts, which start at 0, those in use are kept.
Fresh(maxval, near) ==
    LET mid == (maxval + 1) \div 2
    IN  [maxval |-> maxval, near |-> near, SOL |-> FALSE, err2 |-> 0, ctxs |-> <<>>,
         a |-> mid, b |-> mid, c |-> mid, d |-> mid, e |-> mid, f |-> mid,
         g |-> mid, h |-> mid, q |-> mid, r |-> mid, s |-> mid,
         errSOL |-> 0, bSOL |-> mid, dSOL |-> mid, xSOL |-> mid]

-----------------------------------------------------------------------------
(* Prediction.                                                             *)

\* For each direction, twice what it makes of a, c, b and d, and of x.
Directions(m) ==
    << <<2 * m.e, 2 * m.q, 2 * m.c, 2 * m.b, 2 * m.a>>,
       <<2 * m.c, 2 * m.h, 2 * m.f, 2 * m.g, 2 * m.b>>,
       <<2 * m.q, 2 * m.s, 2 * m.h, 2 * m.f, 2 * m.c>>,
       <<2 * m.b, 2 * m.f, 2 * m.g, 2 * m.r, 2 * m.d>>,
       <<m.e + m.q, m.q + m.s, m.c + m.h, m.b + m.f, m.a + m.c>>,
       <<m.q + m.c, m.s + m.h, m.h + m.f, m.f + m.g, m.c + m.b>>,
       <<m.c + m.b, m.h + m.f, m.f + m.g, m.g + m.r, m.b + m.d>> >>

\* How badly each direction fits the neighbours, and the best one.
Costs(m, dirs) ==
    [k \in 1..7 |-> Gap(2 * m.a, dirs[k][1]) + Gap(2 * m.c, dirs[k][2])
                    + Gap(2 * m.b, dirs[k][3]) + Gap(2 * m.d, dirs[k][4])]
Total(cost) == cost[1] + cost[2] + cost[3] + cost[4] + cost[5] + cost[6] + cost[7]
Best(cost) == CHOOSE k \in 1..7 : \A j \in 1..7 : cost[k] < cost[j] \/ (cost[k] = cost[j] /\ k <= j)

\* The direction that fits best, weighed by how much better it does.
Flat(m) == Clip((9 * (m.a + m.b) + 2 * (m.d - m.c) - m.e - m.f + 4) \div 8, 0, 2 * m.maxval)
Blend(wt, flat, along) == ((8 - wt) * flat + wt * along + 8) \div 16
Weighed(m, dirs, cost, best) ==
    Blend(Step(PtSteps, (Total(cost) - 7 * cost[best]) \div 8), Flat(m), dirs[best][5])
Px(m) ==
    LET dirs == Directions(m)
        cost == Costs(m, dirs)
    IN  Weighed(m, dirs, cost, Best(cost))

\* How rough the neighbourhood is.
Qd(m, steps) ==
    Step(steps, Gap(m.a, m.e) + Gap(m.b, m.c) + Gap(m.b, m.d) + Gap(m.a, m.c)
                + Gap(m.b, m.f) + Gap(m.d, m.g) + Gap(m.err2, 0))

\* The context: the bits of its address.
Adr(m, qd, px, extra) ==
    <<qd, px > m.a, px > m.b, px > m.c, px > m.d, px > m.e, px > m.f,
      px > 2 * m.a - m.e, px > 2 * m.b - m.f, extra>>

\* prepare(): the guess, corrected by the mean error of its context.
Mean(m, adr) == IF adr \in DOMAIN m.ctxs THEN m.ctxs[adr] ELSE 0
CorrectedBy(m, px, qd, adr, ctx) ==
    LET sign == (ctx \div (Scale \div 2)) % 2
    IN  [px |-> px, qd |-> qd, adr |-> adr, ctx |-> ctx, sign |-> sign,
         pxc |-> Clip(px + sign + ctx \div Scale, 0, m.maxval)]
InContext(m, px, qd, adr) == CorrectedBy(m, px, qd, adr, Mean(m, adr))
Prepared(m, steps, extra) ==
    LET px == Px(m)
        qd == Qd(m, steps)
    IN  InContext(m, px, qd, Adr(m, qd, px, extra))

-----------------------------------------------------------------------------
(* From a sample to its number and back.                                   *)

\* The samples on the shorter side of the guess alternate with those of the
\* other one; what is left of the longer side follows.
Short(pxc, maxval, near) == (Least(pxc, maxval - pxc) + near) \div (2 * near + 1)

MapXtoW(x, pxc, sign, maxval, near) ==
    LET w  == (Gap(x, pxc) + near) \div (2 * near + 1)
        tw == Short(pxc, maxval, near)
    IN  CASE w = 0 -> 0
          [] w > 0 /\ w <= tw -> IF (x >= pxc) = (sign = 1) THEN 2 * w ELSE 2 * w - 1
          [] OTHER -> w + tw

MapWtoX(w, pxc, sign, maxval, near) ==
    LET tw == Short(pxc, maxval, near)
        up == IF w <= 2 * tw THEN (w % 2) # sign ELSE pxc < (maxval + 1) \div 2
        n  == (IF w <= 2 * tw THEN (w + 1) \div 2 ELSE w - tw) * (2 * near + 1)
    IN  Clip(IF up THEN pxc + n ELSE pxc - n, 0, maxval)

-----------------------------------------------------------------------------
(* Afterwards.                                                             *)

\* postpare(): the error, doubled, moves the mean of the context.
Postpared(m, p, x) ==
    LET half == m.maxval \div 2
        err2 == 2 * Clip(x - p.px, -half, half)
        ctx  == (Coef * p.ctx - p.ctx + err2 * (Scale \div 2) + (Coef \div 2 - 1)) \div Coef
    IN  [m EXCEPT !.err2 = err2,
                  !.ctxs = [adr \in DOMAIN @ \cup {p.adr} |-> IF adr = p.adr THEN ctx ELSE @[adr]]]

\* prepareAtStartOfLine(): the left border repeats the first samples of the
\* line before.
AtStartOfLine(m) ==
    [m EXCEPT !.SOL = TRUE, !.err2 = m.errSOL, !.h = m.bSOL, !.s = m.bSOL, !.f = m.bSOL,
              !.g = m.dSOL, !.q = m.xSOL, !.c = m.xSOL, !.b = m.xSOL, !.e = m.xSOL, !.a = m.xSOL]

\* moveTemplate(): one sample to the right, over x.
Moved(m, x) ==
    LET n == IF m.SOL THEN [m EXCEPT !.SOL = FALSE, !.errSOL = m.err2, !.bSOL = m.b,
                                     !.dSOL = m.d, !.xSOL = x] ELSE m
    IN  [n EXCEPT !.s = m.h, !.h = m.f, !.f = m.g, !.g = m.r,
                  !.q = m.c, !.c = m.b, !.b = m.d, !.e = m.a, !.a = x]
=============================================================================
