------------------------------ MODULE CausalScan ------------------------------
(***************************************************************************)
(* What an adaptive pixel coder must do to be invertible: it codes every   *)
(* pixel of the image exactly once, and each one only after the            *)
(* neighbours its prediction is made from, so that the decoder has them    *)
(* when it needs them.  How many pixels are coded together is left open.   *)
(***************************************************************************)
EXTENDS Integers

VARIABLES
    shape,     \* the image: [h |-> rows, w |-> columns, ...]
    coded,     \* the pixels coded so far
    recoded,   \* those of them that were coded more than once
    over       \* the coder has finished

csVars == <<shape, coded, recoded, over>>

Image == (0..(shape.h - 1)) \X (0..(shape.w - 1))

\* The pixels a prediction looks at: two to the left, up to three in the row
\* above, two in the row above that.
Causal(r, c) ==
    Image \cap ({r} \X {c - 2, c - 1} \cup {r - 1} \X {c - 1, c, c + 1} \cup {r - 2} \X {c, c + 1})

CSInit ==
    /\ coded = {} /\ recoded = {}
    /\ over = FALSE

\* One step codes any pixels that are not coded yet and see all their
\* neighbours, and none that is coded, not even in the same step by two lanes;
\* the coder is over with the step that codes the last one.
Code ==
    /\ ~over
    /\ coded \subseteq coded' /\ coded' # coded
    /\ coded' \subseteq Image
    /\ \A p \in coded' \ coded : Causal(p[1], p[2]) \subseteq coded
    /\ over' = (coded' = Image)
    /\ UNCHANGED <<shape, recoded>>

CSSpec == CSInit /\ [][Code]_csVars
=============================================================================
