------------------------------- MODULE Deflate -------------------------------
(***************************************************************************)
(* The deflate encoder of the PNG writer.  mt_deflate_write copies its     *)
(* input into a ring and, as long as a match may still reach its full      *)
(* length, turns it into tokens: literals, and matches found by way of     *)
(* hash chains, at the higher levels only if no longer match begins one    *)
(* byte later ("lazy").  Full token buffers become blocks.  The prefix     *)
(* codes and the bits of a block are left out; what reads the file         *)
(* (`restored`) gets the tokens of each block.                             *)
(***************************************************************************)
EXTENDS Integers, Sequences

CONSTANTS
    MaxMatch,           \* DEFL_MAX_MATCH, 258
    WSize,              \* DEFL_WSIZE, the largest distance
    RingSize,           \* DEFL_RINGSIZE
    HSize,              \* DEFL_HSIZE
    TokMax,             \* DEFL_TOKMAX, tokens of a block
    Chunk,              \* DEFL_CHUNK
    StoreMax,           \* 65535, bytes of a stored block
    Options             \* the inputs and levels to look at

MinMatch == 3

\* The ring holds the window and all that may have been fed but not consumed.
ASSUME DeflateAssumption ==
    /\ {MaxMatch, WSize, RingSize, HSize, TokMax, Chunk, StoreMax} \subseteq Nat \ {0}
    /\ MaxMatch > MinMatch
    /\ WSize + (MaxMatch - 1) + Chunk <= RingSize

\* src: all that is ever written; stored: level 0; chain, nice and lazy: the
\* settings of the level.
ASSUME OptionsAssumption ==
    \A opt \in Options :
        /\ opt.src \in Seq(Nat) /\ opt.stored \in BOOLEAN
        /\ {opt.chain, opt.nice, opt.lazy} \subseteq Nat

NIL == -1
Ring == 0..(RingSize - 1)

VARIABLES
    o,                  \* the input and the level
    phase,              \* feeding, ending (mt_deflate_end), done
    ring,               \* p_ring
    tab,                \* p_head and p_prev
    pos, end,           \* consumed and fed, absolute positions
    tok,                \* p_tok[0 .. ntok - 1]
    lasts,              \* of each block that was put out, its mark as the last one
    restored            \* what a reader of the blocks has got so far

vars == <<o, phase, ring, tab, pos, end, tok, lasts, restored>>

Tokens == [sym : Nat, len : {0}, dist : {0}] \cup
          [sym : {0}, len : MinMatch..MaxMatch, dist : 1..WSize]

TypeOK ==
    /\ o \in Options
    /\ phase \in {"feeding", "ending", "done"}
    /\ ring \in [Ring -> Nat \cup {NIL}]
    /\ tab.head \in [0..(HSize - 1) -> Ring \cup {NIL}]
    /\ tab.prev \in [Ring -> Ring \cup {NIL}]
    /\ end \in 0..Len(o.src) /\ pos \in 0..end
    /\ tok \in Seq(Tokens)
    /\ lasts \in Seq(BOOLEAN)
    /\ restored \in Seq(Nat)

\* What malloc left in the ring is none of the input's bytes.
Init ==
    /\ o \in Options
    /\ phase = "feeding"
    /\ ring = [i \in Ring |-> NIL]
    /\ tab = [head |-> [h \in 0..(HSize - 1) |-> NIL], prev |-> [i \in Ring |-> NIL]]
    /\ pos = 0 /\ end = 0
    /\ tok = <<>> /\ lasts = <<>> /\ restored = <<>>

-----------------------------------------------------------------------------
(* The match finder.                                                       *)

\* Which triples of bytes share a chain does not matter, only that some do.
Hash(i) == (4 * ring[i] + 2 * ring[(i + 1) % RingSize] + ring[(i + 2) % RingSize]) % HSize

Inserted(t, i) ==
    [head |-> [t.head EXCEPT ![Hash(i)] = i],
     prev |-> [t.prev EXCEPT ![i] = t.head[Hash(i)]]]

\* The positions of a match from the given offset on, as far as they are the
\* start of three bytes.
InsertedAll(t, start, from, len) ==
    LET upto[k \in from..len] ==
            IF k = from THEN t
            ELSE LET p == start + k - 1
                 IN  IF p + MinMatch <= end THEN Inserted(upto[k - 1], p % RingSize) ELSE upto[k - 1]
    IN  IF from < len THEN upto[len] ELSE t

\* How long the bytes from i and from j on are the same.
Common(i, j, max) ==
    CHOOSE l \in 0..max :
        /\ \A k \in 0..(l - 1) : ring[(i + k) % RingSize] = ring[(j + k) % RingSize]
        /\ l < max => ring[(i + l) % RingSize] # ring[(j + l) % RingSize]

NoMatch == [len |-> 0, dist |-> 0]

TooFarAny(d) == d = 0                      \* faulty: the window is not checked
TooFar(d) == d = 0 \/ d > WSize

\* Along the chain, at most o.chain entries, to the first match that is nice or
\* as long as can be; the nearest of the longest ones wins.
LongestMatch(t, ci, max) ==
    LET follow == [i \in Ring \cup {NIL} |-> IF i = NIL THEN NIL ELSE t.prev[i]]
        entry[k \in 0..o.chain] == IF k = 0 THEN t.prev[ci] ELSE follow[entry[k - 1]]
        dist(k) == (ci - entry[k]) % RingSize
        len(k) == Common(entry[k], ci, max)
        usable(k) == entry[k] # NIL /\ ~TooFar(dist(k))
        visited == {k \in 0..(o.chain - 1) :
                       \A j \in 0..k : usable(j) /\ (j < k => len(j) < o.nice /\ len(j) < max)}
        long == {k \in visited : len(k) >= MinMatch}
        best == CHOOSE k \in long : \A j \in long : len(j) < len(k) \/ (len(j) = len(k) /\ k <= j)
    IN  IF long = {} THEN NoMatch ELSE [len |-> len(best), dist |-> dist(best)]

-----------------------------------------------------------------------------
(* The tokenizer.                                                          *)

Literal(b) == [sym |-> b, len |-> 0, dist |-> 0]
Match(m) == [sym |-> 0, len |-> m.len, dist |-> m.dist]

MaxLen == IF end - pos > MaxMatch THEN MaxMatch ELSE end - pos
Cur == pos % RingSize
Next1 == (pos + 1) % RingSize

\* The position itself is hashed (pre_ins is never set: the only branch that
\* would is left before).
Hashed == IF MaxLen >= MinMatch THEN Inserted(tab, Cur) ELSE tab
Found == IF MaxLen >= MinMatch THEN LongestMatch(Hashed, Cur, MaxLen) ELSE NoMatch

\* Whether to look one byte further, and what is there.
TriesLazy(m) == m.len >= MinMatch /\ m.len < o.lazy /\ MaxLen > MinMatch
Hashed2 == Inserted(Hashed, Next1)
Later == IF MaxLen - 1 >= MinMatch THEN LongestMatch(Hashed2, Next1, MaxLen - 1) ELSE NoMatch

Emit(tokens, n, t) ==
    /\ tok' = tok \o tokens
    /\ pos' = pos + n
    /\ tab' = t
    /\ UNCHANGED <<o, phase, ring, end, lasts, restored>>

TakeLiteral == Emit(<<Literal(ring[Cur])>>, 1, Hashed)

TakeMatch(m) == Emit(<<Match(m)>>, m.len, InsertedAll(Hashed, pos, 1, m.len))

\* The next position is hashed already in what follows.
KeepMatch(m) == Emit(<<Match(m)>>, m.len, InsertedAll(Hashed2, pos, 2, m.len))

TakeLater(m) ==
    Emit(<<Literal(ring[Cur]), Match(m)>>, 1 + m.len, InsertedAll(Hashed2, pos + 1, 1, m.len))

\* The loops of write and end, each of which puts a full buffer out first.
Steps ==
    /\ Len(tok) < TokMax
    /\ \/ phase = "feeding" /\ pos + MaxMatch <= end
       \/ phase = "ending" /\ pos < end

\* defl_step: m is the match at pos, l the one at the byte behind it.
Step ==
    /\ Steps
    /\ \E m \in {Found} :
          \/ m = NoMatch /\ TakeLiteral
          \/ m # NoMatch /\ ~TriesLazy(m) /\ TakeMatch(m)
          \/ /\ TriesLazy(m)
             /\ \E l \in {Later} : \/ l.len > m.len /\ TakeLater(l)
                                   \/ l.len <= m.len /\ KeepMatch(m)

-----------------------------------------------------------------------------
(* Blocks.                                                                 *)

\* External: what a reader makes of the tokens of a block.
Inflated(before, tokens) ==
    LET upto[k \in 0..Len(tokens)] ==
            IF k = 0 THEN before
            ELSE LET b == upto[k - 1]
                     t == tokens[k]
                 IN  IF t.len = 0 THEN Append(b, t.sym)
                     ELSE IF t.dist > Len(b) \/ t.dist > WSize THEN Append(b, NIL)
                     ELSE b \o [i \in 1..t.len |->
                                   b[(Len(b) - t.dist) + 1 + ((i - 1) % t.dist)]]
    IN  upto[Len(tokens)]

\* defl_block.
Block(last) ==
    /\ restored' = Inflated(restored, tok)
    /\ tok' = <<>>
    /\ lasts' = Append(lasts, last)

BlockFullLast ==                           \* faulty: the last full one is marked, too
    /\ Len(tok) >= TokMax
    /\ Block(phase = "ending" /\ pos = end)
    /\ UNCHANGED <<o, phase, ring, tab, pos, end>>
BlockFull ==
    /\ Len(tok) >= TokMax
    /\ Block(FALSE)
    /\ UNCHANGED <<o, phase, ring, tab, pos, end>>

\* The last one, which may be empty, and the checksum.
BlockLast ==
    /\ phase = "ending" /\ ~o.stored
    /\ pos = end /\ Len(tok) < TokMax
    /\ Block(TRUE)
    /\ phase' = "done"
    /\ UNCHANGED <<o, ring, tab, pos, end>>

\* defl_stored: n bytes, or an empty block.  Each piece ends with the call if
\* nothing is left, which alone may make it the last.
StoredLasts(n, last) ==
    LET count == IF n = 0 THEN 1 ELSE (n + StoreMax - 1) \div StoreMax
    IN  [k \in 1..count |-> last /\ k = count]

-----------------------------------------------------------------------------
(* The interface.                                                          *)

\* The bytes [from, from + k) of the input go to their places in the ring.
RingWith(from, k) ==
    [i \in Ring |-> LET ahead == (i - from) % RingSize
                    IN  IF ahead < k THEN o.src[from + ahead + 1] ELSE ring[i]]

\* The next chunk of mt_deflate_write, when the steps for the last one are done.
ReadyEarly == Len(tok) < TokMax             \* faulty: feeds before the steps are done
Ready == pos + MaxMatch > end /\ Len(tok) < TokMax

Write(k) ==
    /\ phase = "feeding" /\ ~o.stored
    /\ Ready
    /\ end + k <= Len(o.src)
    /\ ring' = RingWith(end, k)
    /\ end' = end + k
    /\ UNCHANGED <<o, phase, tab, pos, tok, lasts, restored>>

WriteStored(k) ==
    /\ phase = "feeding" /\ o.stored
    /\ end + k <= Len(o.src)
    /\ end' = end + k /\ pos' = end + k
    /\ restored' = restored \o SubSeq(o.src, end + 1, end + k)
    /\ lasts' = lasts \o StoredLasts(k, FALSE)
    /\ UNCHANGED <<o, phase, ring, tab, tok>>

End ==
    /\ phase = "feeding" /\ end = Len(o.src)
    /\ o.stored \/ Ready
    /\ phase' = "ending"
    /\ UNCHANGED <<o, ring, tab, pos, end, tok, lasts, restored>>

EndStored ==
    /\ phase = "ending" /\ o.stored
    /\ phase' = "done"
    /\ lasts' = lasts \o StoredLasts(0, TRUE)
    /\ UNCHANGED <<o, ring, tab, pos, end, tok, restored>>

Encoder == Step \/ BlockFull \/ BlockLast \/ EndStored
Caller == (\E k \in 1..Chunk : Write(k)) \/ (\E k \in 1..Len(o.src) : WriteStored(k)) \/ End
Terminated == phase = "done" /\ UNCHANGED vars

Next == Encoder \/ Caller \/ Terminated

Spec == Init /\ [][Next]_vars

-----------------------------------------------------------------------------
(* Properties.                                                             *)

Input(n) == SubSeq(o.src, 1, n)

\* The blocks and the tokens still in the buffer are the input as far as it
\* was consumed, at any time and however it was cut into chunks: no match
\* reaches back beyond the window or the start, takes bytes that the ring has
\* lost, or is hashed wrongly.
RoundTrip == Inflated(restored, tok) = Input(pos)

\* The ring still holds every byte a match may reach back to, and every byte
\* that was fed and not consumed, though chunks are copied over old bytes.
WindowKept ==
    ~o.stored =>
        \A p \in (IF pos > WSize THEN pos - WSize ELSE 0)..(end - 1) :
            ring[p % RingSize] = o.src[p + 1]

\* The types hold, and the end of the stream is marked once, on the last block, also when the
\* input ends with a full buffer or is empty; by then all has been put out.
WellFramed ==
    /\ TypeOK
    /\ \A k \in 1..Len(lasts) : lasts[k] <=> (phase = "done" /\ k = Len(lasts))
    /\ phase = "done" => lasts # <<>> /\ restored = o.src

\* deflate.c reserves DEFL_TOKMAX tokens, "tokens per deflate block".
TokensFit == Len(tok) <= TokMax
=============================================================================
