---------------------------- MODULE FrameEncoder ----------------------------
(***************************************************************************)
(* Encoder.frame (src/yolofountain/codec.py) on its two paths: pure Python, *)
(* and one call of the C core (src/yolofountain/native/yolo_core.c) that    *)
(* selects the blocks, XORs them into the Encoder's own buffer and adds the *)
(* checksum.  ctypes gives up the interpreter lock for the call, so threads *)
(* are in the C core at once; each has an Encoder of its own, and they      *)
(* share the CRC table, which the first call fills.  What one thread does   *)
(* to its own Encoder no other can see: one thread draws at a time here.    *)
(*                                                                          *)
(* A body is the set of blocks XORed into it.  The numbers of mulberry32    *)
(* are any numbers: u decides the degree, each further one draws a block.   *)
(***************************************************************************)
EXTENDS Naturals, Sequences, FiniteSetsExt, Functions

CONSTANTS
    Threads,
    Settings,       \* of a behaviour: the path, N, K, soliton_cdf, and whether the
                    \* compiler left crc_ready = 1 behind the table (C lets it move)
    Requests,       \* frame indices asked for
    Units,          \* mulberry32 and the cdf in units of 1 / Units
    Draws,          \* the blocks the random draws hit
    TriesPerBlock,  \* draws per block of a droplet before it gives up: 40
    TabSize,        \* entries of the CRC table: 256
    KMod,           \* what the block size field holds: 2^16
    IndexMod,       \* what the frame index field holds: 2^32
    MaxCalls        \* bound: calls of all threads

\* soliton_cdf: the sums of numbers that are not negative, but for the last,
\* which is set to one; rounding may have taken the one before it further.
IsCdf(c, n) ==
    /\ c \in [1 .. n -> Nat] /\ c[n] = Units
    /\ \A d, e \in 1 .. n - 1 : d <= e => c[d] <= c[e]

ASSUME SettingsAssumption == \A s \in Settings :
    /\ s.native \in BOOLEAN /\ s.ordered \in BOOLEAN
    /\ s.n \in Nat \ {0} /\ s.k \in Nat \ {0}
    /\ IsCdf(s.cdf, s.n)
ASSUME ParamAssumption ==
    /\ Requests \subseteq Nat /\ TriesPerBlock \in Nat \ {0}
    /\ Units \in Nat \ {0} /\ TabSize \in Nat \ {0} /\ MaxCalls \in Nat
    /\ KMod \in Nat \ {0} /\ IndexMod \in Nat \ {0}
    /\ \A s \in Settings : Draws \subseteq 0 .. s.n - 1 \/ s.n <= 4

VARIABLES
    env,        \* the setting, chosen once
    call,       \* the call of frame a thread is in, and its Encoder's buffers
    filled,     \* entries of crc_tab that have been written
    crcReady,
    held,       \* the frames a thread was given, each with what it asked for
    calls

table == <<filled, crcReady>>
vars == <<env, call, table, held, calls>>

NoFrame == [index |-> 0, k |-> 0, body |-> {}, crc |-> FALSE]
NoCall == [pc |-> "idle", asked |-> 0, u |-> 0, lo |-> 1, hi |-> 1, out |-> <<>>,
           tries |-> 0, entry |-> 1, buf |-> NoFrame]

Init ==
    /\ env \in Settings
    /\ call = [t \in Threads |-> NoCall]
    /\ filled = {} /\ crcReady = FALSE
    /\ held = [t \in Threads |-> <<>>] /\ calls = 0

-----------------------------------------------------------------------------
(* Which blocks: blocks_for_frame, select_blocks *)

\* The index as the path computes with it: the C core takes 32 bits.
Index(i) == IF env.native THEN i % IndexMod ELSE i

Systematic(i) == env.n <= 4 \/ Index(i) < env.n

\* Mutant: the block size is not cut to its field.
HeaderUncut(i) == [index |-> i % IndexMod, k |-> env.k, body |-> {}, crc |-> FALSE]

\* The header, and a body of zeros.
Header(i) == [index |-> i % IndexMod, k |-> env.k % KMod, body |-> {}, crc |-> FALSE]

\* A call starts: the block of a systematic frame or the degree of a droplet.
Begin(t, i) ==
    /\ call[t].pc = "idle" /\ calls < MaxCalls /\ calls' = calls + 1
    /\ \E x \in 0 .. Units - 1 :
         call' = [call EXCEPT ![t] =
             IF Systematic(i)
             THEN [NoCall EXCEPT !.pc = "xor", !.asked = i, !.buf = Header(i),
                                 !.out = <<Index(i) % env.n>>]
             ELSE [NoCall EXCEPT !.pc = "pick", !.asked = i, !.buf = Header(i), !.u = x,
                                 !.hi = env.n]]
    /\ UNCHANGED <<env, table, held>>

Mid(t) == (call[t].lo + call[t].hi) \div 2

\* _pick_degree: binary search for the first entry of the cdf not below u.
Search(t) ==
    /\ call[t].pc = "pick" /\ call[t].lo < call[t].hi
    /\ call' = IF env.cdf[Mid(t)] < call[t].u
               THEN [call EXCEPT ![t].lo = Mid(t) + 1]
               ELSE [call EXCEPT ![t].hi = Mid(t)]
    /\ UNCHANGED <<env, table, held, calls>>

Picked(t) ==
    /\ call[t].pc = "pick" /\ call[t].lo >= call[t].hi
    /\ call' = [call EXCEPT ![t].pc = "draw"]
    /\ UNCHANGED <<env, table, held, calls>>

Degree(t) == call[t].lo

\* Mutant: a block drawn before counts again.
FreshAlways(t, b) == TRUE
Fresh(t, b) == b \notin Range(call[t].out)

\* Mutant: only a draw that is used is counted.
TriedOnUse(t, b) == IF Fresh(t, b) THEN call[t].tries + 1 ELSE call[t].tries
Tried(t, b) == call[t].tries + 1

More(t) ==
    Len(call[t].out) < Degree(t) /\ call[t].tries < Degree(t) * TriesPerBlock

Draw(t, b) ==
    /\ call[t].pc = "draw" /\ More(t)
    /\ call' = [call EXCEPT ![t].tries = Tried(t, b),
                            ![t].out = IF Fresh(t, b) THEN Append(@, b) ELSE @]
    /\ UNCHANGED <<env, table, held, calls>>

Drawn(t) ==
    /\ call[t].pc = "draw" /\ ~More(t)
    /\ call' = [call EXCEPT ![t].pc = "xor"]
    /\ UNCHANGED <<env, table, held, calls>>

-----------------------------------------------------------------------------
(* The body and the checksum *)

\* XORed in twice, a block is gone.
XorAll(body, blocks) == {b \in body \cup Range(blocks) :
    (Cardinality({j \in DOMAIN blocks : blocks[j] = b}) % 2 = 1) # (b \in body)}

Xor(t) ==
    /\ call[t].pc = "xor"
    /\ call' = [call EXCEPT ![t].buf.body = XorAll(@, call[t].out),
                            ![t].pc = IF env.native THEN "crc" ELSE "pack"]
    /\ UNCHANGED <<env, table, held, calls>>

\* crc32_calc: crc_init, unless a call has completed it.
Checksum(t) ==
    /\ call[t].pc = "crc"
    /\ call' = [call EXCEPT ![t].pc = IF crcReady THEN "sum" ELSE "fill"]
    /\ UNCHANGED <<env, table, held, calls>>

\* Mutant: crc_ready is set before the table is filled.
FillEntryEarly(t) ==
    /\ call[t].pc = "fill"
    /\ filled' = filled \cup {call[t].entry} /\ crcReady' = TRUE
    /\ call' = [call EXCEPT ![t].entry = @ + 1,
                            ![t].pc = IF call[t].entry = TabSize THEN "sum" ELSE @]
    /\ UNCHANGED <<env, held, calls>>

\* Every call that found crc_ready unset writes the whole table, whatever the
\* others have written.
FillEntry(t) ==
    /\ call[t].pc = "fill"
    /\ filled' = filled \cup {call[t].entry}
    /\ call' = [call EXCEPT ![t].entry = @ + 1,
                            ![t].pc = IF call[t].entry = TabSize THEN "ready" ELSE @]
    /\ UNCHANGED <<env, crcReady, held, calls>>

Ready(t) ==
    /\ call[t].pc = "ready"
    /\ crcReady' = TRUE
    /\ call' = [call EXCEPT ![t].pc = "sum"]
    /\ UNCHANGED <<env, filled, held, calls>>

\* The checksum is right if the whole table is.  A thread that found crc_ready
\* set has seen part of the table only if the compiler moved that store.
Sum(t) ==
    /\ call[t].pc = "sum"
    /\ \E stale \in {FALSE, ~env.ordered /\ call[t].entry = 1} :
         call' = [call EXCEPT ![t].pc = "return",
                              ![t].buf.crc = ~stale /\ filled = 1 .. TabSize]
    /\ UNCHANGED <<env, table, held, calls>>

Wanted(t) == [index |-> call[t].asked % IndexMod, body |-> Range(call[t].out)]

\* Mutant: every frame handed out is the one buffer.
HandedBuffer(t, f) ==
    Append([j \in DOMAIN held[t] |-> [held[t][j] EXCEPT !.frame = f]],
           [want |-> Wanted(t), frame |-> f])
Handed(t, f) == Append(held[t], [want |-> Wanted(t), frame |-> f])

\* bytes(self._framebuf): the caller gets a copy.
Return(t) ==
    /\ call[t].pc = "return"
    /\ held' = [held EXCEPT ![t] = Handed(t, call[t].buf)]
    /\ call' = [call EXCEPT ![t] = [NoCall EXCEPT !.buf = call[t].buf]]
    /\ UNCHANGED <<env, table, calls>>

\* pack_frame; struct raises for an index its field does not hold.
Pack(t) ==
    /\ call[t].pc = "pack"
    /\ held' = IF call[t].asked < IndexMod
               THEN [held EXCEPT ![t] = Handed(t, [call[t].buf EXCEPT !.crc = TRUE])]
               ELSE held
    /\ call' = [call EXCEPT ![t] = [NoCall EXCEPT !.buf = call[t].buf]]
    /\ UNCHANGED <<env, table, calls>>

-----------------------------------------------------------------------------

Step(t) ==
    \/ Search(t) \/ Picked(t)
    \/ \E b \in Draws : Draw(t, b)
    \/ Drawn(t) \/ Xor(t) \/ Checksum(t) \/ FillEntry(t) \/ Ready(t) \/ Sum(t)
    \/ Return(t) \/ Pack(t)

\* One thread draws at a time, see above.
Turn(t) == \A s \in Threads \ {t} : call[s].pc \notin {"pick", "draw"}

Next == \E t \in Threads : Turn(t) /\ (Step(t) \/ \E i \in Requests : Begin(t, i))

Spec == Init /\ [][Next]_vars /\ \A t \in Threads : WF_vars(Turn(t) /\ Step(t))

-----------------------------------------------------------------------------
(* Properties *)

\* Every variable keeps its type.
Blocks == 0 .. env.n - 1
FrameType == [index : 0 .. IndexMod - 1, k : 0 .. KMod - 1, body : SUBSET Blocks,
              crc : BOOLEAN]
CallType ==
    [pc : {"idle", "pick", "draw", "xor", "crc", "fill", "ready", "sum", "return", "pack"},
     asked : Nat, u : 0 .. Units - 1, lo : 1 .. env.n, hi : 1 .. env.n, out : Seq(Blocks),
     tries : Nat, entry : 1 .. TabSize + 1, buf : FrameType]
TypeOK ==
    /\ env \in Settings /\ calls \in 0 .. MaxCalls
    /\ filled \subseteq 1 .. TabSize /\ crcReady \in BOOLEAN
    /\ call \in [Threads -> CallType]
    /\ held \in [Threads -> Seq([want : [index : 0 .. IndexMod - 1, body : SUBSET Blocks],
                                 frame : FrameType])]

\* The header and body that unpack_frame makes of a frame on the wire, if the
\* checksum is right and the length is what its block size field says.
Accepted(f) == f.crc /\ f.k = env.k
Unpacked(f) == [index |-> f.index, body |-> f.body]

\* A frame that was handed out is and stays the frame asked for, its droplet's
\* blocks XORed once each: on both paths, whatever other threads do in the C
\* core, and while later frames are built in the same buffer.  It is accepted,
\* unless its block size is more than the field holds; where the compiler
\* moved crc_ready it may have a wrong checksum, which makes it a lost frame.
FramesRight == \A t \in Threads : \A j \in DOMAIN held[t] :
    LET f == held[t][j].frame
    IN  /\ Unpacked(f) = held[t][j].want
        /\ env.ordered \/ ~env.native => (Accepted(f) <=> env.k < KMod)

\* The droplet of a repair frame: at least one block, each of them once, and as
\* many as the least degree whose cdf reaches u unless the draws ran out.
DropletRight == \A t \in Threads : LET c == call[t] IN
    c.pc \notin {"idle", "pick", "draw"} /\ ~Systematic(c.asked) =>
        LET d == Min({x \in 1 .. env.n : env.cdf[x] >= c.u})
        IN  /\ IsInjective(c.out) /\ c.out # <<>> /\ Len(c.out) <= d
            /\ Len(c.out) < d => c.tries = d * TriesPerBlock

\* Every call ends, the draws of a droplet included.
CallsReturn == \A t \in Threads : call[t].pc # "idle" ~> call[t].pc = "idle"

-----------------------------------------------------------------------------
(* The inductive invariant behind them *)

\* The header is that of the frame asked for; the body is empty, then the droplet.
BufferOK(t) == LET c == call[t] IN c.pc # "idle" =>
    /\ c.buf.index = c.asked % IndexMod /\ c.buf.k = env.k % KMod
    /\ c.buf.body = IF c.pc \in {"pick", "draw", "xor"} THEN {} ELSE Range(c.out)
    /\ IsInjective(c.out)
    /\ c.pc \in {"crc", "fill", "ready", "sum", "return"} => env.native
    /\ c.pc = "pack" => ~env.native

\* The degree lies between lo and hi.
SearchOK(t) == LET c == call[t] IN
    /\ c.lo <= c.hi /\ env.cdf[c.hi] >= c.u
    /\ \A x \in 1 .. c.lo - 1 : env.cdf[x] < c.u
    /\ c.pc # "pick" => c.lo = c.hi

\* The first draw is always used, and no more are used than the degree.
DrawOK(t) == LET c == call[t] IN
    /\ c.pc = "pick" => c.out = <<>> /\ c.tries = 0
    /\ Len(c.out) <= Degree(t) /\ c.tries <= Degree(t) * TriesPerBlock
    /\ c.tries > 0 => c.out # <<>>
    /\ c.pc \notin {"pick", "draw"} => ~More(t)

DropletOK(t) == LET c == call[t] IN
    IF c.pc = "idle" \/ Systematic(c.asked) THEN c.pc \notin {"pick", "draw"}
                                           ELSE SearchOK(t) /\ DrawOK(t)

\* Nobody sums before the whole table is there, and what was written stays right.
Full == filled = 1 .. TabSize
SumOK(t) == LET c == call[t] IN
    /\ c.pc \in {"pick", "draw", "xor", "crc"} => c.entry = 1
    /\ c.pc = "fill" => c.entry <= TabSize /\ 1 .. c.entry - 1 \subseteq filled
    /\ c.pc \in {"ready", "sum", "return"} => Full
    /\ c.pc = "return" => c.buf.crc \/ ~env.ordered

HeldOK(t) == \A j \in DOMAIN held[t] : LET f == held[t][j].frame IN
    /\ Unpacked(f) = held[t][j].want /\ f.k = env.k % KMod
    /\ f.crc \/ (env.native /\ ~env.ordered)

IInv ==
    /\ TypeOK /\ (crcReady => Full)
    /\ \A t \in Threads : BufferOK(t) /\ DropletOK(t) /\ SumOK(t) /\ HeldOK(t)

-----------------------------------------------------------------------------
(* Why a call ends *)

\* The steps a call has left, at most: a search between lo and hi, the draws of
\* the degree, the table, and one step for each of the others.
StepsLeft(c) ==
    CASE c.pc = "idle" -> 0
      [] c.pc \in {"return", "pack"} -> 1
      [] c.pc = "sum" -> 2
      [] c.pc = "ready" -> 3
      [] c.pc = "fill" -> 4 + TabSize - c.entry
      [] c.pc = "crc" -> TabSize + 4
      [] c.pc = "xor" -> TabSize + 5
      [] c.pc = "draw" -> TabSize + 6 + (c.lo * TriesPerBlock - c.tries)
      [] c.pc = "pick" -> TabSize + 7 + env.n * TriesPerBlock + (c.hi - c.lo)

\* Every step brings a thread's call closer to its end or leaves it alone: no
\* thread can hold up another, and no row of draws goes on for ever.
CallsShrink == [][\A t \in Threads : call[t].pc # "idle" =>
    /\ StepsLeft(call[t]) \in Nat /\ StepsLeft(call[t])' \in Nat
    /\ StepsLeft(call[t])' < StepsLeft(call[t]) \/ call'[t] = call[t]]_vars
=============================================================================
