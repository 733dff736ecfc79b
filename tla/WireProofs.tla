----------------------------- MODULE WireProofs -----------------------------
(***************************************************************************)
(* What goes on the wire.  First the frame encoder, for any number of       *)
(* threads, any settings, requests and random numbers, and CRC tables and   *)
(* header fields of any size: FramesRight and DropletRight.  Then the text  *)
(* carrier, for frames and texts of any length and any alphabet that is     *)
(* large enough: RoundTrip and Canonical.                                   *)
(***************************************************************************)
EXTENDS FrameEncoder, Base45, FiniteSetTheorems, TLAPS

-----------------------------------------------------------------------------
(* Arithmetic and droplets *)

\* A remainder is below the modulus.
LEMMA ModBounds == ASSUME NEW a \in Nat, NEW m \in Nat \ {0} PROVE a % m \in 0 .. m - 1
  OBVIOUS

\* A field holds a number that is less than what it counts to.
LEMMA ModSame == ASSUME NEW a \in Nat, NEW m \in Nat \ {0} PROVE a % m = a <=> a < m
  OBVIOUS

LEMMA TimesNat ==
    ASSUME NEW a \in Nat \ {0}, NEW b \in Nat \ {0} PROVE a * b \in Nat /\ a * b >= 1
  OBVIOUS

\* Different blocks XORed into an empty body are the body.
LEMMA XorDistinct ==
    ASSUME NEW S, NEW q \in Seq(S), IsInjective(q) PROVE XorAll({}, q) = Range(q)
<1>1. ASSUME NEW b \in Range(q) PROVE Cardinality({j \in DOMAIN q : q[j] = b}) % 2 = 1
  <2>1. PICK x \in DOMAIN q : q[x] = b
    BY DEF Range
  <2>2. {j \in DOMAIN q : q[j] = b} = {x}
    BY <2>1 DEF IsInjective
  <2>3. Cardinality({j \in DOMAIN q : q[j] = b}) = 1
    BY <2>2, FS_Singleton
  <2> QED BY <2>3
<1> QED BY <1>1 DEF XorAll

\* A block that is not there yet keeps the sequence free of repetition.
LEMMA AppendDistinct ==
    ASSUME NEW S, NEW q \in Seq(S), IsInjective(q), NEW b \in S, b \notin Range(q)
    PROVE  IsInjective(Append(q, b))
<1>1. DOMAIN q = 1 .. Len(q) /\ DOMAIN Append(q, b) = 1 .. Len(q) + 1
  OBVIOUS
<1>2. \A j \in 1 .. Len(q) : Append(q, b)[j] = q[j] /\ q[j] # b
  BY <1>1 DEF Range
<1>3. Append(q, b)[Len(q) + 1] = b
  OBVIOUS
<1> QED BY <1>1, <1>2, <1>3 DEF IsInjective

\* What the assumptions say of the setting of a behaviour.
LEMMA EnvFacts ==
    ASSUME env \in Settings
    PROVE  /\ env.native \in BOOLEAN /\ env.ordered \in BOOLEAN
           /\ env.n \in Nat \ {0} /\ env.k \in Nat \ {0}
           /\ env.cdf \in [1 .. env.n -> Nat] /\ env.cdf[env.n] = Units
           /\ \A d, e \in 1 .. env.n - 1 : d <= e => env.cdf[d] <= env.cdf[e]
           /\ env.n > 4 => Draws \subseteq Blocks
  BY SettingsAssumption, ParamAssumption DEF IsCdf, Blocks

\* The values a call starts from.
LEMMA Starts ==
    ASSUME env \in Settings
    PROVE  /\ 0 \in 0 .. Units - 1 /\ 1 \in 1 .. TabSize + 1
           /\ 1 \in 1 .. env.n /\ env.n \in 1 .. env.n /\ Units \in Nat
           /\ <<>> \in Seq(Blocks)
  BY EnvFacts, ParamAssumption

-----------------------------------------------------------------------------
(* A step of one thread *)

\* The other threads keep what they rely on: what was written of the table stays.
LEMMA OthersKeep ==
    ASSUME IInv, NEW t \in Threads, env' = env,
           filled \subseteq filled', filled' \subseteq 1 .. TabSize,
           NEW s \in Threads, call'[s] = call[s], held'[s] = held[s]
    PROVE  BufferOK(s)' /\ DropletOK(s)' /\ SumOK(s)' /\ HeldOK(s)'
<1>1. BufferOK(s)'
  BY DEF IInv, BufferOK
<1>2. DropletOK(s)'
  BY DEF IInv, DropletOK, Systematic, Index, SearchOK, DrawOK, Degree, More
<1>3. SumOK(s)'
  <2>1. Full => filled' = 1 .. TabSize
    BY DEF Full
  <2> QED BY <2>1 DEF IInv, SumOK, Full
<1>4. HeldOK(s)'
  BY DEF IInv, HeldOK, Unpacked
<1> QED BY <1>1, <1>2, <1>3, <1>4

\* A step of thread t keeps the invariant if t keeps its part.
LEMMA Composed ==
    ASSUME IInv, NEW t \in Threads, NEW d, d \in CallType,
           env' = env, calls' \in 0 .. MaxCalls, call' = [call EXCEPT ![t] = d],
           filled \subseteq filled', filled' \subseteq 1 .. TabSize,
           crcReady' \in BOOLEAN, crcReady' => filled' = 1 .. TabSize,
           NEW h, h \in Seq([want : [index : 0 .. IndexMod - 1, body : SUBSET Blocks],
                             frame : FrameType]),
           held' = [held EXCEPT ![t] = h],
           BufferOK(t)', DropletOK(t)', SumOK(t)', HeldOK(t)'
    PROVE  IInv'
<1>1. TypeOK'
  <2>1. call' \in [Threads -> CallType]
    BY DEF IInv, TypeOK
  <2>2. held' \in [Threads -> Seq([want : [index : 0 .. IndexMod - 1, body : SUBSET Blocks],
                                  frame : FrameType])]
    BY DEF IInv, TypeOK
  <2>3. Blocks' = Blocks
    BY DEF Blocks
  <2>4. FrameType' = FrameType
    BY <2>3 DEF FrameType
  <2>5. CallType' = CallType
    BY <2>3, <2>4 DEF CallType
  <2> QED BY <2>1, <2>2, <2>3, <2>4, <2>5 DEF IInv, TypeOK
<1>2. ASSUME NEW s \in Threads, s # t PROVE call'[s] = call[s] /\ held'[s] = held[s]
  BY <1>2 DEF IInv, TypeOK
<1>3. ASSUME NEW s \in Threads
      PROVE  BufferOK(s)' /\ DropletOK(s)' /\ SumOK(s)' /\ HeldOK(s)'
  BY <1>2, OthersKeep
<1> QED BY <1>1, <1>3 DEF IInv, Full

\* The same for a step that hands out no frame.
LEMMA ComposedUnheld ==
    ASSUME IInv, NEW t \in Threads, NEW d, d \in CallType,
           env' = env, calls' \in 0 .. MaxCalls, call' = [call EXCEPT ![t] = d],
           filled \subseteq filled', filled' \subseteq 1 .. TabSize,
           crcReady' \in BOOLEAN, crcReady' => filled' = 1 .. TabSize,
           held' = held, BufferOK(t)', DropletOK(t)', SumOK(t)'
    PROVE  IInv'
<1>1. PICK h : h = held[t]
  OBVIOUS
<1>2. /\ h \in Seq([want : [index : 0 .. IndexMod - 1, body : SUBSET Blocks],
                    frame : FrameType])
      /\ held' = [held EXCEPT ![t] = h]
  BY <1>1 DEF IInv, TypeOK
<1>3. HeldOK(t)'
  BY DEF IInv, HeldOK, Unpacked
<1> QED BY <1>2, <1>3, Composed

\* A step that touches neither the table nor a frame handed out.
LEMMA ComposedQuiet ==
    ASSUME IInv, NEW t \in Threads, NEW d, d \in CallType,
           call' = [call EXCEPT ![t] = d], UNCHANGED <<env, table, held, calls>>,
           BufferOK(t)', DropletOK(t)', SumOK(t)'
    PROVE  IInv'
<1>1. /\ filled \subseteq 1 .. TabSize /\ crcReady \in BOOLEAN /\ calls \in 0 .. MaxCalls
      /\ crcReady => filled = 1 .. TabSize
  BY DEF IInv, TypeOK, Full
<1>2. UNCHANGED <<env, filled, crcReady, held, calls>>
  BY DEF table
<1> QED BY <1>1, <1>2, ComposedUnheld

\* The call of a thread, typed.
LEMMA CallFacts ==
    ASSUME IInv, NEW t \in Threads
    PROVE  /\ call[t] \in CallType /\ env \in Settings
           /\ call \in [Threads -> CallType]
           /\ BufferOK(t) /\ DropletOK(t) /\ SumOK(t) /\ HeldOK(t)
  BY DEF IInv, TypeOK

-----------------------------------------------------------------------------
(* The steps *)

LEMMA InitIInv == Init => IInv
<1> SUFFICES ASSUME Init PROVE IInv
  OBVIOUS
<1>1. NoFrame \in FrameType
  BY EnvFacts, ParamAssumption DEF Init, NoFrame, FrameType
<1>2. NoCall \in CallType
  BY <1>1, EnvFacts, ParamAssumption DEF Init, NoCall, CallType
<1>3. TypeOK
  <2>1. /\ env \in Settings /\ call \in [Threads -> CallType] /\ filled = {}
        /\ crcReady = FALSE /\ calls = 0
    BY <1>2 DEF Init
  <2>2. held \in [Threads -> Seq([want : [index : 0 .. IndexMod - 1, body : SUBSET Blocks],
                                 frame : FrameType])]
    BY DEF Init
  <2>3. 0 \in 0 .. MaxCalls
    BY ParamAssumption
  <2> QED BY <2>1, <2>2, <2>3 DEF TypeOK
<1>4. ASSUME NEW t \in Threads PROVE call[t].pc = "idle" /\ held[t] = <<>>
  BY DEF Init, NoCall
<1>5. ASSUME NEW t \in Threads
      PROVE  BufferOK(t) /\ DropletOK(t) /\ SumOK(t) /\ HeldOK(t)
  BY <1>4 DEF BufferOK, DropletOK, SumOK, HeldOK
<1> QED BY <1>3, <1>5 DEF IInv, Init

\* The index a path computes with is a number.
LEMMA IndexNat ==
    ASSUME env \in Settings, NEW i \in Nat PROVE Index(i) \in Nat
<1>1. i % IndexMod \in Nat
  BY ModBounds, ParamAssumption
<1> QED BY <1>1 DEF Index

\* A call starts: its header fits the fields, and the block of a systematic frame
\* is a block.
LEMMA BeginKeeps ==
    ASSUME IInv, NEW t \in Threads, NEW i \in Requests, Begin(t, i) PROVE IInv'
<1>1. /\ i \in Nat /\ env \in Settings
      /\ i % IndexMod \in 0 .. IndexMod - 1 /\ env.k % KMod \in 0 .. KMod - 1
      /\ Index(i) % env.n \in Blocks
  BY CallFacts, EnvFacts, IndexNat, ModBounds, ParamAssumption DEF Blocks
<1>2. PICK b : b = Header(i)
  OBVIOUS
<1>3. /\ b \in FrameType /\ b.index = i % IndexMod /\ b.k = env.k % KMod /\ b.body = {}
  BY <1>1, <1>2 DEF Header, FrameType
<1>4. /\ calls' \in 0 .. MaxCalls /\ UNCHANGED <<env, filled, crcReady, held>>
      /\ filled \subseteq 1 .. TabSize /\ crcReady \in BOOLEAN
      /\ crcReady => filled = 1 .. TabSize
  BY ParamAssumption DEF Begin, table, IInv, TypeOK, Full
<1>5. CASE Systematic(i)
  <2>1. PICK d : d = [NoCall EXCEPT !.pc = "xor", !.asked = i, !.buf = b,
                                    !.out = <<Index(i) % env.n>>]
    OBVIOUS
  <2>2. call' = [call EXCEPT ![t] = d]
    BY <1>2, <1>5, <2>1 DEF Begin
  <2>3. /\ d.pc = "xor" /\ d.asked = i /\ d.buf = b /\ d.entry = 1
        /\ d.out = <<Index(i) % env.n>>
    BY <2>1 DEF NoCall
  <2>4. d \in CallType
    <3>1. <<Index(i) % env.n>> \in Seq(Blocks)
      BY <1>1
    <3>2. d = [pc |-> "xor", asked |-> i, u |-> 0, lo |-> 1, hi |-> 1,
               out |-> <<Index(i) % env.n>>, tries |-> 0, entry |-> 1, buf |-> b]
      BY <2>1 DEF NoCall
    <3> QED BY <1>1, <1>3, <3>1, <3>2, Starts DEF CallType
  <2>5. call'[t] = d
    BY <2>2, CallFacts
  <2>6. IsInjective(<<Index(i) % env.n>>)
    BY DEF IsInjective
  <2>7. BufferOK(t)'
    BY <1>3, <1>4, <2>3, <2>5, <2>6 DEF BufferOK
  <2>8. DropletOK(t)' /\ SumOK(t)'
    BY <1>4, <1>5, <2>3, <2>5 DEF DropletOK, SumOK, Systematic, Index
  <2> QED BY <1>4, <2>2, <2>4, <2>7, <2>8, ComposedUnheld
<1>6. CASE ~ Systematic(i)
  <2>1. PICK x \in 0 .. Units - 1 :
            call' = [call EXCEPT ![t] = [NoCall EXCEPT !.pc = "pick", !.asked = i, !.buf = b,
                                                       !.u = x, !.hi = env.n]]
    BY <1>2, <1>6 DEF Begin
  <2>2. PICK d : d = [NoCall EXCEPT !.pc = "pick", !.asked = i, !.buf = b, !.u = x, !.hi = env.n]
    OBVIOUS
  <2>3. call' = [call EXCEPT ![t] = d]
    BY <2>1, <2>2
  <2>4. /\ d.pc = "pick" /\ d.asked = i /\ d.buf = b /\ d.out = <<>> /\ d.tries = 0
        /\ d.lo = 1 /\ d.hi = env.n /\ d.u = x /\ d.entry = 1
    BY <2>2 DEF NoCall
  <2>5. d \in CallType
    <3>1. d = [pc |-> "pick", asked |-> i, u |-> x, lo |-> 1, hi |-> env.n,
               out |-> <<>>, tries |-> 0, entry |-> 1, buf |-> b]
      BY <2>2 DEF NoCall
    <3> QED BY <1>1, <1>3, <3>1, Starts DEF CallType
  <2>6. call'[t] = d
    BY <2>3, CallFacts
  <2>7. IsInjective(<<>>)
    BY DEF IsInjective
  <2>8. BufferOK(t)'
    BY <1>3, <1>4, <2>4, <2>6, <2>7 DEF BufferOK
  <2>9. SearchOK(t)'
    <3>1. env.n \in Nat /\ 1 <= env.n /\ env.cdf[env.n] >= x
      BY <1>1, EnvFacts, Starts
    <3>2. 1 .. 1 - 1 = {}
      OBVIOUS
    <3> QED BY <1>4, <2>4, <2>6, <3>1, <3>2 DEF SearchOK
  <2>10. DrawOK(t)'
    BY <2>4, <2>6, ParamAssumption DEF DrawOK, Degree
  <2>11. DropletOK(t)'
    <3>1. ~ Systematic(i)'
      BY <1>4, <1>6 DEF Systematic, Index
    <3> QED BY <2>4, <2>6, <2>9, <2>10, <3>1 DEF DropletOK
  <2>12. SumOK(t)'
    BY <2>4, <2>6 DEF SumOK
  <2> QED BY <1>4, <2>3, <2>5, <2>8, <2>11, <2>12, ComposedUnheld
<1> QED BY <1>5, <1>6

\* A step of the search: the degree stays between lo and hi.
LEMMA SearchKeeps == ASSUME IInv, NEW t \in Threads, Search(t) PROVE IInv'
<1> DEFINE c == call[t]
<1>1. /\ c \in CallType /\ env \in Settings /\ BufferOK(t) /\ DropletOK(t) /\ SumOK(t)
      /\ c.pc = "pick" /\ c.lo < c.hi /\ UNCHANGED <<env, table, held, calls>>
  BY CallFacts DEF Search
<1>2. ~ Systematic(c.asked) /\ SearchOK(t) /\ DrawOK(t)
  BY <1>1 DEF DropletOK
<1>3. PICK m : m = Mid(t)
  OBVIOUS
<1>4. c.lo \in 1 .. env.n /\ c.hi \in 1 .. env.n /\ env.n \in Nat
  BY <1>1, EnvFacts DEF CallType
<1>5. m \in c.lo .. c.hi - 1 /\ m \in 1 .. env.n - 1
  BY <1>1, <1>3, <1>4 DEF Mid
<1>6. PICK d : d = IF env.cdf[m] < c.u THEN [c EXCEPT !.lo = m + 1] ELSE [c EXCEPT !.hi = m]
  OBVIOUS
<1>7. /\ d \in CallType /\ d.pc = "pick" /\ d.asked = c.asked /\ d.buf = c.buf /\ d.entry = c.entry
      /\ d.out = c.out /\ d.tries = c.tries /\ d.u = c.u /\ d.entry = c.entry
      /\ \/ env.cdf[m] < c.u /\ d.lo = m + 1 /\ d.hi = c.hi
         \/ ~ (env.cdf[m] < c.u) /\ d.lo = c.lo /\ d.hi = m
  <2>1. m \in 1 .. env.n /\ m + 1 \in 1 .. env.n
    BY <1>4, <1>5
  <2>2. CASE env.cdf[m] < c.u
    <3>1. d = [c EXCEPT !.lo = m + 1]
      BY <1>6, <2>2
    <3> QED BY <1>1, <2>1, <2>2, <3>1 DEF CallType
  <2>3. CASE ~ (env.cdf[m] < c.u)
    <3>1. d = [c EXCEPT !.hi = m]
      BY <1>6, <2>3
    <3> QED BY <1>1, <2>1, <2>3, <3>1 DEF CallType
  <2> QED BY <2>2, <2>3
<1>8. call' = [call EXCEPT ![t] = d]
  BY <1>3, <1>6 DEF Search
<1>9. call'[t] = d
  BY <1>8, CallFacts
<1>10. BufferOK(t)'
  BY <1>1, <1>7, <1>9 DEF BufferOK
<1>11. SearchOK(t)'
  <2>1. d.lo <= d.hi
    BY <1>4, <1>5, <1>7
  <2>2. /\ env.cdf \in [1 .. env.n -> Nat] /\ c.u \in Nat
        /\ \A x, y \in 1 .. env.n - 1 : x <= y => env.cdf[x] <= env.cdf[y]
    <3>1. c.u \in Nat
      BY <1>1, Starts DEF CallType
    <3> QED BY <1>1, <3>1, EnvFacts
  <2>3. env.cdf[d.hi] >= d.u
    <3>1. CASE ~ (env.cdf[m] < c.u) /\ d.hi = m
      <4>1. m \in 1 .. env.n
        BY <1>4, <1>5
      <4>2. env.cdf[m] \in Nat
        BY <2>2, <4>1
      <4> QED BY <1>7, <2>2, <3>1, <4>2
    <3>2. CASE d.hi = c.hi
      BY <1>2, <1>7, <3>2 DEF SearchOK
    <3> QED BY <1>7, <3>1, <3>2
  <2>4. ASSUME NEW x \in 1 .. d.lo - 1 PROVE env.cdf[x] < d.u
    <3>1. \A y \in 1 .. c.lo - 1 : env.cdf[y] < c.u
      BY <1>2 DEF SearchOK
    <3>2. CASE env.cdf[m] < c.u /\ d.lo = m + 1
      <4>1. x \in 1 .. env.n - 1 /\ x <= m
        BY <1>4, <1>5, <3>2
      <4>2. env.cdf[x] <= env.cdf[m] /\ env.cdf[x] \in Nat /\ env.cdf[m] \in Nat
        <5>1. x \in 1 .. env.n /\ m \in 1 .. env.n
          BY <1>4, <1>5, <4>1
        <5>2. env.cdf[x] \in Nat /\ env.cdf[m] \in Nat
          BY <2>2, <5>1
        <5>3. env.cdf[x] <= env.cdf[m]
          BY <1>5, <2>2, <4>1
        <5> QED BY <5>2, <5>3
      <4> QED BY <1>7, <2>2, <3>2, <4>2
    <3>3. CASE d.lo = c.lo
      BY <1>7, <3>1, <3>3
    <3> QED BY <1>7, <3>2, <3>3
  <2> QED BY <1>1, <1>7, <1>9, <2>1, <2>3, <2>4 DEF SearchOK
<1>12. DrawOK(t)'
  <2>1. d.lo \in Nat \ {0} /\ d.lo * TriesPerBlock >= 0
    BY <1>4, <1>5, <1>7, TimesNat, ParamAssumption
  <2> QED BY <1>1, <1>2, <1>7, <1>9, <2>1 DEF DrawOK, Degree
<1>13. DropletOK(t)'
  <2>1. ~ Systematic(c.asked)'
    BY <1>1, <1>2, <1>7, <1>9 DEF Systematic, Index
  <2> QED BY <1>1, <1>2, <1>7, <1>9, <1>11, <1>12 DEF DropletOK, Systematic, Index
<1>14. SumOK(t)'
  BY <1>1, <1>7, <1>9, CallFacts DEF SumOK
<1> QED BY <1>1, <1>7, <1>8, <1>10, <1>13, <1>14, ComposedQuiet

\* The search is over: lo and hi meet.
LEMMA PickedKeeps == ASSUME IInv, NEW t \in Threads, Picked(t) PROVE IInv'
<1> DEFINE c == call[t]
<1>1. /\ c \in CallType /\ env \in Settings /\ BufferOK(t) /\ DropletOK(t) /\ SumOK(t)
      /\ c.pc = "pick" /\ c.lo >= c.hi /\ UNCHANGED <<env, table, held, calls>>
  BY CallFacts DEF Picked
<1>2. ~ Systematic(c.asked) /\ SearchOK(t) /\ DrawOK(t)
  BY <1>1 DEF DropletOK
<1>3. c.lo \in Nat /\ c.hi \in Nat
  BY <1>1, EnvFacts DEF CallType
<1>4. c.lo = c.hi
  BY <1>1, <1>2, <1>3 DEF SearchOK
<1>5. PICK d : d = [c EXCEPT !.pc = "draw"]
  OBVIOUS
<1>6. /\ d \in CallType /\ d.pc = "draw" /\ d.asked = c.asked /\ d.buf = c.buf /\ d.entry = c.entry
      /\ d.out = c.out /\ d.tries = c.tries /\ d.u = c.u /\ d.lo = c.lo /\ d.hi = c.hi
  BY <1>1, <1>5 DEF CallType
<1>7. call' = [call EXCEPT ![t] = d]
  BY <1>5 DEF Picked
<1>8. call'[t] = d
  BY <1>7, CallFacts
<1>9. BufferOK(t)' /\ SumOK(t)'
  BY <1>1, <1>6, <1>8 DEF BufferOK, SumOK
<1>10. SearchOK(t)' /\ DrawOK(t)'
  BY <1>1, <1>2, <1>4, <1>6, <1>8 DEF SearchOK, DrawOK, Degree
<1>11. DropletOK(t)'
  BY <1>1, <1>2, <1>6, <1>8, <1>10 DEF DropletOK, Systematic, Index
<1> QED BY <1>1, <1>6, <1>7, <1>9, <1>11, ComposedQuiet

\* A block drawn: used if it is new, counted either way.
LEMMA DrawKeeps == ASSUME IInv, NEW t \in Threads, NEW b \in Draws, Draw(t, b) PROVE IInv'
<1> DEFINE c == call[t]
<1>1. /\ c \in CallType /\ env \in Settings /\ BufferOK(t) /\ DropletOK(t) /\ SumOK(t)
      /\ c.pc = "draw" /\ More(t) /\ UNCHANGED <<env, table, held, calls>>
  BY CallFacts DEF Draw
<1>2. ~ Systematic(c.asked) /\ SearchOK(t) /\ DrawOK(t)
  BY <1>1 DEF DropletOK
<1>3. b \in Blocks
  BY <1>1, <1>2, EnvFacts DEF Systematic
<1>4. c.out \in Seq(Blocks) /\ c.tries \in Nat /\ c.lo \in Nat \ {0} /\ IsInjective(c.out)
  BY <1>1, EnvFacts DEF CallType, BufferOK
<1>5. PICK q : q = IF Fresh(t, b) THEN Append(c.out, b) ELSE c.out
  OBVIOUS
<1>6. PICK d : d = [c EXCEPT !.tries = c.tries + 1, !.out = q]
  OBVIOUS
<1>7. call' = [call EXCEPT ![t] = d]
  BY <1>5, <1>6 DEF Draw, Tried
<1>8. /\ q \in Seq(Blocks) /\ IsInjective(q) /\ Len(q) <= Len(c.out) + 1
      /\ Len(c.out) <= Len(q) /\ q # <<>>
  <2>1. CASE Fresh(t, b)
    <3>1. q = Append(c.out, b)
      BY <1>5, <2>1
    <3>2. IsInjective(q)
      BY <1>3, <1>4, <2>1, <3>1, AppendDistinct DEF Fresh
    <3> QED BY <1>3, <1>4, <3>1, <3>2
  <2>2. CASE ~ Fresh(t, b)
    <3>1. q = c.out /\ b \in Range(c.out)
      BY <1>5, <2>2 DEF Fresh
    <3>2. c.out # <<>>
      BY <3>1 DEF Range
    <3> QED BY <1>4, <3>1, <3>2
  <2> QED BY <2>1, <2>2
<1>9. /\ d \in CallType /\ d.pc = "draw" /\ d.asked = c.asked /\ d.buf = c.buf /\ d.entry = c.entry
      /\ d.out = q /\ d.tries = c.tries + 1 /\ d.u = c.u /\ d.lo = c.lo /\ d.hi = c.hi
  <2>1. c.tries + 1 \in Nat
    BY <1>4
  <2> QED BY <1>1, <1>6, <1>8, <2>1 DEF CallType
<1>10. call'[t] = d
  BY <1>7, CallFacts
<1>11. BufferOK(t)' /\ SumOK(t)'
  BY <1>1, <1>8, <1>9, <1>10 DEF BufferOK, SumOK
<1>12. SearchOK(t)'
  BY <1>1, <1>2, <1>9, <1>10 DEF SearchOK
<1>13. DrawOK(t)'
  <2>1. PICK m : m = c.lo * TriesPerBlock
    OBVIOUS
  <2>2. m \in Nat
    BY <1>4, <2>1, TimesNat, ParamAssumption
  <2>3. c.tries < m /\ Len(c.out) < c.lo
    BY <1>1, <2>1 DEF More, Degree
  <2>4. c.tries + 1 <= m /\ Len(q) <= c.lo
    <3>1. Len(c.out) \in Nat /\ Len(q) \in Nat
      BY <1>4, <1>8
    <3> QED BY <1>4, <1>8, <2>2, <2>3, <3>1
  <2> QED BY <1>8, <1>9, <1>10, <2>1, <2>4 DEF DrawOK, Degree
<1>14. DropletOK(t)'
  BY <1>1, <1>2, <1>9, <1>10, <1>12, <1>13 DEF DropletOK, Systematic, Index
<1> QED BY <1>1, <1>7, <1>9, <1>11, <1>14, ComposedQuiet

\* The draws are over.
LEMMA DrawnKeeps == ASSUME IInv, NEW t \in Threads, Drawn(t) PROVE IInv'
<1> DEFINE c == call[t]
<1>1. /\ c \in CallType /\ env \in Settings /\ BufferOK(t) /\ DropletOK(t) /\ SumOK(t)
      /\ c.pc = "draw" /\ ~ More(t) /\ UNCHANGED <<env, table, held, calls>>
  BY CallFacts DEF Drawn
<1>2. ~ Systematic(c.asked) /\ SearchOK(t) /\ DrawOK(t)
  BY <1>1 DEF DropletOK
<1>3. PICK d : d = [c EXCEPT !.pc = "xor"]
  OBVIOUS
<1>4. /\ d \in CallType /\ d.pc = "xor" /\ d.asked = c.asked /\ d.buf = c.buf /\ d.entry = c.entry
      /\ d.out = c.out /\ d.tries = c.tries /\ d.u = c.u /\ d.lo = c.lo /\ d.hi = c.hi
  BY <1>1, <1>3 DEF CallType
<1>5. call' = [call EXCEPT ![t] = d]
  BY <1>3 DEF Drawn
<1>6. call'[t] = d
  BY <1>5, CallFacts
<1>7. BufferOK(t)' /\ SumOK(t)'
  BY <1>1, <1>4, <1>6 DEF BufferOK, SumOK
<1>8. SearchOK(t)' /\ DrawOK(t)'
  BY <1>1, <1>2, <1>4, <1>6 DEF SearchOK, DrawOK, Degree, More
<1>9. DropletOK(t)'
  BY <1>1, <1>2, <1>4, <1>6, <1>8 DEF DropletOK, Systematic, Index
<1> QED BY <1>1, <1>4, <1>5, <1>7, <1>9, ComposedQuiet

\* What was drawn stays while the frame is built, until the call is over.
LEMMA DropletStays ==
    ASSUME IInv, NEW t \in Threads, env' = env,
           call[t].pc \notin {"idle", "pick", "draw"}, call'[t].pc \notin {"pick", "draw"},
           \/ call'[t].pc = "idle"
           \/ /\ call'[t].asked = call[t].asked /\ call'[t].u = call[t].u
              /\ call'[t].lo = call[t].lo /\ call'[t].hi = call[t].hi
              /\ call'[t].out = call[t].out /\ call'[t].tries = call[t].tries
    PROVE  DropletOK(t)'
<1>1. CASE call'[t].pc = "idle"
  BY <1>1 DEF DropletOK
<1>2. CASE call'[t].pc # "idle"
  <2>1. PICK a : a = call[t].asked
    OBVIOUS
  <2>2. CASE Systematic(a)
    <3>1. Systematic(a)'
      BY <2>2 DEF Systematic, Index
    <3> QED BY <1>2, <2>1, <3>1 DEF DropletOK, Systematic, Index
  <2>3. CASE ~ Systematic(a)
    <3>1. SearchOK(t) /\ DrawOK(t)
      BY <2>1, <2>3, CallFacts DEF DropletOK
    <3>2. SearchOK(t)' /\ DrawOK(t)'
      BY <1>2, <3>1 DEF SearchOK, DrawOK, Degree, More
    <3>3. ~ Systematic(a)'
      BY <2>3 DEF Systematic, Index
    <3> QED BY <1>2, <2>1, <3>2, <3>3 DEF DropletOK, Systematic, Index
  <2> QED BY <2>2, <2>3
<1> QED BY <1>1, <1>2

\* The droplet's blocks, different as they are, make the body.
LEMMA XorKeeps == ASSUME IInv, NEW t \in Threads, Xor(t) PROVE IInv'
<1> DEFINE c == call[t]
<1>1. /\ c \in CallType /\ env \in Settings /\ BufferOK(t) /\ SumOK(t)
      /\ c.pc = "xor" /\ UNCHANGED <<env, table, held, calls>>
  BY CallFacts DEF Xor
<1>2. c.out \in Seq(Blocks) /\ IsInjective(c.out) /\ c.buf \in FrameType /\ c.buf.body = {}
  BY <1>1 DEF CallType, BufferOK
<1>3. XorAll({}, c.out) = Range(c.out)
  BY <1>2, XorDistinct
<1>4. Range(c.out) \in SUBSET Blocks
  BY <1>2 DEF Range
<1>5. PICK b : b = [c.buf EXCEPT !.body = Range(c.out)]
  OBVIOUS
<1>6. PICK p : p = IF env.native THEN "crc" ELSE "pack"
  OBVIOUS
<1>7. PICK d : d = [c EXCEPT !.buf = b, !.pc = p]
  OBVIOUS
<1>8. call' = [call EXCEPT ![t] = d]
  <2>1. call' = [call EXCEPT ![t] = [call[t] EXCEPT !.buf = [call[t].buf EXCEPT !.body = XorAll({}, c.out)],
                                                    !.pc = p]]
    BY <1>1, <1>2, <1>6, CallFacts DEF Xor, CallType, FrameType
  <2> QED BY <1>3, <1>5, <1>7, <2>1
<1>9. b \in FrameType /\ b.body = Range(c.out) /\ b.index = c.buf.index /\ b.k = c.buf.k
  BY <1>2, <1>4, <1>5 DEF FrameType
<1>10. /\ d \in CallType /\ d.pc = p /\ d.asked = c.asked /\ d.buf = b /\ d.entry = c.entry
       /\ d.out = c.out /\ d.tries = c.tries /\ d.u = c.u /\ d.lo = c.lo /\ d.hi = c.hi
  BY <1>1, <1>6, <1>7, <1>9 DEF CallType
<1>11. call'[t] = d
  BY <1>8, CallFacts
<1>12. BufferOK(t)' /\ SumOK(t)'
  BY <1>1, <1>6, <1>9, <1>10, <1>11 DEF BufferOK, SumOK
<1>13. DropletOK(t)'
  BY <1>1, <1>6, <1>10, <1>11, DropletStays
<1> QED BY <1>1, <1>8, <1>10, <1>12, <1>13, ComposedQuiet

\* A call goes on to the checksum: the table is there, or it fills it.
LEMMA ChecksumKeeps == ASSUME IInv, NEW t \in Threads, Checksum(t) PROVE IInv'
<1> DEFINE c == call[t]
<1>1. /\ c \in CallType /\ env \in Settings /\ BufferOK(t) /\ SumOK(t)
      /\ c.pc = "crc" /\ UNCHANGED <<env, table, held, calls>>
  BY CallFacts DEF Checksum
<1>2. PICK p : p = IF crcReady THEN "sum" ELSE "fill"
  OBVIOUS
<1>3. PICK d : d = [c EXCEPT !.pc = p]
  OBVIOUS
<1>4. call' = [call EXCEPT ![t] = d]
  BY <1>2, <1>3 DEF Checksum
<1>5. /\ d \in CallType /\ d.pc = p /\ d.asked = c.asked /\ d.buf = c.buf /\ d.entry = c.entry
      /\ d.out = c.out /\ d.tries = c.tries /\ d.u = c.u /\ d.lo = c.lo /\ d.hi = c.hi
  BY <1>1, <1>2, <1>3 DEF CallType
<1>6. call'[t] = d
  BY <1>4, CallFacts
<1>7. BufferOK(t)' /\ DropletOK(t)'
  BY <1>1, <1>2, <1>5, <1>6, DropletStays DEF BufferOK
<1>8. SumOK(t)'
  <2>1. p = "sum" => Full'
    BY <1>1, <1>2 DEF IInv, Full, table
  <2>2. p = "fill" => c.entry = 1
    BY <1>1 DEF SumOK
  <2> QED BY <1>2, <1>5, <1>6, <2>1, <2>2, ParamAssumption DEF SumOK
<1> QED BY <1>1, <1>4, <1>5, <1>7, <1>8, ComposedQuiet

\* An entry of the table is written, once more perhaps.
LEMMA FillKeeps == ASSUME IInv, NEW t \in Threads, FillEntry(t) PROVE IInv'
<1> DEFINE c == call[t]
<1>1. /\ c \in CallType /\ env \in Settings /\ BufferOK(t) /\ SumOK(t)
      /\ c.pc = "fill" /\ UNCHANGED <<env, crcReady, held, calls>>
      /\ filled' = filled \cup {c.entry}
      /\ filled \subseteq 1 .. TabSize /\ crcReady \in BOOLEAN /\ calls \in 0 .. MaxCalls
  BY CallFacts DEF FillEntry, IInv, TypeOK
<1>2. /\ c.entry \in 1 .. TabSize /\ 1 .. c.entry - 1 \subseteq filled /\ TabSize \in Nat
  BY <1>1, ParamAssumption DEF SumOK, CallType
<1>3. filled' \subseteq 1 .. TabSize /\ (crcReady => filled' = 1 .. TabSize)
  BY <1>1, <1>2 DEF IInv, Full
<1>4. PICK p : p = IF c.entry = TabSize THEN "ready" ELSE "fill"
  OBVIOUS
<1>5. PICK d : d = [c EXCEPT !.entry = c.entry + 1, !.pc = p]
  OBVIOUS
<1>6. call' = [call EXCEPT ![t] = d]
  BY <1>1, <1>4, <1>5, CallFacts DEF FillEntry, CallType
<1>7. /\ d \in CallType /\ d.pc = p /\ d.asked = c.asked /\ d.buf = c.buf
      /\ d.entry = c.entry + 1
      /\ d.out = c.out /\ d.tries = c.tries /\ d.u = c.u /\ d.lo = c.lo /\ d.hi = c.hi
  <2>1. c.entry + 1 \in 1 .. TabSize + 1
    BY <1>2
  <2> QED BY <1>1, <1>4, <1>5, <2>1 DEF CallType
<1>8. call'[t] = d
  BY <1>6, CallFacts
<1>9. BufferOK(t)' /\ DropletOK(t)'
  BY <1>1, <1>4, <1>7, <1>8, DropletStays DEF BufferOK
<1>10. SumOK(t)'
  <2>1. ASSUME c.entry = TabSize PROVE filled' = 1 .. TabSize
    <3>1. \A x \in 1 .. TabSize : x \in 1 .. TabSize - 1 \/ x = TabSize
      BY <1>2
    <3> QED BY <1>1, <1>2, <2>1, <3>1
  <2>2. 1 .. c.entry \subseteq filled' /\ c.entry + 1 - 1 = c.entry
    BY <1>1, <1>2
  <2>3. c.entry # TabSize => c.entry + 1 <= TabSize
    BY <1>2
  <2>4. CASE c.entry = TabSize
    BY <1>4, <1>7, <1>8, <2>1, <2>4 DEF SumOK, Full
  <2>5. CASE c.entry # TabSize
    <3>1. call'[t].pc = "fill" /\ call'[t].entry = c.entry + 1
      BY <1>4, <1>7, <1>8, <2>5
    <3>2. call'[t].entry <= TabSize /\ call'[t].entry - 1 = c.entry
      BY <1>2, <2>3, <2>5, <3>1
    <3> QED BY <2>2, <3>1, <3>2 DEF SumOK
  <2> QED BY <2>4, <2>5
<1> QED BY <1>1, <1>3, <1>6, <1>7, <1>9, <1>10, ComposedUnheld

\* crc_ready is set when the table is full.
LEMMA ReadyKeeps == ASSUME IInv, NEW t \in Threads, Ready(t) PROVE IInv'
<1> DEFINE c == call[t]
<1>1. /\ c \in CallType /\ env \in Settings /\ BufferOK(t) /\ SumOK(t)
      /\ c.pc = "ready" /\ UNCHANGED <<env, filled, held, calls>> /\ crcReady' = TRUE
      /\ filled \subseteq 1 .. TabSize /\ calls \in 0 .. MaxCalls
  BY CallFacts DEF Ready, IInv, TypeOK
<1>2. filled' = 1 .. TabSize
  BY <1>1 DEF SumOK, Full
<1>3. PICK d : d = [c EXCEPT !.pc = "sum"]
  OBVIOUS
<1>4. call' = [call EXCEPT ![t] = d]
  BY <1>3 DEF Ready
<1>5. /\ d \in CallType /\ d.pc = "sum" /\ d.asked = c.asked /\ d.buf = c.buf /\ d.entry = c.entry
      /\ d.out = c.out /\ d.tries = c.tries /\ d.u = c.u /\ d.lo = c.lo /\ d.hi = c.hi
  BY <1>1, <1>3 DEF CallType
<1>6. call'[t] = d
  BY <1>4, CallFacts
<1>7. BufferOK(t)' /\ DropletOK(t)' /\ SumOK(t)'
  BY <1>1, <1>2, <1>5, <1>6, DropletStays DEF BufferOK, SumOK, Full
<1> QED BY <1>1, <1>2, <1>4, <1>5, <1>7, ComposedUnheld

\* The checksum is right, or the compiler moved crc_ready.
LEMMA SumKeeps == ASSUME IInv, NEW t \in Threads, Sum(t) PROVE IInv'
<1> DEFINE c == call[t]
<1>1. /\ c \in CallType /\ env \in Settings /\ BufferOK(t) /\ SumOK(t)
      /\ c.pc = "sum" /\ UNCHANGED <<env, table, held, calls>>
  BY CallFacts DEF Sum
<1>2. PICK stale \in {FALSE, ~env.ordered /\ c.entry = 1} :
          call' = [call EXCEPT ![t].pc = "return",
                               ![t].buf.crc = ~stale /\ filled = 1 .. TabSize]
  BY DEF Sum
<1>3. PICK v : v = (~stale /\ filled = 1 .. TabSize)
  OBVIOUS
<1>4. v \in BOOLEAN
  BY <1>3
<1>5. v \/ ~env.ordered
  BY <1>1, <1>2, <1>3 DEF SumOK, Full
<1>6. PICK b : b = [c.buf EXCEPT !.crc = v]
  OBVIOUS
<1>7. PICK d : d = [c EXCEPT !.buf = b, !.pc = "return"]
  OBVIOUS
<1>8. call' = [call EXCEPT ![t] = d]
  <2>1. call' = [call EXCEPT ![t].pc = "return", ![t].buf.crc = v]
    BY <1>2, <1>3
  <2>2. c.buf \in FrameType
    BY <1>1 DEF CallType
  <2> QED BY <1>1, <1>6, <1>7, <2>1, <2>2, CallFacts DEF CallType, FrameType
<1>9. b \in FrameType /\ b.body = c.buf.body /\ b.index = c.buf.index /\ b.k = c.buf.k
      /\ b.crc = v
  <2>1. c.buf \in FrameType
    BY <1>1 DEF CallType
  <2> QED BY <1>4, <1>6, <2>1 DEF FrameType
<1>10. /\ d \in CallType /\ d.pc = "return" /\ d.asked = c.asked /\ d.buf = b
       /\ d.out = c.out /\ d.tries = c.tries /\ d.u = c.u /\ d.lo = c.lo /\ d.hi = c.hi
  BY <1>1, <1>7, <1>9 DEF CallType
<1>11. call'[t] = d
  BY <1>8, CallFacts
<1>12. BufferOK(t)' /\ DropletOK(t)'
  BY <1>1, <1>9, <1>10, <1>11, DropletStays DEF BufferOK
<1>13. SumOK(t)'
  <2>1. Full'
    BY <1>1 DEF SumOK, Full, table
  <2> QED BY <1>1, <1>5, <1>9, <1>10, <1>11, <2>1 DEF SumOK
<1> QED BY <1>1, <1>8, <1>10, <1>12, <1>13, ComposedQuiet

\* Between calls the buffer holds the last frame.
LEMMA IdleAgain ==
    ASSUME IInv, NEW t \in Threads,
           call' = [call EXCEPT ![t] = [NoCall EXCEPT !.buf = call[t].buf]]
    PROVE  \E d \in CallType : /\ d.pc = "idle" /\ call' = [call EXCEPT ![t] = d]
                              /\ call'[t] = d
<1>1. call[t].buf \in FrameType /\ env \in Settings /\ call \in [Threads -> CallType]
  BY CallFacts DEF CallType
<1>2. PICK d : d = [NoCall EXCEPT !.buf = call[t].buf]
  OBVIOUS
<1>3. d = [pc |-> "idle", asked |-> 0, u |-> 0, lo |-> 1, hi |-> 1, out |-> <<>>,
           tries |-> 0, entry |-> 1, buf |-> call[t].buf]
  BY <1>2 DEF NoCall
<1>4. d \in CallType /\ d.pc = "idle"
  BY <1>1, <1>3, Starts DEF CallType
<1> QED BY <1>1, <1>2, <1>4

\* A frame handed out is the one asked for.
LEMMA HandedKeeps ==
    ASSUME IInv, NEW t \in Threads, NEW f, f \in FrameType, BufferOK(t)', DropletOK(t)',
           f.index = call[t].asked % IndexMod, f.body = Range(call[t].out),
           f.k = env.k % KMod, f.crc \/ (env.native /\ ~env.ordered),
           call' = [call EXCEPT ![t] = [NoCall EXCEPT !.buf = call[t].buf]],
           held' = [held EXCEPT ![t] = Handed(t, f)], UNCHANGED <<env, table, calls>>
    PROVE  IInv'
<1>1. PICK d \in CallType : /\ d.pc = "idle" /\ call' = [call EXCEPT ![t] = d]
                            /\ call'[t] = d
  BY IdleAgain
<1>2. PICK g : g = [want |-> Wanted(t), frame |-> f]
  OBVIOUS
<1>3. /\ g \in [want : [index : 0 .. IndexMod - 1, body : SUBSET Blocks], frame : FrameType]
      /\ Unpacked(f) = g.want /\ g.frame = f
  BY <1>2 DEF Wanted, Unpacked, FrameType
<1>4. held[t] \in Seq([want : [index : 0 .. IndexMod - 1, body : SUBSET Blocks],
                      frame : FrameType])
  BY DEF IInv, TypeOK
<1>5. PICK h : h = Append(held[t], g)
  OBVIOUS
<1>6. /\ h \in Seq([want : [index : 0 .. IndexMod - 1, body : SUBSET Blocks],
                    frame : FrameType])
      /\ held' = [held EXCEPT ![t] = h]
  BY <1>2, <1>3, <1>4, <1>5 DEF Handed
<1>7. held'[t] = h
  BY <1>6 DEF IInv, TypeOK
<1>8. HeldOK(t)'
  <2> SUFFICES ASSUME NEW j \in DOMAIN h
               PROVE  /\ Unpacked(h[j].frame) = h[j].want /\ h[j].frame.k = env.k % KMod
                      /\ h[j].frame.crc \/ (env.native /\ ~env.ordered)
    BY <1>7 DEF HeldOK, Unpacked
  <2>1. CASE j = Len(held[t]) + 1
    <3>1. h[j] = g
      BY <1>3, <1>4, <1>5, <2>1
    <3> QED BY <1>3, <3>1
  <2>2. CASE j # Len(held[t]) + 1
    <3>1. j \in DOMAIN held[t] /\ h[j] = held[t][j]
      BY <1>3, <1>4, <1>5, <2>2
    <3> QED BY <3>1, CallFacts DEF HeldOK
  <2> QED BY <2>1, <2>2
<1>9. SumOK(t)'
  BY <1>1 DEF SumOK
<1>10. /\ filled \subseteq 1 .. TabSize /\ crcReady \in BOOLEAN /\ calls \in 0 .. MaxCalls
       /\ crcReady => filled = 1 .. TabSize
  BY DEF IInv, TypeOK, Full
<1>11. UNCHANGED <<env, filled, crcReady, calls>>
  BY DEF table
<1> QED BY <1>1, <1>6, <1>8, <1>9, <1>10, <1>11, Composed

\* The C core is done: the caller gets a copy of the buffer.
LEMMA ReturnKeeps == ASSUME IInv, NEW t \in Threads, Return(t) PROVE IInv'
<1>1. /\ call[t] \in CallType /\ BufferOK(t) /\ SumOK(t) /\ call[t].pc = "return"
      /\ call' = [call EXCEPT ![t] = [NoCall EXCEPT !.buf = call[t].buf]]
      /\ held' = [held EXCEPT ![t] = Handed(t, call[t].buf)] /\ UNCHANGED <<env, table, calls>>
  BY CallFacts DEF Return
<1>2. PICK f : f = call[t].buf
  OBVIOUS
<1>3. /\ f \in FrameType /\ f.index = call[t].asked % IndexMod /\ f.body = Range(call[t].out)
      /\ f.k = env.k % KMod /\ env.native
  BY <1>1, <1>2 DEF CallType, BufferOK
<1>4. f.crc \/ ~env.ordered
  BY <1>1, <1>2 DEF SumOK
<1>5. call'[t].pc = "idle"
  BY <1>1, IdleAgain
<1>6. BufferOK(t)' /\ DropletOK(t)'
  BY <1>5 DEF BufferOK, DropletOK
<1> QED BY <1>1, <1>2, <1>3, <1>4, <1>6, HandedKeeps

\* The Python path: the checksum is right; an index too large for its field raises.
LEMMA PackKeeps == ASSUME IInv, NEW t \in Threads, Pack(t) PROVE IInv'
<1>1. /\ call[t] \in CallType /\ BufferOK(t) /\ call[t].pc = "pack"
      /\ call' = [call EXCEPT ![t] = [NoCall EXCEPT !.buf = call[t].buf]]
      /\ UNCHANGED <<env, table, calls>>
  BY CallFacts DEF Pack
<1>2. call'[t].pc = "idle"
  BY <1>1, IdleAgain
<1>3. BufferOK(t)' /\ DropletOK(t)' /\ SumOK(t)'
  BY <1>2 DEF BufferOK, DropletOK, SumOK
<1>4. CASE held' = held
  <2>1. PICK d \in CallType : call' = [call EXCEPT ![t] = d]
    BY <1>1, IdleAgain
  <2> QED BY <1>1, <1>3, <1>4, <2>1, ComposedQuiet
<1>5. CASE held' = [held EXCEPT ![t] = Handed(t, [call[t].buf EXCEPT !.crc = TRUE])]
  <2>1. PICK f : f = [call[t].buf EXCEPT !.crc = TRUE]
    OBVIOUS
  <2>2. /\ call[t].buf \in FrameType /\ call[t].buf.index = call[t].asked % IndexMod
        /\ call[t].buf.body = Range(call[t].out) /\ call[t].buf.k = env.k % KMod
    BY <1>1 DEF CallType, BufferOK
  <2>3. /\ f \in FrameType /\ f.index = call[t].asked % IndexMod
        /\ f.body = Range(call[t].out) /\ f.k = env.k % KMod
    BY <2>1, <2>2 DEF FrameType
  <2>4. f.crc
    BY <2>1, <2>2 DEF FrameType
  <2> QED BY <1>1, <1>3, <1>5, <2>1, <2>3, <2>4, HandedKeeps
<1> QED BY <1>4, <1>5 DEF Pack

-----------------------------------------------------------------------------

LEMMA NextIInv == IInv /\ [Next]_vars => IInv'
<1> SUFFICES ASSUME IInv, [Next]_vars PROVE IInv'
  OBVIOUS
<1>1. ASSUME UNCHANGED vars PROVE IInv'
  <2>1. UNCHANGED <<env, call, filled, crcReady, held, calls>>
    BY <1>1 DEF vars, table
  <2>2. ASSUME NEW t \in Threads
        PROVE  BufferOK(t)' /\ DropletOK(t)' /\ SumOK(t)' /\ HeldOK(t)'
    BY <2>1, OthersKeep DEF IInv, TypeOK
  <2>3. TypeOK'
    BY <2>1 DEF IInv, TypeOK, FrameType, CallType, Blocks
  <2> QED BY <2>1, <2>2, <2>3 DEF IInv, Full
<1>2. ASSUME NEW t \in Threads, NEW i \in Requests, Begin(t, i) PROVE IInv'
  BY <1>2, BeginKeeps
<1>3. ASSUME NEW t \in Threads, Step(t) PROVE IInv'
  BY <1>3, SearchKeeps, PickedKeeps, DrawKeeps, DrawnKeeps, XorKeeps, ChecksumKeeps,
     FillKeeps, ReadyKeeps, SumKeeps, ReturnKeeps, PackKeeps DEF Step
<1> QED BY <1>1, <1>2, <1>3 DEF Next

\* Threads in the C core and in Python never leave the invariant of their calls, of
\* the table they share and of the frames they were given.
THEOREM Invariance == Spec => []IInv
<1> QED BY InitIInv, NextIInv, PTL DEF Spec

\* Every variable keeps its type.
THEOREM TypeCorrect == Spec => []TypeOK
<1>1. IInv => TypeOK
  BY DEF IInv
<1> QED BY <1>1, Invariance, PTL

\* A frame handed out is and stays the one asked for, whatever other threads do in the
\* C core and while later frames are built, and is accepted if its block size fits.
THEOREM FramesAreRight == Spec => []FramesRight
<1>1. IInv => FramesRight
  <2> SUFFICES ASSUME IInv, NEW t \in Threads, NEW j \in DOMAIN held[t]
               PROVE  LET f == held[t][j].frame
                      IN  /\ Unpacked(f) = held[t][j].want
                          /\ env.ordered \/ ~env.native => (Accepted(f) <=> env.k < KMod)
    BY DEF FramesRight
  <2>1. PICK f : f = held[t][j].frame
    OBVIOUS
  <2>2. /\ Unpacked(f) = held[t][j].want /\ f.k = env.k % KMod
        /\ f.crc \/ (env.native /\ ~env.ordered)
    BY <2>1, CallFacts DEF HeldOK
  <2>3. env.k % KMod = env.k <=> env.k < KMod
    BY CallFacts, EnvFacts, ModSame, ParamAssumption
  <2> QED BY <2>1, <2>2, <2>3 DEF Accepted
<1> QED BY <1>1, Invariance, PTL

\* The least element of a set of numbers.
LEMMA MinIs ==
    ASSUME NEW S \in SUBSET Nat, NEW m \in S, \A x \in S : m <= x PROVE Min(S) = m
<1>1. \E x \in S : \A y \in S : x <= y
  OBVIOUS
<1>2. PICK x : x = Min(S)
  OBVIOUS
<1>3. x \in S /\ \A y \in S : x <= y
  BY <1>1, <1>2, Zenon DEF Min
<1>4. x <= m /\ m <= x /\ x \in Nat /\ m \in Nat
  BY <1>3
<1> QED BY <1>2, <1>4

\* A droplet has the degree that the cdf gives to the number drawn, unless the draws
\* run out, and has each of its blocks once.
THEOREM DropletsAreRight == Spec => []DropletRight
<1>1. IInv => DropletRight
  <2> SUFFICES ASSUME IInv, NEW t \in Threads,
                      call[t].pc \notin {"idle", "pick", "draw"},
                      ~ Systematic(call[t].asked)
               PROVE  LET c == call[t]
                          d == Min({x \in 1 .. env.n : env.cdf[x] >= c.u})
                      IN  /\ IsInjective(c.out) /\ c.out # <<>> /\ Len(c.out) <= d
                          /\ Len(c.out) < d => c.tries = d * TriesPerBlock
    BY DEF DropletRight
  <2> DEFINE c == call[t]
  <2>1. /\ c \in CallType /\ env \in Settings /\ SearchOK(t) /\ DrawOK(t) /\ ~ More(t)
        /\ IsInjective(c.out)
    BY CallFacts DEF DropletOK, DrawOK, BufferOK
  <2>2. /\ c.lo \in 1 .. env.n /\ c.u \in Nat /\ c.tries \in Nat /\ Len(c.out) \in Nat
        /\ env.n \in Nat /\ env.cdf \in [1 .. env.n -> Nat]
    <3>1. c.lo \in 1 .. env.n /\ c.tries \in Nat /\ c.out \in Seq(Blocks)
      BY <2>1 DEF CallType
    <3>2. c.u \in Nat
      BY <2>1, Starts DEF CallType
    <3> QED BY <2>1, <3>1, <3>2, EnvFacts
  <2>3. Min({x \in 1 .. env.n : env.cdf[x] >= c.u}) = c.lo
    <3>1. c.lo \in {x \in 1 .. env.n : env.cdf[x] >= c.u}
      BY <2>1, <2>2 DEF SearchOK
    <3>2. ASSUME NEW x \in 1 .. env.n, env.cdf[x] >= c.u PROVE c.lo <= x
      BY <2>1, <2>2, <3>2 DEF SearchOK
    <3> QED BY <3>1, <3>2, MinIs
  <2>4. PICK m : m = c.lo * TriesPerBlock
    OBVIOUS
  <2>5. m \in Nat /\ m >= 1
    BY <2>2, <2>4, TimesNat, ParamAssumption
  <2>6. /\ Len(c.out) <= c.lo /\ c.tries <= m /\ (c.tries > 0 => c.out # <<>>)
        /\ Len(c.out) >= c.lo \/ c.tries >= m
    BY <2>1, <2>2, <2>4, <2>5 DEF DrawOK, More, Degree
  <2>7. c.out # <<>>
    BY <2>2, <2>5, <2>6
  <2> QED BY <2>1, <2>2, <2>3, <2>4, <2>5, <2>6, <2>7
<1> QED BY <1>1, Invariance, PTL

-----------------------------------------------------------------------------
(* A call ends.                                                               *)

\* The steps left at each place of a call.
LEMMA StepsAt ==
    ASSUME NEW c
    PROVE  /\ c.pc = "idle" => StepsLeft(c) = 0
           /\ c.pc \in {"return", "pack"} => StepsLeft(c) = 1
           /\ c.pc = "sum" => StepsLeft(c) = 2
           /\ c.pc = "ready" => StepsLeft(c) = 3
           /\ c.pc = "fill" => StepsLeft(c) = 4 + TabSize - c.entry
           /\ c.pc = "crc" => StepsLeft(c) = TabSize + 4
           /\ c.pc = "xor" => StepsLeft(c) = TabSize + 5
           /\ c.pc = "draw" =>
                 StepsLeft(c) = TabSize + 6 + (c.lo * TriesPerBlock - c.tries)
           /\ c.pc = "pick" =>
                 StepsLeft(c) = TabSize + 7 + env.n * TriesPerBlock + (c.hi - c.lo)
BY DEF StepsLeft

\* A larger degree has more draws.
LEMMA TimesMore ==
    ASSUME NEW a \in Nat, NEW b \in Nat, NEW m \in Nat, a <= b
    PROVE  a * m \in Nat /\ b * m \in Nat /\ a * m <= b * m
OBVIOUS

\* What bounds the loops of a call.
LEMMA LoopBounds ==
    ASSUME IInv, NEW t \in Threads
    PROVE  LET c == call[t] IN
           /\ TabSize \in Nat \ {0}
           /\ c.lo \in Nat \ {0} /\ c.hi \in Nat /\ c.tries \in Nat /\ c.entry \in Nat
           /\ c.lo * TriesPerBlock \in Nat /\ env.n * TriesPerBlock \in Nat
           /\ c.lo * TriesPerBlock <= env.n * TriesPerBlock
           /\ c.pc = "pick" => c.lo <= c.hi /\ c.tries = 0
           /\ c.pc = "draw" => c.tries <= c.lo * TriesPerBlock
           /\ c.pc = "fill" => c.entry <= TabSize
           /\ c.pc = "crc" => c.entry = 1
<1> DEFINE c == call[t]
<1>1. c \in CallType /\ env.n \in Nat \ {0} /\ DropletOK(t) /\ SumOK(t)
  BY CallFacts, EnvFacts
<1>2. /\ c.lo \in Nat \ {0} /\ c.lo <= env.n /\ c.hi \in Nat /\ c.tries \in Nat
      /\ c.entry \in Nat
  <2>1. /\ c.lo \in 1 .. env.n /\ c.hi \in 1 .. env.n
        /\ c.tries \in Nat /\ c.entry \in 1 .. TabSize + 1
    <3> HIDE DEF c
    <3> QED BY <1>1 DEF CallType
  <2> HIDE DEF c
  <2>2. env.n \in Nat /\ TabSize \in Nat
    BY <1>1, ParamAssumption
  <2> QED BY ONLY <2>1, <2>2
<1>3. /\ c.lo * TriesPerBlock \in Nat /\ env.n * TriesPerBlock \in Nat
      /\ c.lo * TriesPerBlock <= env.n * TriesPerBlock
  BY <1>1, <1>2, TimesMore, ParamAssumption
<1>4. c.pc \in {"pick", "draw"} => SearchOK(t) /\ DrawOK(t)
  BY <1>1 DEF DropletOK
<1>5. c.pc = "pick" => c.lo <= c.hi /\ c.tries = 0
  BY <1>4 DEF SearchOK, DrawOK
<1>6. c.pc = "draw" => c.tries <= c.lo * TriesPerBlock
  BY <1>4 DEF DrawOK, Degree
<1>7. (c.pc = "fill" => c.entry <= TabSize) /\ (c.pc = "crc" => c.entry = 1)
  BY <1>1 DEF SumOK
<1> QED BY <1>2, <1>3, <1>5, <1>6, <1>7, ParamAssumption

LEMMA StepsNat == ASSUME IInv, NEW t \in Threads PROVE StepsLeft(call[t]) \in Nat
<1> DEFINE c == call[t]
<1>1. c.pc \in {"idle", "pick", "draw", "xor", "crc", "fill", "ready", "sum", "return",
                "pack"}
  BY CallFacts DEF CallType
<1>2. PICK m : m = c.lo * TriesPerBlock
  OBVIOUS
<1>3. PICK l : l = env.n * TriesPerBlock
  OBVIOUS
<1>4. /\ TabSize \in Nat /\ c.lo \in Nat /\ c.hi \in Nat /\ c.tries \in Nat
      /\ c.entry \in Nat /\ m \in Nat /\ l \in Nat
      /\ c.pc = "pick" => c.lo <= c.hi
      /\ c.pc = "draw" => c.tries <= m
      /\ c.pc = "fill" => c.entry <= TabSize
  BY <1>2, <1>3, LoopBounds
<1> HIDE DEF c
<1>5. StepsLeft(c) \in Nat
  BY <1>1, <1>2, <1>3, <1>4, StepsAt
<1> QED BY <1>5 DEF c

\* The steps left after a step, in terms of the call as it is then.
LEMMA StepsAfter ==
    ASSUME env' = env, NEW t \in Threads, NEW d, call'[t] = d
    PROVE  StepsLeft(call[t])' = StepsLeft(d)
BY DEF StepsLeft

\* The binary search and the draws.
LEMMA DropletShrinks ==
    ASSUME IInv, NEW t \in Threads,
           Search(t) \/ Picked(t) \/ (\E b \in Draws : Draw(t, b)) \/ Drawn(t)
    PROVE  StepsLeft(call[t])' < StepsLeft(call[t])
<1> DEFINE c == call[t]
<1>1. PICK m : m = c.lo * TriesPerBlock
  OBVIOUS
<1>2. PICK l : l = env.n * TriesPerBlock
  OBVIOUS
<1>3. /\ TabSize \in Nat /\ c.lo \in Nat /\ c.hi \in Nat /\ c.tries \in Nat
      /\ m \in Nat /\ l \in Nat /\ m <= l
      /\ c.pc = "pick" => c.lo <= c.hi /\ c.tries = 0
      /\ c.pc = "draw" => c.tries <= m
  BY <1>1, <1>2, LoopBounds
<1>4. c \in CallType /\ call \in [Threads -> CallType]
  BY CallFacts
<1>5. PICK d : d = call'[t]
  OBVIOUS
<1>6. env' = env
  BY DEF Search, Picked, Draw, Drawn
<1>7. StepsLeft(call[t])' = StepsLeft(d)
  BY <1>5, <1>6, StepsAfter
<1>8. CASE Search(t)
  <2>1. PICK k : k = Mid(t)
    OBVIOUS
  <2>2. c.pc = "pick" /\ c.lo < c.hi /\ k \in c.lo .. c.hi - 1
    BY <1>3, <1>8, <2>1 DEF Search, Mid
  <2>3. /\ d.pc = "pick"
        /\ \/ d.lo = k + 1 /\ d.hi = c.hi
           \/ d.lo = c.lo /\ d.hi = k
    <3>1. d = [c EXCEPT !.lo = k + 1] \/ d = [c EXCEPT !.hi = k]
      BY <1>4, <1>5, <1>8, <2>1 DEF Search
    <3>2. CASE d = [c EXCEPT !.lo = k + 1]
      BY <1>4, <2>2, <3>2 DEF CallType
    <3>3. CASE d = [c EXCEPT !.hi = k]
      BY <1>4, <2>2, <3>3 DEF CallType
    <3> QED BY <3>1, <3>2, <3>3
  <2>4. StepsLeft(c) = TabSize + 7 + l + (c.hi - c.lo)
    BY <1>2, <2>2, StepsAt
  <2>5. StepsLeft(d) = TabSize + 7 + l + (d.hi - d.lo)
    BY <1>2, <2>3, StepsAt
  <2> HIDE DEF c
  <2>6. StepsLeft(d) < StepsLeft(c)
    BY <1>3, <2>2, <2>3, <2>4, <2>5
  <2> QED BY <1>7, <2>6 DEF c
<1>9. CASE Picked(t)
  <2>1. /\ c.pc = "pick" /\ d.pc = "draw" /\ d.lo = c.lo /\ d.tries = c.tries
    BY <1>4, <1>5, <1>9 DEF Picked, CallType
  <2>2. StepsLeft(c) = TabSize + 7 + l + (c.hi - c.lo)
    BY <1>2, <2>1, StepsAt
  <2>3. StepsLeft(d) = TabSize + 6 + (m - c.tries)
    BY <1>1, <2>1, StepsAt
  <2> HIDE DEF c
  <2>4. StepsLeft(d) < StepsLeft(c)
    BY <1>3, <2>1, <2>2, <2>3
  <2> QED BY <1>7, <2>4 DEF c
<1>10. ASSUME NEW b \in Draws, Draw(t, b) PROVE StepsLeft(call[t])' < StepsLeft(call[t])
  <2>1. /\ c.pc = "draw" /\ d.pc = "draw" /\ d.lo = c.lo /\ d.tries = c.tries + 1
    BY <1>4, <1>5, <1>10 DEF Draw, Tried, CallType
  <2>2. StepsLeft(c) = TabSize + 6 + (m - c.tries)
    BY <1>1, <2>1, StepsAt
  <2>3. StepsLeft(d) = TabSize + 6 + (m - (c.tries + 1))
    BY <1>1, <2>1, StepsAt
  <2> HIDE DEF c
  <2>4. StepsLeft(d) < StepsLeft(c)
    BY <1>3, <2>2, <2>3
  <2> QED BY <1>7, <2>4 DEF c
<1>11. CASE Drawn(t)
  <2>1. /\ c.pc = "draw" /\ d.pc = "xor"
    BY <1>4, <1>5, <1>11 DEF Drawn, CallType
  <2>2. StepsLeft(c) = TabSize + 6 + (m - c.tries)
    BY <1>1, <2>1, StepsAt
  <2>3. StepsLeft(d) = TabSize + 5
    BY <2>1, StepsAt
  <2> HIDE DEF c
  <2>4. StepsLeft(d) < StepsLeft(c)
    BY <1>3, <2>1, <2>2, <2>3
  <2> QED BY <1>7, <2>4 DEF c
<1> QED BY <1>8, <1>9, <1>10, <1>11

\* The body, the table and the end of the call.
LEMMA BuildShrinks ==
    ASSUME IInv, NEW t \in Threads,
           \/ Xor(t) \/ Checksum(t) \/ FillEntry(t) \/ Ready(t) \/ Sum(t)
           \/ Return(t) \/ Pack(t)
    PROVE  StepsLeft(call[t])' < StepsLeft(call[t])
<1> DEFINE c == call[t]
<1>1. /\ TabSize \in Nat \ {0} /\ c.entry \in Nat
      /\ c.pc = "fill" => c.entry <= TabSize
      /\ c.pc = "crc" => c.entry = 1
  BY LoopBounds
<1>2. c \in CallType /\ call \in [Threads -> CallType]
  BY CallFacts
<1>3. PICK d : d = call'[t]
  OBVIOUS
<1>4. env' = env
  BY DEF Xor, Checksum, FillEntry, Ready, Sum, Return, Pack
<1>5. StepsLeft(call[t])' = StepsLeft(d)
  BY <1>3, <1>4, StepsAfter
<1>6. \/ c.pc = "xor" /\ d.pc \in {"crc", "pack"}
      \/ c.pc = "crc" /\ (d.pc = "sum" \/ (d.pc = "fill" /\ d.entry = c.entry))
      \/ c.pc = "fill" /\ (d.pc = "ready" \/ (d.pc = "fill" /\ d.entry = c.entry + 1))
      \/ c.pc = "ready" /\ d.pc = "sum"
      \/ c.pc = "sum" /\ d.pc = "return"
      \/ c.pc \in {"return", "pack"} /\ d.pc = "idle"
  <2>1. CASE Xor(t)
    BY <1>2, <1>3, <2>1 DEF Xor, CallType
  <2>2. CASE Checksum(t)
    BY <1>2, <1>3, <2>2 DEF Checksum, CallType
  <2>3. CASE FillEntry(t)
    BY <1>2, <1>3, <2>3 DEF FillEntry, CallType
  <2>4. CASE Ready(t)
    BY <1>2, <1>3, <2>4 DEF Ready, CallType
  <2>5. CASE Sum(t)
    BY <1>2, <1>3, <2>5 DEF Sum, CallType
  <2>6. CASE Return(t) \/ Pack(t)
    BY <1>2, <1>3, <2>6 DEF Return, Pack, NoCall
  <2> QED BY <2>1, <2>2, <2>3, <2>4, <2>5, <2>6
<1> HIDE DEF c
<1>7. StepsLeft(d) < StepsLeft(c)
  BY <1>1, <1>6, StepsAt
<1> QED BY <1>5, <1>7 DEF c

\* Every step of a thread leaves its call less to be done and the calls of the
\* other threads as much, so that each call that gets its turns ends: for any
\* number of blocks, draws, table entries and threads.
THEOREM CallsEnd == Spec => CallsShrink
<1> DEFINE Typed == \A t \in Threads : StepsLeft(call[t]) \in Nat
           Shrinks == \A t \in Threads : call[t].pc # "idle" =>
               /\ StepsLeft(call[t]) \in Nat /\ StepsLeft(call[t])' \in Nat
               /\ StepsLeft(call[t])' < StepsLeft(call[t]) \/ call'[t] = call[t]
<1>1. IInv => Typed
  BY StepsNat
<1>2. IInv /\ Typed /\ Typed' /\ [Next]_vars => [Shrinks]_vars
  <2> SUFFICES ASSUME IInv, Typed, Typed', Next, NEW t \in Threads, call[t].pc # "idle"
               PROVE  StepsLeft(call[t])' < StepsLeft(call[t]) \/ call'[t] = call[t]
    OBVIOUS
  <2>1. PICK s \in Threads : Step(s) \/ \E i \in Requests : Begin(s, i)
    BY DEF Next
  <2>2. CASE s = t
    <3>1. Step(t)
      BY <2>1, <2>2 DEF Begin
    <3> QED BY <3>1, DropletShrinks, BuildShrinks DEF Step
  <2>3. CASE s # t
    <3>1. call \in [Threads -> CallType]
      BY DEF IInv, TypeOK
    <3>2. \E d : call' = [call EXCEPT ![s] = d]
      BY <2>1 DEF Step, Begin, Search, Picked, Draw, Drawn, Xor, Checksum, FillEntry,
                  Ready, Sum, Return, Pack
    <3> QED BY <2>3, <3>1, <3>2
  <2> QED BY <2>2, <2>3
<1> HIDE DEF Typed, Shrinks
<1>3. Spec => [][Shrinks]_vars
  BY <1>1, <1>2, Invariance, PTL DEF Spec
<1> QED BY <1>3 DEF CallsShrink, Shrinks

-----------------------------------------------------------------------------
(* Digits *)

\* What a quotient and a remainder are.
LEMMA DivModSum ==
    ASSUME NEW v \in Nat, NEW m \in Nat \ {0}
    PROVE  v \div m \in Nat /\ v % m \in 0 .. m - 1 /\ v = (v \div m) * m + (v % m)
<1>1. v \div m \in Nat
  OBVIOUS
<1>2. v % m \in 0 .. m - 1
  OBVIOUS
<1>3. v = m * (v \div m) + (v % m)
  OBVIOUS
<1>4. m * (v \div m) = (v \div m) * m
  BY <1>1
<1> QED BY <1>1, <1>2, <1>3, <1>4

\* Two products with the same factor are apart by that factor at least.
LEMMA Apart ==
    ASSUME NEW a \in Nat, NEW b \in Nat, NEW m \in Nat \ {0}, a < b
    PROVE  a * m + m <= b * m
<1>1. PICK c \in Nat : b = a + 1 + c
  <2>1. b - a - 1 \in Nat /\ b = a + 1 + (b - a - 1)
    OBVIOUS
  <2> QED BY <2>1
<1>2. b * m = a * m + m + c * m
  BY <1>1
<1>3. c * m >= 0
  OBVIOUS
<1> QED BY <1>2, <1>3

\* A number is written in one way as a multiple and a rest.
LEMMA DigitsUnique ==
    ASSUME NEW m \in Nat \ {0}, NEW a \in Nat, NEW b \in 0 .. m - 1,
           NEW c \in Nat, NEW d \in 0 .. m - 1, a * m + b = c * m + d
    PROVE  a = c /\ b = d
<1>1. ASSUME a < c PROVE a * m + m <= c * m
  BY <1>1, Apart
<1>2. ASSUME c < a PROVE c * m + m <= a * m
  BY <1>2, Apart
<1>3. a * m \in Nat /\ c * m \in Nat
  OBVIOUS
<1>4. a = c
  BY <1>1, <1>2, <1>3
<1> QED BY <1>3, <1>4

\* Three symbols are told from the number they stand for.
LEMMA TripleUnique ==
    ASSUME NEW m \in Nat \ {0},
           NEW a \in 0 .. m - 1, NEW b \in 0 .. m - 1, NEW c \in 0 .. m - 1,
           NEW x \in 0 .. m - 1, NEW y \in 0 .. m - 1, NEW z \in 0 .. m - 1,
           a + b * m + c * m * m = x + y * m + z * m * m
    PROVE  a = x /\ b = y /\ c = z
<1>1. PICK h \in Nat, k \in Nat : h = c * m + b /\ k = z * m + y
  OBVIOUS
<1>2. h * m + a = a + b * m + c * m * m /\ k * m + x = x + y * m + z * m * m
  BY <1>1
<1>3. h = k /\ a = x
  BY <1>2, DigitsUnique
<1>4. c * m + b = z * m + y
  BY <1>1, <1>3
<1> QED BY <1>3, <1>4, DigitsUnique

\* A quotient is bounded.
LEMMA DivLess ==
    ASSUME NEW v \in Nat, NEW m \in Nat \ {0}, NEW a \in Nat, v < a * m
    PROVE  v \div m \in 0 .. a - 1
<1>1. PICK q \in Nat : q = v \div m
  BY DivModSum
<1>2. q * m <= v
  BY <1>1, DivModSum
<1>3. ASSUME a <= q PROVE a * m <= q * m
  <2>1. ASSUME a < q PROVE a * m + m <= q * m
    BY <2>1, Apart
  <2>2. a * m \in Nat /\ q * m \in Nat
    OBVIOUS
  <2> QED BY <1>3, <2>1, <2>2
<1>4. a * m \in Nat /\ q * m \in Nat
  OBVIOUS
<1>5. q < a
  BY <1>2, <1>3, <1>4
<1> QED BY <1>1, <1>5

-----------------------------------------------------------------------------
(* A group *)

\* Two bytes are two bytes' worth.
LEMMA PairBound ==
    ASSUME NEW a \in Bytes, NEW b \in Bytes
    PROVE  a * Byte + b \in 0 .. Byte * Byte - 1
<1> USE RadixAssumption DEF Bytes
<1>1. a * Byte + Byte <= Byte * Byte
  BY Apart
<1>2. a * Byte \in Nat /\ Byte * Byte \in Nat
  OBVIOUS
<1> QED BY <1>1, <1>2

\* What base45_encode writes for two bytes stands for them.
LEMMA PairSymbolsRight ==
    ASSUME NEW v \in 0 .. Byte * Byte - 1
    PROVE  /\ PairSymbols(v) \in Seq(Symbols) /\ Len(PairSymbols(v)) = 3
           /\ TripleValue(PairSymbols(v), 0) = v
<1> USE RadixAssumption
<1>1. Byte * Byte \in Nat /\ Radix * Radix * Radix \in Nat /\ Radix * Radix \in Nat
  OBVIOUS
<1>2. v \in Nat /\ v < (Radix * Radix) * Radix
  BY <1>1
<1>3. PICK q \in 0 .. Radix * Radix - 1 : q = v \div Radix
  BY <1>1, <1>2, DivLess
<1>4. PICK a \in 0 .. Radix - 1 : a = v % Radix /\ v = q * Radix + a
  BY <1>2, <1>3, DivModSum
<1>5. q \in Nat /\ q < Radix * Radix
  BY <1>1
<1>6. PICK c \in 0 .. Radix - 1 : c = q \div Radix
  BY <1>5, DivLess
<1>7. PICK b \in 0 .. Radix - 1 : b = q % Radix /\ q = c * Radix + b
  BY <1>5, <1>6, DivModSum
<1>8. PairSymbols(v) = <<a, b, c>>
  BY <1>3, <1>4, <1>6, <1>7 DEF PairSymbols
<1>9. v = a + b * Radix + c * Radix * Radix
  BY <1>4, <1>7
<1> QED BY <1>8, <1>9 DEF Symbols, TripleValue

\* What base45_encode writes for the last byte stands for it.
LEMMA LastSymbolsRight ==
    ASSUME NEW v \in Bytes
    PROVE  /\ LastSymbols(v) \in Seq(Symbols) /\ Len(LastSymbols(v)) = 2
           /\ DoubleValue(LastSymbols(v), 0) = v
<1> USE RadixAssumption
<1>1. v \in Nat /\ v < Radix * Radix
  BY DEF Bytes
<1>2. PICK b \in 0 .. Radix - 1 : b = v \div Radix
  BY <1>1, DivLess
<1>3. PICK a \in 0 .. Radix - 1 : a = v % Radix /\ v = b * Radix + a
  BY <1>1, <1>2, DivModSum
<1>4. LastSymbols(v) = <<a, b>>
  BY <1>2, <1>3 DEF LastSymbols
<1>5. DoubleValue(<<a, b>>, 0) = a + b * Radix
  BY DEF DoubleValue
<1>6. v = a + b * Radix
  BY <1>3
<1>7. <<a, b>> \in Seq(Symbols) /\ Len(<<a, b>>) = 2
  BY DEF Symbols
<1> QED BY <1>4, <1>5, <1>6, <1>7

\* What base45_decode writes for three symbols that fit stands for them.
LEMMA PairBytesRight ==
    ASSUME NEW v \in Nat, PairFits(v)
    PROVE  /\ PairBytes(v) \in Seq(Bytes) /\ Len(PairBytes(v)) = 2
           /\ PairValue(PairBytes(v), 0) = v
<1> USE RadixAssumption
<1>1. PICK a \in 0 .. Byte - 1 : a = v \div Byte
  BY DivLess DEF PairFits
<1>2. PICK b \in 0 .. Byte - 1 : b = v % Byte /\ v = a * Byte + b
  BY <1>1, DivModSum
<1>3. PairBytes(v) = <<a, b>>
  BY <1>1, <1>2 DEF PairBytes
<1>4. PairValue(<<a, b>>, 0) = v
  BY <1>2 DEF PairValue
<1>5. <<a, b>> \in Seq(Bytes) /\ Len(<<a, b>>) = 2
  BY DEF Bytes
<1> QED BY <1>3, <1>4, <1>5

\* Symbols stand for a number.
LEMMA ValuesNat ==
    ASSUME NEW t, NEW j \in Nat, t[j + 1] \in Symbols, t[j + 2] \in Symbols
    PROVE  /\ DoubleValue(t, j) \in Nat
           /\ t[j + 3] \in Symbols => TripleValue(t, j) \in Nat
  BY RadixAssumption DEF Symbols, DoubleValue, TripleValue

\* Groups that stand for the same are the same.
LEMMA TripleSame ==
    ASSUME NEW t, NEW u, NEW j \in Nat, NEW k \in Nat,
           \A x \in 1 .. 3 : t[j + x] \in Symbols /\ u[k + x] \in Symbols,
           TripleValue(t, j) = TripleValue(u, k)
    PROVE  \A x \in 1 .. 3 : t[j + x] = u[k + x]
<1>1. /\ t[j + 1] \in Symbols /\ t[j + 2] \in Symbols /\ t[j + 3] \in Symbols
      /\ u[k + 1] \in Symbols /\ u[k + 2] \in Symbols /\ u[k + 3] \in Symbols
  OBVIOUS
<1>2. t[j + 1] = u[k + 1] /\ t[j + 2] = u[k + 2] /\ t[j + 3] = u[k + 3]
  <2> DEFINE a == t[j + 1]  b == t[j + 2]  c == t[j + 3]
             e == u[k + 1]  f == u[k + 2]  g == u[k + 3]
  <2>1. a + b * Radix + c * Radix * Radix = e + f * Radix + g * Radix * Radix
    BY DEF TripleValue
  <2>2. /\ a \in 0 .. Radix - 1 /\ b \in 0 .. Radix - 1 /\ c \in 0 .. Radix - 1
        /\ e \in 0 .. Radix - 1 /\ f \in 0 .. Radix - 1 /\ g \in 0 .. Radix - 1
    BY <1>1 DEF Symbols
  <2> HIDE DEF a, b, c, e, f, g
  <2>3. a = e /\ b = f /\ c = g
    BY <2>1, <2>2, TripleUnique, RadixAssumption
  <2> QED BY <2>3 DEF a, b, c, e, f, g
<1>3. \A x \in 1 .. 3 : x = 1 \/ x = 2 \/ x = 3
  OBVIOUS
<1> QED BY <1>2, <1>3

LEMMA DoubleSame ==
    ASSUME NEW t, NEW u, NEW j \in Nat, NEW k \in Nat,
           \A x \in 1 .. 2 : t[j + x] \in Symbols /\ u[k + x] \in Symbols,
           DoubleValue(t, j) = DoubleValue(u, k)
    PROVE  \A x \in 1 .. 2 : t[j + x] = u[k + x]
<1> DEFINE a == t[j + 1]  b == t[j + 2]  e == u[k + 1]  f == u[k + 2]
<1>1. /\ a \in 0 .. Radix - 1 /\ b \in 0 .. Radix - 1
      /\ e \in 0 .. Radix - 1 /\ f \in 0 .. Radix - 1
  BY DEF Symbols
<1>2. a + b * Radix = e + f * Radix
  BY DEF DoubleValue
<1> HIDE DEF a, b, e, f
<1>3. b * Radix + a = f * Radix + e
  BY <1>1, <1>2, RadixAssumption
<1>4. a = e /\ b = f
  BY <1>1, <1>3, DigitsUnique, RadixAssumption
<1>5. \A x \in 1 .. 2 : x = 1 \/ x = 2
  OBVIOUS
<1> QED BY <1>4, <1>5 DEF a, b, e, f

LEMMA PairSame ==
    ASSUME NEW d, NEW e, NEW j \in Nat, NEW k \in Nat,
           \A x \in 1 .. 2 : d[j + x] \in Bytes /\ e[k + x] \in Bytes,
           PairValue(d, j) = PairValue(e, k)
    PROVE  \A x \in 1 .. 2 : d[j + x] = e[k + x]
<1> DEFINE a == d[j + 1]  b == d[j + 2]  f == e[k + 1]  g == e[k + 2]
<1>1. /\ a \in 0 .. Byte - 1 /\ b \in 0 .. Byte - 1
      /\ f \in 0 .. Byte - 1 /\ g \in 0 .. Byte - 1
  BY DEF Bytes
<1>2. a * Byte + b = f * Byte + g
  BY DEF PairValue
<1> HIDE DEF a, b, f, g
<1>4. a = f /\ b = g
  BY <1>1, <1>2, DigitsUnique, RadixAssumption
<1>5. \A x \in 1 .. 2 : x = 1 \/ x = 2
  OBVIOUS
<1> QED BY <1>4, <1>5 DEF a, b, f, g

-----------------------------------------------------------------------------
(* Sequences of groups *)

\* Writing a group more leaves the groups before it.
LEMMA GroupsMore ==
    ASSUME NEW d, NEW e, NEW t, NEW u, NEW p \in Nat, Groups(d, t, p),
           \A k \in 1 .. 2 * p : e[k] = d[k], \A k \in 1 .. 3 * p : u[k] = t[k]
    PROVE  /\ Groups(e, u, p)
           /\ PairValue(e, 2 * p) = TripleValue(u, 3 * p) => Groups(e, u, p + 1)
<1>1. ASSUME NEW q \in 0 .. p - 1 PROVE PairValue(e, 2 * q) = TripleValue(u, 3 * q)
  <2>1. /\ 2 * q + 1 \in 1 .. 2 * p /\ 2 * q + 2 \in 1 .. 2 * p
        /\ 3 * q + 1 \in 1 .. 3 * p /\ 3 * q + 2 \in 1 .. 3 * p /\ 3 * q + 3 \in 1 .. 3 * p
    OBVIOUS
  <2>2. PairValue(e, 2 * q) = PairValue(d, 2 * q)
    BY <2>1 DEF PairValue
  <2>3. TripleValue(u, 3 * q) = TripleValue(t, 3 * q)
    BY <2>1 DEF TripleValue
  <2> QED BY <2>2, <2>3 DEF Groups
<1>2. \A q \in 0 .. (p + 1) - 1 : q \in 0 .. p - 1 \/ q = p
  OBVIOUS
<1> QED BY <1>1, <1>2 DEF Groups

\* What is written after s is read there.
LEMMA WrittenAfter ==
    ASSUME NEW S, NEW s \in Seq(S), NEW w \in Seq(S)
    PROVE  /\ s \o w \in Seq(S) /\ Len(s \o w) = Len(s) + Len(w)
           /\ \A k \in 1 .. Len(s) : (s \o w)[k] = s[k]
           /\ \A k \in 1 .. Len(w) : (s \o w)[Len(s) + k] = w[k]
  OBVIOUS

\* What begins t, and goes on as t does, begins t.
LEMMA BeginsMore ==
    ASSUME NEW S, NEW s \in Seq(S), NEW u \in Seq(S), NEW t \in Seq(S), NEW n \in Nat,
           Begins(s, t), Len(u) = Len(s) + n, Len(s) + n <= Len(t),
           \A k \in 1 .. Len(s) : u[k] = s[k],
           \A x \in 1 .. n : u[Len(s) + x] = t[Len(s) + x]
    PROVE  Begins(u, t)
<1>1. ASSUME NEW k \in 1 .. Len(s) + n PROVE u[k] = t[k]
  <2>1. CASE k <= Len(s)
    BY <2>1 DEF Begins
  <2>2. CASE k > Len(s)
    <3>1. k - Len(s) \in 1 .. n /\ k = Len(s) + (k - Len(s))
      BY <2>2
    <3> QED BY <3>1
  <2> QED BY <2>1, <2>2
<1> QED BY <1>1 DEF Begins

\* A sequence that begins another and is as long is the other.
LEMMA BeginsWhole ==
    ASSUME NEW S, NEW s \in Seq(S), NEW t \in Seq(S), Begins(s, t), Len(s) = Len(t)
    PROVE  s = t
  BY DEF Begins

-----------------------------------------------------------------------------
(* The encoder *)

\* What holds of base45_encode, whatever the run began with.
LEMMA EncodeFacts ==
    ASSUME CarrierIInv, pc = "encode"
    PROVE  /\ data \in Seq(Bytes) /\ text \in Seq(Symbols) /\ at \in 0 .. Len(data)
           /\ Stands(data, at, text, Len(text), at = Len(data))
<1>1. data \in Seq(Bytes) /\ text \in Seq(Symbols) /\ at \in Nat /\ at <= Len(data)
  BY DEF CarrierIInv, CarrierTypeOK
<1>2. origin = "frame" \/ origin = "text"
  BY DEF CarrierIInv, CarrierTypeOK
<1>3. Stands(data, at, text, Len(text), at = Len(data))
  BY <1>2 DEF CarrierIInv, Encoding, Repeating
<1> QED BY <1>1, <1>3

LEMMA EncodePairWrites ==
    ASSUME CarrierIInv, EncodePair
    PROVE  \E p \in Nat :
           /\ at = 2 * p /\ Len(text) = 3 * p
           /\ text' \in Seq(Symbols) /\ Len(text') = 3 * p + 3
           /\ \A k \in 1 .. 3 * p : text'[k] = text[k]
           /\ Groups(data, text', p + 1)
           /\ Stands(data, at', text', Len(text'), at' = Len(data))
<1> DEFINE v == PairValue(data, at)
           w == PairSymbols(v)
<1>1. /\ data \in Seq(Bytes) /\ text \in Seq(Symbols) /\ at \in 0 .. Len(data)
      /\ Stands(data, at, text, Len(text), at = Len(data))
      /\ at + 1 < Len(data) /\ text' = text \o w /\ at' = at + 2
  BY EncodeFacts DEF EncodePair
<1>2. PICK p \in Nat : Groups(data, text, p) /\ at = 2 * p /\ Len(text) = 3 * p
  BY <1>1 DEF Stands
<1>3. w \in Seq(Symbols) /\ Len(w) = 3 /\ TripleValue(w, 0) = v
  <2>1. data[at + 1] \in Bytes /\ data[at + 2] \in Bytes
    BY <1>1
  <2>2. v \in 0 .. Byte * Byte - 1
    BY <2>1, PairBound DEF PairValue
  <2> QED BY <2>2, PairSymbolsRight
<1> HIDE DEF w
<1>4. /\ text' \in Seq(Symbols) /\ Len(text') = 3 * p + 3
      /\ \A k \in 1 .. 3 * p : text'[k] = text[k]
      /\ \A k \in 1 .. 3 : text'[3 * p + k] = w[k]
  <2>1. /\ text \o w \in Seq(Symbols) /\ Len(text \o w) = Len(text) + Len(w)
        /\ \A k \in 1 .. Len(text) : (text \o w)[k] = text[k]
        /\ \A k \in 1 .. Len(w) : (text \o w)[Len(text) + k] = w[k]
    <3>1. text \in Seq(Symbols) /\ w \in Seq(Symbols)
      BY <1>1, <1>3
    <3> QED BY ONLY <3>1, WrittenAfter
  <2> QED BY <2>1, <1>1, <1>2, <1>3
<1>5. TripleValue(text', 3 * p) = v
  <2>1. text'[3 * p + 1] = w[0 + 1] /\ text'[3 * p + 2] = w[0 + 2] /\ text'[3 * p + 3] = w[0 + 3]
    BY <1>4
  <2> QED BY <2>1, <1>3 DEF TripleValue
<1>6. Groups(data, text', p + 1)
  BY <1>2, <1>4, <1>5, GroupsMore
<1>7. Stands(data, at', text', Len(text'), at' = Len(data))
  <2>1. p + 1 \in 0 .. at' /\ at' = 2 * (p + 1) /\ Len(text') = 3 * (p + 1)
    BY <1>1, <1>2, <1>4
  <2> QED BY <2>1, <1>6 DEF Stands
<1> QED BY <1>2, <1>4, <1>6, <1>7

\* A run that began with a text writes what that text has there.
LEMMA EncodePairStep ==
    ASSUME CarrierIInv, EncodePair PROVE CarrierIInv'
<1>1. PICK p \in Nat :
           /\ at = 2 * p /\ Len(text) = 3 * p
           /\ text' \in Seq(Symbols) /\ Len(text') = 3 * p + 3
           /\ \A k \in 1 .. 3 * p : text'[k] = text[k]
           /\ Groups(data, text', p + 1)
           /\ Stands(data, at', text', Len(text'), at' = Len(data))
  BY EncodePairWrites
<1>2. /\ pc = "encode" /\ pc' = "encode" /\ data' = data /\ origin' = origin /\ given' = given
      /\ at + 1 < Len(data) /\ at' = at + 2 /\ text' = text \o PairSymbols(PairValue(data, at))
  BY DEF EncodePair
<1>3. data \in Seq(Bytes) /\ text \in Seq(Symbols) /\ at \in 0 .. Len(data)
  BY <1>2, EncodeFacts
<1>4. CarrierTypeOK'
  <2>1. text' \in Seq(Symbols \cup {Foreign})
    BY <1>1
  <2> QED BY <1>1, <1>2, <1>3, <2>1 DEF CarrierIInv, CarrierTypeOK
<1>5. Encoding'
  BY <1>1, <1>2 DEF CarrierIInv, Encoding
<1>6. Returning' /\ Decoding'
  BY <1>2 DEF Returning, Decoding
<1>7. ASSUME origin = "text" PROVE Repeating'
  <2>1. /\ given \in Seq(Symbols) /\ Begins(text, given)
        /\ Stands(data, Len(data), given, Len(given), TRUE)
    BY <1>2, <1>7 DEF CarrierIInv, Repeating
  <2>2. PICK n \in Nat : /\ Groups(data, given, n)
                         /\ \/ Len(data) = 2 * n /\ Len(given) = 3 * n
                            \/ Len(data) = 2 * n + 1 /\ Len(given) = 3 * n + 2
    BY <2>1 DEF Stands
  <2>3. p \in 0 .. n - 1 /\ 3 * p + 3 <= Len(given)
    <3>1. 2 * p + 1 < Len(data) /\ Len(data) \in Nat
      BY <1>1, <1>2, <1>3
    <3> QED BY <3>1, <2>2
  <2>4. TripleValue(text', 3 * p) = TripleValue(given, 3 * p)
    <3>1. p \in 0 .. (p + 1) - 1
      OBVIOUS
    <3>2. TripleValue(text', 3 * p) = PairValue(data, 2 * p)
      BY <1>1, <3>1 DEF Groups
    <3>3. TripleValue(given, 3 * p) = PairValue(data, 2 * p)
      BY <2>2, <2>3 DEF Groups
    <3> QED BY <3>2, <3>3
  <2>5. \A x \in 1 .. 3 : text'[3 * p + x] = given[3 * p + x]
    <3>1. \A x \in 1 .. 3 : text'[3 * p + x] \in Symbols /\ given[3 * p + x] \in Symbols
      BY <1>1, <2>1, <2>3
    <3> QED BY <2>4, <3>1, TripleSame
  <2>6. Begins(text', given)
    <3>1. /\ text \in Seq(Symbols) /\ text' \in Seq(Symbols) /\ given \in Seq(Symbols)
          /\ Begins(text, given) /\ Len(text') = Len(text) + 3 /\ Len(text) + 3 <= Len(given)
          /\ \A k \in 1 .. Len(text) : text'[k] = text[k]
          /\ \A x \in 1 .. 3 : text'[Len(text) + x] = given[Len(text) + x]
      BY <1>1, <1>3, <2>1, <2>3, <2>5
    <3> QED BY ONLY <3>1, BeginsMore
  <2>7. at' <= Len(data)
    BY <1>2, <1>3
  <2> QED BY <1>1, <1>2, <2>1, <2>6, <2>7 DEF Repeating
<1>8. Repeating'
  BY <1>2, <1>7 DEF Repeating
<1> QED BY <1>4, <1>5, <1>6, <1>8 DEF CarrierIInv

LEMMA EncodeLastWrites ==
    ASSUME CarrierIInv, EncodeLast
    PROVE  \E p \in Nat :
           /\ at = 2 * p /\ Len(data) = 2 * p + 1 /\ Len(text) = 3 * p
           /\ text' \in Seq(Symbols) /\ Len(text') = 3 * p + 2
           /\ \A k \in 1 .. 3 * p : text'[k] = text[k]
           /\ data[2 * p + 1] = DoubleValue(text', 3 * p)
           /\ Stands(data, at', text', Len(text'), at' = Len(data))
<1> DEFINE w == LastSymbols(data[at + 1])
<1>1. /\ data \in Seq(Bytes) /\ text \in Seq(Symbols) /\ at \in 0 .. Len(data)
      /\ Stands(data, at, text, Len(text), at = Len(data))
      /\ at + 1 = Len(data) /\ text' = text \o w /\ at' = at + 1
  BY EncodeFacts DEF EncodeLast
<1>2. PICK p \in Nat : Groups(data, text, p) /\ at = 2 * p /\ Len(text) = 3 * p
  BY <1>1 DEF Stands
<1>3. w \in Seq(Symbols) /\ Len(w) = 2 /\ DoubleValue(w, 0) = data[at + 1]
  <2>1. data[at + 1] \in Bytes
    BY <1>1
  <2> QED BY <2>1, LastSymbolsRight
<1> HIDE DEF w
<1>4. /\ text' \in Seq(Symbols) /\ Len(text') = 3 * p + 2
      /\ \A k \in 1 .. 3 * p : text'[k] = text[k]
      /\ \A k \in 1 .. 2 : text'[3 * p + k] = w[k]
  <2>1. /\ text \o w \in Seq(Symbols) /\ Len(text \o w) = Len(text) + Len(w)
        /\ \A k \in 1 .. Len(text) : (text \o w)[k] = text[k]
        /\ \A k \in 1 .. Len(w) : (text \o w)[Len(text) + k] = w[k]
    <3>1. text \in Seq(Symbols) /\ w \in Seq(Symbols)
      BY <1>1, <1>3
    <3> QED BY ONLY <3>1, WrittenAfter
  <2> QED BY <2>1, <1>1, <1>2, <1>3
<1>5. DoubleValue(text', 3 * p) = data[at + 1]
  <2>1. text'[3 * p + 1] = w[0 + 1] /\ text'[3 * p + 2] = w[0 + 2]
    BY <1>4
  <2> QED BY <2>1, <1>3 DEF DoubleValue
<1>6. Groups(data, text', p)
  BY <1>2, <1>4, GroupsMore
<1>7. Stands(data, at', text', Len(text'), at' = Len(data))
  <2>1. /\ p \in 0 .. at' /\ at' = 2 * p + 1 /\ Len(text') = 3 * p + 2
        /\ at' = Len(data) /\ data[at'] = DoubleValue(text', 3 * p)
    BY <1>1, <1>2, <1>4, <1>5
  <2> QED BY <2>1, <1>6 DEF Stands
<1> QED BY <1>1, <1>2, <1>4, <1>5, <1>7

LEMMA EncodeLastStep ==
    ASSUME CarrierIInv, EncodeLast PROVE CarrierIInv'
<1>1. PICK p \in Nat :
           /\ at = 2 * p /\ Len(data) = 2 * p + 1 /\ Len(text) = 3 * p
           /\ text' \in Seq(Symbols) /\ Len(text') = 3 * p + 2
           /\ \A k \in 1 .. 3 * p : text'[k] = text[k]
           /\ data[2 * p + 1] = DoubleValue(text', 3 * p)
           /\ Stands(data, at', text', Len(text'), at' = Len(data))
  BY EncodeLastWrites
<1>2. /\ pc = "encode" /\ pc' = "encode" /\ data' = data /\ origin' = origin /\ given' = given
      /\ at + 1 = Len(data) /\ at' = at + 1
  BY DEF EncodeLast
<1>3. data \in Seq(Bytes) /\ text \in Seq(Symbols) /\ at \in 0 .. Len(data)
  BY <1>2, EncodeFacts
<1>4. CarrierTypeOK'
  <2>1. text' \in Seq(Symbols \cup {Foreign})
    BY <1>1
  <2> QED BY <1>1, <1>2, <1>3, <2>1 DEF CarrierIInv, CarrierTypeOK
<1>5. Encoding'
  BY <1>1, <1>2 DEF CarrierIInv, Encoding
<1>6. Returning' /\ Decoding'
  BY <1>2 DEF Returning, Decoding
<1>7. ASSUME origin = "text" PROVE Repeating'
  <2>1. /\ given \in Seq(Symbols) /\ Begins(text, given)
        /\ Stands(data, Len(data), given, Len(given), TRUE)
    BY <1>2, <1>7 DEF CarrierIInv, Repeating
  <2>2. PICK n \in Nat :
           \/ Len(data) = 2 * n /\ Len(given) = 3 * n
           \/ /\ Len(data) = 2 * n + 1 /\ Len(given) = 3 * n + 2
              /\ data[Len(data)] = DoubleValue(given, 3 * n)
    BY <2>1 DEF Stands
  <2>3. p = n /\ Len(given) = 3 * p + 2 /\ data[2 * p + 1] = DoubleValue(given, 3 * p)
    BY <1>1, <2>2
  <2>4. \A x \in 1 .. 2 : text'[3 * p + x] = given[3 * p + x]
    <3>1. \A x \in 1 .. 2 : text'[3 * p + x] \in Symbols /\ given[3 * p + x] \in Symbols
      BY <1>1, <2>1, <2>3
    <3>2. DoubleValue(text', 3 * p) = DoubleValue(given, 3 * p)
      BY <1>1, <2>3
    <3> QED BY <3>1, <3>2, DoubleSame
  <2>5. Begins(text', given)
    <3>1. /\ text \in Seq(Symbols) /\ text' \in Seq(Symbols) /\ given \in Seq(Symbols)
          /\ Begins(text, given) /\ Len(text') = Len(text) + 2 /\ Len(text) + 2 <= Len(given)
          /\ \A k \in 1 .. Len(text) : text'[k] = text[k]
          /\ \A x \in 1 .. 2 : text'[Len(text) + x] = given[Len(text) + x]
      BY <1>1, <1>3, <2>1, <2>3, <2>4
    <3> QED BY ONLY <3>1, BeginsMore
  <2>6. at' <= Len(data)
    BY <1>2, <1>3
  <2> QED BY <1>1, <1>2, <2>1, <2>5, <2>6 DEF Repeating
<1>8. Repeating'
  BY <1>2, <1>7 DEF Repeating
<1> QED BY <1>4, <1>5, <1>6, <1>8 DEF CarrierIInv

\* A frame's text goes to the receiver; what was written for a text is that text.
LEMMA EncodeEndStep ==
    ASSUME CarrierIInv, EncodeEnd PROVE CarrierIInv'
<1>1. /\ data \in Seq(Bytes) /\ text \in Seq(Symbols) /\ at = Len(data) /\ pc = "encode"
      /\ Stands(data, Len(data), text, Len(text), TRUE)
      /\ text' = text /\ origin' = origin /\ given' = given
  BY EncodeFacts DEF EncodeEnd, Stands
<1>2. text \in Seq(Symbols \cup {Foreign}) /\ given \in (IF origin = "frame" THEN Frames ELSE Texts)
  BY DEF CarrierIInv, CarrierTypeOK
<1>3. CASE origin = "frame"
  <2>1. pc' = "decode" /\ at' = 0 /\ data' = <<>> /\ given = data
    BY <1>1, <1>3 DEF EncodeEnd, CarrierIInv, Encoding
  <2>2. Stands(<<>>, 0, text, 0, 0 = Len(text))
    <3>1. 0 \in 0 .. 0 /\ 0 = 2 * 0 /\ 0 = 3 * 0 /\ Groups(<<>>, text, 0)
      BY DEF Groups
    <3> QED BY <3>1 DEF Stands
  <2>3. Begins(<<>>, given)
    BY <1>1, <2>1 DEF Begins
  <2>4. data' \in Seq(Bytes) /\ Len(data') = 0
    BY <2>1
  <2>5. CarrierTypeOK'
    BY <1>1, <1>2, <1>3, <2>1, <2>4 DEF CarrierTypeOK
  <2>6. Returning'
    BY <1>1, <1>3, <2>1, <2>2, <2>3, <2>4 DEF Returning
  <2> QED BY <1>1, <1>3, <2>1, <2>5, <2>6 DEF CarrierIInv, Encoding, Decoding, Repeating
<1>4. CASE origin = "text"
  <2>1. pc' = "done" /\ at' = at /\ data' = data
    BY <1>1, <1>4 DEF EncodeEnd
  <2>2. CarrierTypeOK'
    BY <1>1, <1>2, <1>4, <2>1 DEF CarrierIInv, CarrierTypeOK
  <2>3. Repeating'
    BY <1>1, <1>4, <2>1 DEF CarrierIInv, Repeating
  <2> QED BY <1>1, <1>4, <2>1, <2>2, <2>3 DEF CarrierIInv, Encoding, Decoding, Returning
<1> QED BY <1>3, <1>4 DEF CarrierIInv, CarrierTypeOK

-----------------------------------------------------------------------------
(* The decoder *)

\* What holds of base45_decode, whatever the run began with.
LEMMA DecodeFacts ==
    ASSUME CarrierIInv, pc = "decode"
    PROVE  /\ data \in Seq(Bytes) /\ text \in Seq(Symbols \cup {Foreign})
           /\ at \in 0 .. Len(text) /\ Stands(data, Len(data), text, at, at = Len(text))
<1>1. /\ data \in Seq(Bytes) /\ text \in Seq(Symbols \cup {Foreign})
      /\ at \in Nat /\ at <= Len(text)
  BY DEF CarrierIInv, CarrierTypeOK
<1>2. origin = "frame" \/ origin = "text"
  BY DEF CarrierIInv, CarrierTypeOK
<1>3. Stands(data, Len(data), text, at, at = Len(text))
  BY <1>2 DEF CarrierIInv, Returning, Decoding
<1> QED BY <1>1, <1>3

LEMMA DecodeTripleWrites ==
    ASSUME CarrierIInv, DecodeTriple
    PROVE  \E p \in Nat :
           /\ at = 3 * p /\ Len(data) = 2 * p /\ \A x \in 1 .. 3 : text[3 * p + x] \in Symbols
           /\ data' \in Seq(Bytes) /\ Len(data') = 2 * p + 2
           /\ \A k \in 1 .. 2 * p : data'[k] = data[k]
           /\ Groups(data', text, p + 1)
           /\ Stands(data', Len(data'), text, at', at' = Len(text))
<1> DEFINE v == TripleValue(text, at)
           w == PairBytes(v)
<1>1. /\ data \in Seq(Bytes) /\ at \in 0 .. Len(text)
      /\ Stands(data, Len(data), text, at, at = Len(text))
      /\ at + 3 <= Len(text) /\ data' = data \o w /\ at' = at + 3 /\ PairFits(v)
      /\ \A x \in 1 .. 3 : text[at + x] \in Symbols
  BY DecodeFacts DEF DecodeTriple, InAlphabet
<1>2. PICK p \in Nat : Groups(data, text, p) /\ at = 3 * p /\ Len(data) = 2 * p
  <2>1. at # Len(text)
    BY <1>1
  <2> QED BY <1>1, <2>1 DEF Stands
<1>3. w \in Seq(Bytes) /\ Len(w) = 2 /\ PairValue(w, 0) = v
  <2>1. at \in Nat /\ text[at + 1] \in Symbols /\ text[at + 2] \in Symbols /\ text[at + 3] \in Symbols
    BY <1>1
  <2>2. v \in Nat
    BY <2>1, ValuesNat
  <2> QED BY <1>1, <2>2, PairBytesRight
<1> HIDE DEF w
<1>4. /\ data' \in Seq(Bytes) /\ Len(data') = 2 * p + 2
      /\ \A k \in 1 .. 2 * p : data'[k] = data[k]
      /\ \A k \in 1 .. 2 : data'[2 * p + k] = w[k]
  <2>1. /\ data \o w \in Seq(Bytes) /\ Len(data \o w) = Len(data) + Len(w)
        /\ \A k \in 1 .. Len(data) : (data \o w)[k] = data[k]
        /\ \A k \in 1 .. Len(w) : (data \o w)[Len(data) + k] = w[k]
    <3>1. data \in Seq(Bytes) /\ w \in Seq(Bytes)
      BY <1>1, <1>3
    <3> QED BY ONLY <3>1, WrittenAfter
  <2> QED BY <2>1, <1>1, <1>2, <1>3
<1>5. PairValue(data', 2 * p) = v
  <2>1. data'[2 * p + 1] = w[0 + 1] /\ data'[2 * p + 2] = w[0 + 2]
    BY <1>4
  <2> QED BY <2>1, <1>3 DEF PairValue
<1>6. Groups(data', text, p + 1)
  BY <1>2, <1>4, <1>5, GroupsMore
<1>7. Stands(data', Len(data'), text, at', at' = Len(text))
  <2>1. p + 1 \in 0 .. Len(data') /\ Len(data') = 2 * (p + 1) /\ at' = 3 * (p + 1)
    BY <1>1, <1>2, <1>4
  <2> QED BY <2>1, <1>6 DEF Stands
<1>8. \A x \in 1 .. 3 : text[3 * p + x] \in Symbols
  BY <1>1, <1>2
<1> QED BY <1>2, <1>4, <1>6, <1>7, <1>8

\* A run that began with a frame reads what that frame has there.
LEMMA DecodeTripleStep ==
    ASSUME CarrierIInv, DecodeTriple PROVE CarrierIInv'
<1>1. PICK p \in Nat :
           /\ at = 3 * p /\ Len(data) = 2 * p /\ \A x \in 1 .. 3 : text[3 * p + x] \in Symbols
           /\ data' \in Seq(Bytes) /\ Len(data') = 2 * p + 2
           /\ \A k \in 1 .. 2 * p : data'[k] = data[k]
           /\ Groups(data', text, p + 1)
           /\ Stands(data', Len(data'), text, at', at' = Len(text))
  BY DecodeTripleWrites
<1>2. /\ pc = "decode" /\ pc' = "decode" /\ text' = text /\ origin' = origin /\ given' = given
      /\ at + 3 <= Len(text) /\ at' = at + 3
  BY DEF DecodeTriple
<1>3. data \in Seq(Bytes) /\ text \in Seq(Symbols \cup {Foreign}) /\ at \in 0 .. Len(text)
  BY <1>2, DecodeFacts
<1>4. CarrierTypeOK'
  BY <1>1, <1>2, <1>3 DEF CarrierIInv, CarrierTypeOK
<1>5. ASSUME origin = "text" PROVE Decoding'
  <2>1. text = given /\ \A k \in 1 .. at : text[k] \in Symbols
    BY <1>2, <1>5 DEF CarrierIInv, Decoding
  <2>2. ASSUME NEW k \in 1 .. at + 3 PROVE text[k] \in Symbols
    <3>1. CASE k <= at
      BY <1>3, <2>1, <3>1
    <3>2. CASE k > at
      <4>1. k - 3 * p \in 1 .. 3 /\ k = 3 * p + (k - 3 * p)
        BY <1>1, <1>3, <3>2
      <4> QED BY <1>1, <4>1
    <3> QED BY <1>3, <3>1, <3>2
  <2> QED BY <1>1, <1>2, <2>1, <2>2 DEF Decoding
<1>6. ASSUME origin = "frame" PROVE Returning'
  <2>1. /\ given \in Seq(Bytes) /\ text \in Seq(Symbols) /\ Begins(data, given)
        /\ Stands(given, Len(given), text, Len(text), TRUE)
    BY <1>2, <1>6 DEF CarrierIInv, Returning
  <2>2. PICK n \in Nat : /\ Groups(given, text, n)
                         /\ \/ Len(given) = 2 * n /\ Len(text) = 3 * n
                            \/ Len(given) = 2 * n + 1 /\ Len(text) = 3 * n + 2
    BY <2>1 DEF Stands
  <2>3. p \in 0 .. n - 1 /\ 2 * p + 2 <= Len(given)
    <3>1. 3 * p + 3 <= Len(text) /\ Len(text) \in Nat
      BY <1>1, <1>2, <1>3
    <3> QED BY <3>1, <2>2
  <2>4. PairValue(data', 2 * p) = PairValue(given, 2 * p)
    <3>1. p \in 0 .. (p + 1) - 1
      OBVIOUS
    <3>2. PairValue(data', 2 * p) = TripleValue(text, 3 * p)
      BY <1>1, <3>1 DEF Groups
    <3>3. PairValue(given, 2 * p) = TripleValue(text, 3 * p)
      BY <2>2, <2>3 DEF Groups
    <3> QED BY <3>2, <3>3
  <2>5. \A x \in 1 .. 2 : data'[2 * p + x] = given[2 * p + x]
    <3>1. \A x \in 1 .. 2 : data'[2 * p + x] \in Bytes /\ given[2 * p + x] \in Bytes
      BY <1>1, <2>1, <2>3
    <3> QED BY <2>4, <3>1, PairSame
  <2>6. Begins(data', given)
    <3>1. /\ data \in Seq(Bytes) /\ data' \in Seq(Bytes) /\ given \in Seq(Bytes)
          /\ Begins(data, given) /\ Len(data') = Len(data) + 2 /\ Len(data) + 2 <= Len(given)
          /\ \A k \in 1 .. Len(data) : data'[k] = data[k]
          /\ \A x \in 1 .. 2 : data'[Len(data) + x] = given[Len(data) + x]
      BY <1>1, <1>3, <2>1, <2>3, <2>5
    <3> QED BY ONLY <3>1, BeginsMore
  <2> QED BY <1>1, <1>2, <2>1, <2>6 DEF Returning
<1>7. Encoding' /\ Repeating'
  BY <1>2 DEF Encoding, Repeating
<1> QED BY <1>2, <1>4, <1>5, <1>6, <1>7 DEF CarrierIInv, Decoding, Returning

LEMMA DecodeLastWrites ==
    ASSUME CarrierIInv, DecodeLast
    PROVE  \E p \in Nat :
           /\ at = 3 * p /\ Len(data) = 2 * p /\ Len(text) = 3 * p + 2
           /\ \A x \in 1 .. 2 : text[3 * p + x] \in Symbols
           /\ data' \in Seq(Bytes) /\ Len(data') = 2 * p + 1
           /\ \A k \in 1 .. 2 * p : data'[k] = data[k]
           /\ data'[2 * p + 1] = DoubleValue(text, 3 * p)
           /\ Stands(data', Len(data'), text, at', at' = Len(text))
<1> DEFINE v == DoubleValue(text, at)
<1>1. /\ data \in Seq(Bytes) /\ at \in 0 .. Len(text)
      /\ Stands(data, Len(data), text, at, at = Len(text))
      /\ at + 2 = Len(text) /\ data' = Append(data, v) /\ at' = at + 2 /\ LastFits(v)
      /\ \A x \in 1 .. 2 : text[at + x] \in Symbols
  BY DecodeFacts DEF DecodeLast, InAlphabet
<1>2. PICK p \in Nat : Groups(data, text, p) /\ at = 3 * p /\ Len(data) = 2 * p
  <2>1. at # Len(text)
    BY <1>1
  <2> QED BY <1>1, <2>1 DEF Stands
<1>3. v \in Bytes
  <2>1. at \in Nat /\ text[at + 1] \in Symbols /\ text[at + 2] \in Symbols
    BY <1>1
  <2>2. v \in Nat
    BY <2>1, ValuesNat
  <2> QED BY <1>1, <2>2, RadixAssumption DEF LastFits, Bytes
<1> HIDE DEF v
<1>4. /\ data' \in Seq(Bytes) /\ Len(data') = 2 * p + 1
      /\ \A k \in 1 .. 2 * p : data'[k] = data[k]
      /\ data'[2 * p + 1] = v
  BY <1>1, <1>2, <1>3
<1>5. v = DoubleValue(text, 3 * p) /\ \A x \in 1 .. 2 : text[3 * p + x] \in Symbols
  BY <1>1, <1>2 DEF v
<1>6. Groups(data', text, p)
  BY <1>2, <1>4, GroupsMore
<1>7. Stands(data', Len(data'), text, at', at' = Len(text))
  <2>1. /\ p \in 0 .. Len(data') /\ Len(data') = 2 * p + 1 /\ at' = 3 * p + 2
        /\ at' = Len(text) /\ data'[Len(data')] = DoubleValue(text, 3 * p)
    BY <1>1, <1>2, <1>4, <1>5
  <2> QED BY <2>1, <1>6 DEF Stands
<1> QED BY <1>1, <1>2, <1>4, <1>5, <1>7

LEMMA DecodeLastStep ==
    ASSUME CarrierIInv, DecodeLast PROVE CarrierIInv'
<1>1. PICK p \in Nat :
           /\ at = 3 * p /\ Len(data) = 2 * p /\ Len(text) = 3 * p + 2
           /\ \A x \in 1 .. 2 : text[3 * p + x] \in Symbols
           /\ data' \in Seq(Bytes) /\ Len(data') = 2 * p + 1
           /\ \A k \in 1 .. 2 * p : data'[k] = data[k]
           /\ data'[2 * p + 1] = DoubleValue(text, 3 * p)
           /\ Stands(data', Len(data'), text, at', at' = Len(text))
  BY DecodeLastWrites
<1>2. /\ pc = "decode" /\ pc' = "decode" /\ text' = text /\ origin' = origin /\ given' = given
      /\ at + 2 = Len(text) /\ at' = at + 2
  BY DEF DecodeLast
<1>3. data \in Seq(Bytes) /\ text \in Seq(Symbols \cup {Foreign}) /\ at \in 0 .. Len(text)
  BY <1>2, DecodeFacts
<1>4. CarrierTypeOK'
  BY <1>1, <1>2, <1>3 DEF CarrierIInv, CarrierTypeOK
<1>5. ASSUME origin = "text" PROVE Decoding'
  <2>1. text = given /\ \A k \in 1 .. at : text[k] \in Symbols
    BY <1>2, <1>5 DEF CarrierIInv, Decoding
  <2>2. ASSUME NEW k \in 1 .. at + 2 PROVE text[k] \in Symbols
    <3>1. CASE k <= at
      BY <1>3, <2>1, <3>1
    <3>2. CASE k > at
      <4>1. k - 3 * p \in 1 .. 2 /\ k = 3 * p + (k - 3 * p)
        BY <1>1, <1>3, <3>2
      <4> QED BY <1>1, <4>1
    <3> QED BY <1>3, <3>1, <3>2
  <2> QED BY <1>1, <1>2, <2>1, <2>2 DEF Decoding
<1>6. ASSUME origin = "frame" PROVE Returning'
  <2>1. /\ given \in Seq(Bytes) /\ text \in Seq(Symbols) /\ Begins(data, given)
        /\ Stands(given, Len(given), text, Len(text), TRUE)
    BY <1>2, <1>6 DEF CarrierIInv, Returning
  <2>2. PICK n \in Nat :
           \/ Len(given) = 2 * n /\ Len(text) = 3 * n
           \/ /\ Len(given) = 2 * n + 1 /\ Len(text) = 3 * n + 2
              /\ given[Len(given)] = DoubleValue(text, 3 * n)
    BY <2>1 DEF Stands
  <2>3. p = n /\ Len(given) = 2 * p + 1 /\ given[2 * p + 1] = DoubleValue(text, 3 * p)
    BY <1>1, <2>2
  <2>4. Begins(data', given)
    <3>1. \A x \in 1 .. 1 : data'[2 * p + x] = given[2 * p + x]
      BY <1>1, <2>3
    <3>2. /\ data \in Seq(Bytes) /\ data' \in Seq(Bytes) /\ given \in Seq(Bytes)
          /\ Begins(data, given) /\ Len(data') = Len(data) + 1 /\ Len(data) + 1 <= Len(given)
          /\ \A k \in 1 .. Len(data) : data'[k] = data[k]
          /\ \A x \in 1 .. 1 : data'[Len(data) + x] = given[Len(data) + x]
      BY <1>1, <1>3, <2>1, <2>3, <3>1
    <3> QED BY ONLY <3>2, BeginsMore
  <2> QED BY <1>1, <1>2, <2>1, <2>4 DEF Returning
<1>7. Encoding' /\ Repeating'
  BY <1>2 DEF Encoding, Repeating
<1> QED BY <1>2, <1>4, <1>5, <1>6, <1>7 DEF CarrierIInv, Decoding, Returning

\* The text of a frame is never refused: its length, its symbols and the value of
\* each of its groups are those of bytes.
LEMMA FrameAccepted ==
    ASSUME CarrierIInv, origin = "frame" PROVE ~Refuse
<1> SUFFICES ASSUME Refuse PROVE FALSE
  OBVIOUS
<1>1. pc = "decode"
  BY DEF Refuse
<1>2. /\ given \in Seq(Bytes) /\ text \in Seq(Symbols) /\ at \in 0 .. Len(text)
      /\ Stands(given, Len(given), text, Len(text), TRUE)
      /\ Stands(data, Len(data), text, at, at = Len(text))
  BY <1>1, DecodeFacts DEF CarrierIInv, Returning
<1>3. PICK n \in Nat : /\ Groups(given, text, n)
                       /\ \/ Len(given) = 2 * n /\ Len(text) = 3 * n
                          \/ /\ Len(given) = 2 * n + 1 /\ Len(text) = 3 * n + 2
                             /\ given[Len(given)] = DoubleValue(text, 3 * n)
  BY <1>2 DEF Stands
<1>4. RightLength(Len(text))
  BY <1>3 DEF RightLength
<1>5. ~(at + 3 <= Len(text) /\ ~(InAlphabet(3) /\ PairFits(TripleValue(text, at))))
  <2> SUFFICES ASSUME at + 3 <= Len(text) PROVE InAlphabet(3) /\ PairFits(TripleValue(text, at))
    OBVIOUS
  <2>1. PICK p \in Nat : at = 3 * p
    <3>1. at # Len(text)
      BY <1>2
    <3>2. Stands(data, Len(data), text, at, at = Len(text))
      BY <1>2
    <3> QED BY ONLY <3>1, <3>2 DEF Stands
  <2>2. p \in 0 .. n - 1 /\ 2 * p + 2 <= Len(given)
    BY <1>3, <2>1
  <2>3. given[2 * p + 1] \in Bytes /\ given[2 * p + 2] \in Bytes
    BY <1>2, <2>2
  <2>4. TripleValue(text, at) \in 0 .. Byte * Byte - 1
    <3>1. TripleValue(text, at) = PairValue(given, 2 * p)
      BY <1>3, <2>1, <2>2 DEF Groups
    <3> QED BY <2>3, <3>1, PairBound DEF PairValue
  <2>5. PairFits(TripleValue(text, at))
    BY <2>4, RadixAssumption DEF PairFits
  <2>6. InAlphabet(3)
    BY <1>2 DEF InAlphabet
  <2> QED BY <2>5, <2>6
<1>6. ~(at + 2 = Len(text) /\ ~(InAlphabet(2) /\ LastFits(DoubleValue(text, at))))
  <2> SUFFICES ASSUME at + 2 = Len(text) PROVE InAlphabet(2) /\ LastFits(DoubleValue(text, at))
    OBVIOUS
  <2>1. PICK p \in Nat : at = 3 * p
    <3>1. at # Len(text)
      BY <1>2
    <3>2. Stands(data, Len(data), text, at, at = Len(text))
      BY <1>2
    <3> QED BY ONLY <3>1, <3>2 DEF Stands
  <2>2. p = n /\ Len(given) = 2 * n + 1 /\ given[Len(given)] = DoubleValue(text, at)
    BY <1>3, <2>1
  <2>3. DoubleValue(text, at) \in Bytes
    BY <1>2, <2>2
  <2>4. LastFits(DoubleValue(text, at))
    BY <2>3, RadixAssumption DEF LastFits, Bytes
  <2>5. InAlphabet(2)
    BY <1>2 DEF InAlphabet
  <2> QED BY <2>4, <2>5
<1> QED BY <1>4, <1>5, <1>6 DEF Refuse

LEMMA RefuseStep ==
    ASSUME CarrierIInv, Refuse PROVE CarrierIInv'
<1>1. /\ pc = "decode" /\ pc' = "refused" /\ UNCHANGED <<data, text, at, origin, given>>
      /\ origin = "text"
  BY FrameAccepted DEF Refuse, CarrierIInv, CarrierTypeOK
<1>2. CarrierTypeOK'
  BY <1>1 DEF CarrierIInv, CarrierTypeOK
<1>3. Decoding'
  BY <1>1 DEF CarrierIInv, Decoding
<1> QED BY <1>1, <1>2, <1>3 DEF CarrierIInv, Encoding, Returning, Repeating

\* A frame has arrived; the bytes of a text, all of whose characters are symbols,
\* are encoded again.
LEMMA DecodeEndStep ==
    ASSUME CarrierIInv, DecodeEnd PROVE CarrierIInv'
<1>1. /\ data \in Seq(Bytes) /\ text \in Seq(Symbols \cup {Foreign})
      /\ at = Len(text) /\ pc = "decode"
      /\ Stands(data, Len(data), text, Len(text), TRUE)
      /\ data' = data /\ origin' = origin /\ given' = given
  BY DecodeFacts DEF DecodeEnd, Stands
<1>2. given \in (IF origin = "frame" THEN Frames ELSE Texts)
  BY DEF CarrierIInv, CarrierTypeOK
<1>3. CASE origin = "text"
  <2>1. pc' = "encode" /\ at' = 0 /\ text' = <<>>
    BY <1>1, <1>3 DEF DecodeEnd
  <2>2. text = given /\ \A k \in 1 .. Len(text) : text[k] \in Symbols
    BY <1>1, <1>3 DEF CarrierIInv, Decoding
  <2>3. given \in Seq(Symbols)
    BY <1>1, <2>2
  <2>4. text' \in Seq(Symbols) /\ text' \in Seq(Symbols \cup {Foreign}) /\ Len(text') = 0
    BY <2>1
  <2>5. Stands(data, 0, <<>>, 0, 0 = Len(data))
    <3>1. 0 \in 0 .. 0 /\ 0 = 2 * 0 /\ 0 = 3 * 0 /\ Groups(data, <<>>, 0)
      BY DEF Groups
    <3> QED BY <3>1 DEF Stands
  <2>6. Begins(<<>>, given)
    BY <2>3 DEF Begins
  <2>7. 0 <= Len(data)
    BY <1>1
  <2>8. CarrierTypeOK'
    BY <1>1, <1>2, <1>3, <2>1, <2>4, <2>7 DEF CarrierTypeOK
  <2>9. Repeating'
    BY <1>1, <1>3, <2>1, <2>2, <2>3, <2>4, <2>5, <2>6, <2>7 DEF Repeating
  <2> QED BY <1>1, <1>3, <2>1, <2>8, <2>9 DEF CarrierIInv, Encoding, Decoding, Returning
<1>4. CASE origin = "frame"
  <2>1. pc' = "done" /\ at' = at /\ text' = text
    BY <1>1, <1>4 DEF DecodeEnd
  <2>2. CarrierTypeOK'
    BY <1>1, <1>2, <1>4, <2>1 DEF CarrierIInv, CarrierTypeOK
  <2>3. Returning'
    BY <1>1, <1>4, <2>1 DEF CarrierIInv, Returning
  <2> QED BY <1>1, <1>4, <2>1, <2>2, <2>3 DEF CarrierIInv, Encoding, Decoding, Repeating
<1> QED BY <1>3, <1>4 DEF CarrierIInv, CarrierTypeOK

-----------------------------------------------------------------------------
(* The carrier *)

LEMMA CarrierInitOK == CarrierInit => CarrierIInv
<1> SUFFICES ASSUME CarrierInit PROVE CarrierIInv
  OBVIOUS
<1>1. \A d, t : Stands(d, 0, t, 0, FALSE) /\ Stands(d, 0, t, 0, TRUE)
  <2>1. \A d, t : Groups(d, t, 0)
    BY DEF Groups
  <2>2. 0 \in 0 .. 0 /\ 0 = 2 * 0 /\ 0 = 3 * 0
    OBVIOUS
  <2> QED BY <2>1, <2>2 DEF Stands
<1>2. CASE pc = "encode" /\ origin = "frame" /\ data \in Frames /\ text = <<>> /\ given = data
  <2>1. data \in Seq(Bytes) /\ text \in Seq(Symbols) /\ Len(text) = 0
        /\ text \in Seq(Symbols \cup {Foreign}) /\ at = 0 /\ at <= Len(data)
    BY <1>2, InputsAssumption DEF CarrierInit
  <2>2. Stands(data, at, text, Len(text), at = Len(data))
    BY <1>1, <2>1
  <2> QED BY <1>2, <2>1, <2>2
          DEF CarrierIInv, CarrierTypeOK, Encoding, Returning, Decoding, Repeating
<1>3. CASE pc = "decode" /\ origin = "text" /\ text \in Texts /\ data = <<>> /\ given = text
  <2>1. text \in Seq(Symbols \cup {Foreign}) /\ data \in Seq(Bytes) /\ Len(data) = 0
        /\ at = 0 /\ at <= Len(text)
    BY <1>3, InputsAssumption DEF CarrierInit
  <2>2. Stands(data, Len(data), text, at, at = Len(text))
    BY <1>1, <2>1
  <2> QED BY <1>3, <2>1, <2>2
          DEF CarrierIInv, CarrierTypeOK, Encoding, Returning, Decoding, Repeating
<1> QED BY <1>2, <1>3 DEF CarrierInit

LEMMA CarrierStutterOK == CarrierIInv /\ UNCHANGED carrierVars => CarrierIInv'
  BY DEF carrierVars, CarrierIInv, CarrierTypeOK, Encoding, Returning, Decoding, Repeating

\* In a run of the base45 carrier what is written stands, group by group, for what
\* was read, and the second loop goes over the groups that the first one wrote.
THEOREM CarrierInvariance == CarrierSpec => []CarrierIInv
<1>1. CarrierInit => CarrierIInv
  BY CarrierInitOK
<1>2. CarrierIInv /\ [CarrierNext]_carrierVars => CarrierIInv'
  BY EncodePairStep, EncodeLastStep, EncodeEndStep, DecodeTripleStep, DecodeLastStep,
     RefuseStep, DecodeEndStep, CarrierStutterOK DEF CarrierNext
<1> QED BY <1>1, <1>2, PTL DEF CarrierSpec

\* Every variable of the carrier keeps its type.
THEOREM CarrierTypeCorrect == CarrierSpec => []CarrierTypeOK
<1>1. CarrierIInv => CarrierTypeOK
  BY DEF CarrierIInv
<1> QED BY <1>1, CarrierInvariance, PTL

\* The number of groups decides both lengths.
LEMMA SameLength ==
    ASSUME NEW d, NEW e, NEW t, NEW u, NEW k \in Nat, NEW m \in Nat, NEW n \in Nat,
           Stands(d, k, t, n, TRUE), Stands(e, m, u, n, TRUE)
    PROVE  k = m
<1>1. PICK p \in Nat : (k = 2 * p /\ n = 3 * p) \/ (k = 2 * p + 1 /\ n = 3 * p + 2)
  BY DEF Stands
<1>2. PICK q \in Nat : (m = 2 * q /\ n = 3 * q) \/ (m = 2 * q + 1 /\ n = 3 * q + 2)
  BY DEF Stands
<1> QED BY <1>1, <1>2

LEMMA SameSymbols ==
    ASSUME NEW d, NEW e, NEW t, NEW u, NEW k \in Nat, NEW m \in Nat, NEW n \in Nat,
           Stands(d, k, t, m, TRUE), Stands(e, k, u, n, TRUE)
    PROVE  m = n
<1>1. PICK p \in Nat : (k = 2 * p /\ m = 3 * p) \/ (k = 2 * p + 1 /\ m = 3 * p + 2)
  BY DEF Stands
<1>2. PICK q \in Nat : (k = 2 * q /\ n = 3 * q) \/ (k = 2 * q + 1 /\ n = 3 * q + 2)
  BY DEF Stands
<1> QED BY <1>1, <1>2

\* base45_decode gives back every frame that base45_encode wrote, and refuses none:
\* for frames of any length, and any alphabet large enough.
THEOREM FramesReturn == CarrierSpec => []RoundTrip
<1>1. CarrierIInv => RoundTrip
  <2> SUFFICES ASSUME CarrierIInv, origin = "frame"
               PROVE  pc # "refused" /\ (pc = "done" => data = given)
    BY DEF RoundTrip
  <2>1. pc # "refused"
    BY DEF CarrierIInv, Returning
  <2>2. ASSUME pc = "done" PROVE data = given
    <3>1. /\ given \in Seq(Bytes) /\ data \in Seq(Bytes) /\ Begins(data, given)
          /\ text \in Seq(Symbols) /\ Stands(given, Len(given), text, Len(text), TRUE)
          /\ Stands(data, Len(data), text, Len(text), TRUE)
      BY <2>2 DEF CarrierIInv, CarrierTypeOK, Returning, Stands
    <3>2. Len(data) = Len(given)
      <4>1. Len(given) \in Nat /\ Len(data) \in Nat /\ Len(text) \in Nat
        BY <3>1
      <4> QED BY <3>1, <4>1, SameLength
    <3> QED BY <3>1, <3>2, BeginsWhole
  <2> QED BY <2>1, <2>2
<1> QED BY <1>1, CarrierInvariance, PTL

\* Of a text that base45_decode takes for a frame, base45_encode makes that very text:
\* no two texts stand for one frame.
THEOREM TextsAreCanonical == CarrierSpec => []Canonical
<1>1. CarrierIInv => Canonical
  <2> SUFFICES ASSUME CarrierIInv, origin = "text", pc = "done" PROVE text = given
    BY DEF Canonical
  <2>1. /\ given \in Seq(Symbols) /\ text \in Seq(Symbols) /\ data \in Seq(Bytes)
        /\ Begins(text, given)
        /\ Stands(data, Len(data), given, Len(given), TRUE)
        /\ Stands(data, Len(data), text, Len(text), TRUE)
    BY DEF CarrierIInv, CarrierTypeOK, Repeating, Stands
  <2>2. Len(text) = Len(given)
    <3>1. Len(given) \in Nat /\ Len(data) \in Nat /\ Len(text) \in Nat
      BY <2>1
    <3> QED BY <2>1, <3>1, SameSymbols
  <2> QED BY <2>1, <2>2, BeginsWhole
<1> QED BY <1>1, CarrierInvariance, PTL
=============================================================================
