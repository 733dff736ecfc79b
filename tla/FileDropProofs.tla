--------------------------- MODULE FileDropProofs ---------------------------
(***************************************************************************)
(* The file drops of flock, for any transfers, containers, passwords, block  *)
(* sizes, crashes and failing writes, and frames in any order, any number of *)
(* times: NeverMixed, LandsOnce and AloneLands.                               *)
(***************************************************************************)
EXTENDS FileDrop, TLAPS

\* A payload that is not empty fills a block.
LEMMA DivPositive ==
    ASSUME NEW k \in Nat \ {0}, NEW s \in Nat \ {0}
    PROVE  (s + k - 1) \div k \in Nat \ {0}
  OBVIOUS

\* A decoder whose blocks are replaced, and a drop whose next file has its turn.
LEMMA GotReplaced ==
    ASSUME NEW s, NEW n, NEW e, NEW g, NEW h,
           NEW r, r = [session |-> s, total |-> n, enc |-> e, got |-> g]
    PROVE  [r EXCEPT !.got = h] = [session |-> s, total |-> n, enc |-> e, got |-> h]
  OBVIOUS

LEMMA AtForward ==
    ASSUME NEW T, NEW P, NEW x \in [of : T, payload : P, at : Nat \ {0}]
    PROVE  [x EXCEPT !.at = x.at + 1] \in [of : T, payload : P, at : Nat \ {0}]
  OBVIOUS

USE ConstantsAssumption

-----------------------------------------------------------------------------
(* Frames and decoders *)

\* A transfer has a block.
LEMMA BlocksExist ==
    ASSUME NEW t \in Transfers
    PROVE  NBlocks(Size[t]) \in Nat \ {0} /\ 0 \in BlocksOf(t)
<1>1. NBlocks(Size[t]) \in Nat \ {0}
  <2>1. Size[t] \in Nat /\ K \in Nat \ {0}
    OBVIOUS
  <2>2. CASE Size[t] = 0
    BY <2>2 DEF NBlocks
  <2>3. CASE Size[t] # 0
    <3>1. (Size[t] + K - 1) \div K \in Nat \ {0}
      BY <2>1, <2>3, DivPositive
    <3> QED BY <2>3, <3>1 DEF NBlocks
  <2> QED BY <2>2, <2>3
<1> QED BY <1>1 DEF BlocksOf

\* A frame says which transfer it is of and carries one of its blocks.
LEMMA FrameFacts ==
    ASSUME NEW t \in Transfers, NEW i \in Nat
    PROVE  /\ Frame(t, i).session = Session[t] /\ Frame(t, i).total = Size[t]
           /\ Frame(t, i).enc = Encrypted(t) /\ Frame(t, i).of = t
           /\ Frame(t, i).block \in BlocksOf(t)
<1>1. \A n \in Nat \ {0} : i % n \in 0 .. n - 1
  OBVIOUS
<1>2. BlockOf(NBlocks(Size[t]), i) \in BlocksOf(t)
  BY <1>1, BlocksExist DEF BlockOf, BlocksOf
<1> QED BY <1>2 DEF Frame

\* Some blocks of one transfer are a payload.
LEMMA PartTyped ==
    ASSUME NEW t \in Transfers, NEW B \in SUBSET BlocksOf(t)
    PROVE  /\ [b \in B |-> t] \in Payload
           /\ Part(t, B) \in [session : Range(Session), total : Range(Size), enc : BOOLEAN,
                              got : Payload]
<1>1. [b \in B |-> t] \in [B -> Transfers]
  OBVIOUS
<1>2. [b \in B |-> t] \in Payload
  BY <1>1 DEF Payload
<1>3. Session[t] \in Range(Session) /\ Size[t] \in Range(Size)
  BY DEF Range
<1> QED BY <1>2, <1>3 DEF Part, Encrypted

\* A transfer is known by its session and its length.
LEMMA PartOf ==
    ASSUME NEW t \in Transfers, NEW u \in Transfers, NEW B, NEW C
    PROVE  /\ Part(t, B).session = Session[t] /\ Part(t, B).total = Size[t]
           /\ Part(t, B).session = Session[u] /\ Part(t, B).total = Size[u] => t = u
           /\ Part(t, B) = Part(t, C) => B = C
<1>1. Part(t, B).session = Session[t] /\ Part(t, B).total = Size[t]
  BY DEF Part
<1>2. DOMAIN Part(t, B).got = B /\ DOMAIN Part(t, C).got = C
  BY DEF Part
<1> QED BY <1>1, <1>2, IdentityAssumption

\* A frame of the transfer adds its block; a new decoder has none.
LEMMA IngestPart ==
    ASSUME NEW t \in Transfers, NEW C, NEW f, f.of = t
    PROVE  Ingest(Part(t, C), f) = Part(t, C \cup {f.block})
<1> DEFINE g == [b \in C |-> t]
           D == C \cup {f.block}
<1>1. [b \in DOMAIN g \cup {f.block} |-> IF b \in DOMAIN g THEN g[b] ELSE f.of] = [b \in D |-> t]
  OBVIOUS
<1>2. Part(t, C) = [session |-> Session[t], total |-> Size[t], enc |-> Encrypted(t), got |-> g]
  BY DEF Part
<1>3. Part(t, D) = [session |-> Session[t], total |-> Size[t], enc |-> Encrypted(t),
                    got |-> [b \in D |-> t]]
  BY DEF Part
<1> DEFINE h == [b \in D |-> t]
<1>4. Ingest(Part(t, C), f) = [Part(t, C) EXCEPT !.got = h]
  <2>1. Part(t, C).got = g
    BY <1>2
  <2> HIDE DEF g
  <2> QED BY <1>1, <2>1 DEF Ingest
<1>5. [Part(t, C) EXCEPT !.got = h] = Part(t, D)
  <2> HIDE DEF g, h, D
  <2>1. Part(t, D) = [session |-> Session[t], total |-> Size[t], enc |-> Encrypted(t), got |-> h]
    BY <1>3 DEF h
  <2> QED BY <1>2, <2>1, GotReplaced
<1> QED BY <1>4, <1>5

LEMMA NewPart ==
    ASSUME NEW t \in Transfers, NEW f, f.session = Session[t], f.total = Size[t],
           f.enc = Encrypted(t)
    PROVE  NewDecoder(f) = Part(t, {})
<1>1. <<>> = [b \in {} |-> t]
  OBVIOUS
<1> QED BY <1>1 DEF NewDecoder, Part

\* A frame adds its block to what the decoder of its transfer has, or to nothing.
LEMMA AddPart ==
    ASSUME RxOK, NEW t \in Transfers, NEW i \in Nat
    PROVE  \E B \in SUBSET BlocksOf(t) :
               /\ Add(rx, Frame(t, i)) = Part(t, B) /\ Frame(t, i).block \in B
               /\ \A C : Receives(t, C) => C \subseteq B
<1> PICK f : f = Frame(t, i)
  OBVIOUS
<1>1. /\ f.session = Session[t] /\ f.total = Size[t] /\ f.enc = Encrypted(t)
      /\ f.of = t /\ f.block \in BlocksOf(t)
  BY FrameFacts
<1>2. CASE HasDecoder(rx, f)
  <2>0. PICK u \in Transfers : \E C \in SUBSET BlocksOf(u) : Receives(u, C)
    BY <1>2 DEF HasDecoder, RxOK
  <2>1. PICK C \in SUBSET BlocksOf(u) : Receives(u, C)
    BY <2>0
  <2>2. u = t /\ rx = Part(t, C)
    BY <1>1, <1>2, <2>1, PartOf DEF HasDecoder, Receives
  <2>3. Add(rx, f) = Part(t, C \cup {f.block})
    BY <1>1, <1>2, <2>2, IngestPart DEF Add
  <2>4. ASSUME NEW D, Receives(t, D) PROVE D \subseteq C
    <3>1. Part(t, D) = Part(t, C)
      BY <2>2, <2>4 DEF Receives
    <3>2. (DOMAIN Part(t, D).got) = D /\ (DOMAIN Part(t, C).got) = C
      BY DEF Part
    <3> QED BY <3>1, <3>2
  <2> QED BY <1>1, <2>2, <2>3, <2>4
<1>3. CASE ~HasDecoder(rx, f)
  <2>1. Add(rx, f) = Part(t, {f.block})
    <3>1. Add(rx, f) = Ingest(Part(t, {}), f)
      BY <1>1, <1>3, NewPart DEF Add
    <3> QED BY <1>1, <3>1, IngestPart
  <2>2. \A D : ~Receives(t, D)
    BY <1>1, <1>3, PartOf, DistinctAssumption DEF HasDecoder, Receives
  <2> QED BY <1>1, <2>1, <2>2
<1> QED BY <1>2, <1>3

\* A decoder is complete when it has all blocks of its transfer.
LEMMA CompletePart ==
    ASSUME NEW t \in Transfers, NEW B \in SUBSET BlocksOf(t)
    PROVE  Complete(Part(t, B)) <=> B = BlocksOf(t)
  BY DEF Complete, Part, BlocksOf

\* The whole of a transfer in clear, or of this machine's password, opens.
LEMMA OpensWhole ==
    ASSUME NEW t \in Transfers, Password[t] \in {None, Key}
    PROVE  Opens(Part(t, BlocksOf(t)))
<1>1. Range(Part(t, BlocksOf(t)).got) = {t}
  BY BlocksExist DEF Part, Range
<1> QED BY <1>1 DEF Opens, Encrypted, Part

\* A frame that is not ignored is of a session not saved yet.
LEMMA Fresh ==
    ASSUME RxOK, NEW t \in Transfers, NEW i \in Nat, ~Ignored(Frame(t, i))
    PROVE  Session[t] \notin saved
<1>1. CASE Receiving(Frame(t, i))
  <2>0. PICK u \in Transfers : \E C \in SUBSET BlocksOf(u) : Receives(u, C)
    BY <1>1 DEF Receiving, RxOK
  <2>1. PICK C \in SUBSET BlocksOf(u) : Receives(u, C)
    BY <2>0
  <2>2. Session[u] = Session[t]
    BY <1>1, <2>1, FrameFacts, PartOf DEF Receiving, Receives
  <2> QED BY <2>1, <2>2 DEF Receives
<1>2. CASE ~Receiving(Frame(t, i))
  BY <1>2, FrameFacts DEF Ignored
<1> QED BY <1>1, <1>2

-----------------------------------------------------------------------------
(* Every step keeps the invariant *)

\* The machine starts in a state of the invariant.
LEMMA InitIInv == Init => IInv
<1> SUFFICES ASSUME Init PROVE IInv
  OBVIOUS
<1>1. TypeOK
  <2>1. \A t \in Transfers : Frames(t) \in Nat
    BY BlocksExist DEF Frames
  <2> QED BY <2>1 DEF Init, TypeOK, NoStreak
<1>2. RxOK /\ FileOK
  BY DEF Init, RxOK, FileOK
<1>3. NeverMixed
  BY DistinctAssumption DEF Init, NeverMixed
<1>4. LandedOK
  BY DEF Init, LandedOK
<1>5. StreakOK
  BY DEF Init, StreakOK, NoStreak
<1> QED BY <1>1, <1>2, <1>3, <1>4, <1>5 DEF IInv

\* A sender sends: the machine has nothing of it yet.
LEMMA SendIInv == ASSUME IInv, NEW t \in Transfers, Send(t) PROVE IInv'
<1> USE DEF IInv, Send, rxVars, diskVars
<1>1. TypeOK'
  <2>1. Frames(t) \in Nat
    BY BlocksExist DEF Frames
  <2> QED BY <2>1 DEF TypeOK
<1>2. RxOK' /\ FileOK' /\ NeverMixed' /\ LandedOK' /\ StreakOK'
  BY DEF RxOK, Receives, FileOK, NeverMixed, Dest, LandedOK, StreakOK, Done
<1> QED BY <1>1, <1>2

\* A frame that does not complete its transfer adds its block to the decoder.
LEMMA FramePartialIInv ==
    ASSUME IInv, NEW t \in Transfers, NEW i \in Nat, FramePartial(Frame(t, i)),
           UNCHANGED <<sent, faults>>
    PROVE  IInv'
<1> USE DEF IInv
<1>1. /\ ~Ignored(Frame(t, i)) /\ ~Complete(Add(rx, Frame(t, i)))
      /\ rx' = Add(rx, Frame(t, i))
      /\ UNCHANGED <<saved, disk, pc, file, landed, sent, faults>>
  BY DEF FramePartial, diskVars
<1>2. PICK B \in SUBSET BlocksOf(t) :
          /\ Add(rx, Frame(t, i)) = Part(t, B) /\ Frame(t, i).block \in B
          /\ \A C : Receives(t, C) => C \subseteq B
  BY AddPart
<1>3. Receives(t, B)'
  BY <1>1, <1>2, CompletePart, Fresh DEF Receives
<1>4. /\ streak'.of = t /\ streak'.blocks \in SUBSET Nat
      /\ streak' \in [of : Transfers \cup {None}, blocks : SUBSET Nat]
  BY FrameFacts DEF FramePartial, Follow, TypeOK, BlocksOf
<1>5. TypeOK'
  <2>1. rx' \in [session : Range(Session), total : Range(Size), enc : BOOLEAN, got : Payload]
    BY <1>1, <1>2, PartTyped
  <2> QED BY <1>1, <1>4, <2>1 DEF TypeOK
<1>6. RxOK'
  BY <1>3 DEF RxOK
<1>7. FileOK' /\ NeverMixed' /\ LandedOK'
  BY <1>1 DEF FileOK, NeverMixed, Dest, LandedOK
<1>8. StreakOK'
  <2>1. CASE streak.of = t
    <3>1. streak'.blocks = streak.blocks \cup {Frame(t, i).block}
      BY <2>1, FrameFacts DEF FramePartial, Follow
    <3>2. ~Done(t)
      BY <1>1, Fresh DEF Done
    <3>3. streak.of = None \/ streak.blocks \subseteq B
      BY <1>2, <2>1, <3>2 DEF StreakOK
    <3> QED BY <1>2, <1>3, <1>4, <2>1, <3>1, <3>3 DEF StreakOK
  <2>2. CASE streak.of # t
    <3>1. streak'.blocks = {Frame(t, i).block}
      BY <2>2, FrameFacts DEF FramePartial, Follow
    <3> QED BY <1>2, <1>3, <1>4, <3>1 DEF StreakOK
  <2> QED BY <2>1, <2>2
<1> QED BY <1>5, <1>6, <1>7, <1>8

\* The frame that completes its transfer: it is saved, and written if it opens.
LEMMA FrameLastIInv ==
    ASSUME IInv, NEW t \in Transfers, NEW i \in Nat, FrameLast(Frame(t, i)),
           pc = "idle", UNCHANGED <<sent, faults>>
    PROVE  IInv'
<1> USE DEF IInv
<1>1. /\ ~Ignored(Frame(t, i)) /\ Complete(Add(rx, Frame(t, i)))
      /\ saved' = saved \cup {Session[t]} /\ rx' = None
      /\ UNCHANGED <<disk, landed, sent, faults>>
  BY FrameFacts DEF FrameLast
<1>2. Add(rx, Frame(t, i)) = Part(t, BlocksOf(t)) /\ Add(rx, Frame(t, i)).got = Whole(t)
  <2>1. PICK B \in SUBSET BlocksOf(t) : Add(rx, Frame(t, i)) = Part(t, B)
    BY AddPart
  <2>2. B = BlocksOf(t)
    BY <1>1, <2>1, CompletePart
  <2> QED BY <2>1, <2>2 DEF Part, Whole
<1>3. Session[t] \notin saved /\ landed[t] = <<>>
  BY <1>1, Fresh DEF LandedOK
<1>4. \/ pc' = "open" /\ file' = [of |-> t, payload |-> Whole(t), at |-> 1]
      \/ pc' = "idle" /\ file' = file /\ ~Opens(Part(t, BlocksOf(t)))
  BY <1>2, FrameFacts DEF FrameLast
<1>5. /\ streak'.of = t
      /\ streak' \in [of : Transfers \cup {None}, blocks : SUBSET Nat]
  BY FrameFacts DEF FrameLast, Follow, TypeOK, BlocksOf
<1>6. TypeOK'
  <2>1. file' \in {NoFile} \cup [of : Transfers, payload : Payload, at : Nat \ {0}]
    <3>1. Whole(t) \in Payload
      BY PartTyped DEF Whole
    <3> QED BY <1>4, <3>1 DEF TypeOK
  <2>2. pc' = "idle" <=> file' = NoFile
    BY <1>4 DEF TypeOK, NoFile
  <2>3. saved' \subseteq Range(Session)
    BY <1>1 DEF TypeOK, Range
  <2> QED BY <1>1, <1>4, <1>5, <2>1, <2>2, <2>3 DEF TypeOK
<1>7. RxOK'
  BY <1>1 DEF RxOK
<1>8. FileOK'
  <2>1. Len(Files[t]) \in Nat \ {0}
    OBVIOUS
  <2> QED BY <1>1, <1>4, <2>1 DEF FileOK
<1>9. NeverMixed'
  BY <1>1 DEF NeverMixed
<1>10. LandedOK'
  BY <1>1, <1>3, <1>4 DEF LandedOK
<1>11. StreakOK'
  <2>1. Done(t)'
    BY <1>1, <1>4, OpensWhole DEF Done
  <2> QED BY <1>5, <2>1 DEF StreakOK
<1> QED BY <1>6, <1>7, <1>8, <1>9, <1>10, <1>11

\* A file is opened for writing: it is torn until it is written.
LEMMA OpenIInv == ASSUME IInv, OpenDest PROVE IInv'
<1> USE DEF IInv, OpenDest, rxVars
<1>1. file \in [of : Transfers, payload : Payload, at : Nat \ {0}] /\ Dest \in Names
  BY DEF TypeOK, FileOK, Dest
<1>2. TypeOK'
  BY <1>1 DEF TypeOK
<1>3. RxOK' /\ FileOK' /\ LandedOK' /\ StreakOK'
  BY DEF RxOK, Receives, FileOK, LandedOK, StreakOK, Done
<1>4. NeverMixed'
  BY <1>1 DEF NeverMixed, TypeOK, Dest
<1> QED BY <1>2, <1>3, <1>4

\* The file is written, and the next one of the container is its turn.
LEMMA WriteIInv == ASSUME IInv, WriteDest PROVE IInv'
<1> USE DEF IInv
<1>1. /\ pc = "write" /\ disk' = [disk EXCEPT ![Dest] = file.payload]
      /\ landed' = [landed EXCEPT ![file.of] = Append(@, file.at)]
      /\ UNCHANGED <<sent, rx, saved, streak, faults>>
  BY DEF WriteDest, rxVars
<1>2. /\ file \in [of : Transfers, payload : Payload, at : Nat \ {0}] /\ Dest \in Names
      /\ file.of \in Transfers /\ file.at \in 1 .. Len(Files[file.of])
      /\ file.payload = Whole(file.of) /\ Dest \in Range(Files[file.of])
      /\ Session[file.of] \in saved
  BY <1>1 DEF TypeOK, FileOK, Dest, Range
<1>3. \/ /\ file.at = Len(Files[file.of]) /\ pc' = "idle" /\ file' = NoFile
      \/ /\ file.at # Len(Files[file.of]) /\ pc' = "open"
         /\ file' = [file EXCEPT !.at = file.at + 1]
  BY DEF WriteDest, NextFile
<1>4. /\ Len(landed[file.of]) = file.at - 1 /\ landed[file.of] \in Seq(Nat)
      /\ Len(landed'[file.of]) = file.at
      /\ \A j \in DOMAIN landed'[file.of] : landed'[file.of][j] = j
      /\ \A u \in Transfers \ {file.of} : landed'[u] = landed[u]
      /\ landed' \in [Transfers -> Seq(Nat)]
  BY <1>1, <1>2 DEF LandedOK, TypeOK
<1>5. TypeOK'
  <2>1. pc' \in {"idle", "open", "write"} /\ (pc' = "idle" <=> file' = NoFile)
    BY <1>2, <1>3 DEF NoFile
  <2>2. file' \in {NoFile} \cup [of : Transfers, payload : Payload, at : Nat \ {0}]
    <3>1. [file EXCEPT !.at = file.at + 1] \in [of : Transfers, payload : Payload, at : Nat \ {0}]
      BY <1>2, AtForward
    <3> QED BY <1>3, <3>1
  <2>3. disk' \in [Names -> {Missing, Torn} \cup Payload]
    BY <1>1, <1>2 DEF TypeOK
  <2> QED BY <1>1, <1>4, <2>1, <2>2, <2>3 DEF TypeOK
<1>6. RxOK'
  BY <1>1 DEF RxOK, Receives
<1>7. FileOK'
  <2>1. CASE pc' = "idle"
    BY <2>1 DEF FileOK
  <2>2. CASE pc' # "idle"
    <3>1. /\ file.at # Len(Files[file.of])
          /\ file'.of = file.of /\ file'.payload = file.payload /\ file'.at = file.at + 1
      BY <1>2, <1>3, <2>2
    <3>2. Len(Files[file.of]) \in Nat
      BY <1>2
    <3> QED BY <1>1, <1>2, <3>1, <3>2 DEF FileOK
  <2> QED BY <2>1, <2>2
<1>8. NeverMixed'
  BY <1>1, <1>2, DistinctAssumption DEF NeverMixed, TypeOK
<1>9. pc' # "idle" => file'.of = file.of /\ file'.at = file.at + 1
  BY <1>2, <1>3
<1>10. LandedOK'
  <2> SUFFICES ASSUME NEW u \in Transfers
               PROVE  /\ Len(landed'[u]) <= Len(Files[u])
                      /\ \A j \in DOMAIN landed'[u] : landed'[u][j] = j
                      /\ pc' # "idle" /\ file'.of = u => Len(landed'[u]) = file'.at - 1
                      /\ Session[u] \notin saved' => landed'[u] = <<>>
    BY DEF LandedOK
  <2>1. CASE u = file.of
    BY <1>1, <1>2, <1>4, <1>9, <2>1
  <2>2. CASE u # file.of
    BY <1>1, <1>4, <1>9, <2>2 DEF LandedOK
  <2> QED BY <2>1, <2>2
<1>11. StreakOK'
  <2> SUFFICES ASSUME streak.of # None
               PROVE  LET t == streak.of IN
                      \/ Done(t)'
                      \/ \E B \in SUBSET BlocksOf(t) : Receives(t, B)' /\ streak.blocks \subseteq B
    BY <1>1 DEF StreakOK
  <2>1. CASE Done(streak.of)
    <3>1. CASE streak.of = file.of
      BY <1>1, <1>2, <1>3, <1>4, <1>9, <2>1, <3>1 DEF Done
    <3>2. CASE streak.of # file.of
      BY <1>1, <1>4, <2>1, <3>2 DEF Done, TypeOK
    <3> QED BY <3>1, <3>2
  <2>2. CASE ~Done(streak.of)
    BY <1>1, <2>2 DEF StreakOK, Receives
  <2> QED BY <2>1, <2>2
<1> QED BY <1>5, <1>6, <1>7, <1>8, <1>10, <1>11

\* A failure while a file is opened or written: the rest is forgotten.
LEMMA WriteFailsIInv == ASSUME IInv, WriteFails PROVE IInv'
<1> USE DEF IInv, WriteFails, rxVars
<1>1. TypeOK'
  BY DEF TypeOK
<1>2. faults' # 0
  BY DEF TypeOK
<1>3. RxOK' /\ FileOK' /\ LandedOK'
  BY DEF RxOK, Receives, FileOK, LandedOK
<1>5. NeverMixed'
  BY <1>2 DEF NeverMixed, TypeOK
<1>4. StreakOK'
  BY <1>2 DEF StreakOK, Done, Receives
<1> QED BY <1>1, <1>3, <1>4, <1>5

\* The daemon is started again: the files it left are all it has.
LEMMA RestartIInv == ASSUME IInv, Restart PROVE IInv'
<1> USE DEF IInv, Restart
<1>1. TypeOK'
  BY DEF TypeOK, NoStreak
<1>2. faults' # 0
  BY DEF TypeOK
<1>3. RxOK' /\ FileOK' /\ LandedOK' /\ StreakOK'
  BY DEF RxOK, FileOK, LandedOK, StreakOK, NoStreak
<1>4. NeverMixed'
  BY <1>2 DEF NeverMixed, TypeOK
<1> QED BY <1>1, <1>3, <1>4

\* Every step keeps the invariant.
LEMMA NextIInv == IInv /\ [Next]_vars => IInv'
<1> SUFFICES ASSUME IInv, [Next]_vars PROVE IInv'
  OBVIOUS
<1>1. ASSUME NEW t \in Transfers, NEW i \in 0 .. Frames(t) - 1, Deliver(t, i) PROVE IInv'
  <2>1. i \in Nat /\ pc = "idle" /\ UNCHANGED <<sent, faults>>
    BY <1>1 DEF Deliver
  <2>2. CASE FrameIgnored(Frame(t, i))
    BY <2>1, <2>2 DEF FrameIgnored, diskVars, IInv, TypeOK, RxOK, Receives, FileOK, NeverMixed,
       Dest, LandedOK, StreakOK, Done
  <2> QED BY <1>1, <2>1, <2>2, FramePartialIInv, FrameLastIInv DEF Deliver
<1>2. CASE UNCHANGED vars
  BY <1>2 DEF vars, rxVars, diskVars, IInv, TypeOK, RxOK, Receives, FileOK, NeverMixed, Dest,
     LandedOK, StreakOK, Done
<1> QED
  BY <1>1, <1>2, SendIInv, OpenIInv, WriteIInv, WriteFailsIInv, RestartIInv DEF Next

-----------------------------------------------------------------------------
(* Theorems *)

\* What is received, written and saved stays within the invariant.
THEOREM Invariance == Spec => []IInv
<1>1. IInv /\ [Next]_vars => IInv'
  BY NextIInv
<1> QED BY <1>1, InitIInv, PTL DEF Spec

\* Every variable keeps its type.
THEOREM TypeCorrect == Spec => []TypeOK
<1>1. IInv => TypeOK
  BY DEF IInv
<1> QED BY <1>1, Invariance, PTL

\* A file written is the whole of one transfer; a torn one is being written, or
\* a crash or failure left it.
THEOREM WholeFiles == Spec => []NeverMixed
<1>1. IInv => NeverMixed
  BY DEF IInv
<1> QED BY <1>1, Invariance, PTL

\* No file of a transfer lands twice or before the one ahead of it.
THEOREM LandInOrder == Spec => []LandsOnce
<1>1. IInv => LandsOnce
  BY DEF IInv, LandedOK, LandsOnce
<1> QED BY <1>1, Invariance, PTL

\* A transfer whose blocks all arrive with none of another between them is
\* received, and written if it opens and nothing fails.
THEOREM UndisturbedLands == Spec => []AloneLands
<1>1. IInv => AloneLands
  BY DEF IInv, StreakOK, Done, Receives, AloneLands
<1> QED BY <1>1, Invariance, PTL
=============================================================================
