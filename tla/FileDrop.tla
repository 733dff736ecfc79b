------------------------------ MODULE FileDrop ------------------------------
(***************************************************************************)
(* The file drops of flock (src/applications/flock/flock.py): senders spray   *)
(* the frames of a file on a channel, a machine that runs flock feeds what    *)
(* reaches it to a Receiver (src/yolofountain/__init__.py) and writes the     *)
(* file when the Receiver has all of it.  Machines do not depend on one       *)
(* another: the module is one machine that receives.                          *)
(*                                                                          *)
(* The frames of a transfer of at most four blocks carry its blocks in turn   *)
(* (the codec itself is in Fountain).  Frames are lost, repeated, reordered   *)
(* and interleaved at will, senders stop when they like.                      *)
(***************************************************************************)
EXTENDS Integers, Sequences, Functions

CONSTANTS
    Transfers,
    Session,    \* the session a transfer's sender drew
    Size,       \* total_len of a transfer
    K,          \* the block size
    Names,
    Files,      \* the names of the files in a transfer's container, in order
    Password,   \* the password a transfer is encrypted with, or None
    Key,        \* the password this machine was given (FLOCK_KEY), or None
    Extra,      \* frames sent beyond the blocks
    None,
    Missing,    \* a file that does not exist
    Torn,       \* a file truncated and not yet written
    MaxFault    \* bound: crashes and failing file operations

ASSUME ConstantsAssumption ==
    /\ K \in Nat \ {0} /\ Size \in [Transfers -> 0 .. 4 * K]
    /\ Files \in [Transfers -> Seq(Names) \ {<<>>}] /\ Session \in [Transfers -> Nat]
    /\ Extra \in Nat /\ MaxFault \in Nat

\* SPEC.md: a transfer is identified by its session and its length.
ASSUME IdentityAssumption == \A t, u \in Transfers :
    Session[t] = Session[u] /\ Size[t] = Size[u] => t = u

VARIABLES
    sent,       \* frames each transfer's sender has sent
    rx,         \* Flock._rx and _rx_session: the session, the decoder's length and blocks
    saved,      \* Flock._saved
    disk,       \* the drop directory
    pc,         \* _on_drop_frame: "idle", "open", "write"
    file,       \* the payload it writes, and which of its files is next
    streak,     \* history: the transfer whose frames arrive, and those blocks
    landed,     \* history: the files of a transfer the process wrote, by position
    faults

rxVars == <<rx, saved, streak>>
diskVars == <<disk, pc, file, landed>>
vars == <<sent, rxVars, diskVars, faults>>

\* The blocks a payload is cut into; an empty one has a block too.
NBlocks(size) == IF size = 0 THEN 1 ELSE (size + K - 1) \div K

BlocksOf(t) == 0 .. NBlocks(Size[t]) - 1

\* A payload says of which transfer each block is.
Whole(t) == [b \in BlocksOf(t) |-> t]

NoFile == [of |-> None, payload |-> <<>>, at |-> 0]
NoStreak == [of |-> None, blocks |-> {}]

Init ==
    /\ sent = [t \in Transfers |-> 0]
    /\ rx = None /\ saved = {}
    /\ disk = [f \in Names |-> Missing]
    /\ pc = "idle" /\ file = NoFile
    /\ streak = NoStreak
    /\ landed = [t \in Transfers |-> <<>>] /\ faults = 0

-----------------------------------------------------------------------------
(* The senders: send_file *)

Frames(t) == NBlocks(Size[t]) + Extra

\* FLAG_ENC.
Encrypted(t) == Password[t] # None

\* Mutant: a block too many.
BlockOfOneMore(n, i) == i % (n + 1)

\* The block that frame i of n blocks carries.
BlockOf(n, i) == i % n

\* What of a frame's header and body matters; of is the transfer of the data.
Frame(t, i) == [session |-> Session[t], total |-> Size[t], enc |-> Encrypted(t),
                block |-> BlockOf(NBlocks(Size[t]), i), of |-> t]

Send(t) ==
    /\ sent[t] < Frames(t)
    /\ sent' = [sent EXCEPT ![t] = @ + 1]
    /\ UNCHANGED <<rxVars, diskVars, faults>>

-----------------------------------------------------------------------------
(* Receiver.add *)

NewDecoder(f) == [session |-> f.session, total |-> f.total, enc |-> f.enc, got |-> <<>>]

\* Mutant: a changed length does not start a fresh decode.
SessionDecoder(r, f) == r # None /\ r.session = f.session
HasDecoder(r, f) == r # None /\ r.session = f.session /\ r.total = f.total

\* A block that was received before is not replaced.
Ingest(dec, f) == [dec EXCEPT !.got =
    [b \in DOMAIN @ \cup {f.block} |-> IF b \in DOMAIN @ THEN @[b] ELSE f.of]]

Add(r, f) == Ingest(IF HasDecoder(r, f) THEN r ELSE NewDecoder(f), f)

Complete(r) == DOMAIN r.got = 0 .. NBlocks(r.total) - 1

-----------------------------------------------------------------------------
(* Flock._on_drop_frame *)

Receiving(f) == rx # None /\ rx.session = f.session

\* Mutant: sessions saved are forgotten.
NeverIgnored(f) == FALSE

\* A frame of a session already saved.
Ignored(f) == f.session \in saved /\ ~Receiving(f)

\* Mutant: the Receiver is replaced before the session is looked up.
RestartThenIgnore(f) ==
    /\ Ignored(f)
    /\ rx' = None
    /\ UNCHANGED <<saved, streak, diskVars>>

FrameIgnored(f) ==
    /\ Ignored(f)
    /\ UNCHANGED <<rx, saved, streak, diskVars>>

\* History: the frames that arrive now are of one transfer.
Follow(f) == streak' =
    [of |-> f.of, blocks |-> IF streak.of = f.of THEN streak.blocks \cup {f.block} ELSE {f.block}]

FramePartial(f) ==
    /\ ~Ignored(f) /\ ~Complete(Add(rx, f))
    /\ rx' = Add(rx, f)
    /\ Follow(f)
    /\ UNCHANGED <<saved, diskVars>>

\* files raises when the frames say the payload is encrypted and it is not the
\* whole of a payload encrypted with this machine's password.
Opens(r) == r.enc =>
    Key # None /\ \E t \in Transfers : Range(r.got) = {t} /\ Password[t] = Key

\* The session counts as saved before the payload is decrypted and written; a
\* payload that does not open is forgotten.
FrameLast(f) ==
    /\ ~Ignored(f) /\ Complete(Add(rx, f))
    /\ saved' = saved \cup {f.session}
    /\ rx' = None
    /\ Follow(f)
    /\ IF Opens(Add(rx, f))
       THEN pc' = "open" /\ file' = [of |-> f.of, payload |-> Add(rx, f).got, at |-> 1]
       ELSE UNCHANGED <<pc, file>>
    /\ UNCHANGED <<disk, landed>>

Deliver(t, i) ==
    /\ pc = "idle" /\ i < sent[t]
    /\ LET f == Frame(t, i) IN FrameIgnored(f) \/ FramePartial(f) \/ FrameLast(f)
    /\ UNCHANGED <<sent, faults>>

\* parse_container: the file whose turn it is.
Dest == Files[file.of][file.at]

\* open(dest, "wb"): whatever the file was, it is empty now.
OpenDest ==
    /\ pc = "open"
    /\ disk' = [disk EXCEPT ![Dest] = Torn]
    /\ pc' = "write"
    /\ UNCHANGED <<sent, rxVars, file, landed, faults>>

\* Mutant: the first file counts as the container.
NextFileNone == pc' = "idle" /\ file' = NoFile
NextFile ==
    IF file.at = Len(Files[file.of])
    THEN pc' = "idle" /\ file' = NoFile
    ELSE pc' = "open" /\ file' = [file EXCEPT !.at = @ + 1]

WriteDest ==
    /\ pc = "write"
    /\ disk' = [disk EXCEPT ![Dest] = file.payload]
    /\ landed' = [landed EXCEPT ![file.of] = Append(@, file.at)]
    /\ NextFile
    /\ UNCHANGED <<sent, rxVars, faults>>

\* An exception of open or write is caught, and the rest of the drop forgotten.
WriteFails ==
    /\ pc \in {"open", "write"}
    /\ faults < MaxFault /\ faults' = faults + 1
    /\ pc' = "idle" /\ file' = NoFile
    /\ UNCHANGED <<sent, rxVars, disk, landed>>

\* The daemon ends, at any point, and is started again.
Restart ==
    /\ faults < MaxFault /\ faults' = faults + 1
    /\ rx' = None /\ saved' = {} /\ streak' = NoStreak
    /\ landed' = [t \in Transfers |-> <<>>]
    /\ pc' = "idle" /\ file' = NoFile
    /\ UNCHANGED <<sent, disk>>

-----------------------------------------------------------------------------

Next ==
    \/ \E t \in Transfers : Send(t) \/ \E i \in 0 .. Frames(t) - 1 : Deliver(t, i)
    \/ OpenDest \/ WriteDest \/ WriteFails \/ Restart

Spec == Init /\ [][Next]_vars

-----------------------------------------------------------------------------
(* Properties *)

\* A payload complete or not, of whatever transfers its blocks are.
Payload == UNION {[B -> Transfers] : B \in UNION {SUBSET BlocksOf(t) : t \in Transfers}}

\* Every variable keeps its type.
TypeOK ==
    /\ sent \in [Transfers -> Nat] /\ \A t \in Transfers : sent[t] <= Frames(t)
    /\ rx \in {None} \cup
          [session : Range(Session), total : Range(Size), enc : BOOLEAN, got : Payload]
    /\ saved \subseteq Range(Session)
    /\ disk \in [Names -> {Missing, Torn} \cup Payload]
    /\ pc \in {"idle", "open", "write"} /\ (pc = "idle" <=> file = NoFile)
    /\ file \in {NoFile} \cup [of : Transfers, payload : Payload, at : Nat \ {0}]
    /\ streak \in [of : Transfers \cup {None}, blocks : SUBSET Nat]
    /\ landed \in [Transfers -> Seq(Nat)]
    /\ faults \in 0 .. MaxFault

\* Whatever frames of whatever senders arrive in whatever order, a file that
\* was written is the whole of one transfer with a file of that name; one that
\* is torn is being written, or a crash or a failing write left it.
NeverMixed == \A f \in Names :
    /\ disk[f] \notin {Missing, Torn} =>
          \E t \in Transfers : f \in Range(Files[t]) /\ disk[f] = Whole(t)
    /\ disk[f] = Torn => faults > 0 \/ (pc = "write" /\ f = Dest)

\* Late, repeated and reordered frames never bring a file twice, and the files
\* of a container come in order: a failing write costs that one and the rest.
LandsOnce == \A t \in Transfers :
    /\ Len(landed[t]) <= Len(Files[t])
    /\ \A j \in DOMAIN landed[t] : landed[t][j] = j

\* A transfer all of whose blocks arrive, with no frame between them but of
\* sessions already saved, is received, and all its files are written if this
\* machine can open it and nothing fails.
AloneLands == streak.of # None /\ streak.blocks = BlocksOf(streak.of) =>
    /\ Session[streak.of] \in saved
    /\ pc = "idle" /\ faults = 0 /\ Password[streak.of] \in {None, Key} =>
          Len(landed[streak.of]) = Len(Files[streak.of])

-----------------------------------------------------------------------------
(* The inductive invariant behind the safety properties *)

\* A decoder that has the blocks B of transfer t.
Part(t, B) == [session |-> Session[t], total |-> Size[t], enc |-> Encrypted(t),
               got |-> [b \in B |-> t]]

\* No decoder is no decoder at all, a torn file is neither missing nor written.
ASSUME DistinctAssumption ==
    /\ Missing # Torn
    /\ \A t \in Transfers : Whole(t) # Torn /\ \A B \in SUBSET BlocksOf(t) : Part(t, B) # None

\* What is received has some, not all, of the blocks of one transfer, and no other.
Receives(t, B) ==
    /\ B \in SUBSET BlocksOf(t) /\ B # BlocksOf(t)
    /\ rx = Part(t, B) /\ Session[t] \notin saved
RxOK == rx = None \/ \E t \in Transfers : \E B \in SUBSET BlocksOf(t) : Receives(t, B)

\* What is being written is the whole of one transfer, which counts as saved.
FileOK == pc # "idle" =>
    /\ Session[file.of] \in saved
    /\ file.payload = Whole(file.of) /\ file.at \in 1 .. Len(Files[file.of])

\* What the process wrote of a transfer: its first files, and nothing before its
\* session was saved.
LandedOK == \A t \in Transfers :
    /\ Len(landed[t]) <= Len(Files[t])
    /\ \A j \in DOMAIN landed[t] : landed[t][j] = j
    /\ pc # "idle" /\ file.of = t => Len(landed[t]) = file.at - 1
    /\ Session[t] \notin saved => landed[t] = <<>>

\* The transfer whose frames arrive is being received, or was and is written.
Done(t) ==
    /\ Session[t] \in saved
    /\ faults = 0 /\ Password[t] \in {None, Key} =>
          (pc # "idle" /\ file.of = t) \/ Len(landed[t]) = Len(Files[t])
StreakOK == streak.of # None => LET t == streak.of IN
    \/ Done(t)
    \/ \E B \in SUBSET BlocksOf(t) : Receives(t, B) /\ streak.blocks \subseteq B

\* The invariant of the drops as a whole.
IInv == TypeOK /\ RxOK /\ FileOK /\ NeverMixed /\ LandedOK /\ StreakOK
=============================================================================
