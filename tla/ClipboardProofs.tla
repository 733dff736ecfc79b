--------------------------- MODULE ClipboardProofs ---------------------------
(***************************************************************************)
(* The shared clipboard of flock, for any machines, clocks, copies, starts   *)
(* and disturbances and any interleaving of the two threads of a machine:    *)
(* Followed and NoEcho.                                                      *)
(***************************************************************************)
EXTENDS Clipboard, TLAPS

USE ConstantsAssumption DEF Content, userVars, sharedVars, pollVars, callVars, lifeVars,
    clockVars, wireVars

\* The newest message, or none yet, has a stamp.
LEMMA NewestTyped == TypeOK => newest.ts \in Nat /\ newest.text \in Content
  BY DEF TypeOK, Message, NoMessage

\* Where threads have met is never forgotten, and a step that notes it happens only
\* where they do not meet if nothing of that kind is to be noted after it.
LEMMA MeetFacts ==
    ASSUME TypeOK, NEW n \in Nodes, NEW kind \in Races, NEW cond, Meet(n, kind, cond)
    PROVE  /\ races' \in [Nodes -> SUBSET Races]
           /\ \A q \in Nodes : races[q] \subseteq races'[q]
           /\ cond => kind \in races'[n]
           /\ Unraced' => Unraced /\ ~cond
<1>1. CASE cond
  BY <1>1 DEF Meet, TypeOK, Unraced
<1>2. CASE ~cond
  BY <1>2 DEF Meet, TypeOK, Unraced
<1> QED BY <1>1, <1>2

-----------------------------------------------------------------------------
(* Every step keeps the invariant *)

\* The machines start in a state of the invariant.
LEMMA InitIInv == Init => IInv
<1> SUFFICES ASSUME Init PROVE IInv
  OBVIOUS
<1>1. TypeOK
  <2>1. \A n \in Nodes : ppc[n] \notin Publishing
    BY DEF Init, Publishing
  <2>2. NoMessage \in Message \cup {NoMessage} /\ \A n \in Nodes : races[n] = {} /\ net[n] = {}
    BY DEF Init
  <2>3. races \in [Nodes -> SUBSET Races] /\ net \in [Nodes -> SUBSET Message]
    BY <2>2 DEF Init
  <2>4. rm \in [Nodes -> Message \cup {NoMessage}] /\ newest \in Message \cup {NoMessage}
    BY <2>2 DEF Init
  <2>5. /\ clip \in [Nodes -> Content] /\ origin \in [Nodes -> {"user", "remote", "nobody"}]
        /\ lastSeen \in [Nodes -> Content] /\ lastTs \in [Nodes -> Nat]
        /\ running \in [Nodes -> BOOLEAN] /\ hearing \in [Nodes -> BOOLEAN]
    BY DEF Init
  <2>6. /\ ppc \in [Nodes -> {"idle", "compare", "seen", "stamp", "send"}]
        /\ pv \in [Nodes -> Content] /\ echo \in [Nodes -> BOOLEAN]
        /\ rpc \in [Nodes -> {"idle", "stamp", "compare", "seen", "set"}]
        /\ busy \in [Nodes -> Nat]
    BY DEF Init
  <2>7. clock \in Nat /\ given \in Nat /\ late \in BOOLEAN /\ copies \in 0 .. MaxCopy
    <3>1. clock \in Nat /\ given \in Nat /\ copies \in 0 .. MaxCopy
      BY DEF Init
    <3>2. late \in BOOLEAN
      BY Zenon DEF Init
    <3> QED BY <3>1, <3>2
  <2> QED BY <2>1, <2>3, <2>4, <2>5, <2>6, <2>7 DEF TypeOK
<1>2. newest.ts = 0 /\ newest.text = NoText
  BY DEF Init, NoMessage
<1>3. LifeOK
  BY DEF Init, LifeOK, Sound
<1>4. EchoOK
  BY DEF Init, EchoOK, GuardOK, Looking, Publishing
<1>5. TurnsOK /\ MessagesOK /\ StampsOK
  BY <1>2 DEF Init, TurnsOK, MessagesOK, StampsOK, Publishing
<1>6. \A n \in Nodes : Told(n) /\ Shows(n)
  <2>1. \A n \in Nodes : lastTs[n] = 0 /\ clip[n] = NoText
    BY DEF Init
  <2>2. ASSUME NEW n \in Nodes PROVE Told(n)
    <3>1. newest.ts <= lastTs[n]
      BY <1>2, <2>1
    <3> QED BY <3>1 DEF Told
  <2>3. \A n \in Nodes : Shows(n)
    BY <1>2, <2>1 DEF Shows
  <2> QED BY <2>2, <2>3
<1>7. \A n \in Nodes : Copied(n)
  BY DEF Init, Copied, Publishing
<1> QED BY <1>1, <1>3, <1>4, <1>5, <1>6, <1>7 DEF IInv, CleanOK

\* A user copies: the machine's clipboard is the user's.
LEMMA CopyIInv == ASSUME IInv, NEW n \in Nodes, NEW t \in Content, Copy(n, t) PROVE IInv'
<1> USE DEF IInv, Copy
<1>1. TypeOK'
  BY DEF TypeOK, Publishing
<1>2. /\ \A q \in Nodes \ {n} : clip'[q] = clip[q] /\ origin'[q] = origin[q]
      /\ origin'[n] = "user"
  BY DEF TypeOK
<1>3. LifeOK'
  BY <1>2 DEF LifeOK, Sound
<1>4. EchoOK'
  BY <1>2 DEF EchoOK, GuardOK
<1>5. ASSUME Clean' PROVE CleanOK'
  <2>1. Clean
    BY <1>5 DEF Clean, Unraced
  <2>2. TurnsOK' /\ MessagesOK' /\ StampsOK'
    BY <2>1 DEF CleanOK, TurnsOK, MessagesOK, StampsOK, Dated
  <2> QED BY <1>2, <2>1, <2>2 DEF CleanOK, Told, Shows, Copied, Sound
<1> QED BY <1>1, <1>3, <1>4, <1>5

\* A daemon starts, on a machine that is not sound.
LEMMA StartIInv == ASSUME IInv, NEW n \in Nodes, Start(n) PROVE IInv'
<1> USE DEF IInv, Start
<1>1. TypeOK'
  BY DEF TypeOK, Publishing
<1>2. ~Sound(n) /\ ppc[n] = "idle" /\ rpc[n] = "idle" /\ (busy[n] = 0 => origin[n] # "remote")
  BY DEF LifeOK
<1>3. /\ \A q \in Nodes \ {n} : /\ lastSeen'[q] = lastSeen[q] /\ lastTs'[q] = lastTs[q]
                                /\ running'[q] = running[q] /\ hearing'[q] = hearing[q]
      /\ running'[n] /\ hearing'[n] /\ lastTs'[n] = 0
  BY DEF TypeOK
<1>4. LifeOK'
  BY <1>3 DEF LifeOK, Sound
<1>5. EchoOK'
  BY <1>2, <1>3 DEF EchoOK, GuardOK, Looking, Publishing
<1>6. ASSUME Clean' PROVE CleanOK'
  <2>1. Clean
    BY <1>6 DEF Clean, Unraced
  <2>2. TurnsOK' /\ MessagesOK'
    BY <2>1 DEF CleanOK, TurnsOK, MessagesOK, Dated
  <2>3. StampsOK'
    BY <1>2, <1>3, <2>1, NewestTyped DEF CleanOK, StampsOK
  <2> QED BY <1>2, <1>3, <2>1, <2>2, <2>3 DEF CleanOK, Told, Shows, Copied, Sound
<1> QED BY <1>1, <1>4, <1>5, <1>6

-----------------------------------------------------------------------------
(* The loop *)

\* The loop reads the clipboard, and what it reads the callback did not just put there.
LEMMA PollGetIInv == ASSUME IInv, NEW n \in Nodes, PollGet(n) PROVE IInv'
<1> USE DEF IInv, PollGet
<1>1. /\ races' \in [Nodes -> SUBSET Races] /\ \A q \in Nodes : races[q] \subseteq races'[q]
      /\ rpc[n] = "set" => "guard" \in races'[n]
      /\ Unraced' => Unraced
  BY MeetFacts DEF Races
<1>2. TypeOK'
  BY <1>1 DEF TypeOK, Publishing
<1>3. /\ ppc'[n] = "compare" /\ pv'[n] = clip[n] /\ echo'[n] = (origin[n] = "remote")
      /\ \A q \in Nodes \ {n} : ppc'[q] = ppc[q] /\ pv'[q] = pv[q] /\ echo'[q] = echo[q]
  BY DEF TypeOK
<1>4. LifeOK'
  BY <1>3 DEF LifeOK, Sound
<1>5. EchoOK'
  <2> SUFFICES ASSUME NEW q \in Nodes, busy[q] = 0, "guard" \notin races'[q] PROVE GuardOK(q)'
    BY DEF EchoOK
  <2>1. GuardOK(q)
    BY <1>1 DEF EchoOK
  <2>2. CASE q = n
    <3>1. rpc[n] # "set" /\ (origin[n] = "remote" => lastSeen[n] = clip[n])
      BY <1>1, <2>1, <2>2 DEF GuardOK
    <3>2. echo'[n] <=> origin[n] = "remote"
      BY <1>3
    <3> QED BY <1>3, <2>2, <3>1, <3>2 DEF GuardOK, Publishing
  <2>3. CASE q # n
    <3>1. ppc'[q] = ppc[q] /\ pv'[q] = pv[q] /\ echo'[q] = echo[q]
      BY <1>3, <2>3
    <3> QED BY <2>1, <3>1 DEF GuardOK
  <2> QED BY <2>2, <2>3
<1>6. ASSUME Clean' PROVE CleanOK'
  <2>1. Clean
    BY <1>1, <1>6 DEF Clean
  <2>2. TurnsOK' /\ MessagesOK' /\ StampsOK'
    BY <1>3, <2>1 DEF CleanOK, TurnsOK, MessagesOK, StampsOK, Dated, Publishing
  <2>3. \A q \in Nodes : Sound(q) => Told(q)' /\ Shows(q)'
    BY <2>1 DEF CleanOK, Told, Shows
  <2>4. \A q \in Nodes : Sound(q) => Copied(q)'
    BY <1>3, <2>1 DEF CleanOK, Copied, Publishing, TypeOK
  <2> QED BY <2>2, <2>3, <2>4 DEF CleanOK, Sound
<1> QED BY <1>2, <1>4, <1>5, <1>6

\* The loop finds nothing new.
LEMMA PollUnchangedIInv == ASSUME IInv, NEW n \in Nodes, PollUnchanged(n) PROVE IInv'
<1> USE DEF IInv, PollUnchanged, PollReturn
<1>1. TypeOK'
  BY DEF TypeOK, Publishing
<1>2. /\ ppc'[n] = "idle"
      /\ \A q \in Nodes \ {n} : ppc'[q] = ppc[q] /\ pv'[q] = pv[q] /\ echo'[q] = echo[q]
  BY DEF TypeOK
<1>3. LifeOK'
  BY <1>2 DEF LifeOK, Sound
<1>4. EchoOK'
  BY <1>2 DEF EchoOK, GuardOK, Looking, Publishing
<1>5. ASSUME Clean' PROVE CleanOK'
  <2>1. Clean
    BY <1>5 DEF Clean, Unraced
  <2>2. TurnsOK' /\ MessagesOK' /\ StampsOK'
    BY <1>2, <2>1 DEF CleanOK, TurnsOK, MessagesOK, StampsOK, Dated, Publishing
  <2> QED BY <1>2, <2>1, <2>2 DEF CleanOK, Told, Shows, Copied, Sound, Publishing
<1> QED BY <1>1, <1>3, <1>4, <1>5

\* The loop finds a text that the user put there.
LEMMA PollChangedIInv == ASSUME IInv, NEW n \in Nodes, PollChanged(n) PROVE IInv'
<1> USE DEF IInv, PollChanged
<1>1. /\ races' \in [Nodes -> SUBSET Races] /\ \A q \in Nodes : races[q] \subseteq races'[q]
      /\ Unraced' => Unraced /\ rpc[n] = "idle"
  BY MeetFacts DEF Races
<1>2. /\ ppc[n] = "compare" /\ ppc'[n] = "seen" /\ pv[n] # NoText /\ pv[n] # lastSeen[n]
      /\ \A q \in Nodes \ {n} : ppc'[q] = ppc[q]
  BY DEF TypeOK, Changed
<1>3. TypeOK'
  BY <1>1, <1>2 DEF TypeOK, Publishing
<1>4. LifeOK'
  BY <1>2 DEF LifeOK, Sound
<1>5. EchoOK'
  BY <1>1, <1>2 DEF EchoOK, GuardOK, Looking, Publishing
<1>6. ASSUME Clean' PROVE CleanOK'
  <2>1. Clean /\ rpc[n] = "idle"
    BY <1>1, <1>6 DEF Clean
  <2>2. TurnsOK' /\ MessagesOK' /\ StampsOK'
    BY <1>2, <2>1 DEF CleanOK, TurnsOK, MessagesOK, StampsOK, Dated, Publishing
  <2>3. Sound(n) => ~echo[n]
    BY <1>2, <2>1 DEF EchoOK, GuardOK, Clean, Unraced, Sound
  <2>4. \A q \in Nodes : Sound(q) => Copied(q)'
    BY <1>2, <2>1, <2>3 DEF CleanOK, Copied, Publishing
  <2> QED BY <2>1, <2>2, <2>4 DEF CleanOK, Told, Shows, Sound
<1> QED BY <1>3, <1>4, <1>5, <1>6

\* The loop notes what it saw.
LEMMA PollSeenIInv == ASSUME IInv, NEW n \in Nodes, PollSeen(n) PROVE IInv'
<1> USE DEF IInv, PollSeen
<1>1. TypeOK'
  BY DEF TypeOK, Publishing
<1>2. /\ ppc[n] = "seen" /\ ppc'[n] = "stamp"
      /\ \A q \in Nodes \ {n} : ppc'[q] = ppc[q] /\ lastSeen'[q] = lastSeen[q]
  BY DEF TypeOK
<1>3. LifeOK'
  BY <1>2 DEF LifeOK, Sound
<1>4. EchoOK'
  BY <1>2 DEF EchoOK, GuardOK, Looking, Publishing
<1>5. ASSUME Clean' PROVE CleanOK'
  <2>1. Clean
    BY <1>5 DEF Clean, Unraced
  <2>2. TurnsOK' /\ MessagesOK' /\ StampsOK'
    BY <1>2, <2>1 DEF CleanOK, TurnsOK, MessagesOK, StampsOK, Dated, Publishing
  <2> QED BY <1>2, <2>1, <2>2 DEF CleanOK, Told, Shows, Copied, Sound, Publishing
<1> QED BY <1>1, <1>3, <1>4, <1>5

\* The loop takes a stamp, one above all others unless a clock is behind.
LEMMA PollStampIInv == ASSUME IInv, NEW n \in Nodes, PollStamp(n) PROVE IInv'
<1> USE DEF IInv
<1> PICK ts : ts = clock + 1 + Skew[n]
  OBVIOUS
<1>1. /\ running[n] /\ ppc[n] = "stamp" /\ ppc' = [ppc EXCEPT ![n] = "send"]
      /\ clock' = clock + 1 /\ lastTs' = [lastTs EXCEPT ![n] = ts]
      /\ ts > given => given' = ts /\ late' = late
      /\ ~(ts > given) => given' = given /\ late' = TRUE
      /\ UNCHANGED <<userVars, lastSeen, pv, echo, callVars, lifeVars, wireVars, races>>
  BY DEF PollStamp
<1>2. ts \in Nat /\ clock \in Nat /\ given \in Nat /\ newest.ts \in Nat
  BY NewestTyped DEF TypeOK
<1>3. TypeOK'
  <2>1. given' \in Nat /\ late' \in BOOLEAN
    BY <1>1, <1>2 DEF TypeOK
  <2> QED BY <1>1, <1>2, <2>1 DEF TypeOK, Publishing
<1>4. /\ ppc'[n] = "send" /\ lastTs'[n] = ts
      /\ \A q \in Nodes \ {n} : ppc'[q] = ppc[q] /\ lastTs'[q] = lastTs[q]
  BY <1>1 DEF TypeOK
<1>5. LifeOK'
  BY <1>1, <1>4 DEF LifeOK, Sound
<1>6. EchoOK'
  BY <1>1, <1>4 DEF EchoOK, GuardOK, Looking, Publishing
<1>7. ASSUME Clean' PROVE CleanOK'
  <2>1. Clean /\ ts > given /\ given' = ts
    BY <1>1, <1>7 DEF Clean, Unraced
  <2>2. newest.ts <= given /\ rpc[n] = "idle"
    BY <1>1, <2>1 DEF CleanOK, MessagesOK, TurnsOK, Publishing
  <2>3. TurnsOK'
    BY <1>1, <1>4, <2>1, <2>2 DEF CleanOK, TurnsOK
  <2>4. MessagesOK'
    BY <1>1, <1>2, <2>1, <2>2 DEF CleanOK, MessagesOK, Dated
  <2>5. StampsOK'
    <3>1. \A q \in Nodes \ {n} : ppc[q] = "send" => lastTs[q] \in 1 .. given /\ lastTs[q] # ts
      BY <1>2, <2>1 DEF CleanOK, StampsOK
    <3> QED BY <1>1, <1>2, <1>4, <2>1, <2>2, <3>1 DEF CleanOK, StampsOK
  <2>6. \A q \in Nodes : Sound(q) => Told(q)' /\ Shows(q)' /\ Copied(q)'
    BY <1>1, <1>2, <1>4, <2>1, <2>2 DEF CleanOK, Told, Shows, Copied, Publishing
  <2> QED BY <1>1, <2>3, <2>4, <2>5, <2>6 DEF CleanOK, Sound
<1> QED BY <1>3, <1>5, <1>6, <1>7

\* The loop sends: its message is the newest, or stamped before the newest.
LEMMA PollSendIInv == ASSUME IInv, NEW n \in Nodes, PollSend(n) PROVE IInv'
<1> USE DEF IInv
<1> PICK m : m = [from |-> n, ts |-> lastTs[n], text |-> pv[n]]
  OBVIOUS
<1>1. /\ running[n] /\ ppc[n] = "send" /\ PollReturn(n)
      /\ net' = [q \in Nodes |-> IF q # n /\ hearing[q] THEN net[q] \cup {m} ELSE net[q]]
      /\ newest' = IF m.ts > newest.ts THEN m ELSE newest
      /\ UNCHANGED <<userVars, sharedVars, callVars, lifeVars, clockVars, races>>
  BY DEF PollSend
<1>2. m \in Message /\ m.ts = lastTs[n] /\ m.text = pv[n] /\ lastTs[n] \in Nat
  BY <1>1 DEF TypeOK, Message, Publishing
<1>3. TypeOK'
  BY <1>1, <1>2 DEF TypeOK, PollReturn, Publishing
<1>4. /\ ppc'[n] = "idle"
      /\ \A q \in Nodes \ {n} : ppc'[q] = ppc[q] /\ pv'[q] = pv[q] /\ echo'[q] = echo[q]
  BY <1>1 DEF TypeOK, PollReturn
<1>5. LifeOK'
  BY <1>1, <1>4 DEF LifeOK, Sound
<1>6. EchoOK'
  BY <1>1, <1>4 DEF EchoOK, GuardOK, Looking, Publishing
<1>7. ASSUME Clean' PROVE CleanOK'
  <2>1. Clean
    BY <1>1, <1>7 DEF Clean, Unraced
  <2>2. /\ newest.ts \in Nat /\ given \in Nat /\ newest.ts <= given
        /\ lastTs[n] \in 1 .. given /\ lastTs[n] # newest.ts /\ rpc[n] = "idle"
    BY <1>1, <2>1, NewestTyped DEF CleanOK, TypeOK, StampsOK, TurnsOK, MessagesOK, Publishing
  <2>3. newest' = IF lastTs[n] > newest.ts THEN m ELSE newest
    BY <1>1, <1>2
  <2>4. newest'.ts \in Nat /\ newest'.ts >= newest.ts /\ newest'.ts >= lastTs[n] /\ newest'.ts <= given
    BY <1>2, <2>2, <2>3
  <2>5. /\ \A q \in Nodes : \A x \in net'[q] : x = m \/ x \in net[q]
        /\ \A q \in Nodes : net[q] \subseteq net'[q]
        /\ \A q \in Nodes \ {n} : hearing[q] => m \in net'[q]
    BY <1>1
  <2>6. TurnsOK'
    BY <1>1, <1>4, <2>1 DEF CleanOK, TurnsOK, Publishing
  <2>7. MessagesOK'
    <3>1. \A x : Dated(x) => Dated(x)'
      BY <1>2, <2>2, <2>3, <2>4 DEF Dated, Message
    <3>2. Dated(m)'
      BY <1>2, <2>2, <2>3, <2>4 DEF Dated
    <3> QED BY <1>1, <2>1, <2>4, <2>5, <3>1, <3>2 DEF CleanOK, MessagesOK
  <2>8. StampsOK'
    <3>1. \A q \in Nodes : lastTs[q] \in Nat
      BY DEF TypeOK
    <3> QED BY <1>1, <1>2, <1>4, <2>1, <2>2, <2>3, <2>4, <3>1 DEF CleanOK, StampsOK
  <2>9. ASSUME NEW q \in Nodes, Sound(q) PROVE Told(q)' /\ Shows(q)' /\ Copied(q)'
    <3>1. Told(q) /\ Shows(q) /\ Copied(q) /\ hearing[q] /\ lastTs[q] \in Nat
      BY <2>1, <2>9 DEF CleanOK, LifeOK, TypeOK
    <3>2. Told(q)'
      BY <1>1, <1>2, <2>2, <2>3, <2>5, <3>1 DEF Told
    <3>3. Shows(q)'
      BY <1>1, <1>2, <2>1, <2>2, <2>3, <2>4, <3>1 DEF CleanOK, Shows, Copied, StampsOK, Publishing
    <3>4. Copied(q)'
      BY <1>1, <1>4, <3>1 DEF Copied, Publishing
    <3> QED BY <3>2, <3>3, <3>4
  <2> QED BY <1>1, <2>6, <2>7, <2>8, <2>9 DEF CleanOK, Sound
<1> QED BY <1>3, <1>5, <1>6, <1>7

\* A clipboard held too long ends the daemon, which is not sound any more.
LEMMA PollBusyIInv == ASSUME IInv, NEW n \in Nodes, PollBusy(n) PROVE IInv'
<1> USE DEF IInv, PollBusy, Disturbed, CallReturn
<1>1. TypeOK'
  BY DEF TypeOK, Publishing
<1>2. /\ busy'[n] # 0 /\ rpc'[n] = "idle" /\ net'[n] = {} /\ ppc[n] = "idle"
      /\ \A q \in Nodes \ {n} : /\ busy'[q] = busy[q] /\ rpc'[q] = rpc[q] /\ net'[q] = net[q]
                                /\ running'[q] = running[q] /\ hearing'[q] = hearing[q]
                                /\ rm'[q] = rm[q]
  BY DEF TypeOK
<1>3. LifeOK'
  BY <1>2 DEF LifeOK, Sound
<1>4. EchoOK'
  BY <1>2 DEF EchoOK, GuardOK
<1>5. ASSUME Clean' PROVE CleanOK'
  <2>1. Clean
    BY <1>5 DEF Clean, Unraced
  <2>2. TurnsOK' /\ MessagesOK' /\ StampsOK'
    BY <1>2, <2>1 DEF CleanOK, TurnsOK, MessagesOK, StampsOK, Dated
  <2> QED BY <1>2, <2>1, <2>2 DEF CleanOK, Told, Shows, Copied, Sound
<1> QED BY <1>1, <1>3, <1>4, <1>5

\* A clipboard held too long ends the receive thread.
LEMMA CallBusyIInv == ASSUME IInv, NEW n \in Nodes, CallBusy(n) PROVE IInv'
<1> USE DEF IInv, CallBusy, Disturbed, CallReturn
<1>1. TypeOK'
  BY DEF TypeOK, Publishing
<1>2. /\ busy'[n] # 0 /\ rpc'[n] = "idle" /\ net'[n] = {} /\ running[n]
      /\ \A q \in Nodes \ {n} : /\ busy'[q] = busy[q] /\ rpc'[q] = rpc[q] /\ net'[q] = net[q]
                                /\ hearing'[q] = hearing[q] /\ rm'[q] = rm[q]
  BY DEF TypeOK
<1>3. LifeOK'
  BY <1>2 DEF LifeOK, Sound
<1>4. EchoOK'
  BY <1>2 DEF EchoOK, GuardOK
<1>5. ASSUME Clean' PROVE CleanOK'
  <2>1. Clean
    BY <1>5 DEF Clean, Unraced
  <2>2. TurnsOK' /\ MessagesOK' /\ StampsOK'
    BY <1>2, <2>1 DEF CleanOK, TurnsOK, MessagesOK, StampsOK, Dated
  <2> QED BY <1>2, <2>1, <2>2 DEF CleanOK, Told, Shows, Copied, Sound
<1> QED BY <1>1, <1>3, <1>4, <1>5

-----------------------------------------------------------------------------
(* The callback *)

\* A message is taken up, or is older than what was accepted; only older ones of
\* its sender go with it.
LEMMA ReceiveIInv == ASSUME IInv, NEW n \in Nodes, NEW m \in net[n], Receive(n, m) PROVE IInv'
<1> USE DEF IInv, Receive
<1>1. /\ rpc[n] = "idle" /\ m \in Message /\ net' = [net EXCEPT ![n] = Without(n, m)]
      /\ running[n] /\ UNCHANGED <<userVars, sharedVars, pollVars, lifeVars, clockVars, newest>>
  BY DEF TypeOK
<1>2. /\ net'[n] \subseteq net[n] /\ \A q \in Nodes \ {n} : net'[q] = net[q]
      /\ net' \in [Nodes -> SUBSET Message]
  <2>1. Without(n, m) \subseteq net[n]
    BY DEF Without
  <2>2. net'[n] = Without(n, m) /\ \A q \in Nodes \ {n} : net'[q] = net[q]
    BY <1>1 DEF TypeOK
  <2> QED BY <1>1, <2>1, <2>2 DEF TypeOK
<1>3. /\ m.ts > lastTs[n] => /\ rpc' = [rpc EXCEPT ![n] = "stamp"] /\ rm' = [rm EXCEPT ![n] = m]
                             /\ Unraced' => Unraced /\ ppc[n] \notin Publishing
      /\ ~(m.ts > lastTs[n]) => rpc' = rpc /\ rm' = rm /\ races' = races
      /\ races' \in [Nodes -> SUBSET Races] /\ \A q \in Nodes : races[q] \subseteq races'[q]
  <2>1. CASE m.ts > lastTs[n]
    BY <2>1, MeetFacts DEF Newer, Races
  <2>2. CASE ~(m.ts > lastTs[n])
    BY <2>2 DEF Newer, TypeOK
  <2> QED BY <2>1, <2>2
<1>4. TypeOK'
  <2>1. rpc' \in [Nodes -> {"idle", "stamp", "compare", "seen", "set"}]
        /\ rm' \in [Nodes -> Message \cup {NoMessage}]
    BY <1>1, <1>3 DEF TypeOK
  <2> QED BY <1>1, <1>2, <1>3, <2>1 DEF TypeOK
<1>5. /\ m.ts > lastTs[n] => rpc'[n] = "stamp" /\ rm'[n] = m
      /\ rpc'[n] \in {"idle", "stamp"}
      /\ \A q \in Nodes \ {n} : rpc'[q] = rpc[q] /\ rm'[q] = rm[q]
  BY <1>1, <1>3 DEF TypeOK
<1>6. LifeOK'
  BY <1>1, <1>5 DEF LifeOK, Sound
<1>7. EchoOK'
  <2> SUFFICES ASSUME NEW q \in Nodes, busy[q] = 0, "guard" \notin races'[q] PROVE GuardOK(q)'
    BY <1>1 DEF EchoOK
  <2>1. GuardOK(q)
    BY <1>3 DEF EchoOK
  <2>2. (rpc'[q] = "set") <=> (rpc[q] = "set")
    BY <1>1, <1>5
  <2>3. rpc'[q] = "set" => rm'[q] = rm[q]
    BY <1>5
  <2> QED BY <1>1, <2>1, <2>2, <2>3 DEF GuardOK
<1>8. ASSUME Clean' PROVE CleanOK'
  <2>1. Clean
    BY <1>1, <1>3, <1>8 DEF Clean, Unraced
  <2>2. Dated(m)
    BY <2>1 DEF CleanOK, MessagesOK
  <2>3. newest \in net[n] /\ newest # m => newest \in net'[n]
    <3>1. newest # m => newest.ts > m.ts
      BY <2>2, NewestTyped DEF Dated
    <3> QED BY <1>1, <3>1 DEF Without, TypeOK
  <2>4. TurnsOK'
    BY <1>1, <1>3, <1>5, <1>8, <2>1 DEF CleanOK, TurnsOK, Clean
  <2>5. MessagesOK'
    BY <1>1, <1>2, <1>3, <1>5, <2>1, <2>2 DEF CleanOK, MessagesOK, Dated
  <2>6. StampsOK'
    BY <1>1, <1>3, <1>5, <2>1 DEF CleanOK, StampsOK
  <2>7. ASSUME NEW q \in Nodes, Sound(q) PROVE Told(q)' /\ Shows(q)' /\ Copied(q)'
    <3>1. Told(q) /\ Shows(q) /\ Copied(q) /\ lastTs[q] \in Nat
      BY <2>1, <2>7 DEF CleanOK, TypeOK
    <3>2. Told(q)'
      BY <1>1, <1>2, <1>3, <1>5, <2>2, <2>3, <3>1, NewestTyped DEF Told, Dated, Message
    <3>3. Shows(q)'
      BY <1>1, <1>3, <1>5, <3>1 DEF Shows
    <3>4. Copied(q)'
      BY <1>1, <3>1 DEF Copied
    <3> QED BY <3>2, <3>3, <3>4
  <2> QED BY <1>1, <2>4, <2>5, <2>6, <2>7 DEF CleanOK, Sound
<1> QED BY <1>4, <1>6, <1>7, <1>8

\* The stamp of the message taken up becomes the stamp of the clipboard.
LEMMA TakeStampIInv == ASSUME IInv, NEW n \in Nodes, TakeStamp(n) PROVE IInv'
<1> USE DEF IInv, TakeStamp
<1>1. rm[n].ts \in Nat
  BY DEF TypeOK, Message, NoMessage
<1>2. /\ rpc'[n] = "compare" /\ lastTs'[n] = rm[n].ts
      /\ \A q \in Nodes \ {n} : rpc'[q] = rpc[q] /\ lastTs'[q] = lastTs[q]
  BY DEF TypeOK
<1>3. TypeOK'
  BY <1>1 DEF TypeOK, Publishing
<1>4. LifeOK'
  BY <1>2 DEF LifeOK, Sound
<1>5. EchoOK'
  BY <1>2 DEF EchoOK, GuardOK
<1>6. ASSUME Clean' PROVE CleanOK'
  <2>1. Clean
    BY <1>6 DEF Clean, Unraced
  <2>2. /\ Dated(rm[n]) /\ rm[n].ts > lastTs[n] /\ rm[n].ts <= newest.ts
        /\ ppc[n] \notin Publishing /\ newest.ts \in Nat
    BY <2>1, NewestTyped DEF CleanOK, MessagesOK, TurnsOK, StampsOK, Dated
  <2>3. TurnsOK' /\ MessagesOK'
    BY <1>2, <2>1, <2>2 DEF CleanOK, TurnsOK, MessagesOK, Dated
  <2>4. StampsOK'
    BY <1>2, <2>1, <2>2 DEF CleanOK, StampsOK, Publishing
  <2>5. ASSUME NEW q \in Nodes, Sound(q) PROVE Told(q)' /\ Shows(q)' /\ Copied(q)'
    <3>1. Told(q) /\ Shows(q) /\ Copied(q)
      BY <2>1, <2>5 DEF CleanOK
    <3>2. Told(q)'
      <4>1. CASE q = n
        <5>1. rm[n] = newest => newest.ts <= rm[n].ts
          BY <1>1
        <5> QED BY <1>1, <1>2, <2>2, <3>1, <4>1, <5>1 DEF Told, TypeOK
      <4>2. CASE q # n
        BY <1>2, <3>1, <4>2 DEF Told
      <4> QED BY <4>1, <4>2
    <3>3. Shows(q)' /\ Copied(q)'
      BY <1>2, <3>1 DEF Shows, Copied
    <3> QED BY <3>2, <3>3
  <2> QED BY <2>3, <2>4, <2>5 DEF CleanOK, Sound
<1> QED BY <1>3, <1>4, <1>5, <1>6

\* If the text is there already the clipboard shows it, else it will.
LEMMA CompareIInv == ASSUME IInv, NEW n \in Nodes, Compare(n) PROVE IInv'
<1> USE DEF IInv, Compare
<1>1. TypeOK'
  BY DEF TypeOK, CallReturn, Publishing
<1>2. /\ rm[n].text = clip[n] => rpc'[n] = "idle"
      /\ rm[n].text # clip[n] => rpc'[n] = "seen" /\ rm'[n] = rm[n]
      /\ \A q \in Nodes \ {n} : rpc'[q] = rpc[q] /\ rm'[q] = rm[q]
  BY DEF TypeOK, CallReturn
<1>3. LifeOK'
  BY <1>2 DEF LifeOK, Sound
<1>4. EchoOK'
  BY <1>2 DEF EchoOK, GuardOK
<1>5. ASSUME Clean' PROVE CleanOK'
  <2>1. Clean
    BY <1>5 DEF Clean, Unraced
  <2>2. /\ Dated(rm[n]) /\ rm[n].ts = lastTs[n] /\ ppc[n] \notin Publishing
        /\ rm[n].ts = newest.ts => rm[n] = newest
    BY <2>1 DEF CleanOK, MessagesOK, StampsOK, TurnsOK, Dated
  <2>3. TurnsOK' /\ MessagesOK' /\ StampsOK'
    BY <1>2, <2>1, <2>2 DEF CleanOK, TurnsOK, MessagesOK, StampsOK, Dated
  <2>4. \A q \in Nodes : Sound(q) => Told(q)' /\ Shows(q)' /\ Copied(q)'
    BY <1>2, <2>1, <2>2 DEF CleanOK, Told, Shows, Copied
  <2> QED BY <2>3, <2>4 DEF CleanOK, Sound
<1> QED BY <1>1, <1>3, <1>4, <1>5

\* The guard is set before the clipboard.
LEMMA TakeSeenIInv == ASSUME IInv, NEW n \in Nodes, TakeSeen(n) PROVE IInv'
<1> USE DEF IInv, TakeSeen
<1>1. /\ races' \in [Nodes -> SUBSET Races] /\ \A q \in Nodes : races[q] \subseteq races'[q]
      /\ ppc[n] \in Looking => "guard" \in races'[n]
      /\ Unraced' => Unraced
  BY MeetFacts DEF Races
<1>2. /\ rpc'[n] = "set" /\ lastSeen'[n] = rm[n].text
      /\ \A q \in Nodes \ {n} : rpc'[q] = rpc[q] /\ lastSeen'[q] = lastSeen[q]
  BY DEF TypeOK, Guarded
<1>3. TypeOK'
  <2>1. rm[n].text \in Content
    BY DEF TypeOK, Message, NoMessage
  <2>2. lastSeen' \in [Nodes -> Content]
    BY <2>1 DEF TypeOK, Guarded
  <2> QED BY <1>1, <2>2 DEF TypeOK
<1>4. LifeOK'
  BY <1>2 DEF LifeOK, Sound
<1>5. EchoOK'
  BY <1>1, <1>2 DEF EchoOK, GuardOK, Looking
<1>6. ASSUME Clean' PROVE CleanOK'
  <2>1. Clean
    BY <1>1, <1>6 DEF Clean
  <2>2. TurnsOK' /\ MessagesOK' /\ StampsOK'
    BY <1>2, <2>1 DEF CleanOK, TurnsOK, MessagesOK, StampsOK, Dated
  <2> QED BY <1>2, <2>1, <2>2 DEF CleanOK, Told, Shows, Copied, Sound
<1> QED BY <1>3, <1>4, <1>5, <1>6

\* The clipboard gets the text the guard was set to.
LEMMA SetClipIInv == ASSUME IInv, NEW n \in Nodes, SetClip(n) PROVE IInv'
<1> USE DEF IInv, SetClip, CallReturn
<1>1. TypeOK'
  BY DEF TypeOK, Message, NoMessage, Publishing
<1>2. /\ rpc'[n] = "idle" /\ clip'[n] = rm[n].text /\ origin'[n] = "remote"
      /\ \A q \in Nodes \ {n} : /\ rpc'[q] = rpc[q] /\ clip'[q] = clip[q]
                                /\ origin'[q] = origin[q] /\ rm'[q] = rm[q]
  BY DEF TypeOK
<1>3. LifeOK'
  BY <1>2 DEF LifeOK, Sound
<1>4. EchoOK'
  BY <1>2 DEF EchoOK, GuardOK
<1>5. ASSUME Clean' PROVE CleanOK'
  <2>1. Clean
    BY <1>5 DEF Clean, Unraced
  <2>2. /\ Dated(rm[n]) /\ rm[n].ts = lastTs[n] /\ ppc[n] \notin Publishing
        /\ rm[n].ts = newest.ts => rm[n] = newest
    BY <2>1 DEF CleanOK, MessagesOK, StampsOK, TurnsOK, Dated
  <2>3. TurnsOK' /\ MessagesOK' /\ StampsOK'
    BY <1>2, <2>1, <2>2 DEF CleanOK, TurnsOK, MessagesOK, StampsOK, Dated
  <2>4. Sound(n) => ppc[n] \notin Looking
    BY <2>1 DEF EchoOK, GuardOK, Clean, Unraced, Sound
  <2>5. \A q \in Nodes : Sound(q) => Told(q)' /\ Shows(q)' /\ Copied(q)'
    BY <1>2, <2>1, <2>2, <2>4 DEF CleanOK, Told, Shows, Copied, Looking
  <2> QED BY <2>3, <2>5 DEF CleanOK, Sound
<1> QED BY <1>1, <1>3, <1>4, <1>5

\* Every step keeps the invariant.
LEMMA NextIInv == IInv /\ [Next]_vars => IInv'
<1> SUFFICES ASSUME IInv, [Next]_vars PROVE IInv'
  OBVIOUS
<1>1. ASSUME NEW n \in Nodes, Poll(n) PROVE IInv'
  BY <1>1, PollGetIInv, PollUnchangedIInv, PollChangedIInv, PollSeenIInv, PollStampIInv,
     PollSendIInv DEF Poll
<1>2. ASSUME NEW n \in Nodes, Call(n) PROVE IInv'
  BY <1>2, ReceiveIInv, TakeStampIInv, CompareIInv, TakeSeenIInv, SetClipIInv DEF Call
<1>3. CASE UNCHANGED vars
  <2> USE <1>3 DEF vars
  <2>1. TypeOK' /\ LifeOK' /\ EchoOK'
    BY DEF IInv, TypeOK, LifeOK, EchoOK, GuardOK, Sound
  <2>2. Clean' => CleanOK'
    BY DEF IInv, Clean, Unraced, CleanOK, TurnsOK, MessagesOK, StampsOK, Dated, Told, Shows,
       Copied, Sound
  <2> QED BY <2>1, <2>2 DEF IInv
<1> QED
  BY <1>1, <1>2, <1>3, CopyIInv, StartIInv, PollBusyIInv, CallBusyIInv DEF Next

-----------------------------------------------------------------------------
(* Theorems *)

\* Machines and messages stay within the invariant.
THEOREM Invariance == Spec => []IInv
<1>1. IInv /\ [Next]_vars => IInv'
  BY NextIInv
<1> QED BY <1>1, InitIInv, PTL DEF Spec

\* Every variable keeps its type.
THEOREM TypeCorrect == Spec => []TypeOK
<1>1. IInv => TypeOK
  BY DEF IInv
<1> QED BY <1>1, Invariance, PTL

\* Where no threads met and no clock is behind, once all is quiet every sound
\* machine shows what was published last.
THEOREM LastCopyWins == Spec => []Followed
<1>1. IInv => Followed
  <2> SUFFICES ASSUME IInv, Clean, Quiet, NEW n \in Nodes, Sound(n), origin[n] # "user"
               PROVE  clip[n] = newest.text
    BY DEF Followed, Converges
  <2>1. net[n] = {} /\ ppc[n] # "send" /\ rpc[n] = "idle"
    BY DEF IInv, LifeOK, Quiet
  <2>2. newest.ts <= lastTs[n] /\ lastTs[n] <= newest.ts
    BY <2>1 DEF IInv, CleanOK, Told, StampsOK
  <2>3. lastTs[n] = newest.ts
    BY <2>2, NewestTyped DEF IInv, TypeOK
  <2> QED BY <2>1, <2>3 DEF IInv, CleanOK, Shows
<1> QED BY <1>1, Invariance, PTL

\* The loop publishes what the callback put there only where it looked between the
\* callback's guard and its clipboard, or where the clipboard failed.
THEOREM NeverEchoes == Spec => []NoEcho
<1>1. IInv => NoEcho
  BY DEF IInv, EchoOK, GuardOK, NoEcho
<1> QED BY <1>1, Invariance, PTL
=============================================================================
