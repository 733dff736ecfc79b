----------------------------- MODULE Clipboard -----------------------------
(***************************************************************************)
(* The shared clipboard of flock (src/applications/flock/flock.py): on every *)
(* machine a loop that publishes what the user copied, and a callback on the *)
(* receive thread of its UdpChannel that applies what others published.  Each *)
(* read and each write of what the two threads share is a step of its own.    *)
(*                                                                          *)
(* A publication travels as one message: softstate delivers it whole, and    *)
(* of one publisher never an older one after a newer (SoftState).  Messages  *)
(* are not lost here; a node ignores its own.  A time stamp is a reading of  *)
(* one global clock that never gives the same time twice, plus the node's    *)
(* Skew.  A local variable is cleared when its handler returns.              *)
(***************************************************************************)
EXTENDS Integers

CONSTANTS
    Nodes,
    Starters,   \* the nodes that run from the start
    Texts,      \* what users copy
    NoText,     \* an empty clipboard (None)
    Skew,       \* how far a node's clock is ahead
    Copies,     \* bound: which user copies what
    MaxCopy,    \* bound: copies made by users
    MaxStamp,   \* bound: no poll goes on to publish when the clock was read so often
    MaxBusy     \* bound: times another program keeps a node's clipboard too long

ASSUME ConstantsAssumption ==
    /\ Starters \subseteq Nodes /\ NoText \notin Texts
    /\ Skew \in [Nodes -> Nat]
    /\ MaxCopy \in Nat /\ MaxStamp \in Nat /\ MaxBusy \in [Nodes -> Nat]

ASSUME CopiesAssumption == Copies \subseteq Nodes \X (Texts \cup {NoText})

VARIABLES
    clip,       \* the machine's clipboard
    origin,     \* history: who put it there, "user", "remote" or "nobody"
    lastSeen,   \* Flock._last_seen
    lastTs,     \* Flock._last_ts
    running,    \* the daemon runs
    hearing,    \* its receive thread runs
    net,        \* the messages on their way to each node
    ppc,        \* poll_clipboard: "idle", "compare", "seen", "stamp", "send"
    pv,         \* its local v
    echo,       \* history: v was put into the clipboard by the callback
    rpc,        \* _on_remote_clip: "idle", "stamp", "compare", "seen", "set"
    rm,         \* the message it handles
    busy,       \* history: times another program kept its clipboard too long
    races,      \* history: where the two threads of a machine met
    clock, copies,
    given,      \* history: the highest time stamp taken
    late,       \* history: a time stamp was taken that is not the highest
    newest      \* history: of the messages sent, the one with the highest stamp

userVars == <<clip, origin, copies>>
sharedVars == <<lastSeen, lastTs>>
pollVars == <<ppc, pv, echo>>
callVars == <<rpc, rm>>
lifeVars == <<running, hearing, busy>>
clockVars == <<clock, given, late>>
wireVars == <<net, newest>>
vars == <<userVars, sharedVars, pollVars, callVars, lifeVars, clockVars, wireVars, races>>

Content == Texts \cup {NoText}
Message == [from : Nodes, ts : Nat, text : Texts]
\* A message no node handles and none has sent.
NoMessage == [from |-> CHOOSE n \in Nodes : TRUE, ts |-> 0, text |-> NoText]

Init ==
    /\ clip = [n \in Nodes |-> NoText] /\ origin = [n \in Nodes |-> "nobody"]
    /\ lastSeen = [n \in Nodes |-> NoText] /\ lastTs = [n \in Nodes |-> 0]
    /\ running = [n \in Nodes |-> n \in Starters]
    /\ hearing = [n \in Nodes |-> n \in Starters]
    /\ net = [n \in Nodes |-> {}]
    /\ ppc = [n \in Nodes |-> "idle"] /\ pv = [n \in Nodes |-> NoText]
    /\ echo = [n \in Nodes |-> FALSE]
    /\ rpc = [n \in Nodes |-> "idle"] /\ rm = [n \in Nodes |-> NoMessage]
    /\ clock = 0 /\ given = 0 /\ late = FALSE /\ copies = 0
    /\ busy = [n \in Nodes |-> 0] /\ races = [n \in Nodes |-> {}] /\ newest = NoMessage

-----------------------------------------------------------------------------
(* Where the two threads of a machine meet *)

\* "guard": the loop looks at the clipboard, up to its guard, and the callback sets
\* guard and clipboard.  "send": the loop publishes, and the callback is at work.
Races == {"guard", "send"}
Looking == {"compare", "seen"}
Publishing == {"seen", "stamp", "send"}

\* The threads of n meet, where "cond" holds; or they do not.
Meet(n, kind, cond) == races' = IF cond THEN [races EXCEPT ![n] = @ \cup {kind}] ELSE races

-----------------------------------------------------------------------------
(* The user, and the daemon's start *)

\* What is copied need not be text: then the clipboard has none.
Copy(n, t) ==
    /\ <<n, t>> \in Copies /\ copies < MaxCopy /\ copies' = copies + 1
    /\ clip' = [clip EXCEPT ![n] = t] /\ origin' = [origin EXCEPT ![n] = "user"]
    /\ UNCHANGED <<sharedVars, pollVars, callVars, lifeVars, clockVars, wireVars, races>>

\* The daemon starts, also one that ended.
Start(n) ==
    /\ ~running[n]
    /\ running' = [running EXCEPT ![n] = TRUE] /\ hearing' = [hearing EXCEPT ![n] = TRUE]
    /\ lastSeen' = [lastSeen EXCEPT ![n] = NoText] /\ lastTs' = [lastTs EXCEPT ![n] = 0]
    /\ UNCHANGED <<userVars, pollVars, callVars, busy, clockVars, wireVars, races>>

-----------------------------------------------------------------------------
(* poll_clipboard *)

PollGet(n) ==
    /\ running[n] /\ ppc[n] = "idle"
    /\ ppc' = [ppc EXCEPT ![n] = "compare"] /\ pv' = [pv EXCEPT ![n] = clip[n]]
    /\ echo' = [echo EXCEPT ![n] = origin[n] = "remote"]
    /\ Meet(n, "guard", rpc[n] = "set")
    /\ UNCHANGED <<userVars, sharedVars, callVars, lifeVars, clockVars, wireVars>>

\* Mutants: the loop publishes whatever is there; it publishes no text, too.
AlwaysChanged(n, v) == v # NoText
AnyChange(n, v) == v # lastSeen[n]

\* The user changed the clipboard, not the callback.
Changed(n, v) == v # NoText /\ v # lastSeen[n]

\* poll_clipboard returns.
PollReturn(n) ==
    /\ ppc' = [ppc EXCEPT ![n] = "idle"]
    /\ pv' = [pv EXCEPT ![n] = NoText] /\ echo' = [echo EXCEPT ![n] = FALSE]

PollUnchanged(n) ==
    /\ running[n] /\ ppc[n] = "compare" /\ ~Changed(n, pv[n])
    /\ PollReturn(n)
    /\ UNCHANGED <<userVars, sharedVars, callVars, lifeVars, clockVars, wireVars, races>>

PollChanged(n) ==
    /\ running[n] /\ ppc[n] = "compare" /\ Changed(n, pv[n]) /\ clock < MaxStamp
    /\ ppc' = [ppc EXCEPT ![n] = "seen"]
    /\ Meet(n, "send", rpc[n] # "idle")
    /\ UNCHANGED <<userVars, sharedVars, pv, echo, callVars, lifeVars, clockVars, wireVars>>

PollSeen(n) ==
    /\ running[n] /\ ppc[n] = "seen"
    /\ ppc' = [ppc EXCEPT ![n] = "stamp"]
    /\ lastSeen' = [lastSeen EXCEPT ![n] = pv[n]]
    /\ UNCHANGED <<userVars, lastTs, pv, echo, callVars, lifeVars, clockVars, wireVars, races>>

PollStamp(n) ==
    LET ts == clock + 1 + Skew[n]
    IN  /\ running[n] /\ ppc[n] = "stamp"
        /\ ppc' = [ppc EXCEPT ![n] = "send"]
        /\ clock' = clock + 1 /\ lastTs' = [lastTs EXCEPT ![n] = ts]
        /\ IF ts > given THEN given' = ts /\ late' = late ELSE given' = given /\ late' = TRUE
        /\ UNCHANGED <<userVars, lastSeen, pv, echo, callVars, lifeVars, wireVars, races>>

\* The time stamp is read back from _last_ts when the payload is packed.
PollSend(n) ==
    LET m == [from |-> n, ts |-> lastTs[n], text |-> pv[n]]
    IN  /\ running[n] /\ ppc[n] = "send"
        /\ PollReturn(n)
        /\ net' = [q \in Nodes |-> IF q # n /\ hearing[q] THEN net[q] \cup {m} ELSE net[q]]
        /\ newest' = IF m.ts > newest.ts THEN m ELSE newest
        /\ UNCHANGED <<userVars, sharedVars, callVars, lifeVars, clockVars, races>>

\* Another program keeps the clipboard too long: the ten attempts fail.
Disturbed(n) ==
    /\ busy[n] < MaxBusy[n]
    /\ busy' = [busy EXCEPT ![n] = @ + 1]

\* _on_remote_clip returns or is cut off.
CallReturn(n) ==
    /\ rpc' = [rpc EXCEPT ![n] = "idle"] /\ rm' = [rm EXCEPT ![n] = NoMessage]

\* Another program holds the clipboard: get raises, and nothing in the daemon's
\* loop catches it.
PollBusy(n) ==
    /\ running[n] /\ ppc[n] = "idle"
    /\ Disturbed(n)
    /\ running' = [running EXCEPT ![n] = FALSE] /\ hearing' = [hearing EXCEPT ![n] = FALSE]
    /\ CallReturn(n) /\ net' = [net EXCEPT ![n] = {}]
    /\ UNCHANGED <<userVars, sharedVars, pollVars, clockVars, newest, races>>

-----------------------------------------------------------------------------
(* _on_remote_clip, on the receive thread *)

\* softstate drops what is older than what it delivered of the same publisher.
Without(n, m) == {x \in net[n] \ {m} : x.from # m.from \/ x.ts > m.ts}

\* Mutant: a message of any age is applied.
AnyAge(n, m) == TRUE
Newer(n, m) == m.ts > lastTs[n]

Receive(n, m) ==
    /\ running[n] /\ hearing[n] /\ rpc[n] = "idle"
    /\ net' = [net EXCEPT ![n] = Without(n, m)]
    /\ IF Newer(n, m)
       THEN /\ rpc' = [rpc EXCEPT ![n] = "stamp"] /\ rm' = [rm EXCEPT ![n] = m]
            /\ Meet(n, "send", ppc[n] \in Publishing)
       ELSE UNCHANGED <<callVars, races>>
    /\ UNCHANGED <<userVars, sharedVars, pollVars, lifeVars, clockVars, newest>>

TakeStamp(n) ==
    /\ running[n] /\ rpc[n] = "stamp"
    /\ rpc' = [rpc EXCEPT ![n] = "compare"]
    /\ lastTs' = [lastTs EXCEPT ![n] = rm[n].ts]
    /\ UNCHANGED <<userVars, lastSeen, pollVars, rm, lifeVars, clockVars, wireVars, races>>

Compare(n) ==
    /\ running[n] /\ rpc[n] = "compare"
    /\ IF rm[n].text = clip[n] THEN CallReturn(n)
       ELSE rpc' = [rpc EXCEPT ![n] = "seen"] /\ rm' = rm
    /\ UNCHANGED <<userVars, sharedVars, pollVars, lifeVars, clockVars, wireVars, races>>

\* Mutant: without the echo guard.
Unguarded(n) == lastSeen
Guarded(n) == [lastSeen EXCEPT ![n] = rm[n].text]

TakeSeen(n) ==
    /\ running[n] /\ rpc[n] = "seen"
    /\ rpc' = [rpc EXCEPT ![n] = "set"]
    /\ lastSeen' = Guarded(n)
    /\ Meet(n, "guard", ppc[n] \in Looking)
    /\ UNCHANGED <<userVars, lastTs, pollVars, rm, lifeVars, clockVars, wireVars>>

SetClip(n) ==
    /\ running[n] /\ rpc[n] = "set"
    /\ CallReturn(n)
    /\ clip' = [clip EXCEPT ![n] = rm[n].text] /\ origin' = [origin EXCEPT ![n] = "remote"]
    /\ UNCHANGED <<copies, sharedVars, pollVars, lifeVars, clockVars, wireVars, races>>

\* Another program holds the clipboard: get or set raises, and the exception
\* ends the receive thread.
CallBusy(n) ==
    /\ running[n] /\ rpc[n] \in {"compare", "set"}
    /\ Disturbed(n)
    /\ hearing' = [hearing EXCEPT ![n] = FALSE]
    /\ CallReturn(n) /\ net' = [net EXCEPT ![n] = {}]
    /\ UNCHANGED <<userVars, sharedVars, pollVars, running, clockVars, newest, races>>

-----------------------------------------------------------------------------

Poll(n) == \/ PollGet(n) \/ PollUnchanged(n) \/ PollChanged(n)
           \/ PollSeen(n) \/ PollStamp(n) \/ PollSend(n)
Call(n) == \/ \E m \in net[n] : Receive(n, m)
           \/ TakeStamp(n) \/ Compare(n) \/ TakeSeen(n) \/ SetClip(n)

Next == \E n \in Nodes :
    \/ Poll(n) \/ Call(n) \/ Start(n) \/ PollBusy(n) \/ CallBusy(n)
    \/ \E t \in Content : Copy(n, t)

Spec == Init /\ [][Next]_vars

\* Both threads of every daemon keep running; what is sent arrives.  Nothing is
\* assumed of the users.
FairSpec == Spec /\ \A n \in Nodes : WF_vars(Poll(n)) /\ WF_vars(Call(n))

-----------------------------------------------------------------------------
(* Properties *)

\* Every variable keeps its type.
TypeOK ==
    /\ clip \in [Nodes -> Content] /\ origin \in [Nodes -> {"user", "remote", "nobody"}]
    /\ lastSeen \in [Nodes -> Content] /\ lastTs \in [Nodes -> Nat]
    /\ running \in [Nodes -> BOOLEAN] /\ hearing \in [Nodes -> BOOLEAN]
    /\ net \in [Nodes -> SUBSET Message]
    /\ ppc \in [Nodes -> {"idle", "compare", "seen", "stamp", "send"}]
    /\ pv \in [Nodes -> Content] /\ echo \in [Nodes -> BOOLEAN]
    /\ \A n \in Nodes : ppc[n] \in Publishing => pv[n] # NoText
    /\ rpc \in [Nodes -> {"idle", "stamp", "compare", "seen", "set"}]
    /\ rm \in [Nodes -> Message \cup {NoMessage}] /\ newest \in Message \cup {NoMessage}
    /\ clock \in Nat /\ given \in Nat /\ late \in BOOLEAN /\ copies \in 0 .. MaxCopy
    /\ busy \in [Nodes -> Nat] /\ races \in [Nodes -> SUBSET Races]

\* Nothing is on its way or under way, and the users' copies are published; the
\* loops go on reading.
Quiet == \A n \in Nodes : running[n] =>
    /\ net[n] = {} /\ rpc[n] = "idle" /\ ppc[n] \in {"idle", "compare"}
    /\ ~Changed(n, clip[n]) /\ ~Changed(n, pv[n])

\* A machine that ran from the start and whose clipboard was never held too long.
Sound(n) == n \in Starters /\ busy[n] = 0

\* "Copy on any machine, paste on any other": once all is quiet, every sound
\* machine has in its clipboard what was stamped last, unless its own user put
\* something there after.
Converges == Quiet => \A n \in Nodes :
    Sound(n) /\ origin[n] # "user" => clip[n] = newest.text

\* No two threads of a machine met, and stamps were taken in the order they tell.
Unraced == \A n \in Nodes : races[n] = {}
Clean == Unraced /\ ~late

\* Threads that meet and a clock that is behind are all that keeps the machines
\* apart: without them they converge, in whatever order messages arrive.
Followed == Clean => Converges

\* "Publish the local clipboard if the user changed it (not us)": the loop takes what
\* the callback put there for the user's only where it looked at the clipboard
\* while the callback was between guard and clipboard, or where the clipboard failed.
NoEcho == \A n \in Nodes :
    busy[n] = 0 /\ "guard" \notin races[n] /\ ppc[n] \in Publishing => ~echo[n]

\* When the users stop, the machines stop: no publication is answered by another
\* for ever, unless threads meet or a clipboard fails.
Settles == [](Unraced /\ \A n \in Nodes : busy[n] = 0) => <>[]Quiet

-----------------------------------------------------------------------------
(* The inductive invariant behind the safety properties *)

\* A daemon that ended has nothing under way, a sound machine's has not, and only one
\* that was held up has ended after the callback set the clipboard.
LifeOK == \A n \in Nodes :
    /\ ~running[n] => /\ ppc[n] = "idle" /\ rpc[n] = "idle"
                      /\ busy[n] = 0 => origin[n] # "remote"
    /\ Sound(n) => running[n] /\ hearing[n]

\* The loop does not take for the user's what the callback put there.
GuardOK(n) ==
    /\ rpc[n] = "set" => lastSeen[n] = rm[n].text /\ ppc[n] \notin Looking
    /\ origin[n] = "remote" /\ rpc[n] # "set" => lastSeen[n] = clip[n]
    /\ ppc[n] \in Looking /\ ~echo[n] => origin[n] # "remote"
    /\ ppc[n] = "compare" /\ echo[n] => pv[n] = lastSeen[n]
    /\ ppc[n] \in Publishing => ~echo[n]
EchoOK == \A n \in Nodes : busy[n] = 0 /\ "guard" \notin races[n] => GuardOK(n)

\* The loop publishes while the callback rests.
TurnsOK == \A n \in Nodes : ppc[n] \in Publishing => rpc[n] = "idle"

\* What was sent was stamped no later than the newest message, and no two at once.
Dated(m) == m \in Message /\ m.ts \in 1 .. newest.ts /\ (m.ts = newest.ts => m = newest)
MessagesOK ==
    /\ newest.ts <= given
    /\ \A n \in Nodes :
        /\ \A m \in net[n] : Dated(m)
        /\ rpc[n] # "idle" => Dated(rm[n])

\* A stamp not sent yet is its machine's alone; all others are stamps of messages.
StampsOK == \A n \in Nodes :
    /\ ppc[n] # "send" => lastTs[n] <= newest.ts
    /\ ppc[n] = "send" =>
        /\ lastTs[n] \in 1 .. given /\ lastTs[n] # newest.ts
        /\ \A p \in Nodes \ {n} : ppc[p] = "send" => lastTs[p] # lastTs[n]
    /\ rpc[n] = "stamp" => rm[n].ts > lastTs[n]
    /\ rpc[n] \in {"compare", "seen", "set"} => rm[n].ts = lastTs[n]

\* A sound machine has accepted the newest message or will.
Told(n) ==
    \/ newest.ts <= lastTs[n]
    \/ newest \in net[n]
    \/ rpc[n] = "stamp" /\ rm[n] = newest

\* Once it has, and nothing was copied there, its clipboard shows it.
Shows(n) ==
    origin[n] # "user" /\ rpc[n] \in {"idle", "stamp"} /\ lastTs[n] = newest.ts
    => clip[n] = newest.text

\* What the loop publishes was copied there.
Copied(n) ==
    /\ ppc[n] \in Publishing => origin[n] = "user"
    /\ ppc[n] = "compare" /\ ~echo[n] /\ pv[n] # NoText => origin[n] = "user"
    /\ origin[n] = "nobody" => clip[n] = NoText

CleanOK ==
    /\ TurnsOK /\ MessagesOK /\ StampsOK
    /\ \A n \in Nodes : Sound(n) => Told(n) /\ Shows(n) /\ Copied(n)

\* The invariant of the machines and their messages as a whole.
IInv == TypeOK /\ LifeOK /\ EchoOK /\ (Clean => CleanOK)
=============================================================================
