# A verification development for YoloFountain and softstate

YoloFountain sends a payload over a one-way channel as a stream of XOR droplets
(`yolofountain/`). On top of it, softstate broadcasts versioned states and keeps
a durable key/value store (`softstate/`), and a few applications use the two
(`applications/`). This directory holds TLA+ models of that code, the TLC
configurations that check them, and TLAPS proofs about them.

## The system

| component | state | operations | what must hold |
|---|---|---|---|
| codec (`yolofountain/codec.py`) | decoder: solved blocks and their data, edges, `by_idx`, work list | `blocks_for_frame`, `Encoder.frame`, `Decoder.ingest`, `_insert`, `_solve`, `_peel` | a complete decoder holds the payload; order and repetition of frames do not matter; nothing recoverable is left behind |
| transfer (`yolofountain/__init__.py`) | sender: payload, session; receiver: one decoder, `done` | `Sender.frame`, `Receiver.add`, `result` | a receiver hands out one sender's payload whole |
| softstate core (`softstate/core.py`) | publisher: `version`; subscriber: `table`, `_dec` by session | `Publisher.frames`, `Subscriber.feed`, `_reap`, `get`, `snapshot` | never torn, moves forward only, a delivered state is shown |
| channels (`softstate/channels.py`) | subscribers; a receive thread for UDP | `send`, `subscribe`, `close` | external medium: loses, corrupts, and (UDP) reorders and repeats frames |
| store (`softstate/store.py`) | `_local`, `_remote`, the files `path`, `.tmp`, `.bak` | `set`, `delete`, `get`, `_persist`, `_load`, `_publish`, `_on_remote`, refresh | a crash never corrupts the store; nodes converge to the owners' values |
| flock (`applications/flock`) | clipboard, `_last_seen`, `_last_ts`; the drop in progress, `_saved` | `poll_clipboard`, `_on_remote_clip`, `send_file`, `_on_drop_frame` | clipboards converge; no echo; dropped files arrive whole |
| statusbus (`applications/statusbus`) | shared-memory slots, or softstate | `RawStore`, `HardenedStore` `publish`/`read`; `Producer`, `Consumer` | a hardened reader never returns a torn record |
| trajectory (`applications/trajectory`) | numeric states | `step`, `_reconcile` | floating-point control, no protocol of its own |
| carriers (`yolofountain/carriers`) | none | base45 and base64 as pure functions | a frame survives a text channel; foreign text is ignored |
| native core (`native/yolo_core.c`, `_native.py`) | one frame buffer per `Encoder`; the CRC table, shared and filled by the first call | `encode_full`, XOR, CRC-32, block selection | the frames of the Python code, whatever other threads do |
| crypto, container, gzip | none | pure functions | round trips; what was changed does not open |

The parts interact as follows. `Publisher` and `Sender` make `Encoder`s and put
frames on a channel; a channel calls `Subscriber.feed`, or flock's
`_on_drop_frame`, synchronously (`InMemoryChannel`) or from its receive thread
(`UdpChannel`); both feed `Decoder`s, and a completed state reaches `Store` or
flock by the `on_update` callback. `Store` shares its `_local` between callers,
the refresh thread and the callbacks under one lock.

What is hard in this code: frames that come late, twice or out of order, against
bookkeeping that is updated incrementally; session ids that are reused after a
restart or a wrap of the version; publishers, subscribers and processes that
come and go; a file save cut short between any two of its steps; lock, callback
and thread interleavings in the store and in flock.

## Modules

| module | kind | models | composed of / checked by |
|---|---|---|---|
| `Droplets` | shared | which blocks a frame combines | used by the next two |
| `ErasureDecoder` | abstract | what a fountain decoder promises | refined by `Fountain` |
| `Fountain` | detailed | `codec.Decoder` | `MCFountain`, `FountainProofs` |
| `FrameEncoder` | detailed | `Encoder.frame` in Python and in the C core, frame fields, CRC table | `MCFrameEncoder`, `WireProofs` |
| `StateBroadcast` | abstract | what softstate promises a subscriber | refined by `SoftState` |
| `SoftState` | composed | `Publisher`, channel, `Subscriber` | `MCSoftState`, `SoftStateProofs` |
| `Presence` | composed | statusbus: `SoftState` and a thread that takes snapshots | `MCPresence`, `SoftStateProofs` |
| `Namespace` | shared | a key/value namespace and its JSON form | used by `StoreDisk` and `StoreShare` |
| `DurableStore` | abstract | one durable namespace, replaced at once | refined by `StoreDisk` |
| `StoreDisk` | detailed | `Store` and its files | `MCStoreDisk`, `StoreDiskProofs` |
| `StoreShare` | composed | the stores of several nodes, their threads and hooks | `MCStoreShare`, `StoreShareProofs` |
| `StatusRegister` | abstract | an atomic register | refined by `Seqlock` |
| `Seqlock` | detailed | `HardenedStore` | `SeqlockProofs` |
| `Clipboard` | composed | flock's clipboard on several machines, two threads each | `MCClipboard`, `ClipboardProofs` |
| `FileDrop` | composed | flock's senders, `Receiver`, drop directory | `MCFileDrop`, `FileDropProofs` |
| `Base45` | detailed | the base45 carrier | `MCBase45`, `WireProofs` |

The layers rest on each other through what the lower one is shown to promise:
`SoftState` takes a decoder for a set of blocks because `Fountain` implements
`ErasureDecoder`, from droplets that `FrameEncoder` shows to be blocks drawn once
each; `Presence` extends `SoftState`; `StoreShare` and `Clipboard` send whole, versioned messages
because `SoftState` implements `StateBroadcast` (within the assumptions under
"Proofs"; beyond them `StoreShare` has messages that are mixed); a save of `StoreShare`
takes effect at once or not at all because `StoreDisk` implements `DurableStore`.

### Fountain: the peeling decoder

`ErasureDecoder` is what a decoder promises: frames arrive in any order, any
number of times; when the frames received leave exactly one block of one of them
unknown, that block becomes known, and not otherwise.

`Fountain` is class `Decoder`, with every iteration of its loops a step: `Ingest`
and `Reduce` are the head and the loop of `ingest`; `InsertNothing`,
`InsertSolved` and `InsertEdge` the three cases of `_insert`; `PeelPop`,
`VisitSkip`, `VisitEdge`, `VisitEnd` and `PeelEnd` the two loops of `_peel`; and
`Solve` is `_solve`. The content of a buffer is the set of source blocks whose
XOR it holds, so XOR is symmetric difference; this loses nothing, because the
code only copies and XORs buffers. The order in which Python iterates a set and
the position `queue.pop` takes from are left open, so the result holds for every
order. The `elif bi in s` branch of `ingest` (two equal indices cancel) cannot
run, because the indices of a frame are distinct, and is left out; the death of an
edge without blocks is part of `VisitEdge`. `frames_used`, `progress` and the
return value are left out. The blocks of a repair droplet are a parameter,
`Repair`; TLC gets the ones the code computes for five blocks.

### FrameEncoder: how a frame is made

A behaviour chooses a setting: the Python or the native path, the number of
blocks, the block size, the degree distribution. `Begin` is the head of
`Encoder.frame`; `Search` one pass of the binary search for the degree, `Picked` its
end; `Draw` one pass of the loop that draws blocks, `Drawn` its end after
enough blocks or too many tries; `Xor` the body; `Checksum`, `FillEntry`, `Ready`
and `Sum` the checksum in C, whose table the first call fills without a lock, an
entry a step; `Return` copies the frame out of the `Encoder`'s buffer, `Pack` is
`pack_frame`. The random numbers of mulberry32 are any numbers, so what is shown
holds for every seed. Fields keep what fits their width, as the native path does;
`struct` raises instead on the Python path for an index, and `K` is cut on both.

ctypes releases the interpreter lock for a call, so several threads run in the C
core at once. Each has its own `Encoder`; all they share is the table and its
flag, plain variables in C. Every filler writes the same entries, and where the
stores stay in order (as compiled for x86) a thread that finds the flag set sees
the whole table: then every frame is right. A compiler may move the flag's store
before the table's (`ordered = FALSE`); then a frame may carry a wrong checksum,
which makes it a lost frame but never a wrong one, and `FramesRight` says that
much there. A thread searches and draws from its own state alone, so only one does at a
time in the model (`Turn`): the order in which several do cannot be seen.

### SoftState: publishers, channel, subscriber

`StateBroadcast` is what softstate promises: of every publisher a subscriber
shows nothing or one whole publication, and moves forward only.

`SoftState` has one subscriber, several publishers and the channel between them.
A frame names the publication it was cut from and its index; `Feed*` are the
exits of `Subscriber.feed` (session done, state not complete, complete but
rejected, committed with `_reap`). `Reorder` chooses between a channel that only
loses frames (`InMemoryChannel`) and one that also reorders and repeats them
(`UdpChannel`). Frames of different publications have different content, which
is the worst case for mixing. States have at most four blocks, so that a frame
carries one block; the peeling of larger ones is the subject of `Fountain`. Block
0 holds the version and time stamp (12 bytes), which takes a block size of 12 or
more. Corruption is loss, since a corrupt frame fails its CRC (a CRC collision is
not modelled). With `Encrypted`, a state opens only if all of its blocks come
from one publication; no run sets it, since nothing torn can then be shown by that
assumption, and the theorems hold with it and without.

### Presence: statusbus over softstate

`Presence` extends `SoftState` with a clock, the time stamp that `feed` puts beside
a state, and `Subscriber.snapshot` called from another thread than `feed`. `feed`
reads the clock (`ReadClock`) before it stores the state (`Store`), so a snapshot may
begin in between, and read a later time. The snapshot
reads the clock, then visits the publishers of the table one at a time, without a
lock, and leaves out those quiet for more than `ttl`. Python raises
`RuntimeError` when the table has grown meanwhile (`SnapshotRaises`); a state
replaced in place is seen or not, as it happens. `Producer` and `Consumer` are
`Publisher` and `Subscriber` with a check field in the record (`Consistent`).

### StoreDisk: the files of the store

`DurableStore` is what persistence promises: one durable namespace that changes
only at once, to the namespace in memory; a process that ends at any point leaves
it as it is.

`StoreDisk` is `set`, `delete`, `_persist` and `_load`, every file operation a
step. Between any two steps the process may crash, a file operation may raise, or
one of the two files may rot. A crash is the end of the process: the operating
system keeps what it was given (the loss of power is not modelled, so `fsync` is
not either). JSON is modelled by what it does to a value: a tuple comes back as a
list, an object is rejected. Keys are strings, as JSON wants them.

A variable that a module's comment calls history only records: no guard reads it.

### StoreShare: several stores on a channel

`set`, `delete` (of a key the node has, and of one it has not), the refresh
thread, `feed` with `_on_remote`, and `_notify` on the caller's and on the
receive thread are actions; a callback of `on_change` runs after the lock is
released and reads the key with `get`. A store also receives its own
announcements, as both channels deliver them. A node's `_remote` outlives the
publisher that filled it, and a restarted store counts its versions from the
start, so its announcements are ignored until the refresh has counted past the
old version. Each key is set by one node, as the documentation asks. A refresh
is taken only when some node lacks the namespace and no announcement of the node
is on its way: a refresh that nobody needs changes nothing but version numbers.

`set` and `delete` change the namespace first, and what comes after may raise.
`Change` is the call that goes well; in `ChangeUnsaved` `_persist` raises (a value
JSON rejects, a failing file operation), and the namespace in memory stays changed,
unsaved and unannounced; in `ChangeUnsent` it is saved and `_publish` raises, after
some or all of the frames have left. Either way nobody is notified. `_refresh_loop`
handles no exception, so one out of `_publish` ends the thread (`RefreshRaises`).
Values go through JSON on their way to the disk and to other nodes (`Encoded`).
An announcement is one message because softstate delivers it whole
or not at all, except where a restart made the publisher use a version and session
again: then two announcements may be mixed key by key (`Mix`), or give a text that is
no JSON, whose version is taken all the same (`Garble`).

### Seqlock: a slot of `HardenedStore`

`StatusRegister` is an atomic register. `Seqlock` makes every access to the
shared memory a step, on the writer's and on the reader's side: the counter, the
length, the record in `Parts`, the second look at the counter. A part holds the
number of the publication that wrote it. The writer may die at any step and be
replaced; a counter that does not fit its 32 bits makes `struct.pack` raise,
before the slot is touched or, at the end, with the counter left odd. Bytes of
the record may flip at any moment (`Flip`), as the benchmark has them do; flips of
the counter or of the length are not modelled. Steps of
one side take effect in program order: that the machine's memory model keeps
that order is an assumption (x86 does; the Python interpreter adds none).

### Clipboard: flock's shared clipboard

The daemon polls in one thread and receives in another (the loop of `UdpChannel`),
and nothing locks what they share. So the steps of `poll_clipboard` (`ppc`) and of
`_on_remote_clip` (`rpc`) that read or write it are actions of their own, which
interleave freely: the reading of the clipboard, the comparison with `_last_seen`,
its assignment, the reading of the clock, the message; the comparison of stamps,
the assignment of the stamp, the comparison of texts, the guard, the clipboard. The
user copies at any moment; another program may hold a clipboard so long that
reading or setting it raises, which ends the daemon or its receive thread
(`hearing`). A daemon that ended may start again, with nothing seen. Messages are
not lost in this module; the clock is global, never gives one time twice, and a
node may be ahead by `Skew`.

What the threads do to each other is recorded, in variables that no guard reads.
`races` says of a machine where they met: "guard", when the loop looked at clipboard
or guard while the callback was between the two (`flock.py:84` and `:85`), and "send",
when the loop was publishing while the callback handled a message. `late` says that
a stamp was taken that is not the highest, which takes a clock that is behind. The
properties name these: they say of every interleaving what goes wrong only because
threads met or clocks disagree, and `clipboard_threads` shows that it does go wrong
then. In particular the daemon can echo: between lines 84 and 85 the loop sees the new
`_last_seen` beside the old text, takes the old text for a copy of the user and
publishes it. `NoEcho` says that there is no other way.

### FileDrop: flock's file drop

Senders put the frames of their transfers on the channel, one `Send` a frame;
`Deliver` hands any frame sent so far to the one receiving machine, again and in
any order, which is `_on_drop_frame` with its three outcomes: ignored, kept, or
last. `OpenDest`, `WriteDest` and `WriteFails` are the steps of writing the file.
A payload that is encrypted opens only with this machine's password and only if
all blocks are of one payload; a container holds several files (`Files`), which
are written in turn, so a failure among them leaves a part of the drop, and so
does a crash. Transfers have at most four blocks, so that a
frame carries one block. `IdentityAssumption`: two transfers do not share both
their session (a 16-bit random number) and their length, which is how SPEC.md
says a transfer is identified.

### Base45: the text carrier

A run either encodes a frame and decodes the text, or decodes a text met on the
channel and encodes the result again; the loops take one group of characters a
step. `Byte` and `Radix` stand for 256 and 45 and keep what matters of them:
three symbols hold two bytes with values to spare, and two symbols hold one.
`CarrierIInv` relates what a loop has written to what it has read, group by group
(`Stands`), and what the second loop writes to what the run began with (`Begins`).

## Runs

| run | properties | bounds, and why they are enough |
|---|---|---|
| `fountain` | `PayloadExact`: a complete decoder holds the payload. `OrderIndependent`: after every call the solved blocks are the least set closed under peeling. `Refinement` of `ErasureDecoder`. `IngestReturns`. `IInv`. | 5 blocks (the smallest transfer with repair droplets), 5 systematic and 5 repair frames as the code computes them, 3 edges alive at a time: edges of two to four blocks that overlap, cascades over several edges. 218,639 states |
| `encoder` | `FramesRight`: a frame handed out is and stays the frame asked for, and is accepted. `DropletRight`: its droplet has the degree drawn, each block once. `CallsReturn`. `IInv`. | 2 threads, 3 calls; 2 and 5 blocks; a table of 2 entries, so that one thread fills it while another sums; fields of 4 and 8 values, indices and block sizes below, at and above them; the first calls of both threads at once. 397,353 states |
| `softstate_ordered` | `DeliveredIsShown`: a publication delivered in full is shown, or a later one. `ForwardOnly`: refinement of `StateBroadcast`. `SnapshotCurrent`: a snapshot that returns lists everyone who was live when it began, nobody who was not and is not newer, and nothing older than was shown. `PresenceIInv`. | 2 publishers, 2 publications of 1 or 2 blocks each: a state overtaken while half received, states of two lengths; a snapshot at any moment, 1 clock tick, a `ttl` of 0: publishers that just expired and just did not. 928,150 states |
| `softstate_restarts` | `TornByReuse`: the blocks of a state shown torn are of publications with one session and one length. `SourceIInv`. | 2 restarts, 3 publications of 1 or 3 blocks, 2 session ids, any order and repetition: sessions reused by a restart and by a wrap, of the same and of another length, three lives in one decoder. 69,473 states |
| `softstate_restart_torn` | violation of `NeverTorn` | 1 restart, 3 publications |
| `store_disk` | `SavedIsDurable`: what a save wrote is what a restart loads. `CrashAtomic`: refinement of `DurableStore`. `BackupUsed`: with a rotten file, and no crash or failing operation, a restart finds the last namespace saved or the one before. `IInv`. | 2 keys, 3 values (one JSON keeps, one it changes, one it rejects), 2 crashes, 1 failing operation, 1 rotten file: a crash within the save that follows a crash, rot at any moment. 494,232 states |
| `store_share` | `LatestIsCurrent`: while no store restarts, the latest version announced is the namespace as it is, unless the last change could not be saved and has not been announced since. `HookUpToDate`: when no callback is due, the hook was told every value, unless the call that changed it raised. `Heals`: every node ends up with the namespace of every node whose refresh thread lives. `IInv`. | 2 stores, one that owns 2 keys and one that reads them (both announce, refresh and restart), 2 calls, a value JSON rejects, 1 restart, 1 lost announcement or failing operation: a change lost and healed, a refused value that a deletion takes back, a restart between two changes, an announcement mixed from two lives. 488,492 states |
| `seqlock_safe` | `Linearizable`: refinement of `StatusRegister`. `NeverCorrupt`: only flipped bytes make a record corrupt. `ReadReturns`. `IInv`. | 4 publications, 2 parts, 2 attempts, 1 writer that dies, 1 part whose bytes flip, a counter of 6 values, so that it overflows. 38,334 states |
| `clipboard` | `Followed`: where no threads met and no stamp was late, at rest every sound machine has what was stamped last, or what its user copied. `NoEcho`: the loop publishes what the callback set only where it looked between guard and clipboard, or the clipboard failed. `Settles`: unless threads meet or a clipboard fails, publications come to an end. `IInv`. | 3 machines with two threads each, one clock ahead by 3, one clipboard held too long (its daemon ends and starts again, or its receive thread ends), 2 copies of 2 texts or of a picture. 641,807 states |
| `clipboard_threads` | violation of `Converges` | 3 machines, 2 copies, clocks that agree |
| `file_drop` | `NeverMixed`: a file written is the whole of one transfer, and one that is torn is being written or was left by a crash or a failure. `LandsOnce`: each file once, in the container's order. `AloneLands`: a transfer that nothing disturbs is received and all of its files are written. `IInv`. | 3 transfers of 2 or 3 blocks: two of one session, two of one file name, one of two files, one whose password is another; 2 crashes or failing writes, 2 frames beyond the blocks (at least 4 in the code: the others only repeat blocks). 57,465 states |
| `base45` | `RoundTrip`. `Canonical`: a text is taken for a frame only if it is the text of that frame. `CarrierIInv`. | every frame of up to 4 bytes, every text of up to 6 characters, each residue of the length and both bounds included. `Byte` = 4, `Radix` = 3. 15,886 states |

Every module's `TypeOK` is an invariant of one of its runs, by itself or as a
conjunct of `IInv` (`CarrierTypeOK` of `CarrierIInv`). Deadlock is not checked where only a bound (calls,
publications, frames, edges) or the end of an algorithm stops the model.

### Disagreements found

- `softstate_restart_torn`: a restarted publisher reuses version 1 and with it
  the session ids of its previous life; a subscriber that holds a part of an old
  state completes it with blocks of a new one and commits the mixture
  (`src/softstate/core.py:62` against the promise in its docstring, lines 8-9).
  `TornByReuse` says that nothing else tears a state. With a group password the
  mixture does not authenticate (`Opens`).
- `clipboard_threads`: the loop and the callback assign `_last_seen` and
  `_last_ts` in different orders and without a lock, and machines can end with
  different clipboards although everything arrived (`src/applications/flock/flock.py:69`).

Others were met while modelling and have no run yet. The passing runs exclude
them by their bounds, their assumptions or the wording of their properties:

- The session id keeps eight bits of the version (`core.py:69`); a subscriber
  that misses 255 epochs may mix two states (`softstate_restarts` has such states).
- A state of a restarted publisher is dropped until its version passes the old
  one (`core.py:116`); a publication delivered is then not shown.
- A commit that comes late also deletes the half-filled decoders of newer epochs
  (`core.py:135`), so on a reordering channel a state delivered may not be shown.
- The copy to the backup is neither atomic nor checked (`store.py:144`): a crash
  during it with a rotten main file, or a save after the main file rotted, leaves
  no good file.
- `get` compares version counters of different publishers when a key has two
  owners (`store.py:73`); hooks hear of changed and new keys, never of keys that
  a remote delete took away (`store.py:122` and `:92`).
- `set` and `delete` that raise in `_persist` or `_publish` (`store.py:54`, `:55`) leave
  the namespace changed: `get` returns the new value, nobody is notified, although
  `on_change` is "fired on any local or remote change" (`store.py:92`), and the
  refresh announces a value that is not on disk.
- "Loss heals" (`store.py:126`) no longer when `_publish` has raised in the refresh
  thread, which ends it for good.
- A node's own announcements sit in its `_remote` and stand in for a key the node
  deleted until the next one arrives.
- Two stores on one `InMemoryChannel` whose threads publish at once each hold
  their own lock and want the other's.
- `snapshot` raises `RuntimeError` when a new publisher is committed while it
  iterates (`core.py:132`); README and docstrings do not mention it.
- `HardenedStore.read` answers "stuck" for a live but busy writer as well
  (`sharedmem.py:125`), and `publish` raises for ever once the counter has
  reached 2^32 (`:99`). A length that was damaged to less than a record makes `read`
  raise instead of answering "corrupt" (`:119`).
- The encoder accepts a block size of 65536 or more and cuts it to its field
  (`codec.py:142`): no receiver takes such a frame. A frame index of 2^32 raises
  in Python and starts over in C.
- flock: the loop that looks between `flock.py:84` and `:85` publishes the old text
  as the user's, although the loop is to publish what the user changed, "not us" (`:65`).
- flock: a clipboard that another program holds ends the receive thread
  (`clip.py:27`, `channels.py:72`); a machine that joins does not get the
  clipboard before the next copy (`flock.py:67`); a machine whose clock is behind
  is not heard (`:80`).
- flock: two files sent at the same time make the receiver forget the one for the
  other with every frame (`flock.py:105`); if the frames alternate neither lands,
  although all blocks arrive. A drop is opened for writing in place (`:112`), so a
  crash there leaves an empty file, and a failure in one file of a container
  forgets the rest although the session counts as saved (`:115`).

## Fairness

| module | assumed | why |
|---|---|---|
| `Fountain` | a call of `ingest` keeps running | sequential code; nothing is assumed of the channel |
| `FrameEncoder` | a call of `frame` that has its turn keeps running | sequential code in each thread; the C core takes no lock |
| `Seqlock` | a read keeps running | nothing is assumed of the writer, which may die |
| `StoreShare` | receive thread and a call in progress go on, the refresh thread does until an exception ends it; what is not lost arrives | the threads are daemons that loop for as long as the store is open (`store.py`, `channels.py`); callers need not call again |
| `Clipboard` | the loop polls, the callback runs on, what is sent arrives | `_run_daemon` loops with a sleep; the receive thread loops |

`SoftState`, `Presence`, `StoreDisk`, `FileDrop` and `Base45` assume none: all they claim is safety.

## Proofs

TLAPS checks the theorems below for all values of the constants. Each starts
from an inductive invariant `IInv` of the component's module, which TLC checks
first in the run named. Every invariant a run checks is stated by a theorem.

`FountainProofs` (run `fountain`), for every number of blocks, every set of
repair droplets and every number of edges. `Invariance`: `IInv` says of each
buffer that XORing its remaining indices gives its content (an edge holds what
its frame held less what was solved, and a frame being reduced likewise), that
the counter counts, that an edge is filed under each of its blocks or is yet to
be visited, and that what is solved but not yet propagated is in the work list.
`CompleteIsExact` follows with a cardinality argument: `solved = N` means all
blocks are solved, and a solved block's buffer holds that block alone.
`OrderIndependence` needs both directions: every solved block follows from the
frames received by peeling (each set that is closed under peeling contains it,
an invariant kept step by step), and when the decoder is idle no frame received
misses exactly one block, because each frame is covered by the solved blocks and
at most one live edge of two or more. `Implements` is the safety part of the
refinement of `ErasureDecoder`. `CallsEnd`: `Work` falls with every step of a call
(`CallsShrink`), since each block is popped once and each pop visits each edge once.

`StoreDiskProofs` (`store_disk`), for any keys, values, crashes, file errors and
rotten files. `IInv` says what each file holds at each step of `_persist`.
`Durability`: as long as no file rotted, a restart loads what was saved.
`BackupWorks`: with one rotten file at most, and neither crash nor file error, a
restart finds one of the last two namespaces. `Implements`: every step taken while
no file has rotted is a step of `DurableStore` or a stutter (rot is outside of
what an abstract store promises, and `BackupUsed` says what holds after it).

`SoftStateProofs` (`softstate_ordered`), for any publishers, lengths and channel,
from `DistinctSessions` (no restart, fewer publications than session ids): the
code guarantees no more, as `softstate_restart_torn` shows. Then publication n
has version n and is alone in its session (`Numbered`), so a decoder holds blocks
of its own publication only (`OwnBlocks`), and what is committed is whole
(`TableWhole`): `NoTearing`, and `Implements` for the refinement of
`StateBroadcast`. `DeliveryWorks` is for an ordered channel and needs `Progress`:
a publication not shown yet has a decoder that holds exactly what was delivered
of it, because nothing later has committed and reaped it.

What holds without `DistinctSessions`, with restarts and with session ids that come
round, is in the last section of `SoftStateProofs`. `SourceIInv` says of each
decoder and each table entry that every block in it is of some publication of that
publisher with that session and that length (`SourceInvariance`). So `TornOnlyByReuse`
for `TornByReuse`: a state shown torn is put together from publications of one length to which
the publisher gave one session. This is the exact cause of what `softstate_restart_torn`
shows, and there is no other. `TypeCorrect` needs no assumption either.

`SeqlockProofs` (`seqlock_safe`), for any number of parts, attempts, crashes,
flipped bytes and publications, and any width of the counter. `IInv`: an even
counter means that nobody writes and that the slot holds the last publication
completed, or flipped bytes; and as long as the counter is what the reader first
saw, so does what it copied. A read that sees the same even counter twice then has
that publication, or a record that the checksum refuses: `NoTornRecord`, and `Implements` for the refinement of
`StatusRegister`. `ReadsEnd`: `ReadLeft` falls with every step of a read, whatever the
writer does; it counts the parts left to copy, and so needs `Parts` to be finite.

The second half of `SoftStateProofs` is about `Presence`. A step of statusbus is a
step of softstate or a stutter, so the invariant carries over; `Iterating` adds what
the iteration rests on without a lock: what was shown when it began is shown still,
or something newer with a stamp no earlier than the one then (`Kept`; the stamp may be
earlier than the clock the snapshot read, since `feed` reads it before it stores),
and everyone no longer to be visited is answered rightly. `SnapshotsAreCurrent`
follows, for any interleaving of the two threads.

`WireProofs` (`encoder`), for any number of threads, any settings, requests
and random numbers, and a table and fields of any size. `IInv` follows a call: its
header is that of the frame asked for, the degree lies between `lo` and `hi`, no
block is drawn twice, at least one draw is used, nobody sums before the table is
full, and a frame handed out keeps its value while the buffer is used again.
`FramesAreRight` uses that different blocks XORed into an empty body are the body,
and that a number is what its field holds only if it is less than the field counts
to. `DropletsAreRight` uses that the sums do not decrease up to the entry before
the last, and that the last is one (`IsCdf`), which is all that rounding leaves.
`CallsEnd`: `StepsLeft` of a call falls with every step of its thread, and no step
of another thread changes it. The binary search closes in, the draws are counted by
`tries` and the table's entries are filled one by one.

The second half of `WireProofs` is about `Base45` (`base45`), for frames and texts of
any length and any `Byte` and `Radix` with `Byte` <= `Radix`^2 and `Byte`^2 <=
`Radix`^3 (256 and 45 satisfy both). `CarrierIInv` says that the bytes read or written
stand in the symbols written or read, pair by triple, with a group of one byte only
at the very end. Two digits below `Radix` (or three, or two below `Byte`) are determined by
the number they make, so what the second loop writes is the beginning of what the
first one read, and all of it when the loop ends: `FramesReturn` for `RoundTrip`
(no triple made by the encoder is refused), `TextsAreCanonical` for `Canonical`.

`StoreShareProofs` (`store_share`), for any nodes, keys, values, owners, losses,
restarts and failing operations. `IInv` says that only the owner has a key in its namespace,
here or on its way, mixed or not (so `get` finds the owner's value, and the comparison of
versions of different stores that is a disagreement above never decides), that what was saved is JSON,
that without a restart no version is above its publisher's and that one stands for the
namespace as it is, but for a change that could not be saved (`unsaid`), and that a key of which no
callback is due was told as it is, but for those of calls that raised (`untold`).

`ClipboardProofs` (`clipboard`), for any machines, texts, clocks, copies, starts and
clipboards held too long, and any interleaving of the two threads of each machine. `IInv` has a part
that holds always: where the callback and the loop did not meet at the guard, the loop
does not take for the user's what the callback put there (`EchoOK`, which gives
`NeverEchoes`); and a part that holds as long as no threads met and no stamp was late
(`CleanOK`): stamps on their way are of messages and no two are alike, a sound machine has
accepted the newest message or will, and its clipboard then shows it (`LastCopyWins`).
Neither condition can be left out: `clipboard_threads` shows the first, and a machine whose
clock is behind is not heard.

`FileDropProofs` (`file_drop`), for any transfers, containers, passwords, crashes and
failing writes, and any order and repetition of frames, from `IdentityAssumption` and
`DistinctAssumption` (no decoder is no decoder at all, and a torn file is neither
missing nor written: the values of the model are told apart). `IInv`: what is received has
some, not all, of the blocks of one transfer whose session is not saved; what is
being written is the whole of one whose session is; and the transfer whose frames
arrive undisturbed is being received or has landed.

Only model-checked: liveness (`IngestReturns`, `CallsReturn`, `ReadReturns`,
`Settles`, `Heals`, and the fairness half of `Refinement`), since these
provers do not reach ENABLED. For the first three the safety half is
proved: `CallsShrink` (of two modules) and `ReadsShrink` are action properties that say
that a natural number falls with each step, so that a call can neither take steps for ever nor go
round; that some step is possible until it has returned is what TLC adds. These
formulas were checked with the constants of the runs `fountain`, `encoder` and `seqlock_safe`
before they were proved; no run lists them, since the theorems say more. The monotonicity of `IsCdf` is stated for any two entries, since from
neighbours it takes an induction over data.

## Not modelled

- The numbers mulberry32 yields and the formula of the robust soliton
  distribution: arithmetic on 32-bit words and on floating-point numbers. The
  models hold for any numbers and for any sums that do not decrease (`IsCdf`).
- CRC-32 as a polynomial, gzip, ChaCha20-Poly1305 and scrypt: library calls, taken
  for what they promise. A corrupt frame is a lost one; a CRC collision is left
  out. `crypto.py` has no state and no branch beyond them.
- The vectorised XOR of the C core and the search for a compiled library: they
  compute what the plain loop and the Python functions do.
- base64: two library calls.
- The locks of `Store` as locks: two stores on one synchronous channel can wait
  for each other (see above); the models have each call take place alone.
- `RawStore`: documented as torn, the benchmark's example of what not to do.
- `Sender.spray` and the examples: loops over `frame`.
- The trajectory demo, the benchmarks, examples and build scripts: numeric
  control, measurements and command lines.
- Loss of power: a crash is the end of a process, and `fsync` is not modelled.
- The death of the receive thread outside of flock, sockets, multicast groups.

## Plan

The order follows what the program's promises rest on. Done: the decoder, the
encoder with the native core, the broadcast and its snapshots, the store's files,
the slot, the stores together, the clipboard, the drops, the base45 carrier.

What is left: `StoreLocks`: the stores' locks on a synchronous
channel, with a deadlock as its question. `FileDrop` with two files sent at the
same time, and the disagreements listed above each as a run of its own: the
wrap of the session id, the late commit, the state ignored after a restart, the
backup lost.
