---------------------------- MODULE PayloadQueue ----------------------------
(* The persistent queue of one ingress channel: PayloadQueue (queues.cc),  *)
(* driven by its Channel (channels.cc) and by orderly and disorderly       *)
(* restarts of the process.                                                *)
(*                                                                         *)
(* Payloads are numbered in the order of their pushes; of their bytes only *)
(* the length counts.  A queue file is the sequence of the complete        *)
(* records that have reached the disc: Payload::load() stops at a record   *)
(* that is cut short.  The keys of the files are times, so a new file is   *)
(* the last one (the clock is taken never to step back), and the one the   *)
(* destructor writes is the first.  Quota::check() calls discard_file()    *)
(* only for users with an age, and the constructor always reports the age  *)
(* 0, so no file is ever discarded.                                        *)
EXTENDS Integers, Sequences, Totals

CONSTANTS
  MaxMem,       \* max_mem: the limit on memory, and on one file
  Lengths,      \* the lengths of payloads
  MaxPushes,    \* bound on the number of pushes
  MaxRestarts   \* bound on the number of restarts

ASSUME SizesAssumption ==
  /\ MaxMem \in Nat \ {0}
  /\ Lengths \subseteq Nat
  /\ \A len \in Lengths : len + 2 < MaxMem

ASSUME BoundsAssumption == MaxPushes \in Nat /\ MaxRestarts \in Nat

VARIABLES
  mem,           \* queue: the payloads in memory
  szMem,         \* sz_mem
  files,         \* queue_fns: contents of the listed files, by key
  out,           \* the stream: closed, open on the last listed file, or
                 \* open on a file that has been deleted
  buffered,      \* records written to the listed file but still buffered
  szOut,         \* sz_out
  disappointed,  \* the user found nothing and is to be told of the next
  amount,        \* Quota::users[..].amount
  event,         \* the Channel's queue_event is set
  streaming,     \* the Channel is among the ingress's streamers
  running,       \* the queue object exists
  pushes,        \* number of payloads pushed
  taken,         \* number of the last payload consumed
  restarts       \* number of restarts

memVars == <<mem, szMem>>
outVars == <<out, buffered, szOut>>
vars == <<mem, szMem, files, out, buffered, szOut, disappointed, amount,
          event, streaming, running, pushes, taken, restarts>>

Payload == [id : 1..MaxPushes, len : Lengths]

Bytes(s) == Total([i \in 1..Len(s) |-> s[i].len])

FileBytes(s) == Bytes(s) + 2 * Len(s)

DiscBytes(fs) == Total([f \in 1..Len(fs) |-> FileBytes(fs[f])])

\* A record in a file is preceded by its length in two bytes.  In a mutated
\* form these are not charged to the quota.
BareRecordBytes(p) == p.len
RecordBytes(p) == p.len + 2

\* Quota::decrease() never takes the amount below zero.
Less(sum) == IF amount < sum THEN 0 ELSE amount - sum

----------------------------------------------------------------------------
\* The records s reach the disc, in the last of the files fs.
Written(fs, s) == [fs EXCEPT ![Len(fs)] = @ \o s]

\* ofstream::close() writes out what is buffered, to a listed file or to a
\* deleted one.  Mutated: what is buffered is dropped.
UnflushedFiles == files
FlushedFiles == IF out = "listed" THEN Written(files, buffered) ELSE files

\* load_head_file(): files are read and deleted, oldest first, until one has
\* a payload.  HeadFile is the last one read, Loaded what it holds.
HeadFile(fs) ==
  LET full == {i \in 1..Len(fs) : fs[i] # <<>>}
  IN  IF full = {} THEN Len(fs)
      ELSE CHOOSE i \in full : \A j \in full : i <= j

Loaded(fs) == IF HeadFile(fs) = 0 THEN <<>> ELSE fs[HeadFile(fs)]

\* Nothing checks whether `out' is still open on a file that is deleted.
LoadHeadFile(sz) ==
  /\ mem' = Loaded(files)
  /\ szMem' = sz + Bytes(mem')
  /\ files' = SubSeq(files, HeadFile(files) + 1, Len(files))
  /\ amount' = Less(DiscBytes(SubSeq(files, 1, HeadFile(files))))
  /\ IF out = "listed" /\ files' = <<>>
     THEN out' = "unlinked" /\ buffered' = <<>>
     ELSE UNCHANGED <<out, buffered>>
  /\ UNCHANGED szOut

\* peek(), with m in memory of size sz, and disc files to fall back on.
Peek(m, sz) ==
  IF m # <<>>
  THEN /\ mem' = m /\ szMem' = sz
       /\ UNCHANGED <<files, amount, disappointed, outVars>>
  ELSE /\ LoadHeadFile(sz)
       /\ disappointed' = (disappointed \/ mem' = <<>>)

\* poke(): the user's function sets the channel's event.  Mutated: it is
\* not called.
PeekOnly(m, sz) == Peek(m, sz) /\ UNCHANGED event
Poke(m, sz) == Peek(m, sz) /\ event' = (event \/ mem' # <<>>)

----------------------------------------------------------------------------
\* push(): a payload goes to memory if no file precedes it and it fits.
\* Mutated: it may overtake files, or fill the memory.
MayOvertake(p) == szMem + p.len < MaxMem
MayFill(p) == files = <<>> /\ szMem + p.len <= MaxMem
GoesToMemory(p) == files = <<>> /\ szMem + p.len < MaxMem

\* The user that was disappointed is told of the first payload.  Mutated:
\* the one that was not.
WakesContentUser == mem = <<>> /\ ~disappointed
WakesUser == mem = <<>> /\ disappointed

PushToMemory(p) ==
  /\ GoesToMemory(p)
  /\ mem' = Append(mem, p)
  /\ szMem' = szMem + p.len
  /\ IF WakesUser
     THEN disappointed' = FALSE /\ event' = TRUE
     ELSE UNCHANGED <<disappointed, event>>
  /\ UNCHANGED <<files, outVars, amount>>

\* push(): otherwise to the file that is open, or a new one if that would be
\* too long.  The library may write any part of its buffer to the file.
PushToFile(p) ==
  LET fresh == out = "closed" \/ szOut + 2 + p.len >= MaxMem
      base  == IF fresh THEN Append(FlushedFiles, <<>>) ELSE files
      buf   == IF fresh THEN <<p>> ELSE Append(buffered, p)
  IN  /\ ~GoesToMemory(p)
      /\ szOut' = (IF fresh THEN 0 ELSE szOut) + 2 + p.len
      /\ amount' = amount + RecordBytes(p)
      /\ IF fresh \/ out = "listed"
         THEN \E k \in 0..Len(buf) :
                /\ files' = Written(base, SubSeq(buf, 1, k))
                /\ buffered' = SubSeq(buf, k + 1, Len(buf))
                /\ szOut' >= MaxMem => k = Len(buf)
                /\ out' = IF szOut' >= MaxMem THEN "closed" ELSE "listed"
         ELSE /\ out' = IF szOut' >= MaxMem THEN "closed" ELSE "unlinked"
              /\ UNCHANGED <<files, buffered>>
      /\ UNCHANGED <<memVars, disappointed, event>>

\* Channel::submit()
Push ==
  /\ running
  /\ pushes < MaxPushes
  /\ pushes' = pushes + 1
  /\ \E len \in Lengths : LET p == [id |-> pushes + 1, len |-> len] IN
       PushToMemory(p) \/ PushToFile(p)
  /\ UNCHANGED <<streaming, running, taken, restarts>>

\* Channel::queue_ready(): the channel joins the ingress's streamers.
QueueReady ==
  /\ running /\ event
  /\ event' = FALSE
  /\ streaming' = TRUE
  /\ UNCHANGED <<memVars, files, outVars, disappointed, amount, running,
                 pushes, taken, restarts>>

\* Channel::describe() finds a head payload, which is sent, and consumed()
\* is told of its last byte: consume() and poke() the queue.  With nothing
\* to describe, the ingress drops the streamer.
Transmit ==
  /\ running /\ streaming
  /\ streaming' = FALSE
  /\ IF mem = <<>>
     THEN Peek(mem, szMem) /\ UNCHANGED <<event, taken>>
     ELSE /\ taken' = Head(mem).id
          /\ Poke(Tail(mem), szMem - Head(mem).len)
  /\ UNCHANGED <<running, pushes, restarts>>

----------------------------------------------------------------------------
\* ~PayloadQueue() saves memory in a file before every listed one.  Mutated:
\* after them, or over the first of them.
SavedLast == IF mem = <<>> THEN FlushedFiles ELSE Append(FlushedFiles, mem)
SavedOverFirst ==
  IF mem = <<>> THEN FlushedFiles
  ELSE <<mem>> \o SubSeq(FlushedFiles, 2, Len(FlushedFiles))
SavedFiles == IF mem = <<>> THEN FlushedFiles ELSE <<mem>> \o FlushedFiles

\* The queue and its channel are no more; the quota forgets the user.  What
\* a destroyed event may leave in the scheduler is not this module's
\* concern.  Mutated: the channel's event outlives it here too.
GoneButEvent ==
  /\ running' = FALSE
  /\ mem' = <<>> /\ szMem' = 0
  /\ out' = "closed" /\ buffered' = <<>> /\ szOut' = 0
  /\ amount' = 0
  /\ streaming' = FALSE
  /\ UNCHANGED <<event, disappointed, pushes, taken, restarts>>
Gone ==
  /\ running' = FALSE
  /\ mem' = <<>> /\ szMem' = 0
  /\ out' = "closed" /\ buffered' = <<>> /\ szOut' = 0
  /\ amount' = 0
  /\ event' = FALSE /\ streaming' = FALSE
  /\ UNCHANGED <<disappointed, pushes, taken, restarts>>

\* The program is told to stop, or to reload.
Stop == running /\ files' = SavedFiles /\ Gone

\* The process dies without running destructors.
Crash == running /\ UNCHANGED files /\ Gone

\* The constructor lists the directory and reports its size to the quota;
\* then Channel::activate() pokes the queue before any event is handled.
Start ==
  /\ ~running
  /\ restarts < MaxRestarts
  /\ restarts' = restarts + 1
  /\ running' = TRUE
  /\ mem' = Loaded(files)
  /\ files' = SubSeq(files, HeadFile(files) + 1, Len(files))
  /\ amount' = DiscBytes(files')
  /\ szMem' = Bytes(mem')
  /\ disappointed' = TRUE
  /\ event' = (mem' # <<>>)
  /\ UNCHANGED <<outVars, streaming, pushes, taken>>
----------------------------------------------------------------------------
Init ==
  /\ mem = <<>> /\ szMem = 0
  /\ files = <<>>
  /\ out = "closed" /\ buffered = <<>> /\ szOut = 0
  /\ disappointed = TRUE
  /\ amount = 0
  /\ event = FALSE /\ streaming = FALSE /\ running = FALSE
  /\ pushes = 0 /\ taken = 0 /\ restarts = 0

Next == Push \/ QueueReady \/ Transmit \/ Stop \/ Crash \/ Start

Spec == Init /\ [][Next]_vars

\* The event loop calls every handler that is due, and the peer accepts what
\* it is sent.
FairSpec == Spec /\ WF_vars(QueueReady) /\ WF_vars(Transmit) /\ WF_vars(Start)

----------------------------------------------------------------------------
Increasing(s) == \A i, j \in 1..Len(s) : i < j => s[i].id < s[j].id

Before(s, t) == \A i \in 1..Len(s), j \in 1..Len(t) : s[i].id < t[j].id

Ids(s) == {s[i].id : i \in 1..Len(s)}

FileIds(fs) == UNION {Ids(fs[f]) : f \in 1..Len(fs)}

DiscIds == FileIds(files)

KeptIds == Ids(mem) \cup DiscIds

StoredIds == KeptIds \cup Ids(buffered)

\* The state has the right types: a stream is open on a listed file only if
\* there is one, and only then holds records that matter.
TypeOK ==
  /\ mem \in Seq(Payload)
  /\ files \in Seq(Seq(Payload))
  /\ buffered \in Seq(Payload)
  /\ out \in {"closed", "listed", "unlinked"}
  /\ event \in BOOLEAN /\ streaming \in BOOLEAN
  /\ running \in BOOLEAN /\ disappointed \in BOOLEAN
  /\ pushes \in 0..MaxPushes /\ taken \in 0..MaxPushes
  /\ out = "listed" => files # <<>>
  /\ out # "listed" => buffered = <<>>
  /\ ~running => out = "closed" /\ mem = <<>> /\ ~event /\ ~streaming

InOrder(m, fs, b) ==
  /\ Increasing(m) /\ Increasing(b) /\ Before(m, b)
  /\ \A f \in 1..Len(fs) :
       /\ Increasing(fs[f]) /\ Before(m, fs[f]) /\ Before(fs[f], b)
       /\ \A g \in 1..Len(fs) : f < g => Before(fs[f], fs[g])

\* Payloads are stored in the order they were pushed, from the head of the
\* memory through the files to the stream buffer, and all after the last one
\* taken, whatever was spilled, reloaded or restored (push(),
\* load_head_file(), ~PayloadQueue()).
Ordered ==
  /\ InOrder(mem, files, buffered)
  /\ \A id \in StoredIds : taken < id /\ id <= pushes

\* sz_mem is the size of the payloads in memory, and stays under max_mem
\* even when memory was filled from a file.
MemoryBounded == szMem = Bytes(mem) /\ szMem < MaxMem

\* While the queue holds anything it could yield, the channel has been told
\* (queue_event) or is already waiting to send: no wake-up is lost between
\* push(), load_head_file(), consume() and poke().
NotStranded == running /\ KeptIds # {} => mem # <<>> /\ (event \/ streaming)

\* The quota never takes the queue's disc usage for less than it is, though
\* decrease() is told sizes found by reading and increase() by writing.
QuotaCoversDisc ==
  running => amount >= DiscBytes(files) + FileBytes(buffered)

\* What has reached the disc leaves it only for memory, and memory only by
\* being consumed in order, by being saved on shutdown, or in a crash.
DiscSurvives ==
  [][/\ DiscIds \subseteq KeptIds'
     /\ running' => Ids(mem) \subseteq Ids(mem') \cup {taken'}]_vars

\* An orderly shutdown (a reload) keeps every payload the queue holds.
StopKeepsAll == [][Stop => DiscIds' = StoredIds]_vars

\* Whatever the queue stores is eventually sent, unless it is lost.
Drains ==
  \A id \in 1..MaxPushes : id \in StoredIds ~> (id \notin StoredIds \/ ~running)

\* The queue is a FIFO that answers for what is in memory or on the disc.
Fifo == INSTANCE DurableFifo
          WITH count <- pushes, kept <- KeptIds, atRisk <- Ids(buffered)

ImplementsFifo == Fifo!Spec

\* queues.hh says load_head_file() loads the entries of a file and deletes
\* it: then no payload stored by a running queue goes unless it is consumed.
LoadsWholeFile ==
  [][running /\ running' => StoredIds \subseteq StoredIds' \cup {taken'}]_vars
=============================================================================
