------------------------------ MODULE PerfRing -------------------------------
(***************************************************************************)
(* xdp_tcpdump: an XDP program outputs every frame to the perf ring of the *)
(* CPU it runs on, and one process polls all rings and reads them with     *)
(* libbpf's bpf_perf_event_read_simple, which hands record after record to *)
(* a callback and then gives the room back by storing data_tail.           *)
(*                                                                         *)
(* The unit of memory is the 8 byte word, to which the kernel rounds       *)
(* records: a header is one word and never split.  Positions count on      *)
(* without wrapping, as the 64 bit ones do for all practical purposes.     *)
(* The kernel's half of the ring is external: it writes a record only into *)
(* free room, of which it keeps one word back, counts what did not fit,    *)
(* reports the count in front of the next record that does, publishes      *)
(* data_head and then marks the descriptor ready; poll reports a mark once.*)
(***************************************************************************)
EXTENDS Integers, Sequences, FiniteSets, FiniteSetsExt, SequencesExt

CONSTANTS
  Rings,        \* CPUs, numbered in the order the poller visits them
  Size,         \* words in a ring
  Sizes,        \* words in a sample
  LostSize,     \* words in the report of lost records
  Kinds,        \* of samples: "SAMPLE", and "BAD" for one without the cookie
  MaxFrames     \* bound: frames

ASSUME SizesAssumption ==
  /\ Rings \subseteq Nat
  /\ Size \in Nat /\ LostSize \in 1..(Size - 1) /\ Sizes \subseteq 1..(Size - 1)
  /\ Kinds \subseteq {"SAMPLE", "BAD"}
  /\ MaxFrames \in Nat

VARIABLES
  mem,      \* ring -> its words
  head,     \* ring -> data_head
  tail,     \* ring -> data_tail
  lost,     \* ring -> records lost since the last report
  ready,    \* ring -> marked for poll
  frames,   \* number of frames so far
  waking,   \* rings whose CPU has published a record and not marked it yet
  pc,       \* the poller: "poll", "rings", "record", "store", "crashed"
  revents,  \* rings poll reported and the loop has not come to
  begin, end, dataTail,   \* locals of bpf_perf_event_read_simple
  bufLen,   \* *buf_len
  buf       \* words really allocated at *buf, 0 when it is NULL

\* History: the records output and accepted, the rings where a reading was
\* broken off, and whether an allocation ever failed.
VARIABLES out, seen, broken, oom

kernel  == <<mem, head, lost, ready, frames, waking, out>>
reader  == <<begin, end, dataTail>>
buffer  == <<bufLen, buf>>
vars    == <<kernel, tail, pc, revents, reader, buffer, seen, broken, oom>>

Record(kind, size, n) == [kind |-> kind, size |-> size, n |-> n]
NoRecord == Record("NONE", 0, 0)

\* The words of a record; the header is the first of them.
Words(rec) == [k \in 1..rec.size |-> <<rec, k>>]

Init ==
  /\ mem = [r \in Rings |-> [x \in 0..(Size - 1) |-> <<NoRecord, 0>>]]
  /\ head = [r \in Rings |-> 0] /\ tail = [r \in Rings |-> 0]
  /\ lost = [r \in Rings |-> 0] /\ ready = [r \in Rings |-> FALSE]
  /\ frames = 0 /\ waking = {} /\ pc = "poll" /\ revents = {}
  /\ begin = 0 /\ end = 0 /\ dataTail = 0 /\ bufLen = 0 /\ buf = 0
  /\ out = [r \in Rings |-> <<>>] /\ seen = [r \in Rings |-> <<>>]
  /\ broken = {} /\ oom = FALSE

-----------------------------------------------------------------------------
(***************************************************************************)
(* The kernel and the XDP program.                                         *)
(***************************************************************************)

HasRoom(r, words) == words <= Size - 1 - (head[r] - tail[r])

Stored(m, from, words) ==
  [x \in DOMAIN m |-> LET k == ((x - from) % Size) + 1
                      IN  IF k \in DOMAIN words THEN words[k] ELSE m[x]]

\* bpf_perf_event_output(ctx, &perf_ring_map, BPF_F_CURRENT_CPU | len << 32, ...)
Output(r) ==
  \E kind \in Kinds, size \in Sizes :
    LET report == Record("LOST", LostSize, lost[r])
        sample == Record(kind, size, Len(out[r]) + 1)
        recs   == IF lost[r] = 0 THEN <<sample>> ELSE <<report, sample>>
        words  == IF lost[r] = 0 THEN Words(sample) ELSE Words(report) \o Words(sample)
    IN  /\ r \notin waking /\ frames < MaxFrames
        /\ frames' = frames + 1
        /\ \/ /\ HasRoom(r, Len(words))
              /\ mem'    = [mem EXCEPT ![r] = Stored(@, head[r], words)]
              /\ head'   = [head EXCEPT ![r] = @ + Len(words)]
              /\ out'    = [out EXCEPT ![r] = @ \o recs]
              /\ lost'   = [lost EXCEPT ![r] = 0]
              /\ waking' = waking \cup {r}
           \/ /\ ~HasRoom(r, Len(words))
              /\ lost' = [lost EXCEPT ![r] = @ + 1]
              /\ UNCHANGED <<mem, head, out, waking>>
        /\ UNCHANGED <<ready, tail, pc, revents, reader, buffer, seen, broken, oom>>

Wake(r) ==
  /\ r \in waking
  /\ waking' = waking \ {r}
  /\ ready'  = [ready EXCEPT ![r] = TRUE]
  /\ UNCHANGED <<mem, head, lost, frames, out, tail, pc, revents, reader, buffer, seen, broken, oom>>

-----------------------------------------------------------------------------
(***************************************************************************)
(* pcap_perf_event_poller.  A poll that times out changes nothing.         *)
(***************************************************************************)

Poll ==
  /\ pc = "poll" /\ \E r \in Rings : ready[r]
  /\ revents' = {r \in Rings : ready[r]}
  /\ ready'   = [r \in Rings |-> FALSE]
  /\ pc' = "rings"
  /\ UNCHANGED <<mem, head, lost, frames, waking, out, tail, reader, buffer, seen, broken, oom>>

\* The ring the loop over i is at
ring == Min(revents)

\* Mutant: the loop is left after any reading.
GoOnAfterAny(left) ==
  /\ revents' = {} /\ pc' = "poll"
  /\ begin' = 0 /\ end' = 0 /\ dataTail' = 0
GoOn(left) ==
  /\ revents' = left
  /\ pc' = IF left = {} THEN "poll" ELSE "rings"
  /\ begin' = 0 /\ end' = 0 /\ dataTail' = 0

\* bpf_perf_event_read_simple, up to its loop
\* Mutant: the room is given back before the records in it are read.
EnterGivingBack ==
  /\ pc = "rings"
  /\ \/ head[ring] = tail[ring] /\ GoOn(revents \ {ring})
     \/ /\ head[ring] # tail[ring]
        /\ begin' = tail[ring] % Size /\ end' = head[ring] % Size
        /\ dataTail' = tail[ring] /\ pc' = "record" /\ UNCHANGED revents
  /\ tail' = [tail EXCEPT ![ring] = head[ring]]
  /\ UNCHANGED <<kernel, buffer, seen, broken, oom>>
Enter ==
  /\ pc = "rings"
  /\ \/ /\ head[ring] = tail[ring]
        /\ GoOn(revents \ {ring})
     \/ /\ head[ring] # tail[ring]
        /\ begin' = tail[ring] % Size
        /\ end'   = head[ring] % Size
        /\ dataTail' = tail[ring]
        /\ pc' = "record"
        /\ UNCHANGED revents
  /\ UNCHANGED <<kernel, tail, buffer, seen, broken, oom>>

\* ehdr = begin
ehdr  == mem[ring][begin][1]
Wraps == begin + ehdr.size > Size

\* Mutant: only when there is none yet.
NeedsFirstBuffer == Wraps /\ bufLen = 0
\* malloc(ehdr->size) is asked for
NeedsBuffer == Wraps /\ bufLen < ehdr.size

\* What the callback is given: the record in the ring, or its two parts copied.
Assembled ==
  LET len == Size - begin
  IN  [k \in 1..ehdr.size |-> IF ~Wraps \/ k <= len THEN mem[ring][begin + k - 1]
                              ELSE mem[ring][k - len - 1]]

\* Mutant: a record that ends where the ring does is taken for any other.
NextBeginPastEnd == IF Wraps THEN ehdr.size - (Size - begin) ELSE begin + ehdr.size
NextBegin == IF Wraps THEN ehdr.size - (Size - begin)
             ELSE IF begin + ehdr.size = Size THEN 0 ELSE begin + ehdr.size

BreakOff ==
  /\ pc' = "store"
  /\ broken' = broken \cup {ring}

\* *buf is freed, and *buf_len keeps what it was.
MallocFails ==
  /\ pc = "record" /\ begin # end /\ NeedsBuffer
  /\ buf' = 0 /\ oom' = TRUE
  /\ BreakOff
  /\ UNCHANGED <<kernel, tail, revents, reader, bufLen, seen>>

\* The wrapped record is copied to a buffer that does not hold it.
Overrun ==
  /\ pc = "record" /\ begin # end
  /\ Wraps /\ ~NeedsBuffer /\ buf < ehdr.size
  /\ pc' = "crashed"
  /\ UNCHANGED <<kernel, tail, revents, reader, buffer, seen, broken, oom>>

\* The callback is perf_event_process.
Accepts(rec) == rec.kind # "BAD"

HandOver ==
  /\ pc = "record" /\ begin # end
  /\ IF NeedsBuffer THEN bufLen' = ehdr.size /\ buf' = ehdr.size
     ELSE (Wraps => buf >= ehdr.size) /\ UNCHANGED buffer
  /\ begin' = NextBegin
  /\ \/ /\ Accepts(ehdr)
        /\ seen' = [seen EXCEPT ![ring] = Append(@, Assembled)]
        /\ dataTail' = dataTail + ehdr.size
        /\ UNCHANGED <<pc, broken>>
     \/ /\ ~Accepts(ehdr)
        /\ BreakOff
        /\ UNCHANGED <<seen, dataTail>>
  /\ UNCHANGED <<kernel, tail, revents, end, oom>>

\* Mutant: all that is there is given back.
StoreHead ==
  /\ pc = "store" \/ (pc = "record" /\ begin = end)
  /\ tail' = [tail EXCEPT ![ring] = head[ring]]
  /\ GoOn(IF pc = "store" THEN {} ELSE revents \ {ring})
  /\ UNCHANGED <<kernel, buffer, seen, broken, oom>>
\* header->data_tail = data_tail.  The poller's break leaves the loop over
\* the rings and polls again.
StoreTail ==
  /\ pc = "store" \/ (pc = "record" /\ begin = end)
  /\ tail' = [tail EXCEPT ![ring] = dataTail]
  /\ GoOn(IF pc = "store" THEN {} ELSE revents \ {ring})
  /\ UNCHANGED <<kernel, buffer, seen, broken, oom>>

Poller == Poll \/ Enter \/ MallocFails \/ Overrun \/ HandOver \/ StoreTail

Next == Poller \/ \E r \in Rings : Output(r) \/ Wake(r)

Spec == Init /\ [][Next]_vars

\* The process is scheduled, and a CPU that has published a record marks it.
\* Frames need never come.
FairSpec == Spec /\ WF_vars(Poller) /\ \A r \in Rings : WF_vars(Wake(r))

-----------------------------------------------------------------------------
(***************************************************************************)
(* Properties.                                                             *)
(***************************************************************************)

TypeOK ==
  /\ head \in [Rings -> Nat] /\ tail \in [Rings -> Nat] /\ lost \in [Rings -> Nat]
  /\ ready \in [Rings -> BOOLEAN] /\ waking \subseteq Rings /\ frames \in 0..MaxFrames
  /\ pc \in {"poll", "rings", "record", "store", "crashed"}
  /\ revents \subseteq Rings /\ (revents = {} <=> pc = "poll")
  /\ begin \in 0..(Size - 1) /\ end \in 0..(Size - 1) /\ dataTail \in Nat
  /\ bufLen \in Nat /\ buf \in Nat /\ broken \subseteq Rings /\ oom \in BOOLEAN

\* Every ring is a queue of whole records: whatever the kernel writes behind
\* the reader's back, the callback sees the records that were output, each
\* once, in their order, and none that was overwritten or torn at the end of
\* the ring.
Queue == INSTANCE PerfQueue WITH
  queue  <- [r \in Rings |-> [i \in 1..(Len(out[r]) - Len(seen[r])) |->
                                Words(out[r][Len(seen[r]) + i])]],
  handed <- seen

RingIsQueue == Queue!Spec

\* A wrapped record is never copied into a buffer too small for it, unless an
\* allocation failed before (libbpf.c:2297 leaves *buf_len as it was).
CopyFits == pc = "crashed" => oom

\* No wake-up is lost: records that nobody has read are on a ring that is marked,
\* or about to be, or still to be visited in this turn, also those published
\* after poll took the mark back or while the ring was read up to an older
\* data_head; unless a reading of the ring or of one visited before it was
\* broken off.
NoWakeUpLost ==
  \A r \in Rings : head[r] # tail[r] =>
    ready[r] \/ r \in waking \/ r \in revents \/ \E s \in broken : s <= r

\* Again and again every ring is read to its end, unless a reading of it or of
\* a ring visited before it was broken off: what is published while the poller
\* is on its way is read in a later turn, and a refusal never harms the rings
\* before it.
EveryRingDrained ==
  \A r \in Rings :
    []<>(Len(seen[r]) = Len(out[r]) \/ pc = "crashed" \/ \E s \in broken : s <= r)
=============================================================================
