----------------------------- MODULE XdpReaders -----------------------------
(***************************************************************************)
(* XdpBlacklist with one more invocation of the command line tool, which   *)
(* only reads: --list walks the hash map of sources key by key, --stats    *)
(* adds up the verdict counters of all CPUs over and over.  Both read maps *)
(* that other invocations and the CPUs go on changing between two of their *)
(* system calls.  The counts a listing prints beside the sources are       *)
(* summed like the verdicts and left out.                                  *)
(***************************************************************************)
EXTENDS XdpBlacklist, Sequences

CONSTANTS
  Bucket,      \* the bucket a source's hash falls into
  MaxListings, \* bound: listings
  MaxRounds    \* bound: rounds of the statistics

ASSUME ReadersAssumption ==
  /\ Bucket \in [Srcs -> Nat]
  /\ MaxListings \in Nat /\ MaxRounds \in Nat

VARIABLES
  ahead,     \* pairs of elements of blacklist: a walk of the buckets meets the
             \* first of them before the second
  rpc,       \* what the reading invocation does next
  prev_key,  \* the listing's cursor; NoSrc: NULL
  listed,    \* the sources it has printed
  listings,  \* listings begun, for MaxListings
  key,       \* the action whose counters are being summed, by its number
  left, sum, \* CPUs whose slot the lookup has yet to copy, and the sum so far
  record, prev,  \* counters of this round, and of the round before
  rounds,    \* rounds begun, for MaxRounds
  \* history
  stayed,    \* sources that have been there since the listing began
  lost,      \* has the element under the cursor been deleted?
  again,     \* has a source been printed twice?
  before,    \* the total of action key when its reading began
  low        \* the same for the counters in record

listing == <<rpc, prev_key, listed, listings>>
polling == <<key, left, sum, record, prev, rounds>>
seen    == <<stayed, lost, again>>
totals  == <<before, low>>
readers == <<ahead, listing, polling, seen, totals>>

ActionNames == <<"ABORTED", "DROP", "PASS", "TX">>   \* by number, from 0
NoCounts    == [a \in Actions |-> 0]

ReadersInit ==
  /\ Init
  /\ ahead = {}
  /\ rpc = "idle" /\ prev_key = NoSrc /\ listed = {} /\ listings = 0
  /\ key = 0 /\ left = {} /\ sum = 0 /\ rounds = 0
  /\ record = NoCounts /\ prev = NoCounts
  /\ stayed = {} /\ lost = FALSE /\ again = FALSE
  /\ before = 0 /\ low = NoCounts

-----------------------------------------------------------------------------
(***************************************************************************)
(* The kernel's hash map.                                                  *)
(***************************************************************************)

\* A new element becomes the first of its bucket.
Linked(s) == ahead \cup {<<r, s>> : r \in {q \in present : Bucket[q] < Bucket[s]}}
                   \cup {<<s, r>> : r \in {q \in present : Bucket[q] >= Bucket[s]}}

\* The order after a step that makes present' of present.
Relinked ==
  ahead' = IF present' \subseteq present
           THEN ahead \cap (present' \X present')
           ELSE UNION {Linked(s) : s \in present' \ present}

\* htab_map_get_next_key: the first of those that come after k; from a key that
\* is not there it starts over.
Behind(k)   == IF k \in present THEN {s \in present : <<k, s>> \in ahead} ELSE present
NextKeys(k) == {s \in Behind(k) : \A r \in Behind(k) : r = s \/ <<s, r>> \in ahead}

-----------------------------------------------------------------------------
(***************************************************************************)
(* main with --list: blacklist_list_all_ipv4.                              *)
(***************************************************************************)
BeginList ==
  /\ rpc = "idle" /\ listings < MaxListings /\ rounds = 0
  /\ rpc' = "next" /\ prev_key' = NoSrc /\ listed' = {}
  /\ listings' = listings + 1
  /\ stayed' = present /\ lost' = FALSE /\ again' = FALSE
  /\ UNCHANGED <<vars, ahead, polling, totals>>

\* bpf_map_get_next_key(fd, prev_key, &key) == 0
\* Mutant: prev_key is never set.
GetNextKeyNull ==
  /\ rpc = "next"
  /\ \E s \in NextKeys(NoSrc) :
       /\ listed' = listed \cup {s}
       /\ again'  = (again \/ s \in listed)
  /\ rpc' = "value"
  /\ UNCHANGED <<vars, ahead, prev_key, listings, polling, stayed, lost, totals>>
GetNextKey ==
  /\ rpc = "next"
  /\ \E s \in NextKeys(prev_key) :
       /\ prev_key' = s
       /\ listed'   = listed \cup {s}
       /\ again'    = (again \/ s \in listed)
       /\ lost'     = (lost \/ (prev_key # NoSrc /\ prev_key \notin present))
  /\ rpc' = "value"
  /\ UNCHANGED <<vars, ahead, listings, polling, stayed, totals>>

\* get_key32_value64_percpu and blacklist_print_ipv4: of an element that is
\* gone by now it prints the count 0.
\* Mutant: a failed lookup ends the listing.
PrintSourceOrStop ==
  /\ rpc = "value"
  /\ rpc' = IF prev_key \in present THEN "next" ELSE "listed"
  /\ UNCHANGED <<vars, ahead, prev_key, listed, listings, polling, seen, totals>>
PrintSource ==
  /\ rpc = "value"
  /\ rpc' = "next"
  /\ UNCHANGED <<vars, ahead, prev_key, listed, listings, polling, seen, totals>>

EndOfKeys ==
  /\ rpc = "next" /\ Behind(prev_key) = {}
  /\ rpc' = "listed"
  /\ UNCHANGED <<vars, ahead, prev_key, listed, listings, polling, seen, totals>>

EndList ==
  /\ rpc = "listed"
  /\ rpc' = "idle" /\ prev_key' = NoSrc /\ listed' = {}
  /\ stayed' = {} /\ lost' = FALSE /\ again' = FALSE
  /\ UNCHANGED <<vars, ahead, listings, polling, totals>>

-----------------------------------------------------------------------------
(***************************************************************************)
(* main with --stats: stats_poll, for ever.                                *)
(***************************************************************************)
Total(a) == SumFunction([c \in CPUs |-> verdicts[c][a]])
Name(n)  == ActionNames[n + 1]

\* memcpy(&prev, &record), and stats_collect's first action
BeginRound ==
  /\ rpc = "idle" /\ rounds < MaxRounds /\ listings = 0
  /\ rpc' = "sum" /\ prev' = record /\ rounds' = rounds + 1
  /\ key' = 0 /\ left' = CPUs /\ sum' = 0
  /\ before' = Total(Name(0))
  /\ UNCHANGED <<vars, ahead, prev_key, listed, listings, record, seen, low>>

\* get_key32_value64_percpu: the sum with c's slot
\* Mutant: the sum leaves out the CPU that is copied last.
SumWithoutLast(c) == IF left = {c} THEN sum ELSE sum + verdicts[c][Name(key)]
SumWith(c) == sum + verdicts[c][Name(key)]

SumCounter(c) ==
  /\ rpc = "sum" /\ c \in left
  /\ IF left # {c}
     THEN /\ left' = left \ {c} /\ sum' = SumWith(c)
          /\ UNCHANGED <<key, record, low, before, rpc>>
     ELSE /\ record' = [record EXCEPT ![Name(key)] = SumWith(c)]
          /\ low'    = [low EXCEPT ![Name(key)] = before]
          /\ sum'    = 0
          /\ IF key < 3
             THEN /\ key' = key + 1 /\ left' = CPUs
                  /\ before' = Total(Name(key + 1)) /\ UNCHANGED rpc
             ELSE key' = 0 /\ left' = {} /\ before' = 0 /\ rpc' = "idle"
  /\ UNCHANGED <<vars, ahead, prev_key, listed, listings, prev, rounds, seen>>

-----------------------------------------------------------------------------
\* What a step of the program or of a tool means to the reader.
Beside ==
  /\ Relinked
  /\ stayed' = stayed \cap present'
  /\ lost'   = (lost \/ (prev_key \in present /\ prev_key \notin present'))
  /\ UNCHANGED <<listing, polling, again, totals>>

ListStep == BeginList \/ GetNextKey \/ PrintSource \/ EndOfKeys \/ EndList
PollStep == BeginRound \/ \E c \in CPUs : SumCounter(c)

ReadersNext == (Next /\ Beside) \/ ListStep \/ PollStep

ReadersFairness ==
  /\ \A c \in CPUs : WF_<<vars, readers>>(RunStep(c) /\ Beside)
  /\ \A t \in Tools : WF_<<vars, readers>>(ToolStep(t) /\ Beside)
  /\ WF_<<vars, readers>>(GetNextKey \/ PrintSource \/ EndOfKeys \/ EndList)

ReadersSpec == ReadersInit /\ [][ReadersNext]_<<vars, readers>> /\ ReadersFairness

-----------------------------------------------------------------------------
(***************************************************************************)
(* Properties.                                                             *)
(***************************************************************************)

\* A listing that has come to its end (cmdline.c:240) has printed every source
\* that was on the blacklist all the while, whatever was added and deleted
\* around it, the key it stood on included.  It prints a source twice only when
\* the element it stood on was deleted, which makes the kernel start over or, if
\* it has been added again, walk its bucket once more.
ListingFaithful ==
  /\ rpc = "listed" => stayed \subseteq listed
  /\ again => lost

\* A listing ends once the command lines stop coming.
ListingEnds == rpc = "next" ~> rpc = "idle"

\* Although the CPUs go on counting between two copies, each sum of --stats
\* lies between the totals at the beginning and at the end of its reading, so
\* the difference the rate is computed from (cmdline.c:151) is never negative.
StatsBracketed ==
  \A a \in Actions : /\ low[a] <= record[a] /\ record[a] <= Total(a)
                     /\ prev[a] <= record[a]
=============================================================================
