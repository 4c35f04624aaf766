---------------------------- MODULE MCXdpReaders ----------------------------
(* XdpReaders for TLC. *)
EXTENDS XdpReaders, XdpRules

LastPort == 65535
AnySrc   == CHOOSE s \in Srcs : TRUE
OneFrame == {[len |-> 60, types |-> <<"IP", "OTHER", "OTHER">>, proto |-> "TCP",
              src |-> AnySrc, dport |-> LastPort]}
Op(a, s, q, p) == [act |-> {a}, src |-> s, port |-> q, proto |-> p]
SrcAndPortOps == {Op(a, s, 0, "TCP") : a \in {"ADD", "DEL"}, s \in Srcs}
                 \cup {Op("ADD", NoSrc, LastPort, "TCP"), Op("DEL", NoSrc, LastPort, "UDP"),
                       Op("DEL", NoSrc, 80, "TCP")}

\* Two sources share a bucket.
TwoBuckets == CHOOSE b \in [Srcs -> {0, 1}] : Cardinality({s \in Srcs : b[s] = 0}) = 2

\* The inputs of this instance.  Four command lines of one tool come around a
\* listing; two of them under traffic; one each of two tools that
\* overlap.  The statistics see traffic alone and the listing command lines
\* alone: they share no state with the rest.
Ran == MapThenSumSet(LAMBDA t : ops'[t], Tools)
OneTool == \A t \in Tools \ {CHOOSE t \in Tools : TRUE} : ops'[t] = 0
Quiet   == \A c \in CPUs : runs'[c] = 0
Inputs ==
  /\ ops' # ops => rounds = 0
  /\ rounds' # rounds => \A t \in Tools : ops[t] = 0
  /\ runs' # runs => listings = 0
  /\ listings' > 0 => OneTool /\ Quiet
  /\ Quiet \/ (OneTool /\ Ran <= 2)
  /\ OneTool \/ Ran <= 2

MCNext == ReadersNext /\ Inputs
MCSpec == ReadersInit /\ [][MCNext]_<<vars, readers>> /\ ReadersFairness
=============================================================================
