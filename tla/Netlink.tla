------------------------------- MODULE Netlink -------------------------------
(***************************************************************************)
(* nla_parse, and how it looks for the kernel's message in the refusal of  *)
(* a netlink request.  Bytes are positions only; the one byte that counts  *)
(* is the last of a string.                                                *)
(***************************************************************************)
EXTENDS Integers, Sequences, SequencesExt

HdrLen   == 4                                   \* NLA_HDRLEN, sizeof(struct nlattr)
Align(n) == ((n + 3) \div 4) * 4                \* NLA_ALIGN, NLMSG_ALIGN

MsgHdrLen == 16                                 \* NLMSG_HDRLEN
ErrLen    == 20                                 \* sizeof(struct nlmsgerr)

AttrTypes == {"UNUSED", "MSG", "OFFS", "COOKIE"}   \* up to NLMSGERR_ATTR_MAX

-----------------------------------------------------------------------------
(***************************************************************************)
(* nla_parse.  An attribute is [len, type, nul]; a stream of them is laid  *)
(* out as nla_next expects it, each at the aligned end of the one before.  *)
(***************************************************************************)
PosOf(attrs, i) == FoldLeft(LAMBDA pos, a : pos + Align(a.len), 0, SubSeq(attrs, 1, i - 1))

\* int against size_t: a negative remainder is no less than sizeof(*nla), but
\* then less than any nla_len that is.
\* Mutant: the attribute's own length is not compared with what remains.
NlaOkHeader(a, remaining) == (remaining < 0 \/ remaining >= HdrLen) /\ a.len >= HdrLen
NlaOk(a, remaining) ==
  /\ remaining < 0 \/ remaining >= HdrLen
  /\ a.len >= HdrLen
  /\ a.len <= remaining

MinLen == [UNUSED |-> 0, MSG |-> 1, OFFS |-> 4, COOKIE |-> 0]

\* validate_nla under extack_policy
Valid(a) == /\ a.len - HdrLen >= MinLen[a.type]
            /\ a.type = "MSG" => a.nul

Store(tb, type, i) == [tb EXCEPT ![type] = i]

\* The index by type, 0 for NULL, and whether all attributes were valid.
NlaParse(attrs, len) ==
  LET step(run, i) ==
        LET a == attrs[i]
        IN  IF ~run.going \/ ~NlaOk(a, len - PosOf(attrs, i))
            THEN [run EXCEPT !.going = FALSE]
            ELSE IF a.type \notin AttrTypes THEN run
            ELSE IF ~Valid(a) THEN [run EXCEPT !.going = FALSE, !.ok = FALSE]
            ELSE [run EXCEPT !.tb = Store(@, a.type, i)]
  IN  FoldLeft(step, [tb |-> [t \in AttrTypes |-> 0], ok |-> TRUE, going |-> TRUE],
               [i \in DOMAIN attrs |-> i])

\* nla_dump_errormsg: the attribute whose text it prints; 0: (null) or nothing,
\* -1: it only says that it failed to parse.  attrs are the attributes of the
\* message and whatever the buffer holds behind it: the length of the message,
\* less what precedes the attributes from nlmsgerr on, still counts its header.
\* A capped refusal does not repeat the request.
AttrRoom(reply) == reply.len - (ErrLen + (IF reply.capped THEN 0 ELSE reply.request))

ErrorMessage(reply) ==
  LET p == NlaParse(reply.attrs, AttrRoom(reply))
  IN  IF ~reply.tlvs THEN 0
      ELSE IF ~p.ok THEN -1
      ELSE p.tb["MSG"]
=============================================================================
