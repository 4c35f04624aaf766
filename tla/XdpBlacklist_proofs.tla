------------------------ MODULE XdpBlacklist_proofs ------------------------
(***************************************************************************)
(* Theorems about XdpBlacklist, XdpRules and XdpReaders, for any CPUs,     *)
(* tools, sources, ports, frames and buckets, and any number of runs,      *)
(* command lines, listings and polls.                                      *)
(***************************************************************************)
EXTENDS XdpRules, XdpReaders, FoldLemmas

\* What the program and the tools are about wherever they stand.
RunInv == \A c \in CPUs :
  /\ pc[c] \in {"source", "hit", "port", "load", "store"} => frame[c] \in Frames
  /\ pc[c] \in {"port", "load", "store"} => frame[c].proto \in Protos

ToolOK(t) ==
  /\ tpc[t] \in {"source", "port", "read", "write", "clear"} => op[t] \in Ops
  /\ tpc[t] = "port" => op[t].port # 0
  /\ tpc[t] \in {"read", "write", "clear"} =>
       op[t].port \in Ports /\ op[t].act \in {{"ADD"}, {"DEL"}} /\ todo[t] # {}
  /\ tpc[t] = "clear" => op[t].act = {"DEL"}

ToolInv == \A t \in Tools : ToolOK(t)

TypeInv == TypeOK /\ RunInv /\ ToolInv

-----------------------------------------------------------------------------
(* The frame's fields, and the verdict on it. *)

LEMMA FrameFields ==
  ASSUME NEW f \in Frames
  PROVE  /\ f.src \in Srcs /\ f.dport \in Ports /\ f.proto \in IpProtos
         /\ f.len \in Nat /\ f.types \in [1..3 -> EtherTypes]
BY FramesAssumption DEF Frame

LEMMA OpFields ==
  ASSUME NEW o \in Ops
  PROVE  /\ o.act \in SUBSET {"ADD", "DEL"} /\ o.act # {}
         /\ o.src \in Srcs \cup {NoSrc, BadSrc}
         /\ o.port \in Ports \cup {0, MaxPort + 1, -1}
         /\ o.proto \in Protos
BY OpsAssumption

LEMMA VerdictIsAction ==
  ASSUME NEW f, NEW S, NEW B
  PROVE  Verdict(f, S, B) \in Actions
BY DEF Verdict, Classify, ParseIpv4, ParsePort, Actions

LEMMA AtMostTwoRange ==
  ASSUME NEW n \in Int, n >= 0
  PROVE  AtMostTwo(n) \in 0..2
BY DEF AtMostTwo

LEMMA BusyCount ==
  Cardinality({t \in Tools : Busy(t)}) \in Nat
<1>1. IsFiniteSet({t \in Tools : Busy(t)})
  <2>1. {t \in Tools : Busy(t)} \in SUBSET Tools
    OBVIOUS
  <2>2. IsFiniteSet(Tools)
    BY SetsAssumption
  <2> QED BY ONLY <2>1, <2>2, FS_Subset
<1> QED BY <1>1, FS_CardinalityType

-----------------------------------------------------------------------------
(* What one CPU's part of a map operation does to the tool. *)
LEMMA CopiedStep ==
  ASSUME ToolsTypeOK, NEW t \in Tools, NEW c \in todo[t],
         NEW next \in {"write", "clear", "exit"},
         Copied(t, c, next)
  PROVE  /\ todo' \in [Tools -> SUBSET CPUs]
         /\ tpc' \in [Tools -> {"idle", "source", "port", "read", "write", "clear", "exit"}]
         /\ \A u \in Tools \ {t} : todo'[u] = todo[u] /\ tpc'[u] = tpc[u]
         /\ todo[t] # {c} => tpc'[t] = tpc[t] /\ todo'[t] = todo[t] \ {c} /\ todo'[t] # {}
         /\ todo[t] = {c} => tpc'[t] = next
         /\ todo[t] = {c} /\ next # "exit" => todo'[t] = CPUs /\ todo'[t] # {}
<1>1. todo[t] # {c} => todo[t] \ {c} # {}
  OBVIOUS
<1>2. CPUs # {}
  BY ONLY SetsAssumption
<1>3. c \in CPUs
  BY DEF ToolsTypeOK
<1>4. CASE todo[t] = {c}
  <2>1. todo' = [todo EXCEPT ![t] = IF next = "exit" THEN {} ELSE CPUs]
    BY <1>4 DEF Copied
  <2>2. tpc' = [tpc EXCEPT ![t] = next]
    BY <1>4 DEF Copied
  <2> QED BY <1>2, <1>4, <2>1, <2>2 DEF ToolsTypeOK
<1>5. CASE todo[t] # {c}
  <2>1. todo' = [todo EXCEPT ![t] = todo[t] \ {c}]
    BY <1>5 DEF Copied
  <2>2. tpc' = tpc
    BY <1>5 DEF Copied, ToolsTypeOK
  <2> QED BY <1>1, <1>3, <1>5, <2>1, <2>2 DEF ToolsTypeOK
<1> QED BY <1>4, <1>5

-----------------------------------------------------------------------------
LEMMA InitTypeInv == Init => TypeInv
<1> SUFFICES ASSUME Init PROVE TypeInv
  OBVIOUS
<1>1. MapsTypeOK
  BY BoundsAssumption DEF Init, MapsTypeOK
<1>2. ProgramTypeOK
  BY BoundsAssumption DEF Init, ProgramTypeOK, Actions
<1>3. ToolsTypeOK
  BY DEF Init, ToolsTypeOK
<1>4. HistoryTypeOK
  BY DEF Init, HistoryTypeOK
<1>5. RunInv /\ ToolInv
  BY DEF Init, RunInv, ToolInv, ToolOK
<1> QED BY <1>1, <1>2, <1>3, <1>4, <1>5 DEF TypeInv, TypeOK

(* A step of the program, action by action. *)
LEMMA RunTypeInv ==
  ASSUME TypeInv, NEW c \in CPUs,
         SkipFrame(c) \/ Receive(c) \/ RunStep(c)
  PROVE  TypeInv'
<1> USE DEF TypeInv, TypeOK, maps, program, tools, history
<1>1. CASE SkipFrame(c)
  <2>1. MapsTypeOK'
    BY <1>1 DEF MapsTypeOK, SkipFrame
  <2>2. ProgramTypeOK'
    BY <1>1 DEF ProgramTypeOK, SkipFrame
  <2>3. ToolsTypeOK'
    BY <1>1 DEF ToolsTypeOK, SkipFrame
  <2>4. HistoryTypeOK'
    BY <1>1 DEF HistoryTypeOK, SkipFrame
  <2>5. RunInv'
    BY <1>1 DEF ProgramTypeOK, RunInv, SkipFrame
  <2>6. ToolInv'
    BY <1>1 DEF ToolsTypeOK, ToolInv, ToolOK, SkipFrame
  <2> QED BY <2>1, <2>2, <2>3, <2>4, <2>5, <2>6 DEF TypeInv, TypeOK
<1>2. CASE Receive(c)
  <2>1. MapsTypeOK'
    BY <1>2 DEF MapsTypeOK, Receive
  <2>2. ProgramTypeOK'
    BY <1>2 DEF ProgramTypeOK, Receive, Actions
  <2>3. ToolsTypeOK'
    BY <1>2 DEF ToolsTypeOK, Receive
  <2>4. HistoryTypeOK'
    BY <1>2, VerdictIsAction, AtMostTwoRange, BusyCount DEF HistoryTypeOK, Receive
  <2>5. RunInv'
    BY <1>2 DEF ProgramTypeOK, RunInv, Receive
  <2>6. ToolInv'
    BY <1>2 DEF ToolsTypeOK, ToolInv, ToolOK, Receive
  <2> QED BY <2>1, <2>2, <2>3, <2>4, <2>5, <2>6 DEF TypeInv, TypeOK
<1>3. CASE SourceFound(c)
  <2>1. MapsTypeOK'
    BY <1>3 DEF MapsTypeOK, SourceFound
  <2>2. ProgramTypeOK'
    BY <1>3 DEF ProgramTypeOK, SourceFound
  <2>3. ToolsTypeOK'
    BY <1>3 DEF ToolsTypeOK, SourceFound
  <2>4. HistoryTypeOK'
    BY <1>3, FrameFields DEF HistoryTypeOK, SourceFound, ProgramTypeOK, RunInv
  <2>5. RunInv'
    BY <1>3 DEF ProgramTypeOK, RunInv, SourceFound
  <2>6. ToolInv'
    BY <1>3 DEF ToolsTypeOK, ToolInv, ToolOK, SourceFound
  <2> QED BY <2>1, <2>2, <2>3, <2>4, <2>5, <2>6 DEF TypeInv, TypeOK
<1>4. CASE SourceNotFound(c)
  <2>1. MapsTypeOK'
    BY <1>4 DEF MapsTypeOK, SourceNotFound
  <2>2. ProgramTypeOK'
    BY <1>4 DEF ProgramTypeOK, SourceNotFound, Actions
  <2>3. ToolsTypeOK'
    BY <1>4 DEF ToolsTypeOK, SourceNotFound
  <2>4. HistoryTypeOK'
    BY <1>4 DEF HistoryTypeOK, SourceNotFound
  <2>5. RunInv'
    BY <1>4 DEF ProgramTypeOK, RunInv, SourceNotFound
  <2>6. ToolInv'
    BY <1>4 DEF ToolsTypeOK, ToolInv, ToolOK, SourceNotFound
  <2> QED BY <2>1, <2>2, <2>3, <2>4, <2>5, <2>6 DEF TypeInv, TypeOK
<1>5. CASE CountHit(c)
  <2>1. MapsTypeOK'
    BY <1>5, FrameFields DEF MapsTypeOK, CountHit, RunInv
  <2>2. ProgramTypeOK'
    BY <1>5 DEF ProgramTypeOK, CountHit, Actions
  <2>3. ToolsTypeOK'
    BY <1>5 DEF ToolsTypeOK, CountHit
  <2>4. HistoryTypeOK'
    BY <1>5 DEF HistoryTypeOK, CountHit
  <2>5. RunInv'
    BY <1>5 DEF ProgramTypeOK, RunInv, CountHit
  <2>6. ToolInv'
    BY <1>5 DEF ToolsTypeOK, ToolInv, ToolOK, CountHit
  <2> QED BY <2>1, <2>2, <2>3, <2>4, <2>5, <2>6 DEF TypeInv, TypeOK
<1>6. CASE LookupPort(c)
  <2>1. MapsTypeOK'
    BY <1>6 DEF MapsTypeOK, LookupPort
  <2>2. ProgramTypeOK'
    BY <1>6 DEF ProgramTypeOK, LookupPort, Actions
  <2>3. ToolsTypeOK'
    BY <1>6 DEF ToolsTypeOK, LookupPort
  <2>4. HistoryTypeOK'
    BY <1>6 DEF HistoryTypeOK, LookupPort
  <2>5. RunInv'
    BY <1>6 DEF ProgramTypeOK, RunInv, LookupPort
  <2>6. ToolInv'
    BY <1>6 DEF ToolsTypeOK, ToolInv, ToolOK, LookupPort
  <2> QED BY <2>1, <2>2, <2>3, <2>4, <2>5, <2>6 DEF TypeInv, TypeOK
<1>7. CASE LoadDrops(c)
  <2>1. MapsTypeOK'
    BY <1>7 DEF MapsTypeOK, LoadDrops
  <2>2. ProgramTypeOK'
    BY <1>7, FrameFields DEF ProgramTypeOK, LoadDrops, MapsTypeOK, RunInv
  <2>3. ToolsTypeOK'
    BY <1>7 DEF ToolsTypeOK, LoadDrops
  <2>4. HistoryTypeOK'
    BY <1>7 DEF HistoryTypeOK, LoadDrops
  <2>5. RunInv'
    BY <1>7 DEF ProgramTypeOK, RunInv, LoadDrops
  <2>6. ToolInv'
    BY <1>7 DEF ToolsTypeOK, ToolInv, ToolOK, LoadDrops
  <2> QED BY <2>1, <2>2, <2>3, <2>4, <2>5, <2>6 DEF TypeInv, TypeOK
<1>8. CASE StoreDrops(c)
  <2>1. MapsTypeOK'
    BY <1>8, FrameFields, BoundsAssumption DEF MapsTypeOK, StoreDrops, RunInv, ProgramTypeOK
  <2>2. ProgramTypeOK'
    BY <1>8, BoundsAssumption DEF ProgramTypeOK, StoreDrops
  <2>3. ToolsTypeOK'
    BY <1>8 DEF ToolsTypeOK, StoreDrops
  <2>4. HistoryTypeOK'
    BY <1>8, FrameFields DEF HistoryTypeOK, StoreDrops, RunInv, ProgramTypeOK
  <2>5. RunInv'
    BY <1>8 DEF ProgramTypeOK, RunInv, StoreDrops
  <2>6. ToolInv'
    BY <1>8 DEF ToolsTypeOK, ToolInv, ToolOK, StoreDrops
  <2> QED BY <2>1, <2>2, <2>3, <2>4, <2>5, <2>6 DEF TypeInv, TypeOK
<1>9. CASE CountVerdict(c)
  <2>1. MapsTypeOK'
    BY <1>9 DEF MapsTypeOK, CountVerdict, ProgramTypeOK
  <2>2. ProgramTypeOK'
    BY <1>9 DEF ProgramTypeOK, CountVerdict, Actions
  <2>3. ToolsTypeOK'
    BY <1>9 DEF ToolsTypeOK, CountVerdict
  <2>4. HistoryTypeOK'
    BY <1>9 DEF HistoryTypeOK, CountVerdict
  <2>5. RunInv'
    BY <1>9 DEF ProgramTypeOK, RunInv, CountVerdict
  <2>6. ToolInv'
    BY <1>9 DEF ToolsTypeOK, ToolInv, ToolOK, CountVerdict
  <2> QED BY <2>1, <2>2, <2>3, <2>4, <2>5, <2>6 DEF TypeInv, TypeOK
<1> QED BY <1>1, <1>2, <1>3, <1>4, <1>5, <1>6, <1>7, <1>8, <1>9 DEF RunStep

(* A step of a tool, action by action. *)
LEMMA ToolTypeInv ==
  ASSUME TypeInv, NEW t \in Tools, Start(t) \/ ToolStep(t)
  PROVE  TypeInv'
<1> USE DEF TypeInv, TypeOK, maps, program, tools, history
<1>1. CASE Start(t)
  <2>1. MapsTypeOK'
    BY <1>1 DEF MapsTypeOK, Start
  <2>2. ProgramTypeOK'
    BY <1>1 DEF ProgramTypeOK, Start
  <2>3. ToolsTypeOK'
    BY <1>1, OpFields DEF ToolsTypeOK, Start
  <2>4. HistoryTypeOK'
    <3>1. \A n \in 0..2 : AtMostTwo(n + 1) \in 0..2
      BY DEF AtMostTwo
    <3>2. overlap' \in [CPUs -> 0..2]
      BY <1>1, <3>1 DEF HistoryTypeOK, Start
    <3> QED BY <1>1, <3>2 DEF HistoryTypeOK, Start
  <2>5. RunInv'
    BY <1>1 DEF ProgramTypeOK, RunInv, Start
  <2>6. ToolInv'
    <3>1. PICK o \in Ops : /\ op' = [op EXCEPT ![t] = o]
                           /\ tpc' = [tpc EXCEPT ![t] = IF o.src # NoSrc THEN "source"
                                         ELSE IF o.port # 0 THEN "port" ELSE "exit"]
      BY <1>1 DEF Start
    <3>2. tpc'[t] \in {"source", "port", "exit"} /\ op'[t] = o
          /\ (tpc'[t] = "port" => o.port # 0)
      BY <3>1 DEF ToolsTypeOK
    <3>3. ToolOK(t)'
      BY <3>2 DEF ToolOK
    <3>4. ASSUME NEW u \in Tools \ {t} PROVE ToolOK(u)'
      BY <1>1, <3>1 DEF ToolsTypeOK, ToolInv, ToolOK, Start
    <3> QED BY <3>3, <3>4 DEF ToolInv
  <2> QED BY <2>1, <2>2, <2>3, <2>4, <2>5, <2>6 DEF TypeInv, TypeOK
<1>2. CASE RefuseSource(t)
  <2>1. MapsTypeOK'
    BY <1>2 DEF MapsTypeOK, RefuseSource, SourceDone, SourceUnchanged
  <2>2. ProgramTypeOK'
    BY <1>2 DEF ProgramTypeOK, RefuseSource, SourceDone, SourceUnchanged
  <2>3. ToolsTypeOK'
    BY <1>2 DEF ToolsTypeOK, RefuseSource, SourceDone, SourceUnchanged
  <2>4. HistoryTypeOK'
    BY <1>2 DEF HistoryTypeOK, RefuseSource, SourceDone, SourceUnchanged
  <2>5. RunInv'
    BY <1>2 DEF ProgramTypeOK, RunInv, RefuseSource, SourceDone, SourceUnchanged
  <2>6. ToolInv'
    BY <1>2 DEF ToolsTypeOK, ToolInv, ToolOK, RefuseSource, SourceDone, SourceUnchanged
  <2> QED BY <2>1, <2>2, <2>3, <2>4, <2>5, <2>6 DEF TypeInv, TypeOK
<1>3. CASE AddSource(t)
  <2>1. MapsTypeOK'
    BY <1>3 DEF MapsTypeOK, AddSource, InsertSource
  <2>2. ProgramTypeOK'
    BY <1>3 DEF ProgramTypeOK, AddSource
  <2>3. ToolsTypeOK'
    BY <1>3 DEF ToolsTypeOK, AddSource, SourceDone, InsertCode
  <2>4. HistoryTypeOK'
    BY <1>3, VerdictIsAction DEF HistoryTypeOK, AddSource, NowAlso
  <2>5. RunInv'
    BY <1>3 DEF ProgramTypeOK, RunInv, AddSource
  <2>6. ToolInv'
    BY <1>3 DEF ToolsTypeOK, ToolInv, ToolOK, AddSource, SourceDone
  <2> QED BY <2>1, <2>2, <2>3, <2>4, <2>5, <2>6 DEF TypeInv, TypeOK
<1>4. CASE DeleteSource(t)
  <2>1. MapsTypeOK'
    BY <1>4 DEF MapsTypeOK, DeleteSource
  <2>2. ProgramTypeOK'
    BY <1>4 DEF ProgramTypeOK, DeleteSource
  <2>3. ToolsTypeOK'
    BY <1>4 DEF ToolsTypeOK, DeleteSource, SourceDone
  <2>4. HistoryTypeOK'
    BY <1>4, VerdictIsAction DEF HistoryTypeOK, DeleteSource, NowAlso
  <2>5. RunInv'
    BY <1>4 DEF ProgramTypeOK, RunInv, DeleteSource
  <2>6. ToolInv'
    BY <1>4 DEF ToolsTypeOK, ToolInv, ToolOK, DeleteSource, SourceDone
  <2> QED BY <2>1, <2>2, <2>3, <2>4, <2>5, <2>6 DEF TypeInv, TypeOK
<1>5. CASE CheckPort(t)
  <2>1. MapsTypeOK'
    BY <1>5 DEF MapsTypeOK, CheckPort
  <2>2. ProgramTypeOK'
    BY <1>5 DEF ProgramTypeOK, CheckPort
  <2>3. ToolsTypeOK'
    BY <1>5 DEF ToolsTypeOK, CheckPort, PortCode
  <2>4. HistoryTypeOK'
    BY <1>5 DEF HistoryTypeOK, CheckPort
  <2>5. RunInv'
    BY <1>5 DEF ProgramTypeOK, RunInv, CheckPort
  <2>6. ToolInv'
    <3>1. op[t] \in Ops /\ op[t].port # 0
      BY <1>5 DEF ToolInv, ToolOK, CheckPort
    <3>2. CASE PortCode(op[t]) = "OK"
      <4>1. op[t].port \in Ports
        BY <3>1, <3>2, OpFields DEF PortCode, MaxPort
      <4>2. op[t].act \in {{"ADD"}, {"DEL"}}
        BY <3>1, <3>2, OpFields DEF PortCode
      <4>3. ToolOK(t)'
        BY <1>5, <3>1, <3>2, <4>1, <4>2, SetsAssumption DEF ToolsTypeOK, CheckPort, ToolOK
      <4>4. ASSUME NEW u \in Tools \ {t} PROVE ToolOK(u)'
        BY <1>5 DEF ToolsTypeOK, ToolInv, ToolOK, CheckPort
      <4> QED BY <4>3, <4>4 DEF ToolInv
    <3>3. CASE PortCode(op[t]) # "OK"
      <4>1. ToolOK(t)'
        BY <1>5, <3>3 DEF ToolsTypeOK, CheckPort, ToolOK
      <4>2. ASSUME NEW u \in Tools \ {t} PROVE ToolOK(u)'
        BY <1>5 DEF ToolsTypeOK, ToolInv, ToolOK, CheckPort
      <4> QED BY <4>1, <4>2 DEF ToolInv
    <3> QED BY <3>2, <3>3
  <2> QED BY <2>1, <2>2, <2>3, <2>4, <2>5, <2>6 DEF TypeInv, TypeOK
<1>6. CASE \E c \in CPUs : ReadPort(t, c)
  <2>0. PICK c \in CPUs : ReadPort(t, c)
    BY <1>6
  <2>1. MapsTypeOK'
    BY <2>0 DEF MapsTypeOK, ReadPort
  <2>2. ProgramTypeOK'
    BY <2>0 DEF ProgramTypeOK, ReadPort
  <2>3. ToolsTypeOK'
    BY <2>0, CopiedStep DEF ToolsTypeOK, ReadPort, MapsTypeOK, ToolInv, ToolOK
  <2>4. HistoryTypeOK'
    BY <2>0 DEF HistoryTypeOK, ReadPort
  <2>5. RunInv'
    BY <2>0 DEF ProgramTypeOK, RunInv, ReadPort
  <2>6. ToolInv'
    <3> DEFINE next == "write"
    <3>1. c \in todo[t] /\ Copied(t, c, next) /\ op' = op
      BY <2>0 DEF ReadPort
    <3>2. next \in {"write", "clear", "exit"}
      OBVIOUS
    <3>3. /\ \A u \in Tools \ {t} : todo'[u] = todo[u] /\ tpc'[u] = tpc[u]
          /\ tpc'[t] \in {tpc[t], next} /\ (tpc'[t] # "exit" => todo'[t] # {})
      BY <3>1, <3>2, CopiedStep
    <3>4. ToolOK(t)'
      BY <2>0, <3>1, <3>3 DEF ToolInv, ToolOK, ReadPort
    <3>5. ASSUME NEW u \in Tools \ {t} PROVE ToolOK(u)'
      BY <3>1, <3>3 DEF ToolInv, ToolOK
    <3> QED BY <3>4, <3>5 DEF ToolInv
  <2> QED BY <2>1, <2>2, <2>3, <2>4, <2>5, <2>6 DEF TypeInv, TypeOK
<1>7. CASE \E c \in CPUs : WritePort(t, c)
  <2>0. PICK c \in CPUs : WritePort(t, c)
    BY <1>7
  <2>1. MapsTypeOK'
    BY <2>0, OpFields DEF MapsTypeOK, WritePort, Modified, ToolsTypeOK, ToolInv, ToolOK
  <2>2. ProgramTypeOK'
    BY <2>0 DEF ProgramTypeOK, WritePort
  <2>3. ToolsTypeOK'
    BY <2>0, CopiedStep DEF ToolsTypeOK, WritePort
  <2>4. HistoryTypeOK'
    BY <2>0, OpFields, VerdictIsAction DEF HistoryTypeOK, WritePort, NowAlso, Modified, ToolInv, ToolOK
  <2>5. RunInv'
    BY <2>0 DEF ProgramTypeOK, RunInv, WritePort
  <2>6. ToolInv'
    <3> DEFINE next == IF op[t].act = {"DEL"} THEN "clear" ELSE "exit"
    <3>1. c \in todo[t] /\ Copied(t, c, next) /\ op' = op
      BY <2>0 DEF WritePort
    <3>2. next \in {"write", "clear", "exit"}
      OBVIOUS
    <3>3. /\ \A u \in Tools \ {t} : todo'[u] = todo[u] /\ tpc'[u] = tpc[u]
          /\ tpc'[t] \in {tpc[t], next} /\ (tpc'[t] # "exit" => todo'[t] # {})
      BY <3>1, <3>2, CopiedStep
    <3>4. ToolOK(t)'
      BY <2>0, <3>1, <3>3 DEF ToolInv, ToolOK, WritePort
    <3>5. ASSUME NEW u \in Tools \ {t} PROVE ToolOK(u)'
      BY <3>1, <3>3 DEF ToolInv, ToolOK
    <3> QED BY <3>4, <3>5 DEF ToolInv
  <2> QED BY <2>1, <2>2, <2>3, <2>4, <2>5, <2>6 DEF TypeInv, TypeOK
<1>8. CASE \E c \in CPUs : ClearCount(t, c)
  <2>0. PICK c \in CPUs : ClearCount(t, c)
    BY <1>8
  <2>1. MapsTypeOK'
    BY <2>0, OpFields, BoundsAssumption DEF MapsTypeOK, ClearCount, ToolInv, ToolOK, ToolsTypeOK
  <2>2. ProgramTypeOK'
    BY <2>0 DEF ProgramTypeOK, ClearCount
  <2>3. ToolsTypeOK'
    BY <2>0, CopiedStep DEF ToolsTypeOK, ClearCount
  <2>4. HistoryTypeOK'
    BY <2>0 DEF HistoryTypeOK, ClearCount
  <2>5. RunInv'
    BY <2>0 DEF ProgramTypeOK, RunInv, ClearCount
  <2>6. ToolInv'
    <3> DEFINE next == "exit"
    <3>1. c \in todo[t] /\ Copied(t, c, next) /\ op' = op
      BY <2>0 DEF ClearCount
    <3>2. next \in {"write", "clear", "exit"}
      OBVIOUS
    <3>3. /\ \A u \in Tools \ {t} : todo'[u] = todo[u] /\ tpc'[u] = tpc[u]
          /\ tpc'[t] \in {tpc[t], next} /\ (tpc'[t] # "exit" => todo'[t] # {})
      BY <3>1, <3>2, CopiedStep
    <3>4. ToolOK(t)'
      BY <2>0, <3>1, <3>3 DEF ToolInv, ToolOK, ClearCount
    <3>5. ASSUME NEW u \in Tools \ {t} PROVE ToolOK(u)'
      BY <3>1, <3>3 DEF ToolInv, ToolOK
    <3> QED BY <3>4, <3>5 DEF ToolInv
  <2> QED BY <2>1, <2>2, <2>3, <2>4, <2>5, <2>6 DEF TypeInv, TypeOK
<1>9. CASE Exit(t)
  <2>1. MapsTypeOK'
    BY <1>9 DEF MapsTypeOK, Exit
  <2>2. ProgramTypeOK'
    BY <1>9 DEF ProgramTypeOK, Exit
  <2>3. ToolsTypeOK'
    BY <1>9 DEF ToolsTypeOK, Exit
  <2>4. HistoryTypeOK'
    BY <1>9 DEF HistoryTypeOK, Exit
  <2>5. RunInv'
    BY <1>9 DEF ProgramTypeOK, RunInv, Exit
  <2>6. ToolInv'
    BY <1>9 DEF ToolsTypeOK, ToolInv, ToolOK, Exit
  <2> QED BY <2>1, <2>2, <2>3, <2>4, <2>5, <2>6 DEF TypeInv, TypeOK
<1> QED BY <1>1, <1>2, <1>3, <1>4, <1>5, <1>6, <1>7, <1>8, <1>9 DEF ToolStep

LEMMA NextTypeInv == TypeInv /\ [Next]_vars => TypeInv'
<1> SUFFICES ASSUME TypeInv, [Next]_vars PROVE TypeInv'
  OBVIOUS
<1>1. CASE UNCHANGED vars
  <2> USE <1>1 DEF vars, maps, program, tools, history
  <2>1. TypeOK'
    BY DEF TypeInv, TypeOK, MapsTypeOK, ProgramTypeOK, ToolsTypeOK, HistoryTypeOK
  <2>2. RunInv' /\ ToolInv'
    BY DEF TypeInv, RunInv, ToolInv, ToolOK
  <2> QED BY <2>1, <2>2 DEF TypeInv
<1>2. CASE Next
  BY <1>2, RunTypeInv, ToolTypeInv DEF Next
<1> QED BY <1>1, <1>2

LEMMA TypeInvariant == Spec => []TypeInv
BY InitTypeInv, NextTypeInv, PTL DEF Spec

\* The maps, the program's registers and the tools' variables keep to their
\* ranges in every behaviour: no out of range port reaches a map, no counter
\* leaves the range of a u32, no exit code is made up.
THEOREM TypeCorrect == Spec => []TypeOK
BY TypeInvariant, PTL DEF TypeInv

-----------------------------------------------------------------------------
(***************************************************************************)
(* The counts of the source blacklist.  What makes the increment safe is   *)
(* that a run between lookup and increment either counts on an element     *)
(* that is still linked, or is an orphan; an element that is linked anew   *)
(* starts with no such run.                                                *)
(***************************************************************************)
HitInv ==
  /\ BlacklistCountExact
  /\ \A c \in CPUs : pc[c] = "hit" /\ c \notin orphans => frame[c].src \in present
  /\ \A c \in orphans : pc[c] = "hit"

LEMMA InitHitInv == Init => HitInv
BY DEF Init, HitInv, BlacklistCountExact, Counting

LEMMA NextHitInv == TypeInv /\ HitInv /\ [Next]_vars => HitInv'
<1> SUFFICES ASSUME TypeInv, HitInv, [Next]_vars PROVE HitInv'
  OBVIOUS
<1> USE DEF HitInv, BlacklistCountExact, Counting
<1>1. TypeOK /\ RunInv /\ ToolInv
  BY DEF TypeInv
<1>2. CASE UNCHANGED <<present, hits, pc, frame, orphans, matched>>
  BY <1>2
<1>3. ASSUME NEW c \in CPUs, Receive(c) PROVE HitInv'
  BY <1>1, <1>3 DEF Receive, TypeOK, ProgramTypeOK, maps, tools
<1>4. ASSUME NEW c \in CPUs, SourceFound(c) PROVE HitInv'
  <2>1. frame[c].src \in Srcs
    BY <1>1, <1>4, FrameFields DEF RunInv, SourceFound
  <2>2. ASSUME NEW s \in Srcs, NEW d \in CPUs
        PROVE  (matched[s][d] = hits[s][d] + (IF Counting(s, d) THEN 1 ELSE 0))'
    BY <1>1, <1>4, <2>1, <2>2 DEF SourceFound, TypeOK, ProgramTypeOK, MapsTypeOK, HistoryTypeOK, maps
  <2>3. \A d \in CPUs : (pc[d] = "hit" /\ d \notin orphans => frame[d].src \in present)'
    BY <1>1, <1>4 DEF SourceFound, TypeOK, ProgramTypeOK, maps
  <2>4. \A d \in orphans' : pc'[d] = "hit"
    BY <1>1, <1>4 DEF SourceFound, TypeOK, ProgramTypeOK
  <2> QED BY <2>2, <2>3, <2>4
<1>5. ASSUME NEW c \in CPUs, SourceNotFound(c) \/ LookupPort(c) \/ LoadDrops(c)
                             \/ StoreDrops(c) \/ CountVerdict(c)
      PROVE  HitInv'
  BY <1>1, <1>5 DEF SourceNotFound, LookupPort, LoadDrops, StoreDrops, CountVerdict,
                    TypeOK, ProgramTypeOK, maps, history
<1>6. ASSUME NEW c \in CPUs, CountHit(c) PROVE HitInv'
  <2>1. frame[c].src \in Srcs
    BY <1>1, <1>6, FrameFields DEF RunInv, CountHit
  <2>2. ASSUME NEW s \in Srcs, NEW d \in CPUs
        PROVE  (matched[s][d] = hits[s][d] + (IF Counting(s, d) THEN 1 ELSE 0))'
    BY <1>1, <1>6, <2>1, <2>2 DEF CountHit, TypeOK, ProgramTypeOK, MapsTypeOK, HistoryTypeOK, history
  <2>3. \A d \in CPUs : (pc[d] = "hit" /\ d \notin orphans => frame[d].src \in present)'
    BY <1>1, <1>6 DEF CountHit, TypeOK, ProgramTypeOK
  <2>4. \A d \in orphans' : pc'[d] = "hit"
    BY <1>1, <1>6 DEF CountHit, TypeOK, ProgramTypeOK
  <2> QED BY <2>2, <2>3, <2>4
<1>7. ASSUME NEW t \in Tools, AddSource(t) PROVE HitInv'
  <2> DEFINE s == op[t].src
  <2>1. s \in Srcs /\ UNCHANGED <<pc, frame, orphans>>
    BY <1>7 DEF AddSource, program
  <2>2. CASE UNCHANGED <<present, hits>>
    BY <1>7, <2>1, <2>2 DEF AddSource
  <2>3. CASE /\ s \notin present
             /\ present' = present \cup {s}
             /\ hits' = [hits EXCEPT ![s] = [d \in CPUs |-> 0]]
    <3>1. \A d \in CPUs : ~Counting(s, d)
      BY <2>3
    <3>2. matched' = [matched EXCEPT ![s] = [d \in CPUs |-> 0]]
      BY <1>7, <2>3 DEF AddSource
    <3> QED BY <1>1, <2>1, <2>3, <3>1, <3>2 DEF TypeOK, MapsTypeOK, HistoryTypeOK
  <2> QED BY <1>7, <2>2, <2>3 DEF AddSource, InsertSource
<1>8. ASSUME NEW t \in Tools, DeleteSource(t) PROVE HitInv'
  <2> DEFINE s == op[t].src
  <2>1. /\ s \in Srcs
        /\ present' = present \ {s}
        /\ hits' = [hits EXCEPT ![s] = [d \in CPUs |-> 0]]
        /\ matched' = [matched EXCEPT ![s] = [d \in CPUs |-> 0]]
        /\ orphans' = orphans \cup {d \in CPUs : pc[d] = "hit" /\ frame[d].src = s}
        /\ UNCHANGED <<pc, frame>>
    BY <1>8 DEF DeleteSource
  <2> QED BY <1>1, <2>1 DEF TypeOK, MapsTypeOK, HistoryTypeOK
<1>9. CASE UNCHANGED vars
  BY <1>9, <1>2 DEF vars, maps, program, history
<1>10. ASSUME NEW t \in Tools,
              Start(t) \/ RefuseSource(t) \/ CheckPort(t) \/ Exit(t)
              \/ (\E c \in CPUs : ReadPort(t, c) \/ WritePort(t, c) \/ ClearCount(t, c))
       PROVE  HitInv'
  BY <1>10, <1>2 DEF Start, RefuseSource, SourceUnchanged, CheckPort, Exit, ReadPort, WritePort,
                     ClearCount, maps, program, history
<1>11. ASSUME NEW c \in CPUs, SkipFrame(c) PROVE HitInv'
  BY <1>11, <1>2 DEF SkipFrame, maps, history
<1> QED
  BY <1>3, <1>4, <1>5, <1>6, <1>7, <1>8, <1>9, <1>10, <1>11 DEF Next, RunStep, ToolStep

\* The hit count of every blacklisted source on every CPU is exactly the number
\* of frames matched since the source was added, less one being counted.
THEOREM HitCountsExact == Spec => []BlacklistCountExact
<1>1. Spec => []HitInv
  BY InitHitInv, NextHitInv, TypeInvariant, PTL DEF Spec
<1> QED BY <1>1, PTL DEF HitInv

-----------------------------------------------------------------------------
(* Arithmetic of the wrap. *)

LEMMA DivUnique ==
  ASSUME NEW m \in Nat \ {0}, NEW k \in Int, NEW r \in 0..(m-1)
  PROVE  (m * k + r) % m = r
<1> DEFINE a == m * k + r
           r2 == a % m
           k2 == a \div m
<1>1. a = m * k2 + r2 /\ r2 \in 0..(m - 1) /\ k2 \in Int /\ a \in Int
  OBVIOUS
<1> HIDE DEF r2, k2
<1>3. CASE k2 >= k + 1
  <2>1. m * k2 >= m * (k + 1)
    BY <1>1, <1>3
  <2> QED BY <1>1, <2>1
<1>4. CASE k2 <= k - 1
  <2>1. m * k2 <= m * (k - 1)
    BY <1>1, <1>4
  <2> QED BY <1>1, <2>1
<1>5. CASE k2 = k
  <2> QED BY <1>1, <1>5 DEF r2
<1> QED BY <1>1, <1>3, <1>4, <1>5

LEMMA ModAtMost ==
  ASSUME NEW m \in Nat \ {0}, NEW a \in Nat
  PROVE  a % m \in 0..(m - 1) /\ a % m <= a
<1> DEFINE r == a % m
           k == a \div m
<1>1. a = m * k + r /\ r \in 0..(m - 1) /\ k \in Int
  OBVIOUS
<1>2. k >= 0
  <2> HIDE DEF r, k
  <2>1. CASE k <= -1
    <3>1. m * k <= -m
       BY <1>1, <2>1
    <3> QED BY <1>1, <3>1
  <2> QED BY <1>1, <2>1
<1>3. m * k >= 0
  BY <1>1, <1>2
<1> QED BY <1>1, <1>3

\* Counting modulo m step by step is counting and then taking the remainder.
LEMMA ModSucc ==
  ASSUME NEW m \in Nat \ {0}, NEW a \in Nat
  PROVE  ((a % m) + 1) % m = (a + 1) % m
<1> DEFINE r == a % m
           k == a \div m
<1>1. a = m * k + r /\ r \in 0..(m - 1) /\ k \in Int
  OBVIOUS
<1> HIDE DEF r, k
<1>2. CASE r + 1 < m
  <2>1. a + 1 = m * k + (r + 1) /\ r + 1 \in 0..(m - 1)
    BY <1>1, <1>2
  <2>2. (a + 1) % m = r + 1
    BY <1>1, <2>1, DivUnique
  <2>3. (r + 1) % m = r + 1
    BY <1>1, <1>2
  <2> QED BY <2>2, <2>3 DEF r
<1>3. CASE r + 1 = m
  <2>1. a + 1 = m * (k + 1) + 0 /\ 0 \in 0..(m - 1)
    BY <1>1, <1>3
  <2>2. (a + 1) % m = 0
    BY <1>1, <2>1, DivUnique
  <2>3. m % m = 0
    OBVIOUS
  <2> QED BY <1>3, <2>2, <2>3 DEF r
<1> QED BY <1>1, <1>2, <1>3

-----------------------------------------------------------------------------
(***************************************************************************)
(* The counters of the port rules.  A run holds a value of the counter     *)
(* between load and store; that value may be stale only once a --del has   *)
(* set out to clear the counter.                                           *)
(***************************************************************************)
Uncleared(p, q) == <<p, q>> \notin cleared

HeldOK(c, p, q) ==
  /\ tmp[c] <= dropped[p][c][q]
  /\ Uncleared(p, q) => tmp[c] = dropped[p][c][q] % DropModulus

DropInv ==
  /\ DropCountSound
  /\ \A c \in CPUs : pc[c] = "store" => HeldOK(c, frame[c].proto, frame[c].dport)
  /\ \A t \in Tools : tpc[t] = "clear" => ~Uncleared(op[t].proto, op[t].port)

LEMMA InitDropInv == Init => DropInv
<1>1. 0 % DropModulus = 0
  BY BoundsAssumption
<1> QED BY <1>1 DEF Init, DropInv, DropCountSound

LEMMA NextDropInv == TypeInv /\ DropInv /\ [Next]_vars => DropInv'
<1> SUFFICES ASSUME TypeInv, DropInv, [Next]_vars PROVE DropInv'
  OBVIOUS
<1> USE DEF DropInv, DropCountSound, HeldOK, Uncleared
<1>1. TypeOK /\ RunInv /\ ToolInv
  BY DEF TypeInv
<1>2. CASE UNCHANGED <<drops, dropped, cleared, pc, frame, tmp, tpc, op>>
  BY <1>2
\* Steps of the program that leave the counters alone and are not a load.
<1>3. ASSUME NEW c \in CPUs,
             SkipFrame(c) \/ Receive(c) \/ SourceFound(c) \/ SourceNotFound(c)
             \/ CountHit(c) \/ LookupPort(c) \/ CountVerdict(c)
      PROVE  DropInv'
  <2>1. /\ UNCHANGED <<drops, dropped, cleared, tmp, tpc, op>>
        /\ \A d \in CPUs : pc'[d] = "store" => pc[d] = "store" /\ frame'[d] = frame[d]
    BY <1>1, <1>3 DEF TypeOK, ProgramTypeOK, SkipFrame, Receive, SourceFound, SourceNotFound,
       CountHit, LookupPort, CountVerdict, maps, tools, history
  <2> QED BY <2>1
<1>4. ASSUME NEW c \in CPUs, LoadDrops(c) PROVE DropInv'
  <2> DEFINE p == frame[c].proto
             q == frame[c].dport
  <2>1. p \in Protos /\ q \in Ports
    BY <1>1, <1>4, FrameFields DEF RunInv, LoadDrops
  <2>2. /\ UNCHANGED <<drops, dropped, cleared, frame, tpc, op>>
        /\ tmp' = [tmp EXCEPT ![c] = drops[p][c][q]]
        /\ pc' = [pc EXCEPT ![c] = "store"]
    BY <1>4 DEF LoadDrops, maps, tools, history
  <2>3. HeldOK(c, p, q)'
    BY <1>1, <2>1, <2>2 DEF TypeOK, ProgramTypeOK
  <2>4. \A d \in CPUs \ {c} : pc'[d] = "store" => HeldOK(d, frame[d].proto, frame[d].dport)'
    BY <1>1, <2>2 DEF TypeOK, ProgramTypeOK
  <2> QED BY <2>2, <2>3, <2>4
<1>5. ASSUME NEW c \in CPUs, StoreDrops(c) PROVE DropInv'
  <2> DEFINE p == frame[c].proto
             q == frame[c].dport
             n == dropped[p][c][q]
  <2>1. p \in Protos /\ q \in Ports
    BY <1>1, <1>5, FrameFields DEF RunInv, StoreDrops
  <2>2. /\ UNCHANGED <<cleared, frame, tpc, op>>
        /\ drops' = [drops EXCEPT ![p][c][q] = (tmp[c] + 1) % DropModulus]
        /\ dropped' = [dropped EXCEPT ![p][c][q] = @ + 1]
        /\ tmp' = [tmp EXCEPT ![c] = 0]
        /\ pc' = [pc EXCEPT ![c] = "stats"]
        /\ HeldOK(c, p, q)
    BY <1>5 DEF StoreDrops, tools
  <2>3. n \in Nat /\ tmp[c] \in Nat /\ DropModulus \in Nat \ {0}
    BY <1>1, <2>1, BoundsAssumption DEF TypeOK, HistoryTypeOK, ProgramTypeOK
  <2>4. (tmp[c] + 1) % DropModulus <= n + 1
    BY <2>2, <2>3, ModAtMost, SMTT(30)
  <2>5. Uncleared(p, q) => (tmp[c] + 1) % DropModulus = (n + 1) % DropModulus
    BY <2>2, <2>3, ModSucc
  <2>t. /\ drops \in [Protos -> [CPUs -> [Ports -> 0..(DropModulus - 1)]]]
        /\ dropped \in [Protos -> [CPUs -> [Ports -> Nat]]]
    BY <1>1 DEF TypeOK, MapsTypeOK, HistoryTypeOK
  <2>u. /\ drops' = [drops EXCEPT ![p][c][q] = (tmp[c] + 1) % DropModulus]
        /\ dropped' = [dropped EXCEPT ![p][c][q] = n + 1]
    BY <2>2
  <2> HIDE DEF p, q, n
  <2>6. /\ drops'[p][c][q] = (tmp[c] + 1) % DropModulus
        /\ dropped'[p][c][q] = n + 1
    <3>1. drops'[p][c][q] = (tmp[c] + 1) % DropModulus
      BY <2>1, <2>t, <2>u
    <3>2. dropped'[p][c][q] = n + 1
      BY <2>1, <2>t, <2>u
    <3> QED BY <3>1, <3>2
  <2>7. ASSUME NEW p1 \in Protos, NEW d \in CPUs, NEW q1 \in Ports, p1 # p \/ d # c \/ q1 # q
        PROVE  drops'[p1][d][q1] = drops[p1][d][q1] /\ dropped'[p1][d][q1] = dropped[p1][d][q1]
    <3>1. drops'[p1][d][q1] = drops[p1][d][q1]
      BY <2>1, <2>t, <2>u, <2>7
    <3>2. dropped'[p1][d][q1] = dropped[p1][d][q1]
      BY <2>1, <2>t, <2>u, <2>7
    <3> QED BY <3>1, <3>2
  <2> USE DEF p, q, n
  <2>8. DropCountSound'
    <3> SUFFICES ASSUME NEW p1 \in Protos, NEW d \in CPUs, NEW q1 \in Ports
                 PROVE  (/\ drops[p1][d][q1] <= dropped[p1][d][q1]
                         /\ <<p1, q1>> \notin cleared =>
                              drops[p1][d][q1] = dropped[p1][d][q1] % DropModulus)'
      OBVIOUS
    <3>1. CASE p1 = p /\ d = c /\ q1 = q
      BY <2>2, <2>4, <2>5, <2>6, <3>1, ZenonT(40)
    <3>2. CASE p1 # p \/ d # c \/ q1 # q
      <4>1. /\ drops[p1][d][q1] <= dropped[p1][d][q1]
            /\ <<p1, q1>> \notin cleared => drops[p1][d][q1] = dropped[p1][d][q1] % DropModulus
        OBVIOUS
      <4>2. drops'[p1][d][q1] = drops[p1][d][q1] /\ dropped'[p1][d][q1] = dropped[p1][d][q1]
        BY <2>7, <3>2
      <4> QED BY <2>2, <4>1, <4>2
    <3> QED BY <3>1, <3>2
  <2>9. ASSUME NEW d \in CPUs, pc'[d] = "store"
        PROVE  HeldOK(d, frame[d].proto, frame[d].dport)'
    <3>1. d # c /\ pc[d] = "store" /\ tmp'[d] = tmp[d]
      BY <1>1, <2>2, <2>9 DEF TypeOK, ProgramTypeOK
    <3>2. frame[d].proto \in Protos /\ frame[d].dport \in Ports
      BY <1>1, <3>1, FrameFields DEF RunInv
    <3>3. dropped'[frame[d].proto][d][frame[d].dport] = dropped[frame[d].proto][d][frame[d].dport]
      BY <2>7, <3>1, <3>2
    <3> QED BY <2>2, <3>1, <3>3
  <2> QED BY <2>2, <2>8, <2>9
\* Steps of a tool that leave the counters and the record of clearings alone.
<1>6. ASSUME NEW t \in Tools,
             Start(t) \/ RefuseSource(t) \/ AddSource(t) \/ DeleteSource(t)
             \/ CheckPort(t) \/ (\E c \in CPUs : ReadPort(t, c)) \/ Exit(t)
      PROVE  DropInv'
  <2>1. UNCHANGED <<drops, dropped, cleared, pc, frame, tmp>>
    BY <1>6 DEF Start, RefuseSource, AddSource, DeleteSource, CheckPort, ReadPort, Exit,
       SourceUnchanged, maps, program, history
  <2>2. /\ \A u \in Tools \ {t} : tpc'[u] = tpc[u] /\ op'[u] = op[u]
        /\ tpc'[t] # "clear"
    <3>1. CASE Start(t) \/ RefuseSource(t) \/ AddSource(t) \/ DeleteSource(t) \/ CheckPort(t) \/ Exit(t)
      BY <1>1, <3>1 DEF TypeOK, ToolsTypeOK, Start, RefuseSource, AddSource, DeleteSource, CheckPort,
         Exit, SourceDone
    <3>2. CASE \E c \in CPUs : ReadPort(t, c)
      BY <1>1, <3>2 DEF TypeOK, ToolsTypeOK, ReadPort, Copied
    <3> QED BY <1>6, <3>1, <3>2
  <2> QED BY <2>1, <2>2
<1>7. ASSUME NEW t \in Tools, NEW c \in CPUs, WritePort(t, c) PROVE DropInv'
  <2>1. /\ UNCHANGED <<drops, dropped, pc, frame, tmp, op>>
        /\ cleared \subseteq cleared'
    BY <1>7 DEF WritePort, program
  <2>2. \A u \in Tools \ {t} : tpc'[u] = tpc[u]
    BY <1>1, <1>7 DEF TypeOK, ToolsTypeOK, WritePort, Copied
  <2>3. tpc'[t] = "clear" => <<op[t].proto, op[t].port>> \in cleared'
    BY <1>1, <1>7 DEF TypeOK, ToolsTypeOK, WritePort, Copied
  <2> QED BY <2>1, <2>2, <2>3
<1>8. ASSUME NEW t \in Tools, NEW c \in CPUs, ClearCount(t, c) PROVE DropInv'
  <2> DEFINE p == op[t].proto
             q == op[t].port
  <2>1. /\ UNCHANGED <<dropped, cleared, pc, frame, tmp, op>>
        /\ drops' = [drops EXCEPT ![p][c][q] = 0]
        /\ <<p, q>> \in cleared
    BY <1>8 DEF ClearCount, program, history
  <2>2. p \in Protos /\ q \in Ports
    BY <1>1, <1>8, OpFields DEF ToolInv, ToolOK, ClearCount
  <2>3. \A u \in Tools : tpc'[u] = "clear" => tpc[u] = "clear"
    BY <1>1, <1>8 DEF TypeOK, ToolsTypeOK, ClearCount, Copied
  <2>4. ASSUME NEW p1 \in Protos, NEW d \in CPUs, NEW q1 \in Ports
        PROVE  drops'[p1][d][q1] = IF p1 = p /\ d = c /\ q1 = q THEN 0 ELSE drops[p1][d][q1]
    BY <1>1, <2>1, <2>2 DEF TypeOK, MapsTypeOK
  <2>5. \A p1 \in Protos, d \in CPUs, q1 \in Ports : dropped[p1][d][q1] \in Nat
    BY <1>1 DEF TypeOK, HistoryTypeOK
  <2>6. DropCountSound'
    <3> SUFFICES ASSUME NEW p1 \in Protos, NEW d \in CPUs, NEW q1 \in Ports
                 PROVE  (/\ drops[p1][d][q1] <= dropped[p1][d][q1]
                         /\ <<p1, q1>> \notin cleared =>
                              drops[p1][d][q1] = dropped[p1][d][q1] % DropModulus)'
      OBVIOUS
    <3>1. /\ drops[p1][d][q1] <= dropped[p1][d][q1]
          /\ <<p1, q1>> \notin cleared => drops[p1][d][q1] = dropped[p1][d][q1] % DropModulus
      OBVIOUS
    <3>2. CASE p1 = p /\ d = c /\ q1 = q
      <4>1. drops'[p1][d][q1] = 0 /\ dropped'[p1][d][q1] \in Nat
        BY <2>1, <2>4, <2>5, <3>2
      <4> QED BY <2>1, <3>2, <4>1, SMTT(30)
    <3>3. CASE p1 # p \/ d # c \/ q1 # q
      <4>1. drops'[p1][d][q1] = drops[p1][d][q1] /\ dropped'[p1][d][q1] = dropped[p1][d][q1]
        BY <2>1, <2>4, <3>3
      <4> QED BY <2>1, <3>1, <4>1
    <3> QED BY <3>2, <3>3
  <2> QED BY <2>1, <2>3, <2>6
<1>9. CASE UNCHANGED vars
  BY <1>9, <1>2 DEF vars, maps, program, tools, history
<1> QED
  BY <1>3, <1>4, <1>5, <1>6, <1>7, <1>8, <1>9 DEF Next, RunStep, ToolStep

\* A port's counter never shows more drops than there were on that CPU, and
\* until a --del sets out to clear it shows all of them modulo its width.
THEOREM DropCountsSound == Spec => []DropCountSound
<1>1. Spec => []DropInv
  BY InitDropInv, NextDropInv, TypeInvariant, PTL DEF Spec
<1> QED BY <1>1, PTL DEF DropInv

-----------------------------------------------------------------------------
(***************************************************************************)
(* The counters of the rules against those of the verdicts.  A counter may *)
(* jump, when a store brings back what a --del has cleared; the frames a   *)
(* port rule dropped only grow, and bound it.                              *)
(***************************************************************************)
HitsOf(c)    == [s \in Srcs |-> hits[s][c]]
DropsOf(c)   == [r \in Protos \X Ports |-> drops[r[1]][c][r[2]]]
DroppedOf(c) == [r \in Protos \X Ports |-> dropped[r[1]][c][r[2]]]

Booked(c) == SumOver(HitsOf(c), Srcs) + SumOver(DroppedOf(c), Protos \X Ports)
Told(c)   == verdicts[c]["DROP"] + DropsInHand(c)

CountInv == \A c \in CPUs : /\ Booked(c) <= Told(c)
                            /\ pc[c] \in {"load", "store"} => action[c] = "DROP"

LEMMA RulesFinite == IsFiniteSet(Srcs) /\ IsFiniteSet(Protos \X Ports)
<1>1. IsFiniteSet(0..MaxPort)
  <2>1. 0 \in Int /\ MaxPort \in Int
    BY DEF MaxPort
  <2> QED BY <2>1, FS_Interval
<1>2. IsFiniteSet(Ports)
  BY <1>1, SetsAssumption, FS_Subset
<1>3. IsFiniteSet(Protos)
  <2>1. IsFiniteSet({"TCP"}) /\ IsFiniteSet({"UDP"})
    BY FS_Singleton
  <2>2. IsFiniteSet({"TCP"} \cup {"UDP"})
    BY <2>1, FS_Union
  <2>3. Protos = {"TCP"} \cup {"UDP"}
    BY DEF Protos
  <2> QED BY <2>2, <2>3
<1> QED BY <1>2, <1>3, FS_Product, SetsAssumption

LEMMA BookedTypes ==
  ASSUME TypeInv, NEW c \in CPUs
  PROVE  /\ \A s \in Srcs : HitsOf(c)[s] \in Nat
         /\ \A r \in Protos \X Ports : DroppedOf(c)[r] \in Nat /\ DropsOf(c)[r] \in Nat
         /\ SumOver(HitsOf(c), Srcs) \in Nat
         /\ SumOver(DroppedOf(c), Protos \X Ports) \in Nat
         /\ verdicts[c]["DROP"] \in Nat /\ Told(c) \in Nat
<1>1. \A s \in Srcs : HitsOf(c)[s] \in Nat
  BY DEF TypeInv, TypeOK, MapsTypeOK, HitsOf
<1>2. ASSUME NEW r \in Protos \X Ports PROVE DroppedOf(c)[r] \in Nat /\ DropsOf(c)[r] \in Nat
  <2>1. r[1] \in Protos /\ r[2] \in Ports
    OBVIOUS
  <2>2. dropped[r[1]][c][r[2]] \in Nat
    BY <2>1 DEF TypeInv, TypeOK, HistoryTypeOK
  <2>3. drops[r[1]][c][r[2]] \in Nat
    BY <2>1, BoundsAssumption DEF TypeInv, TypeOK, MapsTypeOK
  <2> QED BY <2>2, <2>3 DEF DroppedOf, DropsOf
<1>3. verdicts[c]["DROP"] \in Nat
  BY DEF TypeInv, TypeOK, MapsTypeOK, Actions
<1> QED BY <1>1, <1>2, <1>3, RulesFinite, SumNat DEF Told, DropsInHand

LEMMA InitCountInv == Init => CountInv
<1> SUFFICES ASSUME Init, NEW c \in CPUs PROVE Booked(c) <= Told(c) /\ pc[c] = "idle"
  BY DEF CountInv
<1>1. ASSUME NEW S, IsFiniteSet(S), NEW f, \A x \in S : f[x] = 0 PROVE SumOver(f, S) = 0
  <2> DEFINE A == {n \in Nat : \A T \in SUBSET S : Cardinality(T) = n => SumOver(f, T) = 0}
  <2>1. \A T \in SUBSET S : IsFiniteSet(T) /\ Cardinality(T) \in Nat /\ (Cardinality(T) = 0 <=> T = {})
    BY <1>1, FS_Subset, FS_CardinalityType, FS_EmptySet
  <2>2. 0 \in A
    BY <2>1, SumEmpty
  <2>3. ASSUME NEW n \in Nat, n \in A PROVE n + 1 \in A
    <3> SUFFICES ASSUME NEW T \in SUBSET S, Cardinality(T) = n + 1 PROVE SumOver(f, T) = 0
      OBVIOUS
    <3>1. PICK x \in T : TRUE
      BY <2>1
    <3>2. T \ {x} \in SUBSET S /\ Cardinality(T \ {x}) = n
      BY <2>1, FS_RemoveElement
    <3>3. SumOver(f, T) = f[x] + SumOver(f, T \ {x})
      BY <1>1, <2>1, SumWithout
    <3>4. SumOver(f, T \ {x}) = 0 /\ f[x] = 0
      BY <1>1, <2>3, <3>2
    <3> QED BY <3>3, <3>4
  <2>4. Cardinality(S) \in A
    <3> HIDE DEF A
    <3> QED BY <2>1, <2>2, <2>3, NatInduct
  <2> QED BY <2>4
<1>2. SumOver(HitsOf(c), Srcs) = 0
  <2>1. \A s \in Srcs : HitsOf(c)[s] = 0
    BY DEF Init, HitsOf
  <2> QED BY <2>1, <1>1, RulesFinite
<1>3. SumOver(DroppedOf(c), Protos \X Ports) = 0
  <2>1. \A r \in Protos \X Ports : DroppedOf(c)[r] = 0
    BY DEF Init, DroppedOf
  <2> QED BY <2>1, <1>1, RulesFinite
<1>4. pc[c] = "idle" /\ verdicts[c]["DROP"] = 0
  BY DEF Init, Actions
<1> QED BY <1>2, <1>3, <1>4 DEF Booked, Told, DropsInHand

\* A step after which no element's count on c is higher and no drop is booked.
LEMMA NothingBooked ==
  ASSUME TypeInv, TypeInv', NEW c \in CPUs, \A s \in Srcs : hits'[s][c] <= hits[s][c],
         DroppedOf(c)' = DroppedOf(c)
  PROVE  Booked(c)' <= Booked(c) /\ Booked(c) \in Nat /\ Booked(c)' \in Nat
<1>1. /\ \A s \in Srcs : HitsOf(c)[s] \in Nat
      /\ SumOver(HitsOf(c), Srcs) \in Nat /\ SumOver(DroppedOf(c), Protos \X Ports) \in Nat
  BY BookedTypes
<1>2. /\ \A s \in Srcs : HitsOf(c)'[s] \in Nat
      /\ SumOver(HitsOf(c)', Srcs) \in Nat
  <2>1. \A s \in Srcs : hits'[s][c] \in Nat
    BY DEF TypeInv, TypeOK, MapsTypeOK
  <2>2. \A s \in Srcs : HitsOf(c)'[s] \in Nat
    BY <2>1 DEF HitsOf
  <2> QED BY <2>2, RulesFinite, SumNat
<1>3. \A s \in Srcs : HitsOf(c)'[s] <= HitsOf(c)[s]
  BY DEF HitsOf
<1>4. SumOver(HitsOf(c)', Srcs) <= SumOver(HitsOf(c), Srcs)
  BY <1>1, <1>2, <1>3, RulesFinite, SumAtMost
<1> QED BY <1>1, <1>2, <1>4 DEF Booked, SumOver

LEMMA NextCountInv == TypeInv /\ TypeInv' /\ CountInv /\ [Next]_vars => CountInv'
<1> SUFFICES ASSUME TypeInv, TypeInv', CountInv, [Next]_vars, NEW d \in CPUs
             PROVE  Booked(d)' <= Told(d)' /\ (pc'[d] \in {"load", "store"} => action'[d] = "DROP")
  BY DEF CountInv
<1> USE DEF CountInv
<1>0. /\ TypeOK /\ Booked(d) <= Told(d) /\ Told(d) \in Nat
      /\ Told(d)' \in Nat
      /\ pc[d] \in {"load", "store"} => action[d] = "DROP"
      /\ verdicts[d]["DROP"] \in Nat /\ "DROP" \in Actions
  <2>1. Told(d)' \in Nat
    BY DEF TypeInv, TypeOK, MapsTypeOK, Actions, Told, DropsInHand
  <2> QED BY <2>1, BookedTypes DEF TypeInv, Actions
\* A step that books nothing on d, and leaves what d has told alone or adds to it.
<1>1. ASSUME \A s \in Srcs : hits'[s][d] <= hits[s][d], dropped' = dropped, Told(d) <= Told(d)'
      PROVE  Booked(d)' <= Told(d)'
  <2>1. DroppedOf(d)' = DroppedOf(d)
    BY <1>1 DEF DroppedOf
  <2>2. Booked(d)' <= Booked(d) /\ Booked(d) \in Nat /\ Booked(d)' \in Nat
    BY <1>1, <2>1, NothingBooked
  <2> QED BY <1>0, <1>1, <2>2
<1>2. CASE UNCHANGED <<hits, dropped, verdicts, pc, action>>
  <2>1. \A s \in Srcs : hits'[s][d] <= hits[s][d]
    BY <1>0, <1>2 DEF TypeOK, MapsTypeOK
  <2>2. Told(d)' = Told(d)
    BY <1>2 DEF Told, DropsInHand
  <2> QED BY <1>0, <1>1, <1>2, <2>1, <2>2
\* The program's steps before it counts anything.
<1>3. ASSUME NEW c \in CPUs,
             Receive(c) \/ SourceFound(c) \/ SourceNotFound(c) \/ LookupPort(c) \/ LoadDrops(c)
      PROVE  Booked(d)' <= Told(d)' /\ (pc'[d] \in {"load", "store"} => action'[d] = "DROP")
  <2>1. UNCHANGED <<hits, dropped, verdicts>>
    BY <1>3 DEF Receive, SourceFound, SourceNotFound, LookupPort, LoadDrops, maps, history
  <2>2. /\ DropsInHand(d)' = DropsInHand(d)
        /\ pc'[d] \in {"load", "store"} => action'[d] = "DROP"
    BY <1>0, <1>3 DEF TypeOK, ProgramTypeOK, DropsInHand, Receive, SourceFound, SourceNotFound,
       LookupPort, LoadDrops
  <2>3. \A s \in Srcs : hits'[s][d] <= hits[s][d]
    BY <1>0, <2>1 DEF TypeOK, MapsTypeOK
  <2>4. Told(d)' = Told(d)
    BY <2>1, <2>2 DEF Told
  <2> QED BY <1>0, <1>1, <2>1, <2>2, <2>3, <2>4
<1>4. ASSUME NEW c \in CPUs, CountHit(c)
      PROVE  Booked(d)' <= Told(d)' /\ (pc'[d] \in {"load", "store"} => action'[d] = "DROP")
  <2>1. /\ UNCHANGED <<dropped, verdicts>> /\ pc[c] = "hit"
        /\ pc' = [pc EXCEPT ![c] = "stats"] /\ action' = [action EXCEPT ![c] = "DROP"]
        /\ hits' = IF c \in orphans THEN hits ELSE [hits EXCEPT ![frame[c].src][c] = @ + 1]
    BY <1>4 DEF CountHit, history
  <2>2. frame[c].src \in Srcs
    BY <2>1, FrameFields DEF TypeInv, RunInv
  <2>3. pc'[d] \in {"load", "store"} => action'[d] = "DROP"
    BY <1>0, <2>1 DEF TypeOK, ProgramTypeOK
  <2>4. CASE d # c
    <3>1. \A s \in Srcs : hits'[s][d] <= hits[s][d]
      BY <1>0, <2>1, <2>2, <2>4 DEF TypeOK, MapsTypeOK
    <3>2. Told(d)' = Told(d)
      BY <1>0, <2>1, <2>4 DEF TypeOK, ProgramTypeOK, Told, DropsInHand
    <3> QED BY <1>0, <1>1, <2>1, <2>3, <3>1, <3>2
  <2>5. CASE d = c
    <3>1. Told(d)' = Told(d) + 1
      BY <1>0, <2>1, <2>5 DEF TypeOK, ProgramTypeOK, Told, DropsInHand
    <3>2. CASE c \in orphans
      <4>1. \A s \in Srcs : hits'[s][d] <= hits[s][d]
        BY <1>0, <2>1, <3>2 DEF TypeOK, MapsTypeOK
      <4> QED BY <1>0, <1>1, <2>1, <2>3, <3>1, <4>1
    <3>3. CASE c \notin orphans
      <4> DEFINE x == frame[c].src
                 f == HitsOf(d)
                 h == [s \in Srcs |-> hits'[s][d]]
      <4>1. x \in Srcs /\ f[x] \in Nat /\ h[x] = f[x] + 1
        BY <1>0, <2>1, <2>2, <2>5, <3>3 DEF HitsOf, TypeOK, MapsTypeOK
      <4>2. \A y \in Srcs : f[y] \in Nat /\ h[y] \in Nat /\ (y # x => h[y] = f[y])
        BY <1>0, <2>1, <2>2, <2>5, <3>3 DEF HitsOf, TypeOK, MapsTypeOK
      <4>3. SumOver(f, Srcs) \in Nat /\ SumOver(DroppedOf(d), Protos \X Ports) \in Nat
        BY BookedTypes
      <4>4. SumOver(h, Srcs) + f[x] = SumOver(f, Srcs) + h[x] /\ SumOver(h, Srcs) \in Nat
        <5> HIDE DEF x, f, h
        <5> QED BY <4>1, <4>2, RulesFinite, SumChanged, SumNat
      <4>5. Booked(d) = SumOver(f, Srcs) + SumOver(DroppedOf(d), Protos \X Ports)
        BY DEF Booked
      <4>6. Booked(d)' = SumOver(h, Srcs) + SumOver(DroppedOf(d), Protos \X Ports)
        BY <2>1 DEF Booked, HitsOf, DroppedOf, SumOver
      <4> HIDE DEF x, f, h
      <4> QED BY <1>0, <2>3, <3>1, <4>1, <4>3, <4>4, <4>5, <4>6
    <3> QED BY <3>2, <3>3
  <2> QED BY <2>4, <2>5
<1>5. ASSUME NEW c \in CPUs, StoreDrops(c)
      PROVE  Booked(d)' <= Told(d)' /\ (pc'[d] \in {"load", "store"} => action'[d] = "DROP")
  <2> DEFINE p == frame[c].proto
             q == frame[c].dport
  <2>1. /\ UNCHANGED <<hits, verdicts, action>> /\ pc[c] = "store"
        /\ pc' = [pc EXCEPT ![c] = "stats"]
        /\ dropped' = [dropped EXCEPT ![p][c][q] = @ + 1]
    BY <1>5 DEF StoreDrops
  <2>2. p \in Protos /\ q \in Ports
    BY <2>1, FrameFields DEF TypeInv, RunInv
  <2>3. pc'[d] \in {"load", "store"} => action'[d] = "DROP"
    BY <1>0, <2>1 DEF TypeOK, ProgramTypeOK
  <2>4. HitsOf(d)' = HitsOf(d)
    BY <2>1 DEF HitsOf
  <2>5. CASE d # c
    <3>1. DroppedOf(d)' = DroppedOf(d)
      <4>1. \A r \in Protos \X Ports : dropped'[r[1]][d][r[2]] = dropped[r[1]][d][r[2]]
        BY <1>0, <2>1, <2>2, <2>5 DEF TypeOK, HistoryTypeOK
      <4> QED BY <4>1 DEF DroppedOf
    <3>2. Told(d)' = Told(d)
      BY <1>0, <2>1, <2>5 DEF TypeOK, ProgramTypeOK, Told, DropsInHand
    <3>3. Booked(d)' = Booked(d)
      BY <2>4, <3>1 DEF Booked, SumOver
    <3> QED BY <1>0, <2>3, <3>2, <3>3
  <2>6. CASE d = c
    <3>1. Told(d)' = Told(d) + 1
      BY <1>0, <2>1, <2>6 DEF TypeOK, ProgramTypeOK, Told, DropsInHand
    <3> DEFINE x == <<p, q>>
               f == DroppedOf(d)
               h == [r \in Protos \X Ports |-> dropped'[r[1]][d][r[2]]]
    <3>2. x \in Protos \X Ports /\ f[x] \in Nat /\ h[x] = f[x] + 1
      <4>1. x \in Protos \X Ports /\ x[1] = p /\ x[2] = q
        BY <2>2
      <4>2. f[x] = dropped[p][d][q] /\ h[x] = dropped'[p][d][q]
        BY <4>1 DEF DroppedOf
      <4>3. dropped[p][d][q] \in Nat
        BY <1>0, <2>2 DEF TypeOK, HistoryTypeOK
      <4>4. dropped'[p][d][q] = dropped[p][d][q] + 1
        BY <1>0, <2>1, <2>2, <2>6 DEF TypeOK, HistoryTypeOK
      <4> HIDE DEF x, f, h
      <4> QED BY <4>1, <4>2, <4>3, <4>4
    <3>3. ASSUME NEW y \in Protos \X Ports
          PROVE  f[y] \in Nat /\ h[y] \in Nat /\ (y # x => h[y] = f[y])
      <4>1. y[1] \in Protos /\ y[2] \in Ports /\ y = <<y[1], y[2]>>
        OBVIOUS
      <4>2. f[y] = dropped[y[1]][d][y[2]] /\ h[y] = dropped'[y[1]][d][y[2]]
        BY DEF DroppedOf
      <4>3. dropped[y[1]][d][y[2]] \in Nat
        BY <1>0, <4>1 DEF TypeOK, HistoryTypeOK
      <4>4. CASE y = x
        BY <3>2, <4>4
      <4>5. CASE y[1] # p \/ y[2] # q
        <5>1. dropped'[y[1]][d][y[2]] = dropped[y[1]][d][y[2]]
          BY <1>0, <2>1, <2>2, <2>6, <4>1, <4>5 DEF TypeOK, HistoryTypeOK
        <5> QED BY <4>2, <4>3, <5>1
      <4> QED BY <4>1, <4>4, <4>5
    <3>4. SumOver(f, Protos \X Ports) \in Nat /\ SumOver(HitsOf(d), Srcs) \in Nat
      BY BookedTypes
    <3>5. /\ SumOver(h, Protos \X Ports) + f[x] = SumOver(f, Protos \X Ports) + h[x]
          /\ SumOver(h, Protos \X Ports) \in Nat
      <4> DEFINE S == Protos \X Ports
      <4>1. IsFiniteSet(S)
        BY RulesFinite
      <4>2. \A y \in S : f[y] \in Nat /\ h[y] \in Nat /\ (y # x => h[y] = f[y])
        BY <3>3
      <4>3. x \in S
        BY <3>2
      <4> HIDE DEF x, f, h, S
      <4>4. SumOver(h, S) + f[x] = SumOver(f, S) + h[x]
        BY <4>1, <4>2, <4>3, SumChanged
      <4>5. SumOver(h, S) \in Nat
        BY <4>1, <4>2, SumNat
      <4> QED BY <4>4, <4>5 DEF S
    <3>6. Booked(d) = SumOver(HitsOf(d), Srcs) + SumOver(f, Protos \X Ports)
      BY DEF Booked
    <3>7. Booked(d)' = SumOver(HitsOf(d), Srcs) + SumOver(h, Protos \X Ports)
      BY <2>4 DEF Booked, DroppedOf, SumOver
    <3> HIDE DEF x, f, h
    <3> QED BY <1>0, <2>3, <3>1, <3>2, <3>4, <3>5, <3>6, <3>7
  <2> QED BY <2>5, <2>6
<1>6. ASSUME NEW c \in CPUs, CountVerdict(c)
      PROVE  Booked(d)' <= Told(d)' /\ (pc'[d] \in {"load", "store"} => action'[d] = "DROP")
  <2>1. /\ UNCHANGED <<hits, dropped>> /\ pc[c] = "stats" /\ pc' = [pc EXCEPT ![c] = "idle"]
        /\ verdicts' = [verdicts EXCEPT ![c][action[c]] = @ + 1]
        /\ action' = [action EXCEPT ![c] = "PASS"]
    BY <1>6 DEF CountVerdict
  <2>2. pc'[d] \in {"load", "store"} => action'[d] = "DROP"
    BY <1>0, <2>1 DEF TypeOK, ProgramTypeOK
  <2>3. Told(d) <= Told(d)'
    <3>1. CASE d # c
      BY <1>0, <2>1, <3>1 DEF TypeOK, ProgramTypeOK, MapsTypeOK, Told, DropsInHand
    <3>2. CASE d = c /\ action[c] = "DROP"
      <4>1. verdicts'[d]["DROP"] = verdicts[d]["DROP"] + 1
        BY <1>0, <2>1, <3>2 DEF TypeOK, MapsTypeOK
      <4>2. DropsInHand(d) = 1 /\ DropsInHand(d)' = 0
        BY <1>0, <2>1, <3>2 DEF TypeOK, ProgramTypeOK, DropsInHand
      <4> QED BY <1>0, <4>1, <4>2 DEF Told
    <3>3. CASE d = c /\ action[c] # "DROP"
      <4>1. verdicts'[d]["DROP"] = verdicts[d]["DROP"]
        BY <1>0, <2>1, <3>3 DEF TypeOK, MapsTypeOK
      <4>2. DropsInHand(d) = 0 /\ DropsInHand(d)' = 0
        BY <1>0, <2>1, <3>3 DEF TypeOK, ProgramTypeOK, DropsInHand
      <4> QED BY <1>0, <4>1, <4>2 DEF Told
    <3> QED BY <3>1, <3>2, <3>3
  <2>4. \A s \in Srcs : hits'[s][d] <= hits[s][d]
    BY <1>0, <2>1 DEF TypeOK, MapsTypeOK
  <2> QED BY <1>1, <2>1, <2>2, <2>3, <2>4
\* The tools change the counts of an element only by taking it away or starting
\* it at 0.
<1>7. ASSUME NEW t \in Tools, AddSource(t) \/ DeleteSource(t)
      PROVE  Booked(d)' <= Told(d)' /\ (pc'[d] \in {"load", "store"} => action'[d] = "DROP")
  <2>1. UNCHANGED <<dropped, verdicts, pc, action>>
    BY <1>7 DEF AddSource, DeleteSource, program
  <2>2. \/ hits' = hits
        \/ hits' = [hits EXCEPT ![op[t].src] = [c \in CPUs |-> 0]]
    BY <1>7 DEF AddSource, InsertSource, DeleteSource
  <2>3. \A s \in Srcs : hits'[s][d] <= hits[s][d]
    BY <1>0, <2>2 DEF TypeOK, MapsTypeOK
  <2>4. Told(d)' = Told(d)
    BY <2>1 DEF Told, DropsInHand
  <2> QED BY <1>0, <1>1, <2>1, <2>3, <2>4
<1>8. ASSUME NEW t \in Tools,
             Start(t) \/ RefuseSource(t) \/ CheckPort(t) \/ Exit(t)
             \/ \E c \in CPUs : ReadPort(t, c) \/ WritePort(t, c) \/ ClearCount(t, c)
      PROVE  UNCHANGED <<hits, dropped, verdicts, pc, action>>
  BY <1>8 DEF Start, RefuseSource, CheckPort, Exit, ReadPort, WritePort, ClearCount,
     SourceUnchanged, maps, program, history
<1>9. ASSUME NEW c \in CPUs, SkipFrame(c)
      PROVE  UNCHANGED <<hits, dropped, verdicts, pc, action>>
  BY <1>9 DEF SkipFrame, maps, history
<1>10. CASE UNCHANGED vars
  BY <1>2, <1>10 DEF vars, maps, program, history
<1> QED
  BY <1>2, <1>3, <1>4, <1>5, <1>6, <1>7, <1>8, <1>9, <1>10 DEF Next, RunStep, ToolStep

\* On every CPU the counters of all rules together never exceed what verdict_cnt
\* says of XDP_DROP, but for the one drop it has yet to be told of.
THEOREM CountsWithinDrops == Spec => []RuleCountsWithinDrops
<1>1. ASSUME TypeInv, CountInv, DropInv PROVE RuleCountsWithinDrops
  <2> SUFFICES ASSUME NEW c \in CPUs
               PROVE  SumOver(HitsOf(c), Srcs) + SumOver(DropsOf(c), Protos \X Ports) <= Told(c)
    BY DEF RuleCountsWithinDrops, SumOver, SumFunction, HitsOf, DropsOf, Told
  <2>1. /\ \A r \in Protos \X Ports : DroppedOf(c)[r] \in Nat /\ DropsOf(c)[r] \in Nat
        /\ SumOver(HitsOf(c), Srcs) \in Nat /\ SumOver(DroppedOf(c), Protos \X Ports) \in Nat
        /\ Told(c) \in Nat
    BY <1>1, BookedTypes
  <2>2. \A r \in Protos \X Ports : DropsOf(c)[r] <= DroppedOf(c)[r]
    BY <1>1 DEF DropInv, DropCountSound, DropsOf, DroppedOf
  <2>3. SumOver(DropsOf(c), Protos \X Ports) <= SumOver(DroppedOf(c), Protos \X Ports)
    BY <2>1, <2>2, RulesFinite, SumAtMost
  <2>4. SumOver(DropsOf(c), Protos \X Ports) \in Nat
    BY <2>1, RulesFinite, SumNat
  <2> QED BY <1>1, <2>1, <2>3, <2>4 DEF CountInv, Booked
<1>2. Spec => []DropInv
  BY InitDropInv, NextDropInv, TypeInvariant, PTL DEF Spec
<1>3. Spec => []CountInv
  BY InitCountInv, NextCountInv, TypeInvariant, PTL DEF Spec
<1> QED BY <1>1, <1>2, <1>3, TypeInvariant, PTL

-----------------------------------------------------------------------------
(***************************************************************************)
(* The port rules, when no two invocations under way name the same port.   *)
(* A tool between lookup and last write has the port to itself: what it    *)
(* read is what the rules add up to, and a slot is either still that or    *)
(* already changed by this tool's own bit.                                 *)
(***************************************************************************)
AloneOnPort ==
  \A t, u \in Tools :
    t # u /\ tpc[t] # "idle" /\ tpc[u] # "idle" /\ op[t].port # 0 => op[t].port # op[u].port

Untouched(t, c) ==
  flags[c][op[t].port] = ruled[op[t].port]
HasRead(t, c) ==
  curr[t][c] = ruled[op[t].port]
HasWritten(t, c) ==
  flags[c][op[t].port] = Modified(op[t], ruled[op[t].port])

ReadOK(t) ==
  /\ op[t].port # 0
  /\ \A c \in CPUs : Untouched(t, c) /\ (c \notin todo[t] => HasRead(t, c))
WriteOK(t) ==
  /\ op[t].port # 0
  /\ \A c \in todo[t] : Untouched(t, c) /\ HasRead(t, c)
  /\ \A c \in CPUs \ todo[t] : HasWritten(t, c)

PortInv ==
  /\ AloneOnPort
  /\ PortRulesAddUp
  /\ \A t \in Tools : (tpc[t] = "read" => ReadOK(t)) /\ (tpc[t] = "write" => WriteOK(t))

LEMMA InitPortInv == Init => PortInv
BY DEF Init, PortInv, AloneOnPort, PortRulesAddUp, ReadOK, WriteOK

\* A step that leaves slots, rules and the tools' progress alone.
LEMMA StutterPortInv ==
  PortInv /\ UNCHANGED <<flags, ruled, tpc, op, curr, todo>> => PortInv'
BY DEF PortInv, AloneOnPort, PortRulesAddUp, InPortUpdate, ReadOK, WriteOK,
   Untouched, HasRead, HasWritten

\* A step of tool t that ends outside of any port update, in the same command.
LEMMA OutsidePortInv ==
  ASSUME TypeInv, PortInv, NEW t \in Tools,
         UNCHANGED <<flags, ruled, curr>>,
         tpc[t] \notin {"idle", "read", "write"}, tpc'[t] \notin {"read", "write"},
         \A u \in Tools \ {t} : tpc'[u] = tpc[u] /\ op'[u] = op[u] /\ todo'[u] = todo[u],
         op'[t] = op[t] \/ tpc'[t] = "idle"
  PROVE  PortInv'
<1>1. AloneOnPort'
  BY DEF PortInv, AloneOnPort
<1>2. PortRulesAddUp'
  BY DEF PortInv, PortRulesAddUp, InPortUpdate
<1>3. ASSUME NEW u \in Tools
      PROVE  ((tpc[u] = "read" => ReadOK(u)) /\ (tpc[u] = "write" => WriteOK(u)))'
  <2>1. CASE u = t
    BY <2>1
  <2>2. CASE u # t
    BY <2>2 DEF PortInv, ReadOK, WriteOK, Untouched, HasRead, HasWritten
  <2> QED BY <2>1, <2>2
<1> QED BY <1>1, <1>2, <1>3 DEF PortInv

\* Start names a port no other invocation under way has.
LEMMA StartPortInv ==
  ASSUME ~Conflicts, TypeInv, PortInv, NEW t \in Tools, Start(t)
  PROVE  PortInv'
<1> PICK o \in Ops :
      /\ o.port = 0 \/ ~SamePort(t, o)
      /\ op'  = [op EXCEPT ![t] = o]
      /\ tpc' = [tpc EXCEPT ![t] = IF o.src # NoSrc THEN "source"
                                   ELSE IF o.port # 0 THEN "port" ELSE "exit"]
  BY DEF Start
<1>1. /\ tpc[t] = "idle" /\ tpc'[t] \notin {"idle", "read", "write"} /\ op'[t] = o
      /\ \A u \in Tools \ {t} : tpc'[u] = tpc[u] /\ op'[u] = op[u]
      /\ UNCHANGED <<flags, ruled, curr, todo>>
  BY DEF TypeInv, TypeOK, ToolsTypeOK, Start, maps
<1>2. AloneOnPort'
  BY <1>1 DEF PortInv, AloneOnPort, SamePort
<1>3. PortRulesAddUp'
  BY <1>1 DEF PortInv, PortRulesAddUp, InPortUpdate
<1>4. ASSUME NEW u \in Tools
      PROVE  ((tpc[u] = "read" => ReadOK(u)) /\ (tpc[u] = "write" => WriteOK(u)))'
  BY <1>1 DEF PortInv, ReadOK, WriteOK, Untouched, HasRead, HasWritten
<1> QED BY <1>2, <1>3, <1>4 DEF PortInv

\* No other tool is between lookup and last write of t's port.
LEMMA Alone ==
  ASSUME PortInv, NEW t \in Tools, NEW u \in Tools \ {t},
         tpc[t] # "idle", op[t].port # 0, tpc[u] # "idle"
  PROVE  op[u].port # op[t].port
BY DEF PortInv, AloneOnPort

LEMMA CheckPortInv ==
  ASSUME TypeInv, TypeInv', PortInv, NEW t \in Tools, CheckPort(t)
  PROVE  PortInv'
<1>1. /\ tpc[t] = "port" /\ op[t].port # 0 /\ tpc'[t] \in {"read", "exit"}
      /\ \A u \in Tools \ {t} : tpc'[u] = tpc[u] /\ todo'[u] = todo[u]
      /\ tpc'[t] = "read" => todo'[t] = CPUs
      /\ UNCHANGED <<flags, ruled, op, curr>>
  BY DEF TypeInv, TypeOK, ToolsTypeOK, ToolInv, ToolOK, CheckPort, maps, history
<1>2. CASE tpc'[t] = "exit"
  BY <1>1, <1>2, OutsidePortInv
<1>3. CASE tpc'[t] = "read"
  <2>1. AloneOnPort'
    BY <1>1 DEF PortInv, AloneOnPort
  <2>2. PortRulesAddUp'
    BY <1>1 DEF PortInv, PortRulesAddUp, InPortUpdate
  <2>3. op[t].port \in Ports
    BY <1>1, <1>3 DEF TypeInv, ToolInv, ToolOK
  <2>4. \A u \in Tools : ~InPortUpdate(u, op[t].port)
    BY <1>1, Alone DEF InPortUpdate
  <2>5. \A c \in CPUs : Untouched(t, c)
    BY <2>3, <2>4 DEF PortInv, PortRulesAddUp, Untouched
  <2>6. ReadOK(t)'
    BY <1>1, <1>3, <2>5 DEF ReadOK, Untouched
  <2>7. ASSUME NEW u \in Tools \ {t}
        PROVE  ((tpc[u] = "read" => ReadOK(u)) /\ (tpc[u] = "write" => WriteOK(u)))'
    BY <1>1 DEF PortInv, ReadOK, WriteOK, Untouched, HasRead, HasWritten
  <2> QED BY <1>3, <2>1, <2>2, <2>6, <2>7 DEF PortInv
<1> QED BY <1>1, <1>2, <1>3

LEMMA ReadPortInv ==
  ASSUME TypeInv, PortInv, NEW t \in Tools, NEW c \in CPUs, ReadPort(t, c)
  PROVE  PortInv'
<1> DEFINE q == op[t].port
<1>1. /\ tpc[t] = "read" /\ c \in todo[t] /\ Copied(t, c, "write")
      /\ curr' = [curr EXCEPT ![t][c] = flags[c][q]]
      /\ UNCHANGED <<flags, ruled, op>>
      /\ ToolsTypeOK
  BY DEF ReadPort, maps, history, TypeInv, TypeOK
<1>2. /\ \A u \in Tools \ {t} : todo'[u] = todo[u] /\ tpc'[u] = tpc[u]
      /\ todo[t] # {c} => tpc'[t] = "read" /\ todo'[t] = todo[t] \ {c}
      /\ todo[t] = {c} => tpc'[t] = "write" /\ todo'[t] = CPUs
  BY <1>1, CopiedStep
<1>3. /\ \A u \in Tools \ {t} : curr'[u] = curr[u]
      /\ curr'[t][c] = flags[c][q]
      /\ \A d \in CPUs \ {c} : curr'[t][d] = curr[t][d]
  BY <1>1 DEF ToolsTypeOK
<1>4. AloneOnPort'
  BY <1>1, <1>2 DEF PortInv, AloneOnPort
<1>5. PortRulesAddUp'
  BY <1>1, <1>2 DEF PortInv, PortRulesAddUp, InPortUpdate
<1>6. ReadOK(t)
  BY <1>1 DEF PortInv
<1>7. ASSUME NEW u \in Tools \ {t}
      PROVE  ((tpc[u] = "read" => ReadOK(u)) /\ (tpc[u] = "write" => WriteOK(u)))'
  BY <1>1, <1>2, <1>3 DEF PortInv, ReadOK, WriteOK, Untouched, HasRead, HasWritten
<1>8. ((tpc[t] = "read" => ReadOK(t)) /\ (tpc[t] = "write" => WriteOK(t)))'
  <2>1. CASE todo[t] # {c}
    <3>1. ReadOK(t)'
      BY <1>1, <1>2, <1>3, <1>6, <2>1 DEF ReadOK, Untouched, HasRead
    <3> QED BY <1>2, <2>1, <3>1
  <2>2. CASE todo[t] = {c}
    <3>1. \A d \in CPUs : HasRead(t, d)' /\ Untouched(t, d)'
      BY <1>1, <1>3, <1>6, <2>2 DEF ReadOK, Untouched, HasRead
    <3>2. WriteOK(t)'
      BY <1>1, <1>2, <1>6, <2>2, <3>1 DEF ReadOK, WriteOK
    <3> QED BY <1>2, <2>2, <3>2
  <2> QED BY <2>1, <2>2
<1> QED BY <1>4, <1>5, <1>7, <1>8 DEF PortInv

LEMMA WritePortInv ==
  ASSUME TypeInv, PortInv, NEW t \in Tools, NEW c \in CPUs, WritePort(t, c)
  PROVE  /\ PortInv'
         /\ flags' = [flags EXCEPT ![c][op[t].port] = Modified(op[t], flags[c][op[t].port])]
         /\ op[t].port \in Ports
<1> DEFINE q == op[t].port
           new == Modified(op[t], ruled[q])
           next == IF op[t].act = {"DEL"} THEN "clear" ELSE "exit"
<1>1. /\ tpc[t] = "write" /\ c \in todo[t] /\ Copied(t, c, next)
      /\ flags' = [flags EXCEPT ![c][q] = Modified(op[t], curr[t][c])]
      /\ curr' = [curr EXCEPT ![t][c] = {}]
      /\ ruled' = IF todo[t] = {c} THEN [ruled EXCEPT ![q] = new] ELSE ruled
      /\ op' = op
      /\ ToolsTypeOK /\ MapsTypeOK /\ HistoryTypeOK
  BY DEF WritePort, TypeInv, TypeOK
<1>2. /\ \A u \in Tools \ {t} : todo'[u] = todo[u] /\ tpc'[u] = tpc[u]
      /\ todo[t] # {c} => tpc'[t] = "write" /\ todo'[t] = todo[t] \ {c}
      /\ todo[t] = {c} => tpc'[t] \in {"clear", "exit"}
  <2>1. next \in {"write", "clear", "exit"} /\ next \in {"clear", "exit"}
    OBVIOUS
  <2> HIDE DEF next
  <2> QED BY <1>1, <2>1, CopiedStep
<1>3. q \in Ports /\ q # 0 /\ todo[t] \subseteq CPUs
  BY <1>1 DEF TypeInv, ToolInv, ToolOK, PortInv, WriteOK, ToolsTypeOK
<1>4. WriteOK(t)
  BY <1>1 DEF PortInv
<1>5. curr[t][c] = ruled[q] /\ flags[c][q] = ruled[q]
  BY <1>1, <1>4 DEF WriteOK, Untouched, HasRead
<1>6. /\ flags'[c][q] = new
      /\ \A d \in CPUs, q1 \in Ports : d # c \/ q1 # q => flags'[d][q1] = flags[d][q1]
  BY <1>1, <1>3, <1>5 DEF MapsTypeOK
<1>7. \A q1 \in Ports \ {q} : ruled'[q1] = ruled[q1]
  BY <1>1 DEF HistoryTypeOK
<1>8. /\ todo[t] = {c} => ruled'[q] = new
      /\ todo[t] # {c} => ruled' = ruled
  BY <1>1, <1>3 DEF HistoryTypeOK
<1>9. AloneOnPort'
  BY <1>1, <1>2 DEF PortInv, AloneOnPort
<1>10. PortRulesAddUp'
  <2> SUFFICES ASSUME NEW q1 \in Ports, \A u \in Tools : ~InPortUpdate(u, q1)', NEW d \in CPUs
               PROVE  flags'[d][q1] = ruled'[q1]
    BY DEF PortRulesAddUp
  <2>1. CASE q1 = q
    <3>1. todo[t] = {c}
      BY <1>1, <1>2, <2>1 DEF InPortUpdate
    <3>2. d # c => flags[d][q] = new
      BY <1>4, <3>1 DEF WriteOK, HasWritten
    <3> QED BY <1>3, <1>6, <1>8, <2>1, <3>1, <3>2
  <2>2. CASE q1 # q
    <3>1. \A u \in Tools : ~InPortUpdate(u, q1)
      BY <1>1, <1>2, <2>2 DEF InPortUpdate
    <3>2. flags[d][q1] = ruled[q1]
      BY <3>1 DEF PortInv, PortRulesAddUp
    <3> QED BY <1>6, <1>7, <2>2, <3>2
  <2> QED BY <2>1, <2>2
<1>11. ((tpc[t] = "read" => ReadOK(t)) /\ (tpc[t] = "write" => WriteOK(t)))'
  <2>1. CASE todo[t] = {c}
    BY <1>2, <2>1
  <2>2. CASE todo[t] # {c}
    <3>1. \A d \in todo'[t] : Untouched(t, d)' /\ HasRead(t, d)'
      BY <1>1, <1>2, <1>3, <1>4, <1>6, <1>8, <2>2
      DEF WriteOK, Untouched, HasRead, ToolsTypeOK
    <3>2. \A d \in CPUs \ todo'[t] : HasWritten(t, d)'
      BY <1>1, <1>2, <1>3, <1>4, <1>6, <1>8, <2>2 DEF WriteOK, HasWritten
    <3>3. WriteOK(t)'
      BY <1>1, <1>3, <3>1, <3>2 DEF WriteOK
    <3> QED BY <1>2, <2>2, <3>3
  <2> QED BY <2>1, <2>2
<1>12. ASSUME NEW u \in Tools \ {t}, tpc[u] \in {"read", "write"}
       PROVE  ((tpc[u] = "read" => ReadOK(u)) /\ (tpc[u] = "write" => WriteOK(u)))'
  <2>1. op[u].port # q /\ op[u].port \in Ports
    BY <1>1, <1>3, <1>12, Alone DEF TypeInv, ToolInv, ToolOK
  <2>2. /\ ruled'[op[u].port] = ruled[op[u].port]
        /\ \A d \in CPUs : flags'[d][op[u].port] = flags[d][op[u].port]
        /\ curr'[u] = curr[u] /\ todo[u] \subseteq CPUs
    BY <1>1, <1>6, <1>7, <2>1 DEF ToolsTypeOK
  <2>3. CASE tpc[u] = "read"
    <3>1. ReadOK(u)
      BY <2>3 DEF PortInv
    <3>2. ReadOK(u)'
      BY <1>1, <1>2, <2>2, <3>1 DEF ReadOK, Untouched, HasRead
    <3> QED BY <1>2, <2>3, <3>2
  <2>4. CASE tpc[u] = "write"
    <3>1. WriteOK(u)
      BY <2>4 DEF PortInv
    <3>2. WriteOK(u)'
      BY <1>1, <1>2, <2>2, <3>1 DEF WriteOK, Untouched, HasRead, HasWritten
    <3> QED BY <1>2, <2>4, <3>2
  <2> QED BY <1>12, <2>3, <2>4
<1>13. \A u \in Tools \ {t} :
         ((tpc[u] = "read" => ReadOK(u)) /\ (tpc[u] = "write" => WriteOK(u)))'
  BY <1>2, <1>12
<1>14. PortInv'
  BY <1>9, <1>10, <1>11, <1>13 DEF PortInv
<1>15. flags' = [flags EXCEPT ![c][q] = Modified(op[t], flags[c][q])]
  BY <1>1, <1>5
<1> QED BY <1>3, <1>14, <1>15

LEMMA NextPortInv ==
  ASSUME ~Conflicts, TypeInv, TypeInv', PortInv, [Next]_vars
  PROVE  PortInv'
<1>1. ASSUME NEW c \in CPUs, SkipFrame(c) \/ Receive(c) \/ RunStep(c) PROVE PortInv'
  <2>1. UNCHANGED <<flags, ruled, tpc, op, curr, todo>>
    BY <1>1 DEF SkipFrame, Receive, RunStep, SourceFound, SourceNotFound, CountHit, LookupPort,
       LoadDrops, StoreDrops, CountVerdict, maps, tools, history
  <2> QED BY <2>1, StutterPortInv
<1>2. ASSUME NEW t \in Tools, Start(t) PROVE PortInv'
  BY <1>2, StartPortInv
<1>3. ASSUME NEW t \in Tools,
             RefuseSource(t) \/ AddSource(t) \/ DeleteSource(t) \/ Exit(t)
      PROVE  PortInv'
  <2>1. /\ UNCHANGED <<flags, ruled, curr, todo>>
        /\ tpc[t] \in {"source", "exit"} /\ tpc'[t] \in {"port", "exit", "idle"}
        /\ \A u \in Tools \ {t} : tpc'[u] = tpc[u] /\ op'[u] = op[u]
        /\ op'[t] = op[t] \/ tpc'[t] = "idle"
    <3>1. CASE RefuseSource(t) \/ AddSource(t) \/ DeleteSource(t)
      BY <3>1 DEF TypeInv, TypeOK, ToolsTypeOK, RefuseSource, AddSource, DeleteSource,
         SourceDone, SourceUnchanged, maps, history
    <3>2. CASE Exit(t)
      BY <3>2 DEF TypeInv, TypeOK, ToolsTypeOK, Exit, maps, history
    <3> QED BY <1>3, <3>1, <3>2
  <2> QED BY <2>1, OutsidePortInv
<1>4. ASSUME NEW t \in Tools, CheckPort(t) PROVE PortInv'
  BY <1>4, CheckPortInv
<1>5. ASSUME NEW t \in Tools, NEW c \in CPUs, ReadPort(t, c) PROVE PortInv'
  BY <1>5, ReadPortInv
<1>6. ASSUME NEW t \in Tools, NEW c \in CPUs, WritePort(t, c) PROVE PortInv'
  BY <1>6, WritePortInv
<1>7. ASSUME NEW t \in Tools, NEW c \in CPUs, ClearCount(t, c) PROVE PortInv'
  <2>1. /\ tpc[t] = "clear" /\ c \in todo[t] /\ Copied(t, c, "exit")
        /\ UNCHANGED <<flags, ruled, op, curr>> /\ ToolsTypeOK
    BY <1>7 DEF ClearCount, history, TypeInv, TypeOK
  <2>2. /\ \A u \in Tools \ {t} : todo'[u] = todo[u] /\ tpc'[u] = tpc[u]
        /\ tpc'[t] \in {"clear", "exit"}
    BY <2>1, CopiedStep
  <2> QED BY <2>1, <2>2, OutsidePortInv
<1>8. CASE UNCHANGED vars
  BY <1>8, StutterPortInv DEF vars, maps, tools, history
<1> QED
  BY <1>1, <1>2, <1>3, <1>4, <1>5, <1>6, <1>7, <1>8 DEF Next, ToolStep

\* If overlapping invocations name different ports, every CPU has the rules
\* the finished updates add up to, on each port nobody is updating.
THEOREM PortRulesCorrect ==
  ASSUME ~Conflicts
  PROVE  Spec => []PortRulesAddUp
<1>1. Spec => []PortInv
  BY InitPortInv, NextPortInv, TypeInvariant, PTL DEF Spec
<1> QED BY <1>1, PTL DEF PortInv

\* Under the same condition no step changes a rule other than the one the
\* invocation that takes it is about.
THEOREM RulesChangeAlone ==
  ASSUME ~Conflicts
  PROVE  Spec => OnlyOwnRule
<1> DEFINE Own == \A c \in CPUs, q \in Ports :
                    flags'[c][q] # flags[c][q] =>
                      \E t \in Tools : /\ tpc[t] = "write" /\ op[t].port = q
                                       /\ flags'[c][q] = Modified(op[t], flags[c][q])
<1>1. Spec => []PortInv
  BY InitPortInv, NextPortInv, TypeInvariant, PTL DEF Spec
<1>2. ASSUME TypeInv, PortInv, [Next]_vars PROVE [Own]_vars
  <2>1. CASE \E t \in Tools, c \in CPUs : WritePort(t, c)
    <3> PICK t \in Tools, c \in CPUs : WritePort(t, c)
      BY <2>1
    <3>1. /\ flags' = [flags EXCEPT ![c][op[t].port] = Modified(op[t], flags[c][op[t].port])]
          /\ op[t].port \in Ports /\ tpc[t] = "write"
      BY <1>2, WritePortInv DEF WritePort
    <3> QED BY <1>2, <3>1 DEF TypeInv, TypeOK, MapsTypeOK
  <2>2. CASE ~(\E t \in Tools, c \in CPUs : WritePort(t, c))
    <3>1. flags' = flags
      BY <1>2, <2>2, ZenonT(40) DEF Next, ToolStep, RunStep, SkipFrame, Receive, SourceFound, SourceNotFound,
         CountHit, LookupPort, LoadDrops, StoreDrops, CountVerdict, Start, RefuseSource, AddSource,
         DeleteSource, CheckPort, ReadPort, ClearCount, Exit, SourceUnchanged, maps, vars
    <3> QED BY <3>1
  <2> QED BY <2>1, <2>2
<1> QED BY <1>1, <1>2, TypeInvariant, PTL DEF Spec, OnlyOwnRule

-----------------------------------------------------------------------------
(*****************************************************************************)
(* The tool and the maps implement RuleTable: every initial state maps to    *)
(* an initial state of the table, every step to one of its actions or to a   *)
(* stutter.  That the changes it begins come to an end is left to TLC.       *)
(*****************************************************************************)
Change == [t \in Tools |-> Spreading(t)]

LEMMA InitMaps == Init => RT!Init
BY DEF Init, RT!Init, RT!None, Spreading

\* A step that leaves rules and port updates alone.
LEMMA ChangeUnchanged ==
  ASSUME \A t \in Tools :
           \/ tpc[t] \notin {"read", "write"} /\ tpc'[t] \notin {"read", "write"}
           \/ tpc'[t] = tpc[t] /\ op'[t] = op[t] /\ todo'[t] = todo[t]
  PROVE  Change' = Change
<1>1. ASSUME NEW t \in Tools PROVE Spreading(t)' = Spreading(t)
  BY DEF Spreading
<1> QED BY <1>1 DEF Change

\* FiniteSets as RuleTable sees it.
LEMMA SameCardinality == RT!Cardinality(present) = Cardinality(present)
BY DEF RT!Cardinality, Cardinality

LEMMA AddSourceMaps ==
  ASSUME TypeInv, NEW t \in Tools, AddSource(t)
  PROVE  [RT!Next]_(RT!table)
<1> DEFINE s == op[t].src
<1>1. Change' = Change
  BY ChangeUnchanged DEF AddSource, SourceDone, TypeInv, TypeOK, ToolsTypeOK
<1>2. s \in Srcs /\ UNCHANGED flags
  BY DEF AddSource
<1>3. CASE InsertCode(s) = "OK" /\ s \notin present
  <2>1. ~(Cardinality(present) >= MaxEntries)
    BY <1>3 DEF InsertCode
  <2>2. Cardinality(present) \in Nat
    <3>1. IsFiniteSet(Srcs) /\ present \in SUBSET Srcs
      BY SetsAssumption DEF TypeInv, TypeOK, MapsTypeOK
    <3>2. IsFiniteSet(present)
      BY ONLY <3>1, FS_Subset
    <3> QED BY <3>2, FS_CardinalityType
  <2>3. present' = present \cup {s}
    BY <1>3 DEF AddSource, InsertSource
  <2>4. RT!AddSource(s)
    BY <1>1, <1>2, <1>3, <2>1, <2>2, <2>3, BoundsAssumption, SameCardinality DEF RT!AddSource, Change
  <2> QED BY <1>2, <2>4 DEF RT!Next
<1>4. CASE ~(InsertCode(s) = "OK" /\ s \notin present)
  <2>1. present' = present
    BY <1>4 DEF AddSource, InsertSource
  <2> QED BY <1>1, <1>2, <2>1 DEF RT!table, Change
<1> QED BY <1>3, <1>4

LEMMA DeleteSourceMaps ==
  ASSUME TypeInv, NEW t \in Tools, DeleteSource(t)
  PROVE  [RT!Next]_(RT!table)
<1>1. Change' = Change
  BY ChangeUnchanged DEF DeleteSource, SourceDone, TypeInv, TypeOK, ToolsTypeOK
<1>2. op[t].src \in Srcs /\ RT!DeleteSource(op[t].src)
  BY <1>1 DEF DeleteSource, RT!DeleteSource, Change
<1> QED BY <1>2 DEF RT!Next

\* A refused port changes nothing; a good one begins a change, and nobody
\* else is changing that port.
LEMMA CheckPortMaps ==
  ASSUME TypeInv, TypeInv', PortInv, NEW t \in Tools, CheckPort(t)
  PROVE  [RT!Next]_(RT!table)
<1>1. /\ tpc[t] = "port" /\ tpc'[t] \in {"read", "exit"}
      /\ \A u \in Tools \ {t} : tpc'[u] = tpc[u] /\ todo'[u] = todo[u]
      /\ UNCHANGED <<present, flags, op>>
  BY DEF CheckPort, TypeInv, TypeOK, ToolsTypeOK, maps
<1>2. CASE tpc'[t] = "exit"
  <2>1. Change' = Change
    BY <1>1, <1>2, ChangeUnchanged
  <2> QED BY <1>1, <2>1 DEF RT!table, Change
<1>3. CASE tpc'[t] = "read"
  <2> DEFINE r == [add |-> op[t].act = {"ADD"}, port |-> op[t].port, filter |-> op[t].proto]
  <2>1. op[t] \in Ops /\ op[t].port \in Ports /\ op[t].port # 0
    BY <1>1, <1>3 DEF TypeInv, ToolInv, ToolOK
  <2>2. r \in RT!Rule
    BY <2>1, OpFields DEF RT!Rule
  <2>3. Change[t] = RT!None
    BY <1>1 DEF Change, Spreading, RT!None
  <2>4. ASSUME NEW u \in Tools, Change[u] # RT!None PROVE Change[u].rule.port # r.port
    <3>1. tpc[u] \in {"read", "write"} /\ u # t
      BY <1>1, <2>4 DEF Change, Spreading, RT!None
    <3>2. op[u].port # op[t].port
      BY <1>1, <2>1, <3>1, Alone
    <3> QED BY <3>1, <3>2 DEF Change, Spreading
  <2>5. Change' = [Change EXCEPT ![t] = [rule |-> r, left |-> CPUs]]
    <3>1. Spreading(t)' = [rule |-> r, left |-> CPUs]
      BY <1>1, <1>3 DEF Spreading
    <3>2. \A u \in Tools \ {t} : Spreading(u)' = Spreading(u)
      BY <1>1 DEF Spreading
    <3> QED BY <3>1, <3>2 DEF Change
  <2> HIDE DEF r
  <2>6. RT!Begin(t, r)
    BY <1>1, <2>3, <2>4, <2>5 DEF RT!Begin, Change
  <2> QED BY <2>2, <2>6 DEF RT!Next
<1> QED BY <1>1, <1>2, <1>3

\* Reading is not seen: the rule is on its way to every CPU before and after.
LEMMA ReadPortMaps ==
  ASSUME TypeInv, NEW t \in Tools, NEW c \in CPUs, ReadPort(t, c)
  PROVE  [RT!Next]_(RT!table)
<1>1. /\ tpc[t] = "read" /\ c \in todo[t] /\ Copied(t, c, "write")
      /\ UNCHANGED <<present, flags, op>> /\ ToolsTypeOK
  BY DEF ReadPort, maps, TypeInv, TypeOK
<1>2. /\ \A u \in Tools \ {t} : todo'[u] = todo[u] /\ tpc'[u] = tpc[u]
      /\ tpc'[t] = "read" \/ (tpc'[t] = "write" /\ todo'[t] = CPUs)
  BY <1>1, CopiedStep
<1>3. ASSUME NEW u \in Tools PROVE Spreading(u)' = Spreading(u)
  <2>1. CASE u = t
    BY <1>1, <1>2, <2>1 DEF Spreading
  <2>2. CASE u # t
    BY <1>1, <1>2, <2>2 DEF Spreading
  <2> QED BY <2>1, <2>2
<1> QED BY <1>1, <1>3 DEF RT!table

\* The copy written back is the slot with the tool's own rule changed.
LEMMA WritePortMaps ==
  ASSUME TypeInv, PortInv, NEW t \in Tools, NEW c \in CPUs, WritePort(t, c)
  PROVE  [RT!Next]_(RT!table)
<1> DEFINE r == [add |-> op[t].act = {"ADD"}, port |-> op[t].port, filter |-> op[t].proto]
           next == IF op[t].act = {"DEL"} THEN "clear" ELSE "exit"
<1>1. /\ tpc[t] = "write" /\ c \in todo[t] /\ Copied(t, c, next)
      /\ UNCHANGED <<present, op>> /\ ToolsTypeOK
  BY DEF WritePort, TypeInv, TypeOK
<1>2. /\ \A u \in Tools \ {t} : todo'[u] = todo[u] /\ tpc'[u] = tpc[u]
      /\ todo[t] # {c} => tpc'[t] = "write" /\ todo'[t] = todo[t] \ {c} /\ todo'[t] # {}
      /\ todo[t] = {c} => tpc'[t] \in {"clear", "exit"}
  <2>1. next \in {"write", "clear", "exit"} /\ next \in {"clear", "exit"}
    OBVIOUS
  <2> HIDE DEF next
  <2> QED BY <1>1, <2>1, CopiedStep
<1>3. Change[t] = [rule |-> r, left |-> todo[t]]
  BY <1>1 DEF Change, Spreading
<1>4. flags' = [flags EXCEPT ![c][r.port] = RT!Applied(r, flags[c][r.port])]
  BY WritePortInv DEF Modified, RT!Applied
<1>5. Spreading(t)' = IF todo[t] = {c} THEN RT!None ELSE [rule |-> r, left |-> todo[t] \ {c}]
  BY <1>1, <1>2 DEF Spreading, RT!None
<1>6. \A u \in Tools \ {t} : Spreading(u)' = Spreading(u)
  BY <1>1, <1>2 DEF Spreading
<1> HIDE DEF r
<1>7. Change' = [Change EXCEPT ![t] = IF todo[t] \ {c} = {} THEN RT!None
                                      ELSE [rule |-> r, left |-> todo[t] \ {c}]]
  <2>1. todo[t] \ {c} = {} <=> todo[t] = {c}
    BY <1>1
  <2> QED BY <1>5, <1>6, <2>1 DEF Change
<1>8. RT!Reach(t, c)
  <2>1. Change[t].rule = r /\ Change[t].left = todo[t] /\ c \in Change[t].left
    BY <1>1, <1>3
  <2>2. flags' = [flags EXCEPT ![c][Change[t].rule.port] =
                     RT!Applied(Change[t].rule, flags[c][Change[t].rule.port])]
    BY <1>4, <2>1
  <2>3. Change' = [Change EXCEPT ![t] = IF Change[t].left \ {c} = {} THEN RT!None
                     ELSE [rule |-> Change[t].rule, left |-> Change[t].left \ {c}]]
    BY <1>7, <2>1
  <2> QED BY ONLY <1>1, <2>1, <2>2, <2>3 DEF RT!Reach, Change
<1> QED BY <1>8 DEF RT!Next

\* A command's other steps and those of the program are not seen.
LEMMA OtherStepsMap ==
  ASSUME TypeInv, NEW t \in Tools,
         \/ Start(t) \/ RefuseSource(t) \/ Exit(t)
         \/ \E c \in CPUs : ClearCount(t, c)
  PROVE  UNCHANGED RT!table
<1>1. CASE Start(t)
  <2>1. /\ tpc[t] = "idle" /\ tpc'[t] \notin {"read", "write"} /\ UNCHANGED <<present, flags, todo>>
        /\ \A u \in Tools \ {t} : tpc'[u] = tpc[u] /\ op'[u] = op[u]
    BY <1>1 DEF Start, TypeInv, TypeOK, ToolsTypeOK, maps
  <2>2. Change' = Change
    BY <2>1, ChangeUnchanged
  <2> QED BY <2>1, <2>2 DEF RT!table, Change
<1>2. CASE RefuseSource(t) \/ Exit(t)
  <2>1. /\ tpc[t] \in {"source", "exit"} /\ tpc'[t] \notin {"read", "write"}
        /\ UNCHANGED <<present, flags, todo>>
        /\ \A u \in Tools \ {t} : tpc'[u] = tpc[u] /\ op'[u] = op[u]
    BY <1>2 DEF RefuseSource, SourceDone, SourceUnchanged, Exit, TypeInv, TypeOK, ToolsTypeOK, maps
  <2>2. Change' = Change
    BY <2>1, ChangeUnchanged
  <2> QED BY <2>1, <2>2 DEF RT!table, Change
<1>3. CASE \E c \in CPUs : ClearCount(t, c)
  <2> PICK c \in CPUs : ClearCount(t, c)
    BY <1>3
  <2>1. /\ tpc[t] = "clear" /\ c \in todo[t] /\ Copied(t, c, "exit")
        /\ UNCHANGED <<present, flags, op>> /\ ToolsTypeOK
    BY DEF ClearCount, TypeInv, TypeOK
  <2>2. /\ \A u \in Tools \ {t} : todo'[u] = todo[u] /\ tpc'[u] = tpc[u]
        /\ tpc'[t] \in {"clear", "exit"}
    BY <2>1, CopiedStep
  <2>3. Change' = Change
    BY <2>1, <2>2, ChangeUnchanged
  <2> QED BY <2>1, <2>3 DEF RT!table, Change
<1> QED BY <1>1, <1>2, <1>3

LEMMA StepMaps ==
  ASSUME TypeInv, TypeInv', PortInv, [Next]_vars
  PROVE  [RT!Next]_(RT!table)
<1>1. ASSUME NEW c \in CPUs, SkipFrame(c) \/ Receive(c) \/ RunStep(c)
      PROVE  UNCHANGED RT!table
  <2>1. UNCHANGED <<present, flags, tpc, op, todo>>
    BY <1>1 DEF SkipFrame, Receive, RunStep, SourceFound, SourceNotFound, CountHit, LookupPort,
       LoadDrops, StoreDrops, CountVerdict, maps, tools
  <2> QED BY <2>1 DEF RT!table, Spreading
<1>2. CASE UNCHANGED vars
  BY <1>2 DEF vars, maps, tools, RT!table, Spreading
<1> QED
  BY <1>1, <1>2, AddSourceMaps, DeleteSourceMaps, CheckPortMaps, ReadPortMaps, WritePortMaps,
     OtherStepsMap DEF Next, ToolStep

\* As long as overlapping invocations name different ports, what the tool does
\* to the maps is what RuleTable lets it do: no source beyond max_entries, and
\* an update of a port comes to each CPU once, in one step, and changes its own
\* rule alone (the safety part of ImplementsRuleTable).
THEOREM RulesRefineTable ==
  ASSUME ~Conflicts
  PROVE  Spec => RT!SafeSpec
<1>1. Spec => []PortInv
  BY InitPortInv, NextPortInv, TypeInvariant, PTL DEF Spec
<1> QED BY <1>1, InitMaps, StepMaps, TypeInvariant, PTL DEF Spec, RT!SafeSpec

-----------------------------------------------------------------------------
(*****************************************************************************)
(* The verdict of a run that at most one invocation of the tool overlaps.    *)
(* xdp_program looks at the sources first and at the ports later, and the    *)
(* rules may change in between.  What saves it: an invocation that adds      *)
(* the source after the program has looked it up changes the port after      *)
(* that, as an --add too, from slots it has read during the run.             *)
(* Nothing is assumed about which ports the invocations name.                *)
(*****************************************************************************)
\* What the program has checked of the frame by the time it uses the maps.
FrameOK(c) ==
  /\ pc[c] \in {"source", "hit", "port"} =>
       /\ ParseEth(frame[c]).ok /\ ParseEth(frame[c]).proto = "IP"
       /\ IpHeaderFits(frame[c], ParseEth(frame[c]).l3)
  /\ pc[c] = "port" => L4HeaderFits(frame[c], ParseEth(frame[c]).l3)

\* overlap counts every invocation that may still change something.
CountsOverlap(c) == pc[c] # "idle" =>
  /\ overlap[c] = 0 => \A t \in Tools : ~Busy(t)
  /\ overlap[c] = 1 => \A t, u \in Tools : Busy(t) /\ Busy(u) => t = u

\* Until the run is decided, what the rules call for now is among the verdicts
\* they have called for.
NowJustified(c) == pc[c] \in {"source", "port"} =>
  Verdict(frame[c], present, Blocked(flags, c)) \in would[c]

\* The slot t is about to write back is still as it was read.
FreshCopy(t, c) ==
  /\ tpc[t] = "read" /\ c \notin todo[t] => curr[t][c] = flags[c][op[t].port]
  /\ tpc[t] = "write" /\ c \in todo[t] => curr[t][c] = flags[c][op[t].port]

\* The source was added after the program had looked for it: the one invocation
\* there is did it, and can only add to the ports.
AddedSince(c) == pc[c] = "port" /\ overlap[c] <= 1 /\ frame[c].src \in present
AdderOnly(c) == AddedSince(c) =>
  /\ overlap[c] # 0
  /\ ~PortRule(c) => "PASS" \in would[c]
  /\ \A t \in Tools : Busy(t) => op[t].act = {"ADD"} /\ FreshCopy(t, c)

Decided(c) ==
  /\ pc[c] = "hit" => "DROP" \in would[c]
  /\ pc[c] \in {"load", "store", "stats"} /\ overlap[c] <= 1 => action[c] \in would[c]

Justified(c) == FrameOK(c) /\ CountsOverlap(c) /\ NowJustified(c) /\ AdderOnly(c) /\ Decided(c)

VerdictInv == \A c \in CPUs : Justified(c)

-----------------------------------------------------------------------------
LEMMA VerdictOf ==
  ASSUME NEW f, NEW S, NEW B, ParseEth(f).ok, ParseEth(f).proto = "IP",
         IpHeaderFits(f, ParseEth(f).l3)
  PROVE  Verdict(f, S, B) =
           IF f.src \in S THEN "DROP"
           ELSE IF f.proto \notin Protos THEN "PASS"
           ELSE IF ~L4HeaderFits(f, ParseEth(f).l3) THEN "ABORTED"
           ELSE IF <<f.proto, f.dport>> \in B THEN "DROP" ELSE "PASS"
BY DEF Verdict, Classify, ParseIpv4, ParsePort

\* The bit LookupPort tests is the rule for the frame's protocol and port.
LEMMA PortRuleBlocks ==
  ASSUME TypeInv, NEW c \in CPUs, frame[c].dport \in Ports, frame[c].proto \in Protos
  PROVE  <<frame[c].proto, frame[c].dport>> \in Blocked(flags, c) <=> PortRule(c)
BY DEF Blocked, PortRule

LEMMA CountOfBusy ==
  /\ AtMostTwo(Cardinality({t \in Tools : Busy(t)})) = 0 => \A t \in Tools : ~Busy(t)
  /\ AtMostTwo(Cardinality({t \in Tools : Busy(t)})) = 1
       => \A t, u \in Tools : Busy(t) /\ Busy(u) => t = u
<1> DEFINE B == {t \in Tools : Busy(t)}
<1>1. B \in SUBSET Tools /\ IsFiniteSet(Tools)
  BY SetsAssumption
<1>2. IsFiniteSet(B)
  BY ONLY <1>1, FS_Subset
<1>3. Cardinality(B) \in Nat
  BY BusyCount
<1>4. \A t \in Tools : Busy(t) <=> t \in B
  OBVIOUS
<1> HIDE DEF B
<1>5. Cardinality(B) = 0 => B = {}
  BY <1>2, FS_EmptySet
<1>6. Cardinality(B) = 1 => \E x : B = {x}
  BY <1>2, FS_Singleton
<1>7. /\ AtMostTwo(Cardinality(B)) = 0 => Cardinality(B) = 0
      /\ AtMostTwo(Cardinality(B)) = 1 => Cardinality(B) = 1
  BY <1>3 DEF AtMostTwo
<1> QED BY <1>4, <1>5, <1>6, <1>7 DEF B

\* A step the run on c does not notice.
LEMMA RunUntouched ==
  ASSUME NEW c \in CPUs, Justified(c),
         UNCHANGED <<present, flags, pc[c], frame[c], action[c], would[c], overlap[c]>>,
         \A t \in Tools : Busy(t)' => /\ Busy(t) /\ op'[t] = op[t]
                                      /\ FreshCopy(t, c) => FreshCopy(t, c)'
  PROVE  Justified(c)'
<1>1. FrameOK(c)' /\ CountsOverlap(c)' /\ Decided(c)'
  BY DEF Justified, FrameOK, CountsOverlap, Decided
<1>2. Blocked(flags, c)' = Blocked(flags, c) /\ PortRule(c)' = PortRule(c)
  BY DEF Blocked, PortRule
<1>3. NowJustified(c)'
  BY <1>2 DEF Justified, NowJustified
<1>4. AdderOnly(c)'
  <2> SUFFICES ASSUME AddedSince(c)'
               PROVE  /\ overlap'[c] # 0
                      /\ ~PortRule(c)' => "PASS" \in would'[c]
                      /\ \A t \in Tools : Busy(t)' => op'[t].act = {"ADD"} /\ FreshCopy(t, c)'
    BY DEF AdderOnly
  <2>1. AddedSince(c)
    BY DEF AddedSince
  <2> QED BY <1>2, <2>1 DEF Justified, AdderOnly
<1> QED BY <1>1, <1>3, <1>4 DEF Justified

-----------------------------------------------------------------------------
(* The program's steps. *)

LEMMA ReceiveJustified ==
  ASSUME TypeInv, TypeInv', NEW c \in CPUs, Receive(c)
  PROVE  Justified(c)'
<1> PICK f \in Frames :
      LET eth    == ParseEth(f)
          isIpv4 == eth.proto = "IP"
          fits   == IpHeaderFits(f, eth.l3)
      IN  /\ eth.ok
          /\ frame'  = [frame EXCEPT ![c] = f]
          /\ pc'     = [pc EXCEPT ![c] = IF isIpv4 /\ fits THEN "source" ELSE "stats"]
          /\ action' = [action EXCEPT ![c] = IF isIpv4 /\ ~fits THEN "ABORTED" ELSE "PASS"]
          /\ would'  = [would EXCEPT ![c] = {Verdict(f, present, Blocked(flags, c))}]
  BY DEF Receive
<1> DEFINE isIpv4 == ParseEth(f).proto = "IP"
           fits == IpHeaderFits(f, ParseEth(f).l3)
           v == Verdict(f, present, Blocked(flags, c))
<1>1. /\ ParseEth(f).ok /\ frame'[c] = f
      /\ pc'[c] = IF isIpv4 /\ fits THEN "source" ELSE "stats"
      /\ action'[c] = IF isIpv4 /\ ~fits THEN "ABORTED" ELSE "PASS"
      /\ would'[c] = {v}
      /\ overlap'[c] = AtMostTwo(Cardinality({t \in Tools : Busy(t)}))
      /\ UNCHANGED <<present, flags, tpc>>
  BY DEF Receive, TypeInv, TypeOK, ProgramTypeOK, HistoryTypeOK, maps, tools
<1>2. FrameOK(c)'
  BY <1>1 DEF FrameOK
<1>3. CountsOverlap(c)'
  BY <1>1, CountOfBusy DEF CountsOverlap, Busy
<1>4. NowJustified(c)' /\ AdderOnly(c)'
  BY <1>1 DEF NowJustified, AdderOnly, AddedSince, Blocked
<1>5. ~(isIpv4 /\ fits) => v = IF isIpv4 THEN "ABORTED" ELSE "PASS"
  BY <1>1 DEF Verdict, Classify, ParseIpv4
<1>6. Decided(c)'
  BY <1>1, <1>5 DEF Decided
<1> QED BY <1>2, <1>3, <1>4, <1>6 DEF Justified

LEMMA SourceFoundJustified ==
  ASSUME TypeInv, NEW c \in CPUs, Justified(c), SourceFound(c)
  PROVE  Justified(c)'
<1>1. /\ pc[c] = "source" /\ frame[c].src \in present /\ pc'[c] = "hit"
      /\ UNCHANGED <<frame, overlap, would, tpc>>
  BY DEF SourceFound, TypeInv, TypeOK, ProgramTypeOK, tools
<1>2. /\ ParseEth(frame[c]).ok /\ ParseEth(frame[c]).proto = "IP"
      /\ IpHeaderFits(frame[c], ParseEth(frame[c]).l3)
      /\ Verdict(frame[c], present, Blocked(flags, c)) \in would[c]
  BY <1>1 DEF Justified, FrameOK, NowJustified
<1>3. Verdict(frame[c], present, Blocked(flags, c)) = "DROP"
  BY <1>1, <1>2, VerdictOf
<1> QED BY <1>1, <1>2, <1>3 DEF Justified, FrameOK, CountsOverlap, NowJustified, AdderOnly,
                                AddedSince, Decided, Busy

LEMMA SourceNotFoundJustified ==
  ASSUME TypeInv, NEW c \in CPUs, Justified(c), SourceNotFound(c)
  PROVE  Justified(c)'
<1> DEFINE f == frame[c]
           fits == L4HeaderFits(f, ParseEth(f).l3)
           v == Verdict(f, present, Blocked(flags, c))
<1>1. /\ pc[c] = "source" /\ f.src \notin present
      /\ pc'[c] = IF f.proto \in Protos /\ fits THEN "port" ELSE "stats"
      /\ action'[c] = IF f.proto \in Protos /\ ~fits THEN "ABORTED" ELSE "PASS"
      /\ UNCHANGED <<present, flags, frame, overlap, would, tpc>>
  BY DEF SourceNotFound, TypeInv, TypeOK, ProgramTypeOK, maps, tools, history
<1>2. /\ ParseEth(f).ok /\ ParseEth(f).proto = "IP" /\ IpHeaderFits(f, ParseEth(f).l3)
      /\ v \in would[c]
  BY <1>1 DEF Justified, FrameOK, NowJustified
<1>3. ~(f.proto \in Protos /\ fits) => v = action'[c]
  <2>1. v = IF f.proto \notin Protos THEN "PASS" ELSE IF ~fits THEN "ABORTED"
            ELSE IF <<f.proto, f.dport>> \in Blocked(flags, c) THEN "DROP" ELSE "PASS"
    BY <1>1, <1>2, VerdictOf
  <2> HIDE DEF v, fits
  <2> QED BY <1>1, <2>1
<1>4. FrameOK(c)'
  BY <1>1, <1>2 DEF FrameOK
<1>5. CountsOverlap(c)'
  BY <1>1 DEF Justified, CountsOverlap, Busy
<1>6. NowJustified(c)'
  BY <1>1, <1>2 DEF NowJustified, Blocked
<1>7. AdderOnly(c)'
  BY <1>1 DEF AdderOnly, AddedSince
<1>8. Decided(c)'
  BY <1>1, <1>2, <1>3 DEF Decided
<1> QED BY <1>4, <1>5, <1>6, <1>7, <1>8 DEF Justified

\* The bit may be newer than the missing source: then somebody has added the
\* source meanwhile, and with or without the bit some instant agrees.
LEMMA LookupPortJustified ==
  ASSUME TypeInv, NEW c \in CPUs, Justified(c), LookupPort(c)
  PROVE  Justified(c)'
<1> DEFINE f == frame[c]
           v == Verdict(f, present, Blocked(flags, c))
<1>1. /\ pc[c] = "port"
      /\ pc'[c] = IF PortRule(c) THEN "load" ELSE "stats"
      /\ action'[c] = IF PortRule(c) THEN "DROP" ELSE "PASS"
      /\ UNCHANGED <<frame, overlap, would, tpc>>
  BY DEF LookupPort, TypeInv, TypeOK, ProgramTypeOK, tools, history
<1>2. f \in Frames /\ f.proto \in Protos
  BY <1>1 DEF TypeInv, RunInv
<1>3. <<f.proto, f.dport>> \in Blocked(flags, c) <=> PortRule(c)
  BY <1>2, FrameFields, PortRuleBlocks
<1>4. v \in would[c] /\ v = IF f.src \in present \/ PortRule(c) THEN "DROP" ELSE "PASS"
  BY <1>1, <1>2, <1>3, VerdictOf DEF Justified, FrameOK, NowJustified
<1>5. overlap[c] <= 1 => action'[c] \in would[c]
  BY <1>1, <1>4 DEF Justified, AdderOnly, AddedSince
<1> QED BY <1>1, <1>5 DEF Justified, FrameOK, CountsOverlap, NowJustified, AdderOnly, AddedSince,
                          Decided, Busy

LEMMA RunJustified ==
  ASSUME TypeInv, TypeInv', VerdictInv, NEW c \in CPUs,
         SkipFrame(c) \/ Receive(c) \/ RunStep(c)
  PROVE  VerdictInv'
<1>1. UNCHANGED <<present, flags, tpc, op, curr, todo>>
  BY DEF SkipFrame, Receive, RunStep, SourceFound, SourceNotFound, CountHit, LookupPort,
     LoadDrops, StoreDrops, CountVerdict, maps, tools
<1>2. \A d \in CPUs \ {c} : UNCHANGED <<pc[d], frame[d], action[d], would[d], overlap[d]>>
  BY DEF SkipFrame, Receive, RunStep, SourceFound, SourceNotFound, CountHit, LookupPort,
     LoadDrops, StoreDrops, CountVerdict, history, TypeInv, TypeOK, ProgramTypeOK, HistoryTypeOK
<1>3. \A d \in CPUs \ {c} : Justified(d)'
  BY <1>1, <1>2, RunUntouched DEF VerdictInv, Busy, FreshCopy
<1>4. Justified(c)'
  <2>0. Justified(c)
    BY DEF VerdictInv
  <2>1. CASE SkipFrame(c)
    <3>1. UNCHANGED <<pc[c], frame[c], action[c], would[c], overlap[c]>>
      BY <2>1 DEF SkipFrame, history
    <3> QED BY <1>1, <2>0, <3>1, RunUntouched DEF Busy, FreshCopy
  <2>2. CASE CountHit(c)
    <3>1. /\ pc[c] = "hit" /\ pc'[c] = "stats" /\ action'[c] = "DROP"
          /\ UNCHANGED <<overlap, would>>
      BY <2>2 DEF CountHit, TypeInv, TypeOK, ProgramTypeOK, history
    <3> QED BY <1>1, <2>0, <3>1
            DEF Justified, FrameOK, CountsOverlap, NowJustified, AdderOnly, AddedSince, Decided, Busy
  <2>3. CASE LoadDrops(c) \/ StoreDrops(c)
    <3>1. /\ pc[c] \in {"load", "store"} /\ pc'[c] \in {"store", "stats"}
          /\ UNCHANGED <<action, overlap, would>>
      BY <2>3 DEF LoadDrops, StoreDrops, TypeInv, TypeOK, ProgramTypeOK, history
    <3> QED BY <1>1, <2>0, <3>1
            DEF Justified, FrameOK, CountsOverlap, NowJustified, AdderOnly, AddedSince, Decided, Busy
  <2>4. CASE CountVerdict(c)
    <3>1. pc'[c] = "idle"
      BY <2>4 DEF CountVerdict, TypeInv, TypeOK, ProgramTypeOK
    <3> QED BY <3>1
            DEF Justified, FrameOK, CountsOverlap, NowJustified, AdderOnly, AddedSince, Decided
  <2> QED BY <2>0, <2>1, <2>2, <2>3, <2>4, ReceiveJustified, SourceFoundJustified,
             SourceNotFoundJustified, LookupPortJustified DEF RunStep
<1> QED BY <1>3, <1>4 DEF VerdictInv

-----------------------------------------------------------------------------
(* The tool's steps, seen from the run on c. *)

LEMMA StartJustified ==
  ASSUME TypeInv, NEW t \in Tools, Start(t), NEW c \in CPUs, Justified(c)
  PROVE  Justified(c)'
<1>1. /\ UNCHANGED <<present, flags, pc, frame, action, would>>
      /\ overlap'[c] = IF pc[c] = "idle" THEN 0 ELSE AtMostTwo(overlap[c] + 1)
      /\ overlap[c] \in 0..2
      /\ \A u \in Tools \ {t} : tpc'[u] = tpc[u]
  BY DEF Start, maps, program, TypeInv, TypeOK, ToolsTypeOK, HistoryTypeOK
<1>2. pc[c] # "idle" => /\ overlap'[c] # 0
                        /\ overlap'[c] <= 1 => overlap'[c] = 1 /\ overlap[c] = 0
  BY <1>1 DEF AtMostTwo
<1>3. FrameOK(c)' /\ NowJustified(c)'
  BY <1>1 DEF Justified, FrameOK, NowJustified, Blocked
<1>4. CountsOverlap(c)'
  BY <1>1, <1>2 DEF Justified, CountsOverlap, Busy
<1>5. AdderOnly(c)'
  <2>1. AddedSince(c)' => pc[c] = "port" /\ overlap[c] = 0 /\ frame[c].src \in present
    BY <1>1, <1>2 DEF AddedSince, AtMostTwo
  <2> QED BY <2>1 DEF Justified, AdderOnly, AddedSince
<1>6. Decided(c)'
  BY <1>1, <1>2 DEF Justified, Decided
<1> QED BY <1>3, <1>4, <1>5, <1>6 DEF Justified

\* A step that changes no rule: t goes on, or is done.
LEMMA QuietJustified ==
  ASSUME TypeInv, NEW t \in Tools, NEW c \in CPUs, Justified(c),
         \/ RefuseSource(t) \/ CheckPort(t) \/ Exit(t)
         \/ \E d \in CPUs : ReadPort(t, d) \/ ClearCount(t, d)
  PROVE  Justified(c)'
<1>0. ToolsTypeOK
  BY DEF TypeInv, TypeOK
<1>1. CASE RefuseSource(t) \/ CheckPort(t) \/ Exit(t)
  <2>1. UNCHANGED <<present, flags, pc[c], frame[c], action[c], would[c], overlap[c]>>
    BY <1>1 DEF RefuseSource, SourceUnchanged, CheckPort, Exit, maps, program, history
  <2>2. /\ \A u \in Tools \ {t} : UNCHANGED <<tpc[u], op[u], curr[u], todo[u]>>
        /\ tpc'[t] # "idle" => op'[t] = op[t] /\ tpc[t] \in {"source", "port"}
        /\ tpc'[t] = "read" => todo'[t] = CPUs
        /\ tpc'[t] # "write"
    BY <1>0, <1>1 DEF RefuseSource, SourceDone, CheckPort, Exit, ToolsTypeOK
  <2> QED BY <2>1, <2>2, RunUntouched DEF Busy, FreshCopy
<1>2. ASSUME NEW d \in CPUs, ReadPort(t, d) PROVE Justified(c)'
  <2>1. UNCHANGED <<present, flags, pc[c], frame[c], action[c], would[c], overlap[c], op>>
    BY <1>2 DEF ReadPort, maps, program, history
  <2>2. /\ tpc[t] = "read" /\ d \in todo[t] /\ Copied(t, d, "write")
        /\ curr' = [curr EXCEPT ![t][d] = flags[d][op[t].port]]
    BY <1>2 DEF ReadPort
  <2>3. /\ \A u \in Tools \ {t} : todo'[u] = todo[u] /\ tpc'[u] = tpc[u]
        /\ todo[t] # {d} => tpc'[t] = "read" /\ todo'[t] = todo[t] \ {d}
        /\ todo[t] = {d} => tpc'[t] = "write"
    BY <1>0, <2>2, CopiedStep
  <2>4. ASSUME NEW u \in Tools, Busy(u)' PROVE Busy(u) /\ (FreshCopy(u, c) => FreshCopy(u, c)')
    <3>1. CASE u # t
      BY <1>0, <2>1, <2>2, <2>3, <2>4, <3>1 DEF Busy, FreshCopy, ToolsTypeOK
    <3>2. CASE u = t
      <4>1. Busy(t)
        BY <2>2 DEF Busy
      <4>2. FreshCopy(t, c) => (c \notin todo[t] \/ c = d => curr'[t][c] = flags[c][op[t].port])
        BY <1>0, <2>2 DEF FreshCopy, ToolsTypeOK
      <4> QED BY <2>1, <2>2, <2>3, <3>2, <4>1, <4>2 DEF FreshCopy
    <3> QED BY <3>1, <3>2
  <2> QED BY <2>1, <2>4, RunUntouched
<1>3. ASSUME NEW d \in CPUs, ClearCount(t, d) PROVE Justified(c)'
  <2>1. UNCHANGED <<present, flags, pc[c], frame[c], action[c], would[c], overlap[c], op, curr>>
    BY <1>3 DEF ClearCount, program, history
  <2>2. /\ tpc[t] = "clear" /\ d \in todo[t] /\ Copied(t, d, "exit")
    BY <1>3 DEF ClearCount
  <2>3. /\ \A u \in Tools \ {t} : todo'[u] = todo[u] /\ tpc'[u] = tpc[u]
        /\ tpc'[t] \in {"clear", "exit"}
    BY <1>0, <2>2, CopiedStep
  <2> QED BY <2>1, <2>2, <2>3, RunUntouched DEF Busy, FreshCopy
<1> QED BY <1>1, <1>2, <1>3

\* A change of the rules keeps every verdict they have called for and adds the
\* one they call for now.
LEMMA RulesChanged ==
  ASSUME TypeInv, NEW c \in CPUs, Justified(c), NowAlso(present', flags'),
         UNCHANGED <<pc, frame, action, overlap>>
  PROVE  /\ FrameOK(c)' /\ NowJustified(c)' /\ Decided(c)'
         /\ would[c] \subseteq would'[c]
<1>1. /\ would[c] \subseteq would'[c]
      /\ pc[c] \in {"source", "port"} =>
           Verdict(frame[c], present', Blocked(flags', c)) \in would'[c]
  BY DEF NowAlso
<1>2. FrameOK(c)'
  BY DEF Justified, FrameOK
<1>3. Decided(c)'
  BY <1>1 DEF Justified, Decided
<1>4. NowJustified(c)'
  BY <1>1 DEF NowJustified, Blocked
<1> QED BY <1>1, <1>2, <1>3, <1>4

LEMMA AddSourceJustified ==
  ASSUME TypeInv, NEW t \in Tools, AddSource(t), NEW c \in CPUs, Justified(c)
  PROVE  Justified(c)'
<1>1. /\ tpc[t] = "source" /\ tpc'[t] \in {"port", "exit"} /\ op[t].act = {"ADD"}
      /\ \A u \in Tools \ {t} : tpc'[u] = tpc[u]
      /\ UNCHANGED <<flags, pc, frame, action, overlap, op, curr, todo>>
      /\ NowAlso(present', flags')
  BY DEF AddSource, SourceDone, program, TypeInv, TypeOK, ToolsTypeOK
<1>2. FrameOK(c)' /\ NowJustified(c)' /\ Decided(c)' /\ would[c] \subseteq would'[c]
  BY <1>1, RulesChanged
<1>3. CountsOverlap(c)'
  BY <1>1 DEF Justified, CountsOverlap, Busy
<1>4. AdderOnly(c)'
  <2> SUFFICES ASSUME AddedSince(c)'
               PROVE  /\ overlap[c] # 0
                      /\ ~PortRule(c)' => "PASS" \in would'[c]
                      /\ \A u \in Tools : Busy(u)' => op'[u].act = {"ADD"} /\ FreshCopy(u, c)'
    BY <1>1 DEF AdderOnly
  <2>1. /\ pc[c] = "port" /\ overlap[c] <= 1 /\ overlap[c] \in 0..2
        /\ PortRule(c)' = PortRule(c)
    BY <1>1 DEF AddedSince, PortRule, TypeInv, TypeOK, HistoryTypeOK
  <2>2. overlap[c] = 1 /\ \A u \in Tools : Busy(u) => u = t
    BY <1>1, <2>1 DEF Justified, CountsOverlap, Busy
  <2>3. ~PortRule(c) => "PASS" \in would[c]
    <3>1. CASE frame[c].src \in present
      BY <2>1, <3>1 DEF Justified, AdderOnly, AddedSince
    <3>2. CASE frame[c].src \notin present
      <4>1. frame[c] \in Frames /\ frame[c].proto \in Protos
        BY <2>1 DEF TypeInv, RunInv
      <4>2. <<frame[c].proto, frame[c].dport>> \in Blocked(flags, c) <=> PortRule(c)
        BY <4>1, FrameFields, PortRuleBlocks
      <4> QED BY <2>1, <3>2, <4>1, <4>2, VerdictOf DEF Justified, FrameOK, NowJustified
    <3> QED BY <3>1, <3>2
  <2>4. ASSUME NEW u \in Tools, Busy(u)' PROVE op'[u].act = {"ADD"} /\ FreshCopy(u, c)'
    <3>1. u = t
      BY <1>1, <2>2, <2>4 DEF Busy
    <3> QED BY <1>1, <3>1 DEF FreshCopy
  <2> QED BY <1>2, <2>1, <2>2, <2>3, <2>4
<1> QED BY <1>2, <1>3, <1>4 DEF Justified

LEMMA DeleteSourceJustified ==
  ASSUME TypeInv, NEW t \in Tools, DeleteSource(t), NEW c \in CPUs, Justified(c)
  PROVE  Justified(c)'
<1>1. /\ tpc[t] = "source" /\ op[t].act = {"DEL"} /\ present' \subseteq present
      /\ \A u \in Tools \ {t} : tpc'[u] = tpc[u]
      /\ UNCHANGED <<flags, pc, frame, action, overlap>>
      /\ NowAlso(present', flags')
  BY DEF DeleteSource, SourceDone, TypeInv, TypeOK, ToolsTypeOK
<1>2. FrameOK(c)' /\ NowJustified(c)' /\ Decided(c)'
  BY <1>1, RulesChanged
<1>3. CountsOverlap(c)'
  BY <1>1 DEF Justified, CountsOverlap, Busy
<1>4. ~AddedSince(c)
  BY <1>1 DEF Justified, AdderOnly, Busy
<1>5. AdderOnly(c)'
  BY <1>1, <1>4 DEF AdderOnly, AddedSince
<1> QED BY <1>2, <1>3, <1>5 DEF Justified

LEMMA WritePortJustified ==
  ASSUME TypeInv, NEW t \in Tools, NEW d \in CPUs, WritePort(t, d), NEW c \in CPUs, Justified(c)
  PROVE  Justified(c)'
<1> DEFINE next == IF op[t].act = {"DEL"} THEN "clear" ELSE "exit"
           q == op[t].port
<1>1. /\ tpc[t] = "write" /\ d \in todo[t] /\ Copied(t, d, next)
      /\ flags' = [flags EXCEPT ![d][q] = Modified(op[t], curr[t][d])]
      /\ curr' = [curr EXCEPT ![t][d] = {}]
      /\ NowAlso(present', flags')
      /\ UNCHANGED <<present, pc, frame, action, overlap, op>>
      /\ ToolsTypeOK /\ MapsTypeOK
  BY DEF WritePort, program, TypeInv, TypeOK
<1>2. /\ \A u \in Tools \ {t} : todo'[u] = todo[u] /\ tpc'[u] = tpc[u]
      /\ todo[t] # {d} => tpc'[t] = "write" /\ todo'[t] = todo[t] \ {d}
      /\ todo[t] = {d} => tpc'[t] \in {"clear", "exit"}
  <2>1. next \in {"write", "clear", "exit"} /\ next \in {"clear", "exit"}
    OBVIOUS
  <2> HIDE DEF next
  <2> QED BY <1>1, <2>1, CopiedStep
<1>3. FrameOK(c)' /\ NowJustified(c)' /\ Decided(c)' /\ would[c] \subseteq would'[c]
  BY <1>1, RulesChanged
<1>4. CountsOverlap(c)'
  BY <1>1, <1>2 DEF Justified, CountsOverlap, Busy
<1>5. AdderOnly(c)'
  <2> SUFFICES ASSUME AddedSince(c)'
               PROVE  /\ overlap[c] # 0
                      /\ ~PortRule(c)' => "PASS" \in would'[c]
                      /\ \A u \in Tools : Busy(u)' => op'[u].act = {"ADD"} /\ FreshCopy(u, c)'
    BY <1>1 DEF AdderOnly
  <2>1. AddedSince(c) /\ Busy(t)
    BY <1>1 DEF AddedSince, Busy
  <2>2. /\ overlap[c] # 0
        /\ ~PortRule(c) => "PASS" \in would[c]
        /\ op[t].act = {"ADD"} /\ FreshCopy(t, c)
    BY <2>1 DEF Justified, AdderOnly
  <2>3. \A u \in Tools : Busy(u) => u = t
    <3>1. overlap[c] \in 0..2 /\ overlap[c] <= 1 /\ pc[c] # "idle"
      BY <2>1 DEF AddedSince, TypeInv, TypeOK, HistoryTypeOK
    <3> QED BY <2>1, <2>2, <3>1 DEF Justified, CountsOverlap
  <2>4. \A q1 \in Ports : flags[c][q1] \subseteq flags'[c][q1]
    <3>1. c = d => flags'[c] = [flags[c] EXCEPT ![q] = curr[t][c] \cup {op[t].proto}]
      BY <1>1, <2>2 DEF Modified, MapsTypeOK
    <3>2. c = d => curr[t][c] = flags[c][q]
      BY <1>1, <2>2 DEF FreshCopy
    <3>3. c # d => flags'[c] = flags[c]
      BY <1>1 DEF MapsTypeOK
    <3> QED BY <1>1, <3>1, <3>2, <3>3 DEF MapsTypeOK
  <2>5. frame[c] \in Frames
    BY <2>1 DEF AddedSince, TypeInv, RunInv
  <2>6. PortRule(c) => PortRule(c)'
    BY <1>1, <2>4, <2>5, FrameFields DEF PortRule
  <2>7. ASSUME NEW u \in Tools, Busy(u)' PROVE op'[u].act = {"ADD"} /\ FreshCopy(u, c)'
    <3>1. u = t
      BY <1>2, <2>3, <2>7 DEF Busy
    <3>2. c # d => /\ flags'[c] = flags[c]
                   /\ curr'[t][c] = curr[t][c]
      BY <1>1 DEF MapsTypeOK, ToolsTypeOK
    <3> QED BY <1>1, <1>2, <2>2, <3>1, <3>2 DEF FreshCopy
  <2> QED BY <1>3, <2>2, <2>6, <2>7
<1> QED BY <1>3, <1>4, <1>5 DEF Justified

-----------------------------------------------------------------------------
LEMMA InitVerdictInv == Init => VerdictInv
BY DEF Init, VerdictInv, Justified, FrameOK, CountsOverlap, NowJustified, AdderOnly, AddedSince, Decided

LEMMA NextVerdictInv ==
  ASSUME TypeInv, TypeInv', VerdictInv, [Next]_vars
  PROVE  VerdictInv'
<1>1. ASSUME NEW t \in Tools, Start(t) \/ ToolStep(t) PROVE VerdictInv'
  <2> SUFFICES ASSUME NEW c \in CPUs PROVE Justified(c)'
    BY DEF VerdictInv
  <2>1. Justified(c)
    BY DEF VerdictInv
  <2> QED BY <1>1, <2>1, StartJustified, QuietJustified, AddSourceJustified, DeleteSourceJustified,
             WritePortJustified DEF ToolStep
<1>2. CASE UNCHANGED vars
  <2>1. ASSUME NEW c \in CPUs PROVE Justified(c)'
    BY <1>2, RunUntouched DEF vars, maps, program, tools, history, VerdictInv, Busy, FreshCopy
  <2> QED BY <2>1 DEF VerdictInv
<1> QED BY <1>1, <1>2, RunJustified DEF Next

\* However the accesses of program and tools interleave: as long as at most
\* one invocation overlaps a run, its verdict is what the rules of some instant
\* of the run call for.
THEOREM VerdictsJustified == Spec => []VerdictJustified
<1>1. VerdictInv => VerdictJustified
  BY DEF VerdictInv, Justified, Decided, VerdictJustified
<1> QED BY <1>1, InitVerdictInv, NextVerdictInv, TypeInvariant, PTL DEF Spec

-----------------------------------------------------------------------------
(***************************************************************************)
(* Listings: what one shows of a map that changes under it.                *)
(***************************************************************************)
\* ahead orders the elements, bucket by bucket.
OrderOK ==
  /\ ahead \subseteq present \X present
  /\ \A r \in present : <<r, r>> \notin ahead
  /\ \A r, s \in present : r = s \/ <<r, s>> \in ahead \/ <<s, r>> \in ahead
  /\ \A q, r, s \in present : <<q, r>> \in ahead /\ <<r, s>> \in ahead => <<q, s>> \in ahead
  /\ \A r, s \in present : <<r, s>> \in ahead => Bucket[r] <= Bucket[s]

\* What has been there all along and is not printed yet is still to come: behind
\* the cursor or, when its element is gone, where it would be if it came back.
Ahead(r) ==
  IF prev_key \in present THEN <<prev_key, r>> \in ahead
  ELSE prev_key \in Srcs => Bucket[prev_key] <= Bucket[r]
StillToCome == rpc \in {"next", "value"} => \A r \in stayed \ listed : Ahead(r)

\* As long as the cursor's element is not deleted, nothing that was printed is
\* behind it, not even what was deleted and added again.
Behindhand(r) ==
  /\ Bucket[r] <= Bucket[prev_key]
  /\ r \in present => <<prev_key, r>> \notin ahead
NothingTwice == lost \/ (prev_key = NoSrc /\ listed = {})
                     \/ (prev_key \in present /\ \A r \in listed : Behindhand(r))

ListInv ==
  /\ OrderOK
  /\ rpc \in {"idle", "next", "value", "listed", "sum"}
  /\ rpc \in {"idle", "sum"} => prev_key = NoSrc /\ listed = {} /\ stayed = {} /\ ~lost /\ ~again
  /\ prev_key \in Srcs \cup {NoSrc} /\ listed \subseteq Srcs /\ stayed \subseteq present
  /\ lost \in BOOLEAN /\ again \in BOOLEAN
  /\ StillToCome
  /\ rpc = "listed" => stayed \subseteq listed
  /\ NothingTwice
  /\ again => lost

-----------------------------------------------------------------------------
\* A step of the machine adds one source, or takes sources away.
LEMMA PresentSteps ==
  ASSUME TypeInv, [Next]_vars
  PROVE  \/ present' \subseteq present
         \/ \E s \in Srcs \ present : present' = present \cup {s}
<1>1. CASE \E t \in Tools : AddSource(t)
  BY <1>1 DEF AddSource, InsertSource
<1>2. CASE \E t \in Tools : DeleteSource(t)
  BY <1>2 DEF DeleteSource
<1>3. CASE ~(\E t \in Tools : AddSource(t) \/ DeleteSource(t))
  BY <1>3, ZenonT(40) DEF Next, ToolStep, RunStep, SkipFrame, Receive, SourceFound, SourceNotFound,
     CountHit, LookupPort, LoadDrops, StoreDrops, CountVerdict, Start, RefuseSource,
     CheckPort, ReadPort, WritePort, ClearCount, Exit, SourceUnchanged, maps, vars
<1> QED BY <1>1, <1>2, <1>3

\* The kernel's order stays an order when it links an element in, and when it
\* takes one out.
LEMMA LinkedOrder ==
  ASSUME TypeInv, OrderOK, NEW s \in Srcs \ present, present' = present \cup {s}, Relinked
  PROVE  OrderOK' /\ ahead' = Linked(s)
<1>1. ahead' = Linked(s)
  <2>1. present' \ present = {s} /\ ~(present' \subseteq present)
    OBVIOUS
  <2> QED BY <2>1 DEF Relinked
<1>2. \A q, r \in present' : <<q, r>> \in ahead' <=>
        \/ q # s /\ r # s /\ <<q, r>> \in ahead
        \/ r = s /\ q # s /\ Bucket[q] < Bucket[s]
        \/ q = s /\ r # s /\ Bucket[r] >= Bucket[s]
  <2> SUFFICES ASSUME NEW q \in present', NEW r \in present'
               PROVE  <<q, r>> \in ahead' <=> \/ q # s /\ r # s /\ <<q, r>> \in ahead
                                              \/ r = s /\ q # s /\ Bucket[q] < Bucket[s]
                                              \/ q = s /\ r # s /\ Bucket[r] >= Bucket[s]
    OBVIOUS
  <2>1. <<q, r>> \in ahead => q # s /\ r # s
    BY DEF OrderOK
  <2>2. <<q, r>> \in {<<a, s>> : a \in {b \in present : Bucket[b] < Bucket[s]}}
          <=> r = s /\ q # s /\ Bucket[q] < Bucket[s]
    OBVIOUS
  <2>3. <<q, r>> \in {<<s, a>> : a \in {b \in present : Bucket[b] >= Bucket[s]}}
          <=> q = s /\ r # s /\ Bucket[r] >= Bucket[s]
    OBVIOUS
  <2> QED BY <1>1, <2>1, <2>2, <2>3 DEF Linked
<1>3. \A q \in present' : Bucket[q] \in Nat
  BY ReadersAssumption DEF TypeInv, TypeOK, MapsTypeOK
<1>4. ahead' \subseteq present' \X present'
  BY <1>1 DEF Linked, OrderOK
<1>5. \A q, r, u \in present' : <<q, r>> \in ahead' /\ <<r, u>> \in ahead' => <<q, u>> \in ahead'
  <2> SUFFICES ASSUME NEW q \in present', NEW r \in present', NEW u \in present',
                      <<q, r>> \in ahead', <<r, u>> \in ahead'
               PROVE  <<q, u>> \in ahead'
    OBVIOUS
  <2>1. CASE q = s
    <3>1. Bucket[r] >= Bucket[s] /\ r # s
      BY <2>1, <1>2
    <3>2. <<r, u>> \in ahead /\ u # s /\ r \in present /\ u \in present
      BY <3>1, <1>2, <1>3
    <3>3. Bucket[u] >= Bucket[r]
      BY <3>2 DEF OrderOK
    <3> QED BY <2>1, <3>1, <3>2, <3>3, <1>2, <1>3
  <2>2. CASE r = s
    <3>1. /\ q # s /\ u # s /\ q \in present /\ u \in present
          /\ Bucket[q] < Bucket[s] /\ Bucket[u] >= Bucket[s]
      BY <2>2, <1>2
    <3>2. Bucket[q] < Bucket[u]
      BY <3>1, <1>3
    <3>3. <<u, q>> \notin ahead
      <4> SUFFICES ASSUME <<u, q>> \in ahead PROVE FALSE
        OBVIOUS
      <4>1. Bucket[u] <= Bucket[q]
        BY <3>1 DEF OrderOK
      <4> QED BY <4>1, <3>1, <3>2, <1>3
    <3>4. q # u
      BY <3>1, <3>2, <1>3
    <3>5. <<q, u>> \in ahead
      BY <3>1, <3>3, <3>4 DEF OrderOK
    <3> QED BY <3>1, <3>5, <1>2
  <2>3. CASE u = s
    <3>1. /\ q # s /\ r # s /\ q \in present /\ r \in present /\ <<q, r>> \in ahead
          /\ Bucket[r] < Bucket[s]
      BY <2>3, <1>2, <1>3
    <3>2. Bucket[q] <= Bucket[r]
      BY <3>1 DEF OrderOK
    <3> QED BY <2>3, <3>1, <3>2, <1>2, <1>3
  <2>4. CASE q # s /\ r # s /\ u # s
    BY <2>4, <1>2 DEF OrderOK
  <2> QED BY <2>1, <2>2, <2>3, <2>4
<1>6. \A q, r \in present' : <<q, r>> \in ahead' => Bucket[q] <= Bucket[r]
  BY <1>2, <1>3 DEF OrderOK
<1>7. /\ \A r \in present' : <<r, r>> \notin ahead'
      /\ \A r, u \in present' : r = u \/ <<r, u>> \in ahead' \/ <<u, r>> \in ahead'
  BY <1>2, <1>3 DEF OrderOK
<1> QED BY <1>1, <1>4, <1>5, <1>6, <1>7 DEF OrderOK

\* What an element leaves behind when it goes.
LEMMA UnlinkedOrder ==
  ASSUME OrderOK, present' \subseteq present, Relinked
  PROVE  /\ OrderOK'
         /\ \A q, r \in present' : <<q, r>> \in ahead' <=> <<q, r>> \in ahead
<1>1. ahead' = ahead \cap (present' \X present')
  BY DEF Relinked
<1>2. \A q, r \in present' : <<q, r>> \in ahead' <=> <<q, r>> \in ahead
  BY <1>1
<1> QED BY <1>1, <1>2 DEF OrderOK

-----------------------------------------------------------------------------

\* Before the tool starts.
LEMMA InitListInv == ReadersInit => ListInv
BY DEF ReadersInit, Init, ListInv, OrderOK, StillToCome, NothingTwice

\* Steps of others leave the listing as it is.
LEMMA BesideListInv ==
  ASSUME TypeInv, ListInv, [Next]_vars, Beside
  PROVE  ListInv'
<1> USE DEF ListInv
<1>0. /\ rpc' = rpc /\ prev_key' = prev_key /\ listed' = listed /\ again' = again
      /\ stayed' = stayed \cap present'
      /\ lost' = (lost \/ (prev_key \in present /\ prev_key \notin present'))
      /\ Relinked
  BY DEF Beside, listing
<1>1. \A r \in Srcs : Bucket[r] \in Nat
  BY ReadersAssumption
<1>2. present \subseteq Srcs /\ NoSrc \notin Srcs
  BY SetsAssumption DEF TypeInv, TypeOK, MapsTypeOK
<1>3. CASE present' \subseteq present
  <2>1. OrderOK' /\ \A q, r \in present' : <<q, r>> \in ahead' <=> <<q, r>> \in ahead
    BY <1>0, <1>3, UnlinkedOrder
  <2>2. StillToCome'
    <3> SUFFICES ASSUME rpc \in {"next", "value"}, NEW r \in stayed \cap present', r \notin listed
                 PROVE  Ahead(r)'
      BY <1>0 DEF StillToCome
    <3>1. Ahead(r)
      BY DEF StillToCome
    <3> QED BY <3>1, <2>1, <1>0, <1>1, <1>2, <1>3 DEF Ahead, OrderOK
  <2>3. NothingTwice'
    BY <2>1, <1>0, <1>3 DEF NothingTwice, Behindhand
  <2> QED BY <2>1, <2>2, <2>3, <1>0, <1>2, <1>3
<1>4. CASE \E s \in Srcs \ present : present' = present \cup {s}
  <2> PICK s \in Srcs \ present : present' = present \cup {s}
    BY <1>4
  <2>1. OrderOK' /\ ahead' = Linked(s)
    BY <1>0, LinkedOrder
  <2>a. stayed' = stayed /\ lost' = lost
    BY <1>0
  <2>2. StillToCome'
    <3> SUFFICES ASSUME rpc \in {"next", "value"}, NEW r \in stayed, r \notin listed
                 PROVE  Ahead(r)'
      BY <1>0, <2>a DEF StillToCome
    <3>1. Ahead(r)
      BY DEF StillToCome
    <3> QED BY <3>1, <2>1, <1>0, <1>1, <1>2 DEF Ahead, OrderOK, Linked
  <2>3. NothingTwice'
    <3>1. CASE prev_key \in present /\ \A r \in listed : Behindhand(r)
      <4> SUFFICES ASSUME NEW r \in listed PROVE Behindhand(r)'
        BY <3>1, <1>0 DEF NothingTwice
      <4>1. Behindhand(r)
        BY <3>1
      <4> QED BY <4>1, <3>1, <2>1, <1>0, <1>1, <1>2 DEF Behindhand, OrderOK, Linked
    <3> QED BY <3>1, <2>a, <1>0 DEF NothingTwice
  <2> QED BY <2>1, <2>2, <2>3, <2>a, <1>0
<1> QED BY <1>3, <1>4, PresentSteps

\* A step of the listing.
LEMMA ListStepInv ==
  ASSUME TypeInv, ListInv, ListStep
  PROVE  ListInv'
<1> USE DEF ListInv
<1>0. present \subseteq Srcs /\ NoSrc \notin Srcs
  BY SetsAssumption DEF TypeInv, TypeOK, MapsTypeOK
<1>1. CASE BeginList
  <2>1. /\ rpc' = "next" /\ prev_key' = NoSrc /\ listed' = {} /\ stayed' = present
        /\ ~lost' /\ ~again' /\ present' = present /\ ahead' = ahead
        /\ lost' \in BOOLEAN /\ again' \in BOOLEAN
    BY <1>1 DEF BeginList, vars, maps
  <2> QED BY <2>1, <1>0 DEF OrderOK, StillToCome, Ahead, NothingTwice
<1>2. CASE GetNextKey
  <2> PICK s \in NextKeys(prev_key) : /\ prev_key' = s
                                      /\ listed'   = listed \cup {s}
                                      /\ again'    = (again \/ s \in listed)
                                      /\ lost'     = (lost \/ (prev_key # NoSrc /\ prev_key \notin present))
    BY <1>2 DEF GetNextKey
  <2>1. /\ rpc = "next" /\ rpc' = "value" /\ present' = present /\ ahead' = ahead /\ stayed' = stayed
        /\ s \in present /\ s \in Behind(prev_key)
        /\ \A r \in Behind(prev_key) : r = s \/ <<s, r>> \in ahead
    BY <1>2 DEF GetNextKey, vars, maps, NextKeys, Behind
  <2>2. OrderOK'
    BY <2>1 DEF OrderOK
  <2>3. StillToCome'
    <3> SUFFICES ASSUME NEW r \in stayed, r \notin listed, r # s PROVE <<s, r>> \in ahead
      BY <2>1 DEF StillToCome, Ahead
    <3>1. r \in Behind(prev_key)
      BY <2>1 DEF StillToCome, Ahead, Behind
    <3> QED BY <3>1, <2>1
  <2>4. NothingTwice' /\ (again' => lost')
    <3>1. CASE lost'
      BY <3>1 DEF NothingTwice
    <3>2. CASE ~lost' /\ prev_key = NoSrc
      <4>1. listed = {}
        BY <3>2, <1>0 DEF NothingTwice
      <4>2. Bucket[s] <= Bucket[s] /\ <<s, s>> \notin ahead
        BY <2>1, <1>0, ReadersAssumption DEF OrderOK
      <4> QED BY <4>1, <4>2, <3>2, <2>1 DEF NothingTwice, Behindhand
    <3>3. CASE ~lost' /\ prev_key # NoSrc
      <4>1. prev_key \in present /\ ~lost /\ \A r \in listed : Behindhand(r)
        BY <3>3 DEF NothingTwice
      <4>2. <<prev_key, s>> \in ahead
        BY <4>1, <2>1 DEF Behind
      <4>3. s \notin listed
        BY <4>1, <4>2, <2>1 DEF Behindhand
      <4>4. ASSUME NEW r \in listed \cup {s}
            PROVE  Bucket[r] <= Bucket[s] /\ (r \in present => <<s, r>> \notin ahead)
        <5>1. CASE r = s
          BY <5>1, <2>1, <1>0, ReadersAssumption DEF OrderOK
        <5>2. CASE r \in listed
          <6>1. Bucket[r] <= Bucket[prev_key] /\ (r \in present => <<prev_key, r>> \notin ahead)
            BY <5>2, <4>1 DEF Behindhand
          <6>2. Bucket[prev_key] <= Bucket[s]
            BY <4>1, <4>2, <2>1 DEF OrderOK
          <6>3. Bucket[r] \in Nat /\ Bucket[s] \in Nat /\ Bucket[prev_key] \in Nat
            BY <5>2, <4>1, <2>1, <1>0, ReadersAssumption
          <6>4. r \in present => <<s, r>> \notin ahead
            BY <6>1, <4>1, <4>2, <2>1 DEF OrderOK
          <6> QED BY <6>1, <6>2, <6>3, <6>4
        <5> QED BY <5>1, <5>2
      <4> QED BY <4>1, <4>3, <4>4, <3>3, <2>1 DEF NothingTwice, Behindhand
    <3> QED BY <3>1, <3>2, <3>3
  <2> QED BY <2>1, <2>2, <2>3, <2>4, <1>0
<1>3. CASE PrintSource
  BY <1>3 DEF PrintSource, vars, maps, seen, OrderOK, StillToCome, Ahead, NothingTwice, Behindhand
<1>4. CASE EndOfKeys
  <2>1. /\ rpc = "next" /\ rpc' = "listed" /\ Behind(prev_key) = {}
        /\ UNCHANGED <<present, ahead, prev_key, listed, stayed, lost, again>>
    BY <1>4 DEF EndOfKeys, vars, maps, seen
  <2>2. stayed \subseteq listed
    <3> SUFFICES ASSUME NEW r \in stayed, r \notin listed PROVE FALSE
      OBVIOUS
    <3> QED BY <2>1 DEF StillToCome, Ahead, Behind
  <2> QED BY <2>1, <2>2 DEF OrderOK, StillToCome, NothingTwice, Behindhand
<1>5. CASE EndList
  BY <1>5, ZenonT(40) DEF EndList, vars, maps, OrderOK, StillToCome, NothingTwice
<1> QED BY <1>1, <1>2, <1>3, <1>4, <1>5 DEF ListStep

\* Every step.
LEMMA NextListInv ==
  ASSUME TypeInv, ListInv, [ReadersNext]_<<vars, readers>>
  PROVE  ListInv'
<1>1. CASE Next /\ Beside
  BY <1>1, BesideListInv
<1>2. CASE ListStep
  BY <1>2, ListStepInv
<1>3. CASE PollStep
  <2>1. /\ UNCHANGED <<present, ahead, prev_key, listed, stayed, lost, again>>
        /\ rpc \in {"idle", "sum"} /\ rpc' \in {"idle", "sum"}
    BY <1>3 DEF PollStep, BeginRound, SumCounter, vars, maps, seen
  <2> QED BY <2>1 DEF ListInv, OrderOK, StillToCome, NothingTwice, Behindhand
<1>4. CASE UNCHANGED <<vars, readers>>
  BY <1>4 DEF vars, maps, readers, listing, seen, ListInv, OrderOK, StillToCome, Ahead, NothingTwice, Behindhand
<1> QED BY <1>1, <1>2, <1>3, <1>4 DEF ReadersNext

\* Without its readers the machine is that of the blacklist.
LEMMA ReadersImplement == ReadersSpec => Spec
<1>1. ReadersInit => Init
  BY DEF ReadersInit
<1>2. [ReadersNext]_<<vars, readers>> => [Next]_vars
  BY DEF ReadersNext, ListStep, PollStep, BeginList, GetNextKey, PrintSource, EndOfKeys, EndList,
     BeginRound, SumCounter
<1> QED BY <1>1, <1>2, PTL DEF ReadersSpec, Spec

\* However command lines change the blacklist between two of the listing's
\* calls: at its end it has printed every source that was there all the while,
\* and it prints one twice only when the element under its cursor was deleted.
THEOREM ListingsFaithful == ReadersSpec => []ListingFaithful
<1>1. ListInv => ListingFaithful
  BY DEF ListInv, ListingFaithful
<1>2. ReadersSpec => []TypeInv
  BY ReadersImplement, TypeInvariant, PTL
<1> QED BY <1>1, <1>2, InitListInv, NextListInv, PTL DEF ReadersSpec
-----------------------------------------------------------------------------
(***************************************************************************)
(* --stats.  While a counter is being summed, what is summed already and   *)
(* the slots still to come, as they are now, make at least the total at    *)
(* the beginning and at most the total of this moment: a slot may have     *)
(* grown after it was copied, and only then.                               *)
(***************************************************************************)
Column(a) == [c \in CPUs |-> verdicts[c][a]]
ToCome    == SumOver(Column(Name(key)), left)

Summing ==
  rpc = "sum" => /\ left # {}
                 /\ before <= sum + ToCome /\ sum + ToCome <= Total(Name(key))
                 /\ record[Name(key)] <= before

PollTypes ==
  /\ key \in 0..3 /\ left \subseteq CPUs /\ sum \in Nat /\ before \in Nat
  /\ record \in [Actions -> Nat] /\ prev \in [Actions -> Nat] /\ low \in [Actions -> Nat]

PollInv == PollTypes /\ Summing /\ StatsBracketed

\* The actions of the counters.
LEMMA Names == \A n \in 0..3 : Name(n) \in Actions
BY DEF Name, ActionNames, Actions

\* A total is a sum over the CPUs.
LEMMA TotalIs == ASSUME NEW a PROVE Total(a) = SumOver(Column(a), CPUs)
BY DEF Total, SumOver, SumFunction, Column

\* The counters of an action are numbers.
LEMMA ColumnTypes ==
  ASSUME TypeInv, NEW a \in Actions, NEW S \in SUBSET CPUs
  PROVE  /\ IsFiniteSet(S)
         /\ \A c \in S : Column(a)[c] = verdicts[c][a] /\ Column(a)[c] \in Nat
         /\ SumOver(Column(a), S) \in Nat /\ Total(a) \in Nat
<1>1. \A c \in CPUs : Column(a)[c] = verdicts[c][a] /\ Column(a)[c] \in Nat
  BY DEF TypeInv, TypeOK, MapsTypeOK, Column
<1>2. IsFiniteSet(S) /\ IsFiniteSet(CPUs)
  BY SetsAssumption, FS_Subset
<1> QED BY <1>1, <1>2, TotalIs, SumNat

\* Before a CPU is summed up.
LEMMA NoneSummed ==
  ASSUME NEW S, IsFiniteSet(S), NEW f, \A x \in S : f[x] \in Nat
  PROVE  /\ SumOver(f, {}) = 0
         /\ \A x \in S : SumOver(f, S) = f[x] + SumOver(f, S \ {x}) /\ SumOver(f, S \ {x}) \in Nat
<1>1. ASSUME NEW x \in S PROVE SumOver(f, S) = f[x] + SumOver(f, S \ {x}) /\ SumOver(f, S \ {x}) \in Nat
  <2>1. IsFiniteSet(S \ {x})
    BY FS_RemoveElement
  <2> QED BY <2>1, SumWithout, SumNat
<1> QED BY <1>1, SumEmpty

\* Before the first poll.
LEMMA InitPollInv == ReadersInit => PollInv
<1> SUFFICES ASSUME ReadersInit PROVE PollInv
  OBVIOUS
<1>1. PollTypes /\ Summing
  BY DEF ReadersInit, PollTypes, Summing, NoCounts
<1>2. ASSUME NEW a \in Actions
      PROVE  low[a] <= record[a] /\ record[a] <= Total(a) /\ prev[a] <= record[a]
  <2>1. Total(a) \in Nat
    BY ColumnTypes, InitTypeInv DEF ReadersInit
  <2> QED BY <2>1 DEF ReadersInit, NoCounts
<1> QED BY <1>1, <1>2 DEF PollInv, StatsBracketed

\* A step that copies nothing lets one slot of verdicts grow, or none.
LEMMA TotalsGrow ==
  ASSUME TypeInv, TypeInv', [Next]_vars, NEW a \in Actions, NEW S \in SUBSET CPUs
  PROVE  /\ SumOver(Column(a), S) <= SumOver(Column(a)', S)
         /\ SumOver(Column(a)', S) - SumOver(Column(a), S) <= Total(a)' - Total(a)
         /\ SumOver(Column(a)', S) \in Nat /\ Total(a)' \in Nat
<1> DEFINE f == Column(a)
           h == [c \in CPUs |-> verdicts'[c][a]]
<1>1. /\ IsFiniteSet(S) /\ IsFiniteSet(CPUs) /\ S \subseteq CPUs
      /\ SumOver(f, S) \in Nat /\ Total(a) \in Nat
      /\ \A c \in CPUs : f[c] = verdicts[c][a] /\ f[c] \in Nat
  BY ColumnTypes
<1>2. h = Column(a)' /\ SumOver(h, S) = SumOver(Column(a)', S) /\ SumOver(h, CPUs) = Total(a)'
  BY DEF Column, Total, SumOver, SumFunction
<1>3. \A c \in CPUs : h[c] = verdicts'[c][a] /\ h[c] \in Nat
  BY DEF TypeInv, TypeOK, MapsTypeOK
<1>4. SumOver(f, CPUs) = Total(a)
  BY TotalIs
<1>5. SumOver(h, S) \in Nat /\ SumOver(h, CPUs) \in Nat
  <2> HIDE DEF f, h
  <2> QED BY <1>1, <1>3, SumNat
<1>6. CASE \E c \in CPUs : CountVerdict(c) /\ action[c] = a
  <2> PICK c \in CPUs : CountVerdict(c) /\ action[c] = a
    BY <1>6
  <2>1. verdicts' = [verdicts EXCEPT ![c][a] = @ + 1]
    BY DEF CountVerdict
  <2>2. h[c] = f[c] + 1 /\ \A d \in CPUs : d # c => h[d] = f[d]
    BY <1>1, <1>3, <2>1 DEF TypeInv, TypeOK, MapsTypeOK
  <2>3. SumOver(h, CPUs) = SumOver(f, CPUs) + 1
    <3>1. \A d \in CPUs : f[d] \in Nat /\ h[d] \in Nat /\ (d # c => h[d] = f[d])
      BY <1>1, <1>3, <2>2
    <3>2. f[c] \in Nat /\ SumOver(f, CPUs) \in Nat
      BY <1>1, <1>4
    <3> HIDE DEF f, h
    <3>3. SumOver(h, CPUs) + f[c] = SumOver(f, CPUs) + h[c]
      BY <1>1, <3>1, SumChanged
    <3> QED BY <1>5, <2>2, <3>2, <3>3
  <2>4. CASE c \in S
    <3>1. \A d \in S : f[d] \in Nat /\ h[d] \in Nat /\ (d # c => h[d] = f[d])
      BY <1>1, <1>3, <2>2
    <3> HIDE DEF f, h
    <3>2. SumOver(h, S) + f[c] = SumOver(f, S) + h[c]
      BY <1>1, <2>4, <3>1, SumChanged
    <3>3. SumOver(h, S) = SumOver(f, S) + 1
      BY <1>1, <1>5, <2>2, <3>2
    <3> QED BY <1>1, <1>2, <1>4, <1>5, <2>3, <3>3 DEF f
  <2>5. CASE c \notin S
    <3>1. \A d \in S : f[d] \in Nat /\ h[d] = f[d]
      BY <1>1, <2>2, <2>5
    <3> HIDE DEF f, h
    <3>2. SumOver(h, S) = SumOver(f, S)
      BY <1>1, <3>1, SumSame
    <3> QED BY <1>1, <1>2, <1>4, <1>5, <2>3, <3>2 DEF f
  <2> QED BY <2>4, <2>5
<1>7. CASE ~\E c \in CPUs : CountVerdict(c) /\ action[c] = a
  <2>1. CASE UNCHANGED verdicts
    <3>1. Column(a)' = Column(a) /\ Total(a)' = Total(a)
      BY <2>1 DEF Column, Total
    <3>2. SumOver(Column(a)', S) = SumOver(Column(a), S)
      BY <3>1 DEF SumOver
    <3> QED BY <1>1, <3>1, <3>2
  <2>2. ASSUME NEW c \in CPUs, CountVerdict(c) PROVE \A d \in CPUs : verdicts'[d][a] = verdicts[d][a]
    <3>1. verdicts' = [verdicts EXCEPT ![c][action[c]] = @ + 1] /\ action[c] # a
      BY <1>7, <2>2 DEF CountVerdict
    <3> QED BY <3>1 DEF TypeInv, TypeOK, MapsTypeOK
  <2>3. CASE \E c \in CPUs : CountVerdict(c)
    <3>1. Column(a)' = Column(a) /\ Total(a)' = Total(a)
      BY <2>2, <2>3 DEF Column, Total
    <3>2. SumOver(Column(a)', S) = SumOver(Column(a), S)
      BY <3>1 DEF SumOver
    <3> QED BY <1>1, <3>1, <3>2
  <2>4. UNCHANGED verdicts \/ \E c \in CPUs : CountVerdict(c)
    <3>1. ASSUME NEW c \in CPUs, SkipFrame(c) \/ Receive(c) \/ RunStep(c)
          PROVE  UNCHANGED verdicts \/ CountVerdict(c)
      BY <3>1 DEF RunStep, SkipFrame, Receive, SourceFound, SourceNotFound, CountHit, LookupPort,
         LoadDrops, StoreDrops, maps
    <3>2. ASSUME NEW t \in Tools, Start(t) \/ ToolStep(t) PROVE UNCHANGED verdicts
      BY <3>2 DEF ToolStep, Start, RefuseSource, AddSource, DeleteSource, CheckPort, ReadPort,
         WritePort, ClearCount, Exit, SourceUnchanged, maps
    <3> QED BY <3>1, <3>2 DEF Next, maps, vars
  <2> QED BY <2>1, <2>3, <2>4
<1> QED BY <1>6, <1>7

\* Steps of others leave the poll as it is.
LEMMA BesidePollInv ==
  ASSUME TypeInv, TypeInv', PollInv, [Next]_vars,
         UNCHANGED <<rpc, key, left, sum, record, prev, before, low>>
  PROVE  PollInv'
<1> USE DEF PollInv
<1>1. PollTypes'
  BY DEF PollTypes
<1>2. Summing'
  <2> SUFFICES ASSUME rpc = "sum" 
               PROVE  /\ left # {} /\ record[Name(key)] <= before
                      /\ before <= sum + ToCome' /\ sum + ToCome' <= Total(Name(key))'
    BY DEF Summing, Name
  <2> DEFINE a == Name(key)
  <2>0. a \in Actions /\ left \in SUBSET CPUs
    BY Names DEF PollTypes
  <2>1. /\ left # {} /\ record[a] <= before
        /\ before <= sum + SumOver(Column(a), left)
        /\ sum + SumOver(Column(a), left) <= Total(a)
    BY DEF Summing, ToCome
  <2>2. ToCome' = SumOver(Column(a)', left) /\ Total(Name(key))' = Total(a)'
    BY DEF ToCome, Name, SumOver, Column, Total
  <2>3. SumOver(Column(a), left) \in Nat /\ Total(a) \in Nat /\ sum \in Nat /\ before \in Nat
    BY <2>0, ColumnTypes DEF PollTypes
  <2>4. /\ SumOver(Column(a), left) <= SumOver(Column(a)', left)
        /\ SumOver(Column(a)', left) - SumOver(Column(a), left) <= Total(a)' - Total(a)
        /\ SumOver(Column(a)', left) \in Nat /\ Total(a)' \in Nat
    BY <2>0, TotalsGrow
  <2> HIDE DEF a
  <2> QED BY <2>1, <2>2, <2>3, <2>4 DEF a
<1>3. StatsBracketed'
  <2> SUFFICES ASSUME NEW a \in Actions
               PROVE  low[a] <= record[a] /\ record[a] <= Total(a)' /\ prev[a] <= record[a]
    BY DEF StatsBracketed
  <2>1. Total(a) \in Nat /\ record[a] \in Nat
    BY ColumnTypes DEF PollTypes
  <2>2. Total(a)' \in Nat /\ Total(a) <= Total(a)'
    <3>1. SumOver(Column(a), CPUs) = Total(a)
      BY TotalIs
    <3>2. SumOver(Column(a)', CPUs) = Total(a)'
      BY DEF Total, SumOver, SumFunction, Column
    <3> QED BY <2>1, <3>1, <3>2, TotalsGrow
  <2> QED BY <2>1, <2>2 DEF StatsBracketed
<1> QED BY <1>1, <1>2, <1>3

\* A step of the sum.
LEMMA SumStepPollInv ==
  ASSUME TypeInv, PollInv, NEW c \in CPUs, SumCounter(c)
  PROVE  PollInv'
<1> USE DEF PollInv
<1> DEFINE a == Name(key)
           v == verdicts[c][a]
           rest == SumOver(Column(a), left \ {c})
<1>0. /\ a \in Actions /\ left \in SUBSET CPUs /\ c \in left /\ left \ {c} \in SUBSET CPUs
      /\ key \in 0..3 /\ sum \in Nat /\ before \in Nat
      /\ rpc = "sum" /\ verdicts' = verdicts /\ prev' = prev
  BY Names DEF PollTypes, SumCounter, vars, maps
<1>1. /\ record[a] <= before
      /\ before <= sum + SumOver(Column(a), left)
      /\ sum + SumOver(Column(a), left) <= Total(a)
  BY <1>0 DEF Summing, ToCome
<1>2. /\ SumOver(Column(a), left) = v + rest /\ rest \in Nat /\ v \in Nat /\ Total(a) \in Nat
      /\ left \ {c} = {} => rest = 0
  <2>1. /\ IsFiniteSet(left) /\ \A d \in left : Column(a)[d] = verdicts[d][a] /\ Column(a)[d] \in Nat
        /\ Total(a) \in Nat
    BY <1>0, ColumnTypes
  <2>2. SumOver(Column(a), left) = Column(a)[c] + rest /\ rest \in Nat
    BY <1>0, <2>1, NoneSummed
  <2> QED BY <1>0, <2>1, <2>2, SumEmpty
<1>3. \A b : Total(b)' = Total(b) /\ Column(b)' = Column(b)
  BY <1>0 DEF Total, Column
<1>4. CASE left # {c}
  <2>1. /\ left' = left \ {c} /\ sum' = sum + v /\ left \ {c} # {}
        /\ UNCHANGED <<key, record, low, before, rpc>>
    BY <1>0, <1>4 DEF SumCounter, SumWith
  <2>2. PollTypes'
    BY <1>0, <1>2, <2>1 DEF PollTypes
  <2>3. ToCome' = rest
    BY <1>0, <2>1 DEF ToCome, SumOver, Column, Name
  <2>4. Summing'
    <3>1. Name(key)' = a /\ Total(Name(key))' = Total(a)
      BY <1>0, <2>1 DEF Name, Total
    <3> HIDE DEF a, v, rest
    <3> QED BY <1>0, <1>1, <1>2, <2>1, <2>3, <3>1 DEF Summing
  <2>5. StatsBracketed'
    BY <1>0, <1>3, <2>1 DEF StatsBracketed
  <2> QED BY <2>2, <2>4, <2>5
<1>5. CASE left = {c}
  <2>1. /\ record' = [record EXCEPT ![a] = sum + v]
        /\ low' = [low EXCEPT ![a] = before] /\ sum' = 0
        /\ IF key < 3
           THEN /\ key' = key + 1 /\ left' = CPUs
                /\ before' = Total(Name(key + 1)) /\ UNCHANGED rpc
           ELSE key' = 0 /\ left' = {} /\ before' = 0 /\ rpc' = "idle"
    BY <1>5 DEF SumCounter, SumWith
  <2>2. before <= sum + v /\ sum + v <= Total(a) /\ record[a] <= sum + v /\ sum + v \in Nat
    <3>1. rest = 0 /\ record[a] \in Nat
      BY <1>0, <1>2, <1>5 DEF PollTypes
    <3> HIDE DEF a, v, rest
    <3> QED BY <1>0, <1>1, <1>2, <3>1
  <2>3. StatsBracketed'
    <3> SUFFICES ASSUME NEW b \in Actions
                 PROVE  low'[b] <= record'[b] /\ record'[b] <= Total(b) /\ prev[b] <= record'[b]
      BY <1>0, <1>3 DEF StatsBracketed
    <3>1. record \in [Actions -> Nat] /\ low \in [Actions -> Nat] /\ prev \in [Actions -> Nat]
      BY DEF PollTypes
    <3>2. low[b] <= record[b] /\ record[b] <= Total(b) /\ prev[b] <= record[b]
      BY DEF StatsBracketed
    <3> HIDE DEF a, v
    <3> QED BY <1>0, <2>1, <2>2, <3>1, <3>2
  <2>4. CASE key < 3
    <3> DEFINE n == key + 1
    <3>1. n \in 0..3 /\ Name(n) \in Actions /\ Name(n) # a
      BY <1>0, <2>4, Names DEF Name, ActionNames
    <3>2. Total(Name(n)) \in Nat
      BY <3>1, ColumnTypes
    <3>3. PollTypes'
      BY <1>0, <2>1, <2>2, <2>4, <3>1, <3>2 DEF PollTypes
    <3>4. ToCome' = Total(Name(n)) /\ Total(Name(key))' = Total(Name(n))
      <4>1. key' = n /\ left' = CPUs
        BY <2>1, <2>4
      <4>2. ToCome' = SumOver(Column(Name(n)), CPUs)
        BY <1>0, <4>1 DEF ToCome, SumOver, Column, Name
      <4>3. Total(Name(key))' = Total(Name(n))
        BY <1>0, <4>1 DEF Total, Name
      <4> QED BY <4>2, <4>3, TotalIs
    <3>5. record'[Name(n)] <= Total(Name(n))
      <4>1. record[Name(n)] <= Total(Name(n)) /\ record'[Name(n)] = record[Name(n)]
        BY <2>1, <3>1 DEF StatsBracketed, PollTypes
      <4> QED BY <4>1
    <3>6. Summing'
      <4>1. before' = Total(Name(n)) /\ sum' = 0 /\ left' # {} /\ Name(key)' = Name(n)
        BY <2>1, <2>4, SetsAssumption DEF Name
      <4> HIDE DEF n
      <4> QED BY <3>2, <3>4, <3>5, <4>1 DEF Summing
    <3> QED BY <2>3, <3>3, <3>6
  <2>5. CASE ~(key < 3)
    <3>1. PollTypes'
      BY <1>0, <2>1, <2>2, <2>5 DEF PollTypes
    <3>2. Summing'
      BY <2>1, <2>5 DEF Summing
    <3> QED BY <2>3, <3>1, <3>2
  <2> QED BY <2>4, <2>5
<1> QED BY <1>4, <1>5

\* A poll begins.
LEMMA BeginPollInv ==
  ASSUME TypeInv, PollInv, BeginRound
  PROVE  PollInv'
<1> USE DEF PollInv
<1>1. /\ rpc' = "sum" /\ prev' = record /\ key' = 0 /\ left' = CPUs /\ sum' = 0
      /\ before' = Total(Name(0)) /\ verdicts' = verdicts /\ record' = record /\ low' = low
  BY DEF BeginRound, vars, maps
<1>2. Name(0) \in Actions /\ Total(Name(0)) \in Nat
  BY Names, ColumnTypes
<1>3. PollTypes'
  BY <1>1, <1>2 DEF PollTypes
<1>4. \A b : Total(b)' = Total(b)
  BY <1>1 DEF Total
<1>5. StatsBracketed'
  <2>1. \A b \in Actions : low[b] <= record[b] /\ record[b] <= Total(b) /\ record[b] <= record[b]
    BY DEF StatsBracketed, PollTypes
  <2> QED BY <1>1, <1>4, <2>1 DEF StatsBracketed
<1>6. Summing'
  <2>1. ToCome' = SumOver(Column(Name(0)), CPUs) /\ Total(Name(key))' = Total(Name(0)) /\ Name(key)' = Name(0)
    BY <1>1 DEF ToCome, SumOver, Column, Name, Total
  <2>2. ToCome' = Total(Name(0))
    BY <2>1, TotalIs
  <2>3. record[Name(0)] <= Total(Name(0))
    BY <1>2 DEF StatsBracketed
  <2> QED BY <1>1, <1>2, <2>1, <2>2, <2>3, SetsAssumption DEF Summing
<1> QED BY <1>3, <1>5, <1>6

\* Every step.
LEMMA NextPollInv ==
  ASSUME TypeInv, TypeInv', PollInv, [ReadersNext]_<<vars, readers>>
  PROVE  PollInv'
<1>1. CASE (Next /\ Beside) \/ UNCHANGED <<vars, readers>>
  <2>1. [Next]_vars /\ UNCHANGED <<rpc, key, left, sum, record, prev, before, low>>
    BY <1>1 DEF Beside, readers, listing, polling, totals
  <2> QED BY <2>1, BesidePollInv
<1>2. CASE BeginList \/ EndList \/ EndOfKeys \/ PrintSource \/ GetNextKey
  <2>1. /\ UNCHANGED <<vars, key, left, sum, record, prev, before, low>>
        /\ rpc' # "sum"
    BY <1>2 DEF BeginList, EndList, EndOfKeys, PrintSource, GetNextKey, polling, totals
  <2>2. \A a : Total(a)' = Total(a)
    BY <2>1 DEF Total, vars, maps
  <2> QED BY <2>1, <2>2 DEF PollInv, PollTypes, Summing, StatsBracketed
<1>3. CASE BeginRound
  BY <1>3, BeginPollInv
<1>4. CASE \E c \in CPUs : SumCounter(c)
  BY <1>4, SumStepPollInv
<1> QED BY <1>1, <1>2, <1>3, <1>4 DEF ReadersNext, ListStep, PollStep

\* Each sum of --stats lies between the totals at the beginning and at the end
\* of its reading, and no counter it reports is lower than the round before,
\* for any number of CPUs that go on counting meanwhile.
THEOREM StatisticsBracketed == ReadersSpec => []StatsBracketed
<1>1. PollInv => StatsBracketed
  BY DEF PollInv
<1>2. ReadersSpec => []TypeInv
  BY ReadersImplement, TypeInvariant, PTL
<1> QED BY <1>1, <1>2, InitPollInv, NextPollInv, PTL DEF ReadersSpec
=============================================================================
