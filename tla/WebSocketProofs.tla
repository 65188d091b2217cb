--------------------------- MODULE WebSocketProofs --------------------------
(***************************************************************************)
(* One WebSocket, for any peer, any payloads, close codes and bounds: what *)
(* it receives while it is open, what it writes once it is closed, whose   *)
(* error is reported and whom the heartbeat drops.                         *)
(***************************************************************************)
EXTENDS WebSocket, FiniteSetTheorems, SequenceTheorems, TLAPS

-----------------------------------------------------------------------------
(* Reassembly takes one frame after the other: a recursive function, so by  *)
(* induction over its argument.                                             *)

\* Induction over the naturals, for a set: the successor maps what S has
\* of 0 .. x into itself one to one, so onto, but 0 is no successor.
LEMMA SetInduction ==
    ASSUME NEW S, 0 \in S, \A n \in Nat : n \in S => n + 1 \in S
    PROVE  \A n \in Nat : n \in S
<1>. SUFFICES ASSUME NEW x \in Nat, x \notin S PROVE FALSE
  OBVIOUS
<1>. DEFINE A == {n \in 0 .. x : n \in S}
            f == [n \in A |-> n + 1]
<1>1. A \subseteq 0 .. x /\ 0 \in A /\ \A n \in A : n \in Nat /\ n # x /\ n + 1 \in A
  OBVIOUS
<1>. HIDE DEF A
<1>2. IsFiniteSet(A)
  <2>1. IsFiniteSet(0 .. x)
    BY FS_Interval
  <2>2. A \in SUBSET (0 .. x)
    BY <1>1
  <2>. QED BY <2>1, <2>2, FS_Subset
<1>3. f \in [A -> A] /\ \A m, n \in A : f[m] = f[n] => m = n
  <2>1. \A n \in A : f[n] = n + 1
    OBVIOUS
  <2>. QED BY <1>1, <2>1
<1>4. f \in Injection(A, A)
  BY <1>3, Zenon DEF Injection, IsInjective
<1>. HIDE DEF f
<1>5. f \in Surjection(A, A)
  BY <1>2, <1>4, FS_Injection
<1>6. PICK n \in A : f[n] = 0
  BY <1>1, <1>5 DEF Surjection
<1>7. f[n] = n + 1
  BY DEF f
<1>. QED BY <1>1, <1>6, <1>7

\* The function of the steps of Reassembly.
Steps(frames, g) ==
    g = [i \in 0 .. Len(frames) |-> IF i = 0 THEN NothingYet ELSE AndThen(g[i - 1], frames[i])]

\* The function Reassembly is read off exists.
LEMMA StepsExist ==
    ASSUME NEW S, NEW frames \in Seq(S) PROVE \E g : Steps(frames, g)
<1>. DEFINE P(k, g) == g = [i \in 0 .. k |-> IF i = 0 THEN NothingYet ELSE AndThen(g[i - 1], frames[i])]
            K == {k \in Nat : \E g : P(k, g)}
<1>1. 0 \in K
  <2>1. P(0, [i \in 0 .. 0 |-> NothingYet])
    OBVIOUS
  <2>. QED BY <2>1
<1>2. ASSUME NEW k \in Nat, k \in K PROVE k + 1 \in K
  <2>1. PICK g : P(k, g)
    BY <1>2
  <2>. DEFINE h == [i \in 0 .. k + 1 |-> IF i = k + 1 THEN AndThen(g[k], frames[k + 1]) ELSE g[i]]
  <2>2. \A i \in 0 .. k + 1 : h[i] = IF i = 0 THEN NothingYet ELSE AndThen(h[i - 1], frames[i])
    <3>1. \A i \in 0 .. k : h[i] = g[i]
      OBVIOUS
    <3>2. h[k + 1] = AndThen(h[k], frames[k + 1])
      BY <3>1
    <3>3. \A i \in 1 .. k : g[i] = AndThen(g[i - 1], frames[i])
      BY <2>1
    <3>4. g[0] = NothingYet
      BY <2>1
    <3>. HIDE DEF h
    <3>5. \A i \in 1 .. k : h[i] = AndThen(h[i - 1], frames[i])
      <4>. TAKE i \in 1 .. k
      <4>1. i - 1 \in 0 .. k /\ i \in 0 .. k
        OBVIOUS
      <4>. QED BY <3>1, <3>3, <4>1
    <3>. QED BY <3>1, <3>2, <3>4, <3>5
  <2>3. P(k + 1, h)
    <3>. HIDE DEF P
    <3>1. h = [i \in 0 .. k + 1 |-> h[i]]
      OBVIOUS
    <3>. HIDE DEF h
    <3>. QED BY <2>2, <3>1 DEF P
  <2>. HIDE DEF P, h
  <2>. QED BY <2>3
<1>3. Len(frames) \in K
  <2>. HIDE DEF K
  <2>. QED BY <1>1, <1>2, SetInduction
<1>. QED BY <1>3 DEF Steps

\* ... and Reassembly is its last value.
LEMMA ReassemblyIs ==
    ASSUME NEW S, NEW frames \in Seq(S)
    PROVE  \E g : Steps(frames, g) /\ Reassembly(frames) = g[Len(frames)]
<1>. DEFINE c == CHOOSE g : Steps(frames, g)
<1>1. Steps(frames, c)
  BY StepsExist
<1>2. Reassembly(frames) = c[Len(frames)]
  BY DEF Reassembly, Steps
<1>. QED BY <1>1, <1>2

\* One frame more does not change what the earlier ones came to.
LEMMA StepsAgree ==
    ASSUME NEW S, NEW s \in Seq(S), NEW f \in S, NEW g, NEW h,
           Steps(s, g), Steps(Append(s, f), h)
    PROVE  \A i \in 0 .. Len(s) : g[i] = h[i]
<1>. DEFINE K == {k \in Nat : k <= Len(s) => g[k] = h[k]}
<1>0. Append(s, f) \in Seq(S) /\ Len(s) \in Nat /\ Len(Append(s, f)) = Len(s) + 1
      /\ \A i \in 1 .. Len(s) : Append(s, f)[i] = s[i]
  OBVIOUS
<1>1. 0 \in K
  BY <1>0 DEF Steps
<1>2. ASSUME NEW k \in Nat, k \in K PROVE k + 1 \in K
  <2>. SUFFICES ASSUME k + 1 <= Len(s) PROVE g[k + 1] = h[k + 1]
    OBVIOUS
  <2>1. g[k] = h[k]
    BY <1>0, <1>2
  <2>2. g[k + 1] = AndThen(g[k], s[k + 1])
    BY <1>0 DEF Steps
  <2>3. h[k + 1] = AndThen(h[k], Append(s, f)[k + 1])
    BY <1>0 DEF Steps
  <2>. QED BY <1>0, <2>1, <2>2, <2>3
<1>3. \A k \in Nat : k \in K
  <2>. HIDE DEF K
  <2>. QED BY <1>1, <1>2, SetInduction
<1>. QED BY <1>0, <1>3

\* Reassembly takes one frame after the other.
LEMMA ReassemblySteps ==
    ASSUME NEW S, NEW s \in Seq(S)
    PROVE  /\ Reassembly(<<>>) = NothingYet
           /\ \A f \in S : Reassembly(Append(s, f)) = AndThen(Reassembly(s), f)
<1>1. Reassembly(<<>>) = NothingYet
  <2>0. <<>> \in Seq(S) /\ Len(<<>>) = 0
    OBVIOUS
  <2>1. PICK g : Steps(<<>>, g) /\ Reassembly(<<>>) = g[Len(<<>>)]
    BY <2>0, ReassemblyIs
  <2>. QED BY <2>0, <2>1 DEF Steps
<1>2. ASSUME NEW f \in S PROVE Reassembly(Append(s, f)) = AndThen(Reassembly(s), f)
  <2>0. Append(s, f) \in Seq(S) /\ Len(s) \in Nat /\ Len(Append(s, f)) = Len(s) + 1
        /\ Append(s, f)[Len(s) + 1] = f
    OBVIOUS
  <2>1. PICK g : Steps(s, g) /\ Reassembly(s) = g[Len(s)]
    BY ReassemblyIs
  <2>2. PICK h : Steps(Append(s, f), h) /\ Reassembly(Append(s, f)) = h[Len(Append(s, f))]
    BY <2>0, ReassemblyIs
  <2>3. g[Len(s)] = h[Len(s)]
    BY <2>0, <2>1, <2>2, StepsAgree
  <2>4. h[Len(s) + 1] = AndThen(h[Len(s)], f)
    BY <2>0, <2>2 DEF Steps
  <2>. QED BY <2>0, <2>1, <2>2, <2>3, <2>4
<1>. QED BY <1>1, <1>2

-----------------------------------------------------------------------------
(* Types.                                                                   *)

\* What goes in, what goes out, where a task stands.
Frames == [op : {"text", "bin", "cont"}, fin : BOOLEAN, bytes : Seq(0 .. 255)]
Sent == [op : {"data", "pong", "close"}, legal : BOOLEAN]
Places == {"idle", "start", "run", "recv", "drain", "flush", "closing", "ending", "done"}
Beats == [armed : BOOLEAN, token : BOOLEAN, saw : BOOLEAN]
Codes == {0, 1002, 1005, 1006, 1007, 1009, 3000}

\* The flags of the socket and its heartbeat.
FlagsType ==
    /\ accepted \in BOOLEAN /\ closed \in BOOLEAN /\ peerClosed \in BOOLEAN /\ closeSent \in BOOLEAN
    /\ peerEvent \in {"none", "armed", "set"} /\ closeCode \in Codes
    /\ hb \in Beats /\ probed \in BOOLEAN /\ replied \in BOOLEAN

\* The outward path.
OutType ==
    /\ canWrite \in BOOLEAN /\ pendingPong \in BOOLEAN
    /\ transport \in {"open", "closing", "lost"} /\ tail \in Seq(Sent)

\* The inward path: what is queued fits, what is being put together has a type.
InType ==
    /\ log \in Seq(Frames) /\ delivered \in Seq(Messages)
    /\ queue \in Seq(Messages \cup {Disconnect}) /\ Len(queue) <= QueueMax
    /\ frag = NoFrag \/ (frag.op \in {"text", "bin"} /\ frag.bytes \in Seq(0 .. 255))
    /\ Len(frag.bytes) <= MaxMessage

\* The tasks.
TaskType ==
    /\ pc \in [Tasks -> Places]
    /\ cancelled \in BOOLEAN /\ handlerExc \in BOOLEAN /\ raised \in BOOLEAN /\ logged \in BOOLEAN

TypeInv == host \in Hosts /\ FlagsType /\ OutType /\ InType /\ TaskType

\* The empty sequence has any elements.
LEMMA NoElements == \A S : <<>> \in Seq(S)
OBVIOUS

\* The types are those the runs check.
LEMMA TypesOK == TypeInv => TypeOK
<1>. SUFFICES ASSUME TypeInv PROVE TypeOK
  OBVIOUS
<1>. USE DEF TypeInv
<1>1. {accepted, closed, peerClosed, closeSent, canWrite, pendingPong, cancelled, handlerExc, raised, logged,
       replied, probed} \subseteq BOOLEAN
  BY DEF FlagsType, OutType, TaskType
<1>2. \A i \in 1 .. Len(queue) : queue[i] \in Messages \cup {Disconnect}
  BY DEF InType
<1>3. frag.op \in {"none", "text", "bin"} /\ Len(frag.bytes) <= MaxMessage /\ Len(queue) <= QueueMax
  BY DEF InType, NoFrag
<1>4. hb \in [armed : BOOLEAN, token : BOOLEAN, saw : BOOLEAN]
  BY DEF FlagsType, Beats
<1>. QED BY <1>1, <1>2, <1>3, <1>4 DEF TypeOK, FlagsType, OutType, TaskType, Codes, Places

\* They hold at first.
LEMMA InitTypes == Init => TypeInv
<1>. SUFFICES ASSUME Init PROVE TypeInv
  OBVIOUS
<1>1. FlagsType
  BY DEF Init, FlagsType, Unarmed, Beats, Codes
<1>2. OutType
  BY NoElements, Zenon DEF Init, OutType
<1>3. InType
  <2>1. Len(<<>>) = 0 /\ NoFrag.bytes = <<>>
    BY DEF NoFrag
  <2>2. <<>> \in Seq(Frames) /\ <<>> \in Seq(Messages) /\ <<>> \in Seq(Messages \cup {Disconnect})
    BY NoElements, Zenon
  <2>3. QueueMax >= 0 /\ MaxMessage >= 0
    BY BoundsAssumption
  <2>4. log = <<>> /\ delivered = <<>> /\ queue = <<>> /\ frag = NoFrag
    BY DEF Init
  <2>5. log \in Seq(Frames) /\ delivered \in Seq(Messages) /\ queue \in Seq(Messages \cup {Disconnect})
    BY <2>2, <2>4, Zenon
  <2>6. Len(queue) <= QueueMax /\ Len(frag.bytes) <= MaxMessage
    BY <2>1, <2>3, <2>4
  <2>7. frag = NoFrag \/ (frag.op \in {"text", "bin"} /\ frag.bytes \in Seq(0 .. 255))
    BY <2>4
  <2>. QED BY <2>5, <2>6, <2>7 DEF InType
<1>4. TaskType
  BY DEF Init, TaskType, Tasks, Places
<1>. QED BY <1>1, <1>2, <1>3, <1>4 DEF TypeInv, Init

\* A frame written keeps the type of what was written.
LEMMA SendTypes ==
    ASSUME tail \in Seq(Sent), NEW f \in Sent, send_frame(f) PROVE tail' \in Seq(Sent)
<1>1. Append(tail, f) \in Seq(Sent)
  OBVIOUS
<1>. QED BY <1>1 DEF send_frame, Written

\* What this side sends are frames.
LEMMA FramesSent == Data \in Sent /\ Pong \in Sent /\ \A c : Close(c) \in Sent
BY DEF Data, Pong, Close, Sent

\* The sentinel keeps the type and the bound of the queue.
LEMMA WokenTypes ==
    ASSUME InType PROVE Woken(queue) \in Seq(Messages \cup {Disconnect}) /\ Len(Woken(queue)) <= QueueMax
<1>1. /\ Append(queue, Disconnect) \in Seq(Messages \cup {Disconnect})
      /\ Len(Append(queue, Disconnect)) = Len(queue) + 1 /\ Len(queue) \in Nat
  BY DEF InType
<1>. QED BY <1>1, BoundsAssumption DEF InType, Woken

\* What the parser's teardown leaves.
LEMMA TerminateTypes ==
    ASSUME TypeInv, NEW code, NEW recorded \in Codes, terminate_raw(code, recorded)
    PROVE  /\ tail' \in Seq(Sent) /\ hb' \in Beats /\ closeCode' \in Codes
           /\ closed' = TRUE /\ closeSent' = TRUE /\ transport' = "closing"
           /\ queue' \in Seq(Messages \cup {Disconnect}) /\ Len(queue') <= QueueMax
<1>1. tail' \in Seq(Sent)
  BY SendTypes, FramesSent DEF terminate_raw, TypeInv, OutType
<1>. QED BY <1>1, WokenTypes DEF terminate_raw, TypeInv, Unarmed, Beats

\* Inbound bytes keep the heartbeat's type.
LEMMA Beating == ASSUME hb \in Beats PROVE Inbound \in Beats
BY DEF Beats, Inbound

\* A task moves from place to place.
LEMMA Gone == ASSUME pc \in [Tasks -> Places], NEW t \in Tasks, NEW to \in Places, goto(t, to)
              PROVE pc' \in [Tasks -> Places]
BY DEF goto

\* A continuation follows a part, and nothing else does.
Fits(f) == (f.op = "cont") # (frag = NoFrag)

\* What a data frame adds to the message being put together.
LEMMA Taken ==
    ASSUME TypeInv, NEW f \in DataFrames
    PROVE  /\ f \in Frames
           /\ Extended(f).bytes = frag.bytes \o f.bytes \/ Extended(f).bytes = f.bytes
           /\ Extended(f).bytes \in Seq(0 .. 255)
           /\ Fits(f) => Extended(f).op \in {"text", "bin"}
<1>1. f \in Frames
  BY BoundsAssumption DEF DataFrames, Frames, TypeInv
<1>2. f.op \in {"text", "bin", "cont"} /\ f.bytes \in Seq(0 .. 255)
  BY <1>1 DEF Frames
<1>3. frag.bytes \in Seq(0 .. 255)
  <2>1. NoFrag.bytes \in Seq(0 .. 255)
    BY NoElements DEF NoFrag
  <2>. QED BY <2>1 DEF TypeInv, InType
<1>4. CASE f.op = "cont"
  <2>1. Extended(f).op = frag.op /\ Extended(f).bytes = frag.bytes \o f.bytes
    BY <1>4 DEF Extended
  <2>. QED BY <1>1, <1>2, <1>3, <1>4, <2>1 DEF TypeInv, InType, Fits
<1>5. CASE f.op # "cont"
  <2>1. Extended(f).op = f.op /\ Extended(f).bytes = f.bytes
    BY <1>5 DEF Extended
  <2>. QED BY <1>1, <1>2, <1>3, <1>5, <2>1
<1>. QED BY <1>4, <1>5

\* What the parser may say of a data frame, and on what grounds.
LEMMA Verdicts ==
    ASSUME TypeInv, NEW f \in DataFrames
    PROVE  /\ Verdict(f) \in {0, 1, 1002, 1007, 1009}
           /\ Verdict(f) \in {0, 1} => Fits(f)
           /\ Verdict(f) = 1 => ~f.fin /\ Len(Extended(f).bytes) <= MaxMessage
           /\ Verdict(f) = 0 => f.fin
<1>1. f.fin \in BOOLEAN /\ Len(Extended(f).bytes) \in Nat /\ MaxMessage \in Nat
  <2>1. f \in Frames /\ Extended(f).bytes \in Seq(0 .. 255)
    BY Taken
  <2>. QED BY <2>1, BoundsAssumption DEF Frames
<1>2. Verdict(f) \in {0, 1, 1002, 1007, 1009}
  BY DEF Verdict
<1>3. ~Fits(f) => Verdict(f) = 1002
  BY DEF Verdict, Fits
<1>4. Len(Extended(f).bytes) > MaxMessage /\ ~f.fin => Verdict(f) # 1
  BY DEF Verdict
<1>5. f.fin => Verdict(f) # 1
  BY DEF Verdict
<1>6. ~f.fin => Verdict(f) # 0
  BY DEF Verdict
<1>. QED BY <1>1, <1>2, <1>3, <1>4, <1>5, <1>6

\* What a step leaves alone keeps its type.
LEMMA Kept ==
    ASSUME TypeInv
    PROVE  /\ UNCHANGED host => host' \in Hosts
           /\ UNCHANGED <<stateVars, hb, probed, replied>> => FlagsType'
           /\ UNCHANGED outVars => OutType'
           /\ UNCHANGED inVars => InType'
           /\ UNCHANGED taskVars => TaskType'
<1>. USE DEF TypeInv
<1>1. UNCHANGED host => host' \in Hosts
  OBVIOUS
<1>2. UNCHANGED <<stateVars, hb, probed, replied>> => FlagsType'
  BY DEF stateVars, FlagsType
<1>3. UNCHANGED outVars => OutType'
  BY DEF outVars, OutType
<1>4. UNCHANGED inVars => InType'
  BY DEF inVars, InType
<1>5. UNCHANGED taskVars => TaskType'
  BY DEF taskVars, TaskType
<1>. QED BY <1>1, <1>2, <1>3, <1>4, <1>5

\* A step that changes the queue alone keeps the inward types.
LEMMA QueueTypes ==
    ASSUME TypeInv, UNCHANGED <<frag, log, delivered>>,
           queue' \in Seq(Messages \cup {Disconnect}), Len(queue') <= QueueMax
    PROVE  InType'
<1>1. /\ log' \in Seq(Frames) /\ delivered' \in Seq(Messages) /\ Len(frag'.bytes) <= MaxMessage
      /\ frag' = NoFrag \/ (frag'.op \in {"text", "bin"} /\ frag'.bytes \in Seq(0 .. 255))
  BY DEF TypeInv, InType
<1>. QED BY <1>1, Zenon DEF InType

\* The parser's teardown keeps the types.
LEMMA Terminated ==
    ASSUME TypeInv, NEW code, NEW recorded \in Codes, terminate_raw(code, recorded),
           UNCHANGED <<host, accepted, canWrite, taskVars, replied, frag, log, delivered, pendingPong>>,
           probed' = FALSE, peerClosed' \in BOOLEAN, peerEvent' \in {"none", "armed", "set"}
    PROVE  TypeInv'
<1>1. /\ tail' \in Seq(Sent) /\ hb' \in Beats /\ closeCode' \in Codes
      /\ closed' = TRUE /\ closeSent' = TRUE /\ transport' = "closing"
      /\ queue' \in Seq(Messages \cup {Disconnect}) /\ Len(queue') <= QueueMax
  BY TerminateTypes
<1>2. FlagsType'
  BY <1>1 DEF TypeInv, FlagsType
<1>3. OutType'
  BY <1>1 DEF TypeInv, OutType
<1>4. InType'
  BY <1>1, QueueTypes
<1>. QED BY <1>2, <1>3, <1>4, Kept DEF TypeInv

\* A data frame keeps the types, whatever comes of it.
LEMMA DataTypes ==
    ASSUME TypeInv, NEW f \in DataFrames, FrameData(f) PROVE TypeInv'
<1>0. UNCHANGED <<peerClosed, delivered, pendingPong, host, accepted, peerEvent, canWrite, taskVars, replied>>
      /\ probed' = FALSE
  BY DEF FrameData, parserFrame
<1>1. FlagsType /\ OutType /\ InType /\ hb \in Beats
  BY DEF TypeInv, FlagsType
<1>2. /\ f \in Frames /\ Extended(f).bytes \in Seq(0 .. 255)
      /\ Verdict(f) \in {0, 1} => Extended(f).op \in {"text", "bin"}
      /\ Verdict(f) \in {0, 1, 1002, 1007, 1009}
      /\ Verdict(f) = 1 => Len(Extended(f).bytes) <= MaxMessage
  <2>1. f \in Frames /\ Extended(f).bytes \in Seq(0 .. 255) /\ (Fits(f) => Extended(f).op \in {"text", "bin"})
    BY Taken
  <2>2. /\ Verdict(f) \in {0, 1, 1002, 1007, 1009} /\ (Verdict(f) \in {0, 1} => Fits(f))
        /\ Verdict(f) = 1 => Len(Extended(f).bytes) <= MaxMessage
    BY Verdicts
  <2>. QED BY <2>1, <2>2
<1>3. /\ log' \in Seq(Frames) /\ delivered' \in Seq(Messages) /\ log \in Seq(Frames)
      /\ queue \in Seq(Messages \cup {Disconnect}) /\ Len(queue) <= QueueMax /\ Len(queue) \in Nat
      /\ frag = NoFrag \/ (frag.op \in {"text", "bin"} /\ frag.bytes \in Seq(0 .. 255))
      /\ Len(frag.bytes) <= MaxMessage
  <2>1. log \in Seq(Frames) => Append(log, f) \in Seq(Frames)
    BY <1>2
  <2>2. log' = Append(log, f) \/ log' = log
    BY DEF FrameData
  <2>3. log \in Seq(Frames) /\ delivered \in Seq(Messages)
    BY <1>1 DEF InType
  <2>4. log' \in Seq(Frames) /\ delivered' \in Seq(Messages)
    BY <1>0, <2>1, <2>2, <2>3
  <2>5. /\ queue \in Seq(Messages \cup {Disconnect}) /\ Len(queue) <= QueueMax
        /\ frag = NoFrag \/ (frag.op \in {"text", "bin"} /\ frag.bytes \in Seq(0 .. 255))
        /\ Len(frag.bytes) <= MaxMessage
    BY <1>1 DEF InType
  <2>6. Len(queue) \in Nat
    BY <2>5
  <2>. QED BY <2>3, <2>4, <2>5, <2>6, Zenon
<1>4. ASSUME queue' \in Seq(Messages \cup {Disconnect}), Len(queue') <= QueueMax,
             frag' = NoFrag \/ (frag'.op \in {"text", "bin"} /\ frag'.bytes \in Seq(0 .. 255)),
             Len(frag'.bytes) <= MaxMessage
      PROVE  InType'
  BY <1>3, <1>4, Zenon DEF InType
<1>5. Len(NoFrag.bytes) <= MaxMessage
  BY BoundsAssumption DEF NoFrag
<1>6. ASSUME hb' = Inbound, UNCHANGED <<closed, closeSent, closeCode, tail, transport>>, InType'
      PROVE  TypeInv'
  <2>1. FlagsType'
    BY <1>0, <1>1, <1>6, Beating DEF FlagsType
  <2>2. OutType'
    BY <1>0, <1>1, <1>6 DEF OutType
  <2>. QED BY <1>0, <1>6, <2>1, <2>2, Kept DEF TypeInv
<1>7. ASSUME NEW code \in Codes, terminate_raw(code, code), frag' = NoFrag \/ frag' = frag
      PROVE  TypeInv'
  <2>1. /\ tail' \in Seq(Sent) /\ hb' \in Beats /\ closeCode' \in Codes
        /\ closed' = TRUE /\ closeSent' = TRUE /\ transport' = "closing"
        /\ queue' \in Seq(Messages \cup {Disconnect}) /\ Len(queue') <= QueueMax
    BY <1>7, TerminateTypes
  <2>2. FlagsType'
    <3>0. UNCHANGED <<accepted, peerClosed, peerEvent, replied>> /\ probed' = FALSE
      BY <1>0
    <3>1. /\ accepted' \in BOOLEAN /\ peerClosed' \in BOOLEAN /\ peerEvent' \in {"none", "armed", "set"}
          /\ replied' \in BOOLEAN /\ probed' \in BOOLEAN
      BY <1>1, <3>0 DEF FlagsType
    <3>. QED BY <2>1, <3>1 DEF FlagsType
  <2>3. OutType'
    BY <1>0, <1>1, <2>1 DEF OutType
  <2>4. InType'
    BY <1>3, <1>4, <1>5, <1>7, <2>1
  <2>. QED BY <1>0, <2>2, <2>3, <2>4, Kept DEF TypeInv
<1>8. CASE Verdict(f) = 0
  <2>1. /\ enqueue_or_close([op |-> Extended(f).op, bytes |-> Extended(f).bytes]) /\ frag' = NoFrag
    BY <1>8 DEF FrameData
  <2>2. [op |-> Extended(f).op, bytes |-> Extended(f).bytes] \in Messages
    BY <1>2, <1>8 DEF Messages
  <2>3. CASE Len(queue) < QueueMax
    <3>1. PICK m \in Messages : queue' = Append(queue, m) /\ hb' = Inbound
                                /\ UNCHANGED <<closed, closeSent, closeCode, tail, transport>>
      BY <2>1, <2>2, <2>3 DEF enqueue_or_close
    <3>2. queue' \in Seq(Messages \cup {Disconnect}) /\ Len(queue') <= QueueMax
      BY <1>3, <2>3, <3>1, BoundsAssumption
    <3>3. InType'
      BY <1>4, <1>5, <2>1, <3>2
    <3>. QED BY <1>6, <3>1, <3>3
  <2>4. CASE ~(Len(queue) < QueueMax)
    <3>1. 1009 \in Codes /\ terminate_raw(1009, 1009)
      BY <2>1, <2>4 DEF enqueue_or_close, Codes
    <3>. QED BY <1>7, <2>1, <3>1
  <2>. QED BY <2>3, <2>4
<1>9. CASE Verdict(f) = 1
  <2>1. frag' = Extended(f) /\ hb' = Inbound /\ UNCHANGED <<queue, closed, closeSent, closeCode, tail, transport>>
    BY <1>9 DEF FrameData
  <2>2. frag'.op \in {"text", "bin"} /\ frag'.bytes \in Seq(0 .. 255) /\ Len(frag'.bytes) <= MaxMessage
    BY <1>2, <1>9, <2>1
  <2>3. InType'
    BY <1>3, <1>4, <2>1, <2>2
  <2>. QED BY <1>6, <2>1, <2>3
<1>10. CASE Verdict(f) \notin {0, 1}
  <2>1. terminate_raw(Verdict(f), Verdict(f)) /\ UNCHANGED frag
    BY <1>10 DEF FrameData
  <2>2. Verdict(f) \in Codes
    BY <1>2, <1>10 DEF Codes
  <2>. QED BY <1>7, <2>1, <2>2
<1>. QED BY <1>8, <1>9, <1>10

\* So does every frame,
LEMMA ParserTypes ==
    ASSUME TypeInv,
           \/ FrameWithoutEffect \/ FrameRefused \/ FramePing \/ FramePong \/ FrameClose \/ FrameUnparsed
           \/ \E f \in DataFrames : FrameData(f)
    PROVE  TypeInv'
<1>0. FlagsType /\ OutType /\ InType /\ hb \in Beats
  BY DEF TypeInv, FlagsType
<1>1. CASE FrameWithoutEffect
  <2>1. UNCHANGED <<host, stateVars, inVars, outVars, taskVars, replied>> /\ hb' = Inbound /\ probed' = FALSE
    BY <1>1 DEF FrameWithoutEffect
  <2>2. FlagsType'
    BY <1>0, <2>1, Beating DEF FlagsType, stateVars
  <2>. QED BY <2>1, <2>2, Kept DEF TypeInv
<1>2. CASE FrameRefused
  <2>1. PICK code \in Codes : terminate_raw(code, code)
    BY <1>2 DEF FrameRefused, Codes
  <2>3. UNCHANGED <<host, accepted, canWrite, taskVars, replied, frag, log, delivered, pendingPong>>
        /\ probed' = FALSE /\ UNCHANGED <<peerClosed, peerEvent>>
    BY <1>2 DEF FrameRefused, parserFrame
  <2>4. peerClosed' \in BOOLEAN /\ peerEvent' \in {"none", "armed", "set"}
    BY <1>0, <2>3 DEF FlagsType
  <2>. QED BY <2>1, <2>3, <2>4, Terminated
<1>3. CASE FramePing
  <2>1. UNCHANGED <<stateVars, inVars, transport, canWrite, host, taskVars, replied>> /\ hb' = Inbound /\ probed' = FALSE
    BY <1>3 DEF FramePing
  <2>2. tail' \in Seq(Sent) /\ pendingPong' \in BOOLEAN
    <3>1. tail \in Seq(Sent) /\ pendingPong \in BOOLEAN
      BY <1>0 DEF OutType
    <3>2. send_frame(Pong) => tail' \in Seq(Sent)
      BY <3>1, SendTypes, FramesSent
    <3>. QED BY <1>3, <3>1, <3>2 DEF FramePing
  <2>3. OutType'
    BY <1>0, <2>1, <2>2 DEF OutType
  <2>4. FlagsType'
    BY <1>0, <2>1, Beating DEF FlagsType, stateVars
  <2>. QED BY <2>1, <2>3, <2>4, Kept DEF TypeInv
<1>4. CASE FramePong
  <2>1. UNCHANGED <<host, stateVars, inVars, outVars, taskVars, replied>> /\ probed' = FALSE
    BY <1>4 DEF FramePong
  <2>2. hb' \in Beats
    <3>1. PICK match \in BOOLEAN : hb' = [Inbound EXCEPT !.token = @ /\ ~match]
      BY <1>4 DEF FramePong
    <3>2. PICK b \in BOOLEAN : b = (Inbound.token /\ ~match)
      OBVIOUS
    <3>3. Inbound \in Beats
      BY <1>0, Beating
    <3>4. hb' = [Inbound EXCEPT !.token = b]
      BY <3>1, <3>2
    <3>. QED BY <3>3, <3>4 DEF Beats
  <2>3. FlagsType'
    BY <1>0, <2>1, <2>2 DEF FlagsType, stateVars
  <2>. QED BY <2>1, <2>3, Kept DEF TypeInv
<1>5. CASE FrameClose
  <2>1. PICK body \in {"empty", "code", "short", "reserved", "reason"} :
            terminate_raw(close_reply(body)[1], close_reply(body)[2])
    BY <1>5 DEF FrameClose
  <2>2. close_reply(body)[2] \in Codes
    BY DEF close_reply, Codes
  <2>3. UNCHANGED <<host, accepted, canWrite, taskVars, replied, frag, log, delivered, pendingPong>>
        /\ probed' = FALSE /\ peerClosed' = TRUE /\ peerEvent' = (IF peerEvent = "armed" THEN "set" ELSE peerEvent)
    BY <1>5 DEF FrameClose
  <2>4. peerClosed' \in BOOLEAN /\ peerEvent' \in {"none", "armed", "set"}
    BY <1>0, <2>3 DEF FlagsType
  <2>. QED BY <2>1, <2>2, <2>3, <2>4, Terminated
<1>6. CASE FrameUnparsed
  <2>1. UNCHANGED <<host, stateVars, inVars, outVars, hbVars, taskVars>> /\ replied' = TRUE
    BY <1>6 DEF FrameUnparsed
  <2>2. FlagsType'
    BY <1>0, <2>1 DEF FlagsType, stateVars, hbVars
  <2>. QED BY <2>1, <2>2, Kept DEF TypeInv
<1>. QED BY <1>1, <1>2, <1>3, <1>4, <1>5, <1>6, DataTypes

\* the protocol and the heartbeat,
LEMMA ProtocolTypes ==
    ASSUME TypeInv,
           \/ pause_writing \/ resume_writing \/ connection_lost
           \/ HeartbeatAlive \/ HeartbeatProbe \/ close_heartbeat_timeout
    PROVE  TypeInv'
<1>0. FlagsType /\ OutType /\ InType /\ TaskType /\ hb \in Beats
  BY DEF TypeInv, FlagsType
<1>1. CASE pause_writing
  <2>1. UNCHANGED <<host, stateVars, inVars, pendingPong, transport, tail, hbVars, taskVars, replied>>
        /\ canWrite' = FALSE
    BY <1>1 DEF pause_writing
  <2>2. OutType'
    BY <1>0, <2>1 DEF OutType
  <2>. QED BY <2>1, <2>2, Kept DEF TypeInv, hbVars
<1>2. CASE resume_writing
  <2>0. UNCHANGED <<host, stateVars, inVars, transport, hbVars, cancelled, handlerExc, raised, logged, replied>>
        /\ canWrite' = TRUE /\ pendingPong' = FALSE
    BY <1>2 DEF resume_writing
  <2>1. tail' \in Seq(Sent)
    <3>1. tail \in Seq(Sent)
      BY <1>0 DEF OutType
    <3>. QED BY <1>2, <3>1, SendTypes, FramesSent DEF resume_writing
  <2>2. pc' \in [Tasks -> Places]
    <3>1. pc' = [t \in Tasks |-> IF pc[t] = "drain" THEN "flush" ELSE pc[t]]
      BY <1>2 DEF resume_writing
    <3>2. ASSUME NEW t \in Tasks PROVE (IF pc[t] = "drain" THEN "flush" ELSE pc[t]) \in Places
      BY <1>0 DEF TaskType, Places
    <3>. QED BY <3>1, <3>2
  <2>3. OutType' /\ TaskType'
    BY <1>0, <2>0, <2>1, <2>2 DEF OutType, TaskType
  <2>. QED BY <2>0, <2>3, Kept DEF TypeInv, hbVars
<1>3. CASE connection_lost
  <2>1. UNCHANGED <<host, accepted, peerClosed, closeSent, peerEvent, closeCode, inVars, canWrite, pendingPong, tail,
                    hbVars, pc, handlerExc, raised, logged, replied>> /\ transport' = "lost"
    BY <1>3 DEF connection_lost
  <2>2. closed' \in BOOLEAN /\ cancelled' \in BOOLEAN
    BY <1>0, <1>3 DEF connection_lost, FlagsType, TaskType
  <2>3. FlagsType'
    BY <1>0, <2>1, <2>2 DEF FlagsType, hbVars
  <2>4. OutType' /\ TaskType'
    BY <1>0, <2>1, <2>2 DEF OutType, TaskType
  <2>. QED BY <2>1, <2>3, <2>4, Kept DEF TypeInv
<1>4. CASE HeartbeatAlive \/ HeartbeatProbe
  <2>1. UNCHANGED <<host, frag, log, delivered, canWrite, pendingPong, tail, taskVars, replied, stateVars, queue, transport>>
    BY <1>4 DEF HeartbeatAlive, HeartbeatProbe, beatFrame
  <2>2. hb' \in Beats /\ probed' \in BOOLEAN
    BY <1>0, <1>4 DEF HeartbeatAlive, HeartbeatProbe, Beats, Unarmed, FlagsType
  <2>3. FlagsType'
    BY <1>0, <2>1, <2>2 DEF FlagsType, stateVars
  <2>4. UNCHANGED <<inVars, outVars>>
    BY <2>1 DEF inVars, outVars
  <2>. QED BY <2>1, <2>3, <2>4, Kept DEF TypeInv
<1>5. CASE close_heartbeat_timeout
  <2>1. UNCHANGED <<host, frag, log, delivered, canWrite, pendingPong, tail, taskVars, replied, accepted, peerClosed,
                    closeSent, peerEvent, probed>>
        /\ closed' = TRUE /\ closeCode' = 1006 /\ hb' = Unarmed /\ queue' = Woken(queue)
    BY <1>5 DEF close_heartbeat_timeout, beatFrame
  <2>2. transport' \in {"open", "closing", "lost"}
    BY <1>5 DEF close_heartbeat_timeout
  <2>3. FlagsType'
    BY <1>0, <2>1 DEF FlagsType, Codes, Beats, Unarmed
  <2>4. OutType'
    BY <1>0, <2>1, <2>2 DEF OutType
  <2>5. InType'
    BY <1>0, <2>1, WokenTypes, QueueTypes
  <2>. QED BY <2>1, <2>3, <2>4, <2>5, Kept DEF TypeInv
<1>. QED BY <1>1, <1>2, <1>3, <1>4, <1>5

\* a call of close,
LEMMA CallTypes ==
    ASSUME TypeInv, NEW t \in Tasks, NEW code, NEW wait \in Places, NEW after \in Places,
           close_call(t, code, wait, after)
    PROVE  /\ pc' \in [Tasks -> Places] /\ tail' \in Seq(Sent) /\ hb' \in Beats
           /\ closed' \in BOOLEAN /\ closeSent' \in BOOLEAN /\ peerEvent' \in {"none", "armed", "set"}
           /\ transport' \in {"open", "closing", "lost"} /\ UNCHANGED <<accepted, peerClosed, closeCode>>
           /\ (closed => closed')
<1>1. /\ pc \in [Tasks -> Places] /\ tail \in Seq(Sent) /\ hb \in Beats /\ Unarmed \in Beats
      /\ closed \in BOOLEAN /\ closeSent \in BOOLEAN /\ peerEvent \in {"none", "armed", "set"}
      /\ transport \in {"open", "closing", "lost"} /\ Raw \in BOOLEAN
  BY DEF TypeInv, TaskType, OutType, FlagsType, Beats, Unarmed, Raw
<1>2. PICK over \in BOOLEAN : over = IF Raw THEN closeSent ELSE closed
  BY <1>1
<1>3. CASE over
  BY <1>1, <1>2, <1>3, Gone DEF close_call, stateVars
<1>4. CASE ~over
  <2>1. closed' = TRUE /\ closeSent' = (closeSent \/ Raw) /\ hb' = Unarmed /\ send_frame(Close(sanitise_close(code)))
        /\ UNCHANGED <<accepted, peerClosed, closeCode>>
    BY <1>2, <1>4 DEF close_call
  <2>2. /\ pc' \in [Tasks -> Places] /\ peerEvent' \in {"none", "armed", "set"}
        /\ transport' \in {"open", "closing", "lost"}
    BY <1>1, <1>2, <1>4, Gone DEF close_call
  <2>3. tail' \in Seq(Sent)
    BY <1>1, <2>1, SendTypes, FramesSent
  <2>4. (closeSent \/ Raw) \in BOOLEAN
    BY <1>1
  <2>. QED BY <1>1, <2>1, <2>2, <2>3, <2>4
<1>. QED BY <1>3, <1>4

\* the start and the end of the handler
LEMMA HandlerTypes ==
    ASSUME TypeInv, accept \/ HandlerEnds \/ HandlerCancelled \/ HelperEnds PROVE TypeInv'
<1>. USE DEF TypeInv, stateVars, inVars, outVars, hbVars, taskVars, errorFrame
<1>0. "handler" \in Tasks /\ "helper" \in Tasks /\ {"run", "done", "closing", "ending"} \subseteq Places
  BY DEF Tasks, Places
<1>1. CASE accept
  <2>0. pc \in [Tasks -> Places] /\ hb \in Beats /\ accepted \in BOOLEAN
    BY DEF TaskType, FlagsType
  <2>2. start_heartbeat \in Beats
    <3>1. PICK b \in BOOLEAN : b = (host = "manual")
      OBVIOUS
    <3>. QED BY <3>1 DEF start_heartbeat, Unarmed, Beats
  <2>3. [t \in Tasks |-> "run"] \in [Tasks -> Places]
    BY <1>0
  <2>1. pc' \in [Tasks -> Places] /\ hb' \in Beats /\ accepted' \in BOOLEAN
    BY <1>0, <1>1, <2>0, <2>2, <2>3, Gone DEF accept
  <2>. QED BY <1>1, <2>1 DEF accept, FlagsType, OutType, InType, TaskType
<1>2. CASE HandlerEnds
  <2>1. PICK code \in {1000, 1008, 1011} \cup AppCodes :
            /\ CloseOnExit(code, code = 1011)
            /\ raised' = (code = 1011)
            /\ handlerExc' = (code = 1011)
            /\ logged' = (code = 1011 /\ pc'["handler"] = "done")
    BY <1>2 DEF HandlerEnds
  <2>2. raised' \in BOOLEAN /\ handlerExc' \in BOOLEAN /\ logged' \in BOOLEAN
    BY <2>1
  <2>3. UNCHANGED <<host, inVars, canWrite, pendingPong, probed, cancelled, replied>>
    BY <1>2 DEF HandlerEnds
  <2>4. CASE goto("handler", "done") /\ UNCHANGED <<stateVars, tail, hb, transport>>
    BY <1>0, <2>2, <2>3, <2>4, Gone DEF FlagsType, OutType, InType, TaskType
  <2>5. CASE close_call("handler", code, "ending", "done")
    <3>1. /\ pc' \in [Tasks -> Places] /\ tail' \in Seq(Sent) /\ hb' \in Beats
          /\ closed' \in BOOLEAN /\ closeSent' \in BOOLEAN /\ peerEvent' \in {"none", "armed", "set"}
          /\ transport' \in {"open", "closing", "lost"} /\ UNCHANGED <<accepted, peerClosed, closeCode>>
      <4>. HIDE DEF TypeInv
      <4>. QED BY <1>0, <2>5, CallTypes
    <3>. QED BY <2>2, <2>3, <3>1 DEF FlagsType, OutType, InType, TaskType
  <2>. QED BY <2>1, <2>4, <2>5 DEF CloseOnExit
<1>3. CASE HandlerCancelled
  BY <1>0, <1>3, Gone DEF HandlerCancelled, FlagsType, OutType, InType, TaskType
<1>4. CASE HelperEnds
  BY <1>0, <1>4, Gone DEF HelperEnds, FlagsType, OutType, InType, TaskType
<1>. QED BY <1>1, <1>2, <1>3, <1>4

\* and what the tasks call.
LEMMA TaskTypes ==
    ASSUME TypeInv, NEW t \in Tasks, TaskStep(t) PROVE TypeInv'
<1>. USE DEF TypeInv, stateVars, inVars, outVars, hbVars, taskVars, errorFrame
<1>0. {"run", "recv", "drain", "done", "closing", "ending"} \subseteq Places
  BY DEF Places
<1>1. CASE send(t)
  <2>1. pc' \in [Tasks -> Places] /\ tail' \in Seq(Sent) /\ closed' \in BOOLEAN
    BY <1>0, <1>1, Gone, SendTypes, FramesSent DEF send, TaskType, OutType, FlagsType
  <2>. QED BY <1>1, <2>1 DEF send, FlagsType, OutType, InType, TaskType
<1>2. CASE Flush(t)
  <2>1. pc' \in [Tasks -> Places] /\ tail' \in Seq(Sent)
    BY <1>0, <1>2, Gone, SendTypes, FramesSent DEF Flush, TaskType, OutType
  <2>. QED BY <1>2, <2>1 DEF Flush, FlagsType, OutType, InType, TaskType
<1>3. CASE receive(t)
  BY <1>0, <1>3, Gone DEF receive, FlagsType, OutType, InType, TaskType
<1>4. CASE Received(t)
  <2>1. queue # <<>> /\ queue' = Tail(queue) /\ queue \in Seq(Messages \cup {Disconnect}) /\ Len(queue) <= QueueMax
    BY <1>4 DEF Received, InType
  <2>2. queue' \in Seq(Messages \cup {Disconnect}) /\ Len(queue') <= QueueMax /\ Head(queue) \in Messages \cup {Disconnect}
    BY <2>1, BoundsAssumption
  <2>3. delivered' \in Seq(Messages)
    BY <1>4, <2>2 DEF Received, InType
  <2>. QED BY <1>0, <1>4, <2>2, <2>3, Gone DEF Received, FlagsType, OutType, InType, TaskType
<1>5. CASE AsgiReceived(t)
  <2>0. 1005 \in Codes /\ closeCode \in Codes /\ closed \in BOOLEAN
    BY DEF FlagsType, Codes
  <2>1. closeCode' \in Codes /\ closed' \in BOOLEAN
    <3>1. (closed' = TRUE /\ closeCode' = 1005) \/ (closed' = closed /\ closeCode' = closeCode)
      BY <1>5 DEF AsgiReceived
    <3>2. CASE closed' = TRUE /\ closeCode' = 1005
      BY <2>0, <3>2, Zenon
    <3>3. CASE closed' = closed /\ closeCode' = closeCode
      BY <2>0, <3>3, Zenon
    <3>. QED BY <3>1, <3>2, <3>3, Zenon
  <2>2. pc' \in [Tasks -> Places]
    BY <1>0, <1>5, Gone DEF AsgiReceived, TaskType
  <2>3. UNCHANGED <<host, accepted, peerClosed, closeSent, peerEvent, inVars, outVars, hbVars, replied>> /\ errorFrame
    BY <1>5 DEF AsgiReceived
  <2>4. FlagsType'
    BY <2>1, <2>3 DEF FlagsType
  <2>5. OutType' /\ InType'
    BY <2>3 DEF OutType, InType
  <2>6. TaskType'
    BY <2>2, <2>3 DEF TaskType
  <2>. QED BY <2>3, <2>4, <2>5, <2>6
<1>6. CASE CallTimesOut(t)
  BY <1>0, <1>6, Gone DEF CallTimesOut, FlagsType, OutType, InType, TaskType
<1>7. CASE close(t)
  <2>1. PICK code : close_call(t, code, "closing", "run")
    BY <1>7 DEF close
  <2>2. /\ pc' \in [Tasks -> Places] /\ tail' \in Seq(Sent) /\ hb' \in Beats
        /\ closed' \in BOOLEAN /\ closeSent' \in BOOLEAN /\ peerEvent' \in {"none", "armed", "set"}
        /\ transport' \in {"open", "closing", "lost"} /\ UNCHANGED <<accepted, peerClosed, closeCode>>
    BY <1>0, <2>1, CallTypes
  <2>. QED BY <1>7, <2>2 DEF close, FlagsType, OutType, InType, TaskType
<1>8. CASE CloseWaited(t)
  <2>1. pc' \in [Tasks -> Places] /\ transport' \in {"open", "closing", "lost"} /\ logged' \in BOOLEAN
    BY <1>0, <1>8, Gone DEF CloseWaited, TaskType, OutType
  <2>. QED BY <1>8, <2>1 DEF CloseWaited, FlagsType, OutType, InType, TaskType
<1>. QED BY <1>1, <1>2, <1>3, <1>4, <1>5, <1>6, <1>7, <1>8 DEF TaskStep

\* Every step keeps the types.
LEMMA TypeStep == TypeInv /\ [Next]_vars => TypeInv'
<1>. SUFFICES ASSUME TypeInv, [Next]_vars PROVE TypeInv'
  OBVIOUS
<1>1. CASE UNCHANGED vars
  BY <1>1 DEF vars, stateVars, inVars, outVars, hbVars, taskVars, TypeInv, FlagsType, OutType, InType, TaskType
<1>. QED BY <1>1, ParserTypes, ProtocolTypes, HandlerTypes, TaskTypes DEF Next

\* The types, and the bound of the receive queue (recv_queue_maxsize), hold
\* whoever drives the socket and whatever the peer sends.
THEOREM SocketTypes == Spec => []TypeOK
BY InitTypes, TypeStep, TypesOK, PTL DEF Spec

-----------------------------------------------------------------------------
(* What is received.                                                        *)

\* What was delivered and what is queued are the whole messages of the frames
\* taken, and the buffer is the part after them.
Receiving ==
    (Raw /\ ~closed) =>
        /\ delivered \o queue = Reassembly(log).whole
        /\ frag.op = Reassembly(log).op /\ frag.bytes = Reassembly(log).part
        /\ \A i \in 1 .. Len(queue) : queue[i] # Disconnect

\* A closed socket stays closed.
ClosedStays == closed => closed'

\* Only data frames and receivers touch what was received while the socket
\* is open, and a closed socket stays closed.
LEMMA Elsewhere ==
    ASSUME TypeInv, Next
    PROVE  \/ \E f \in DataFrames : FrameData(f)
           \/ \E t \in Tasks : Received(t)
           \/ UNCHANGED host /\ ClosedStays /\ (UNCHANGED inVars \/ closed')
<1>. DEFINE Aside == UNCHANGED host /\ ClosedStays /\ (UNCHANGED inVars \/ closed')
<1>1. CASE \/ FrameWithoutEffect \/ FrameRefused \/ FramePing \/ FramePong \/ FrameClose \/ FrameUnparsed
  BY <1>1 DEF FrameWithoutEffect, FrameRefused, FramePing, FramePong, FrameClose, FrameUnparsed, terminate_raw,
     parserFrame, ClosedStays, stateVars
<1>2. CASE \/ pause_writing \/ resume_writing \/ connection_lost
           \/ HeartbeatAlive \/ HeartbeatProbe \/ close_heartbeat_timeout
  BY <1>2 DEF pause_writing, resume_writing, connection_lost, HeartbeatAlive, HeartbeatProbe, beatFrame,
     close_heartbeat_timeout, ClosedStays, stateVars, inVars
<1>3. ASSUME NEW t \in Tasks, NEW code, NEW wait \in Places, NEW after \in Places,
             close_call(t, code, wait, after), UNCHANGED <<host, inVars>>
      PROVE  Aside
  BY <1>3, CallTypes DEF ClosedStays
<1>4. CASE accept \/ HandlerEnds \/ HandlerCancelled \/ HelperEnds
  <2>1. CASE HandlerEnds
    <3>1. UNCHANGED <<host, inVars>> /\ "handler" \in Tasks /\ "ending" \in Places /\ "done" \in Places
      BY <2>1 DEF HandlerEnds, Tasks, Places
    <3>2. PICK code : CloseOnExit(code, code = 1011)
      BY <2>1 DEF HandlerEnds
    <3>3. CASE UNCHANGED stateVars
      BY <3>1, <3>3 DEF ClosedStays, stateVars
    <3>4. CASE close_call("handler", code, "ending", "done")
      BY <1>3, <3>1, <3>4
    <3>. QED BY <3>2, <3>3, <3>4 DEF CloseOnExit
  <2>. QED BY <1>4, <2>1 DEF accept, HandlerCancelled, HelperEnds, ClosedStays, stateVars
<1>5. ASSUME NEW t \in Tasks, TaskStep(t), ~Received(t) PROVE Aside
  <2>1. CASE send(t) \/ Flush(t) \/ receive(t) \/ AsgiReceived(t) \/ CallTimesOut(t) \/ CloseWaited(t)
    BY <2>1 DEF send, Flush, receive, AsgiReceived, CallTimesOut, CloseWaited, ClosedStays, stateVars
  <2>2. CASE close(t)
    <3>1. UNCHANGED <<host, inVars>> /\ "closing" \in Places /\ "run" \in Places
      BY <2>2 DEF close, Places
    <3>2. PICK code : close_call(t, code, "closing", "run")
      BY <2>2 DEF close
    <3>. QED BY <1>3, <3>1, <3>2
  <2>. QED BY <1>5, <2>1, <2>2 DEF TaskStep
<1>. QED BY <1>1, <1>2, <1>4, <1>5 DEF Next

\* A data frame extends what is received by what it completes.
LEMMA FrameReceived ==
    ASSUME TypeInv, Receiving, NEW f \in DataFrames, FrameData(f) PROVE Receiving'
<1>. SUFFICES ASSUME Raw', ~closed' PROVE Receiving'
  BY DEF Receiving
<1>0. /\ Raw /\ ~closed /\ delivered' = delivered
      /\ log' = IF Verdict(f) \in {0, 1} THEN Append(log, f) ELSE log
  BY DEF FrameData, Parsing
<1>1. /\ delivered \o queue = Reassembly(log).whole
      /\ frag.op = Reassembly(log).op /\ frag.bytes = Reassembly(log).part
      /\ \A i \in 1 .. Len(queue) : queue[i] # Disconnect
  BY <1>0 DEF Receiving
<1>2. log \in Seq(Frames) /\ f \in Frames
  BY Taken DEF TypeInv, InType
<1>3. Reassembly(Append(log, f)) = AndThen(Reassembly(log), f)
  BY <1>2, ReassemblySteps
<1>4. Verdict(f) \in {0, 1} => Fits(f)
  BY Verdicts
<1>5. Fits(f) => /\ Extended(f).op = (IF f.op = "cont" THEN frag.op ELSE f.op)
                 /\ Extended(f).bytes = frag.bytes \o f.bytes
  <2>0. f.bytes \in Seq(0 .. 255)
    BY <1>2 DEF Frames
  <2>1. CASE f.op = "cont"
    BY <2>1 DEF Extended
  <2>2. CASE f.op # "cont" /\ Fits(f)
    <3>1. frag.bytes = <<>>
      BY <2>2 DEF Fits, NoFrag
    <3>2. frag.bytes \o f.bytes = f.bytes
      BY <2>0, <3>1
    <3>. QED BY <2>2, <3>2 DEF Extended
  <2>. QED BY <2>1, <2>2
<1>. DEFINE m == [op |-> Extended(f).op, bytes |-> Extended(f).bytes]
<1>6. CASE Verdict(f) = 0
  <2>1. frag' = NoFrag /\ enqueue_or_close(m) /\ log' = Append(log, f) /\ f.fin
    BY <1>0, <1>6, Verdicts DEF FrameData
  <2>2. queue' = Append(queue, m)
    BY <2>1 DEF enqueue_or_close, terminate_raw
  <2>3. Reassembly(log') = [whole |-> Append(Reassembly(log).whole, m), part |-> <<>>, op |-> "none"]
    BY <1>1, <1>3, <1>4, <1>5, <1>6, <2>1 DEF AndThen
  <2>4. m \in Messages
    <3>1. Extended(f).op \in {"text", "bin"} /\ Extended(f).bytes \in Seq(0 .. 255)
      BY <1>4, <1>6, Taken
    <3>. QED BY <3>1 DEF Messages
  <2>5. delivered \in Seq(Messages \cup {Disconnect}) /\ queue \in Seq(Messages \cup {Disconnect})
    BY DEF TypeInv, InType
  <2>6. delivered \o Append(queue, m) = Append(delivered \o queue, m)
    BY <2>4, <2>5
  <2>7. m # Disconnect
    BY <2>4 DEF Messages, Disconnect
  <2>8. \A i \in 1 .. Len(queue') : queue'[i] # Disconnect
    BY <1>1, <2>2, <2>4, <2>5, <2>7
  <2>9. frag'.op = "none" /\ frag'.bytes = <<>>
    BY <2>1 DEF NoFrag
  <2>10. Reassembly(log').whole = Append(Reassembly(log).whole, m) /\ Reassembly(log').part = <<>>
         /\ Reassembly(log').op = "none"
    <3>. HIDE DEF m
    <3>. QED BY <2>3
  <2>11. delivered' \o queue' = Reassembly(log').whole
    <3>. HIDE DEF m
    <3>. QED BY <1>0, <1>1, <2>2, <2>6, <2>10, Zenon
  <2>. QED BY <2>8, <2>9, <2>10, <2>11, Zenon DEF Receiving
<1>7. CASE Verdict(f) = 1
  <2>1. frag' = Extended(f) /\ queue' = queue /\ log' = Append(log, f) /\ ~f.fin
    BY <1>0, <1>7, Verdicts DEF FrameData
  <2>3. Reassembly(log') = [whole |-> Reassembly(log).whole, part |-> Extended(f).bytes, op |-> Extended(f).op]
    BY <1>1, <1>3, <1>4, <1>5, <1>7, <2>1 DEF AndThen
  <2>. QED BY <1>0, <1>1, <2>1, <2>3 DEF Receiving
<1>8. CASE Verdict(f) \notin {0, 1}
  BY <1>8 DEF FrameData, terminate_raw
<1>. QED BY <1>6, <1>7, <1>8

\* A receiver moves the head of the queue to what was delivered.
LEMMA TakenOut ==
    ASSUME TypeInv, Receiving, NEW t \in Tasks, Received(t) PROVE Receiving'
<1>. SUFFICES ASSUME Raw', ~closed' PROVE Receiving'
  BY DEF Receiving
<1>0. /\ Raw /\ ~closed /\ log' = log /\ frag' = frag /\ queue # <<>> /\ queue' = Tail(queue)
      /\ delivered' = IF Head(queue) = Disconnect THEN delivered ELSE Append(delivered, Head(queue))
  BY DEF Received, stateVars, Raw
<1>1. /\ delivered \o queue = Reassembly(log).whole
      /\ frag.op = Reassembly(log).op /\ frag.bytes = Reassembly(log).part
      /\ \A i \in 1 .. Len(queue) : queue[i] # Disconnect
  BY <1>0 DEF Receiving
<1>2. delivered \in Seq(Messages \cup {Disconnect}) /\ queue \in Seq(Messages \cup {Disconnect})
  BY DEF TypeInv, InType
<1>3. Head(queue) = queue[1] /\ 1 \in 1 .. Len(queue)
  BY <1>0, <1>2
<1>4. delivered' = Append(delivered, Head(queue))
  BY <1>0, <1>1, <1>3
<1>5. Append(delivered, Head(queue)) \o Tail(queue) = delivered \o queue
  BY <1>0, <1>2
<1>6. \A i \in 1 .. Len(Tail(queue)) : Tail(queue)[i] # Disconnect
  BY <1>0, <1>1, <1>2
<1>. QED BY <1>0, <1>1, <1>4, <1>5, <1>6 DEF Receiving

\* Every step keeps the account of what was received.
LEMMA ReceivingStep ==
    ASSUME TypeInv, Receiving, [Next]_vars PROVE Receiving'
<1>1. CASE \E f \in DataFrames : FrameData(f)
  BY <1>1, FrameReceived
<1>2. CASE \E t \in Tasks : Received(t)
  BY <1>2, TakenOut
<1>3. CASE UNCHANGED host /\ ClosedStays /\ (UNCHANGED inVars \/ closed')
  BY <1>3 DEF Receiving, ClosedStays, Raw, inVars
<1>4. CASE UNCHANGED vars
  BY <1>4 DEF Receiving, Raw, vars, inVars, stateVars
<1>. QED BY <1>1, <1>2, <1>3, <1>4, Elsewhere

-----------------------------------------------------------------------------
(* What is written.                                                         *)

\* A step records no frame, the Close frame, or one after it.
Still == tail' = tail
Closes == closed' /\ (Raw => closeSent') /\ \E c : c \in WireCodes /\ send_frame(Close(c))
Trails == tail # <<>> /\ \E f \in {Data, Pong} : tail' = Append(tail, f)

\* A Close frame was recorded only if the socket is closed, and first.
Shut ==
    /\ tail # <<>> => closed /\ (Raw => closeSent)
    /\ closeSent => closed
    /\ \A i \in 1 .. Len(tail) : tail[i].legal
    /\ \A i \in 2 .. Len(tail) : tail[i].op # "close"

\* Before the socket is closed no frame but a Close is of interest.
LEMMA Unclosed ==
    ASSUME Shut, ~closed, NEW f, f.op # "close", send_frame(f) PROVE Still
BY DEF Shut, send_frame, Written, Still

\* A frame that is no Close is written after one or not recorded.
LEMMA Frozen ==
    ASSUME NEW f \in {Data, Pong}, send_frame(f) PROVE Still \/ Trails
<1>1. f.op # "close"
  BY DEF Data, Pong
<1>. QED BY <1>1 DEF send_frame, Written, Still, Trails

\* The parser tears down a socket that is open, so once.
LEMMA Terminating ==
    ASSUME Shut, ~closed, NEW c, NEW r, c \in WireCodes, terminate_raw(c, r)
    PROVE  tail = <<>> /\ Closes /\ closed' /\ closeSent'
BY DEF terminate_raw, Shut, Closes

\* close writes a Close frame that may be sent, and no second one.
LEMMA Calling ==
    ASSUME TypeInv, Shut, NEW t, NEW c, NEW w, NEW a, close_call(t, c, w, a)
    PROVE  /\ closed => closed'
           /\ closeSent => closeSent'
           /\ closeSent' => closed'
           /\ Still \/ (tail = <<>> /\ Closes)
<1>0. sanitise_close(c) \in WireCodes
  <2>1. 1000 \in WireCodes
    BY DEF WireCodes
  <2>. QED BY <2>1 DEF sanitise_close
<1>1. Raw \in BOOLEAN /\ closed \in BOOLEAN /\ closeSent \in BOOLEAN
  BY DEF TypeInv, FlagsType, Raw
<1>2. PICK over \in BOOLEAN : over = IF Raw THEN closeSent ELSE closed
  BY <1>1
<1>3. CASE over
  BY <1>2, <1>3 DEF close_call, stateVars, Still, Shut
<1>4. CASE ~over
  <2>1. closed' = TRUE /\ closeSent' = (closeSent \/ Raw) /\ send_frame(Close(sanitise_close(c)))
    BY <1>2, <1>4 DEF close_call
  <2>2. tail = <<>>
    BY <1>2, <1>4 DEF Shut
  <2>. QED BY <1>0, <2>1, <2>2 DEF Closes
<1>. QED BY <1>3, <1>4

\* Who writes what, and who closes.
Writes ==
    /\ closed => closed'
    /\ closeSent => closeSent'
    /\ closeSent' => closed'
    /\ Still \/ (tail = <<>> /\ Closes) \/ (host = "native" /\ Trails)
    /\ host' = host

\* Only the native path holds frames back.
HeldBack == (host # "native") => (~pendingPong /\ canWrite /\ \A t \in Tasks : pc[t] \notin {"drain", "flush"})

\* What the parser writes,
LEMMA ParserWrites ==
    ASSUME TypeInv, Shut,
           \/ FrameWithoutEffect \/ FrameRefused \/ FramePing \/ FramePong \/ FrameClose \/ FrameUnparsed
           \/ \E f \in DataFrames : FrameData(f)
    PROVE  Writes
<1>0. {1000, 1002, 1007, 1009, 3000} \subseteq WireCodes
  BY DEF WireCodes
<1>1. CASE FrameWithoutEffect \/ FramePong \/ FrameUnparsed
  BY <1>1 DEF FrameWithoutEffect, FramePong, FrameUnparsed, stateVars, outVars, Writes, Still, Shut
<1>2. CASE FrameRefused
  <2>1. PICK c : c \in WireCodes /\ terminate_raw(c, c)
    BY <1>0, <1>2 DEF FrameRefused
  <2>. QED BY <1>2, <2>1, Terminating DEF FrameRefused, Parsing, parserFrame, Writes
<1>3. CASE FramePing
  <2>1. UNCHANGED <<host, closed, closeSent>> /\ ~closed
    BY <1>3 DEF FramePing, stateVars, Parsing
  <2>2. Still
    <3>1. Pong.op # "close"
      BY DEF Pong
    <3>2. send_frame(Pong) => Still
      BY <2>1, <3>1, Unclosed
    <3>. QED BY <1>3, <3>2 DEF FramePing, Still
  <2>. QED BY <2>1, <2>2 DEF Writes, Shut
<1>4. CASE FrameClose
  <2>1. PICK body \in {"empty", "code", "short", "reserved", "reason"} :
            terminate_raw(close_reply(body)[1], close_reply(body)[2])
    BY <1>4 DEF FrameClose
  <2>2. close_reply(body)[1] \in WireCodes
    BY <1>0 DEF close_reply
  <2>. QED BY <1>4, <2>1, <2>2, Terminating DEF FrameClose, Parsing, Writes
<1>5. ASSUME NEW f \in DataFrames, FrameData(f) PROVE Writes
  <2>0. ~closed /\ host' = host
    BY <1>5 DEF FrameData, Parsing, parserFrame
  <2>1. CASE UNCHANGED <<closed, closeSent, closeCode, tail, transport>>
    BY <2>0, <2>1 DEF Writes, Still, Shut
  <2>2. ASSUME NEW c, c \in WireCodes, terminate_raw(c, c) PROVE Writes
    BY <2>0, <2>2, Terminating DEF Writes
  <2>3. CASE Verdict(f) = 0
    <3>1. enqueue_or_close([op |-> Extended(f).op, bytes |-> Extended(f).bytes])
      BY <1>5, <2>3 DEF FrameData
    <3>2. UNCHANGED <<closed, closeSent, closeCode, tail, transport>> \/ terminate_raw(1009, 1009)
      BY <3>1 DEF enqueue_or_close
    <3>. QED BY <1>0, <2>1, <2>2, <3>2
  <2>4. CASE Verdict(f) = 1
    BY <1>5, <2>1, <2>4 DEF FrameData
  <2>5. CASE Verdict(f) \notin {0, 1}
    <3>1. terminate_raw(Verdict(f), Verdict(f)) /\ Verdict(f) \in {0, 1, 1002, 1007, 1009}
      BY <1>5, <2>5, Verdicts DEF FrameData
    <3>2. Verdict(f) \in WireCodes
      BY <1>0, <2>5, <3>1
    <3>. QED BY <2>2, <3>1, <3>2
  <2>. QED BY <2>3, <2>4, <2>5
<1>. QED BY <1>1, <1>2, <1>3, <1>4, <1>5

\* and what everyone else does.
LEMMA OthersWrite ==
    ASSUME TypeInv, Shut, HeldBack,
           \/ pause_writing \/ resume_writing \/ connection_lost
           \/ HeartbeatAlive \/ HeartbeatProbe \/ close_heartbeat_timeout
           \/ accept \/ HandlerEnds \/ HandlerCancelled \/ HelperEnds
           \/ \E t \in Tasks : TaskStep(t)
    PROVE  Writes
<1>. USE DEF Writes, Still, stateVars, outVars
<1>1. CASE pause_writing \/ connection_lost \/ HeartbeatAlive \/ HeartbeatProbe \/ close_heartbeat_timeout
  BY <1>1 DEF pause_writing, connection_lost, HeartbeatAlive, HeartbeatProbe, close_heartbeat_timeout, beatFrame, Shut
<1>2. CASE resume_writing
  <2>1. send_frame(Pong) => Still \/ Trails
    BY Frozen
  <2>. QED BY <1>2, <2>1 DEF resume_writing, Shut
<1>3. CASE accept \/ HandlerCancelled \/ HelperEnds
  BY <1>3 DEF accept, HandlerCancelled, HelperEnds, Shut
<1>4. CASE HandlerEnds
  <2>1. PICK c : CloseOnExit(c, c = 1011) /\ host' = host
    BY <1>4 DEF HandlerEnds
  <2>2. CASE UNCHANGED <<stateVars, tail>>
    BY <2>1, <2>2 DEF Shut
  <2>3. CASE close_call("handler", c, "ending", "done")
    BY <2>1, <2>3, Calling
  <2>. QED BY <2>1, <2>2, <2>3 DEF CloseOnExit
<1>5. ASSUME NEW t \in Tasks, TaskStep(t) PROVE Writes
  <2>1. CASE receive(t) \/ Received(t) \/ AsgiReceived(t) \/ CallTimesOut(t) \/ CloseWaited(t)
    BY <2>1 DEF receive, Received, AsgiReceived, CallTimesOut, CloseWaited, Shut
  <2>2. CASE send(t)
    <3>1. Data.op # "close" /\ ~closed /\ UNCHANGED <<host, closeSent>>
      BY <2>2 DEF Data, send
    <3>2. send_frame(Data) => tail' = tail
      BY <3>1, Unclosed
    <3>3. tail' = tail /\ (closeSent => closed)
      BY <2>2, <3>2 DEF send, Shut
    <3>. QED BY <3>1, <3>3
  <2>3. CASE Flush(t)
    <3>1. Still \/ Trails
      BY <2>3, Frozen DEF Flush
    <3>. QED BY <2>3, <3>1 DEF Flush, HeldBack, Shut
  <2>4. CASE close(t)
    <3>1. PICK c : close_call(t, c, "closing", "run") /\ host' = host
      BY <2>4 DEF close
    <3>. QED BY <3>1, Calling
  <2>. QED BY <1>5, <2>1, <2>2, <2>3, <2>4 DEF TaskStep
<1>. QED BY <1>1, <1>2, <1>3, <1>4, <1>5

\* So the first frame recorded is the only Close, with a code that may be
\* sent.
LEMMA ShutStep ==
    ASSUME TypeInv, Shut, Writes PROVE Shut'
<1>1. closeSent' => closed'
  BY DEF Writes
<1>2. tail \in Seq(Sent) /\ Len(tail) \in Nat
  BY DEF TypeInv, OutType
<1>3. CASE Still
  BY <1>1, <1>3 DEF Shut, Writes, Still, Raw
<1>4. CASE tail = <<>> /\ Closes
  <2>1. PICK c : c \in WireCodes /\ send_frame(Close(c))
    BY <1>4 DEF Closes
  <2>2. tail' = <<>> \/ tail' = Append(<<>>, Close(c))
    BY <1>4, <2>1 DEF send_frame, Written
  <2>3. Len(<<>>) = 0 /\ Len(Append(<<>>, Close(c))) = 1 /\ Append(<<>>, Close(c))[1] = Close(c)
    <3>1. \A x : Append(<<>>, x) = <<x>>
      OBVIOUS
    <3>. QED BY <3>1
  <2>4. Close(c).legal
    BY <2>1 DEF Close
  <2>5. \A i \in 1 .. Len(tail') : tail'[i].legal
    BY <2>2, <2>3, <2>4
  <2>6. \A i \in 2 .. Len(tail') : tail'[i].op # "close"
    BY <2>2, <2>3
  <2>. QED BY <1>1, <1>4, <2>5, <2>6 DEF Shut, Closes, Writes, Raw
<1>5. CASE Trails
  <2>1. PICK f \in {Data, Pong} : tail' = Append(tail, f)
    BY <1>5 DEF Trails
  <2>2. f \in Sent /\ f.legal /\ f.op # "close"
    <3>1. CASE f = Data
      BY <3>1, FramesSent DEF Data
    <3>2. CASE f = Pong
      BY <3>2, FramesSent DEF Pong
    <3>. QED BY <3>1, <3>2
  <2>3. /\ Len(tail') = Len(tail) + 1 /\ tail'[Len(tail) + 1] = f
        /\ \A i \in 1 .. Len(tail) : tail'[i] = tail[i]
    BY <1>2, <2>1, <2>2
  <2>4. \A i \in 1 .. Len(tail') : tail'[i].legal
    BY <1>2, <2>2, <2>3 DEF Shut
  <2>5. \A i \in 2 .. Len(tail') : tail'[i].op # "close"
    BY <1>2, <2>2, <2>3 DEF Shut
  <2>. QED BY <1>1, <1>5, <2>4, <2>5 DEF Shut, Trails, Writes, Raw
<1>. QED BY <1>3, <1>4, <1>5 DEF Writes

\* What is held back when the socket closes only gets less.
Fewer == (closed => Parked' \subseteq Parked) /\ (pendingPong' => pendingPong \/ ~closed)
PongGoes == tail' = Append(tail, Pong) /\ pendingPong /\ ~pendingPong' /\ Parked' = Parked
DataGoes == tail' = Append(tail, Data) /\ pendingPong' = pendingPong /\ \E t \in Parked : Parked' = Parked \ {t}
Parts == (Still /\ Fewer) \/ tail = <<>> \/ PongGoes \/ DataGoes

\* A length that is 0 or 1.
LEMMA Few == \A n \in {0, 1} : n <= 1
OBVIOUS

\* Who moves elsewhere is no longer parked.
LEMMA Went ==
    ASSUME pc \in [Tasks -> Places], NEW t \in Tasks, NEW to, to \notin {"drain", "flush"}, goto(t, to)
    PROVE  Parked' = Parked \ {t} /\ pc'[t] = to /\ \A u \in Tasks : u # t => pc'[u] = pc[u]
BY DEF goto, Parked

\* Only the native path holds anything back.
LEMMA HeldBackKept ==
    ASSUME HeldBack, UNCHANGED <<host, pendingPong, canWrite>>, Parked' \subseteq Parked
    PROVE  HeldBack'
BY DEF HeldBack, Parked

\* Who holds back what.
Holds == HeldBack' /\ Parts

\* The parser holds back a PONG while the socket is open only,
LEMMA ParserHolds ==
    ASSUME TypeInv, Shut, HeldBack,
           \/ FrameWithoutEffect \/ FrameRefused \/ FramePing \/ FramePong \/ FrameClose \/ FrameUnparsed
           \/ \E f \in DataFrames : FrameData(f)
    PROVE  Holds
<1>. USE DEF Holds, Parts, Still, Fewer, Parked, HeldBack, taskVars, outVars, stateVars
<1>1. CASE FrameWithoutEffect \/ FramePong \/ FrameUnparsed
  BY <1>1 DEF FrameWithoutEffect, FramePong, FrameUnparsed
<1>2. CASE FrameRefused \/ FrameClose
  <2>1. UNCHANGED <<host, pendingPong, canWrite, pc>> /\ ~closed
    BY <1>2 DEF FrameRefused, FrameClose, Parsing, parserFrame
  <2>2. tail = <<>>
    BY <2>1 DEF Shut
  <2>. QED BY <2>1, <2>2
<1>3. CASE FramePing
  <2>1. UNCHANGED <<host, canWrite, pc>> /\ ~closed
    BY <1>3 DEF FramePing, Parsing
  <2>2. tail = <<>>
    BY <2>1 DEF Shut
  <2>3. host # "native" => pendingPong' = pendingPong
    BY <1>3 DEF FramePing
  <2>. QED BY <2>1, <2>2, <2>3
<1>4. ASSUME NEW f \in DataFrames, FrameData(f) PROVE Holds
  <2>1. UNCHANGED <<host, pendingPong, canWrite, pc>> /\ ~closed
    BY <1>4 DEF FrameData, Parsing, parserFrame
  <2>2. tail = <<>>
    BY <2>1 DEF Shut
  <2>. QED BY <2>1, <2>2
<1>. QED BY <1>1, <1>2, <1>3, <1>4

\* closing parks nobody,
LEMMA CallHolds ==
    ASSUME TypeInv, Shut, NEW t \in Tasks, NEW c, NEW w \in {"closing", "ending"}, NEW a \in {"run", "done"},
           close_call(t, c, w, a)
    PROVE  Parked' \subseteq Parked
<1>0. pc \in [Tasks -> Places]
  BY DEF TypeInv, TaskType
<1>1. goto(t, w) \/ goto(t, a)
  BY DEF close_call
<1>. QED BY <1>0, <1>1, Went

\* and what was held back leaves one by one.
LEMMA OthersHold ==
    ASSUME TypeInv, Shut, HeldBack,
           \/ pause_writing \/ resume_writing \/ connection_lost
           \/ HeartbeatAlive \/ HeartbeatProbe \/ close_heartbeat_timeout
           \/ accept \/ HandlerEnds \/ HandlerCancelled \/ HelperEnds
           \/ \E t \in Tasks : TaskStep(t)
    PROVE  Holds
<1>0. pc \in [Tasks -> Places] /\ "handler" \in Tasks /\ "helper" \in Tasks
  BY DEF TypeInv, TaskType, Tasks
<1>1. CASE pause_writing
  BY <1>1 DEF pause_writing, Holds, Parts, Still, Fewer, Parked, HeldBack, taskVars
<1>2. CASE resume_writing
  <2>1. host = "native" /\ host' = host /\ ~pendingPong' /\ pc' = [t \in Tasks |-> IF pc[t] = "drain" THEN "flush" ELSE pc[t]]
    BY <1>2 DEF resume_writing
  <2>2. Parked' = Parked
    BY <1>0, <2>1 DEF Parked
  <2>3. Still \/ (tail' = Append(tail, Pong) /\ pendingPong)
    BY <1>2 DEF resume_writing, send_frame, Written, Still
  <2>. QED BY <2>1, <2>2, <2>3 DEF Holds, Parts, PongGoes, Fewer, HeldBack
<1>3. CASE connection_lost \/ HeartbeatAlive \/ HeartbeatProbe \/ close_heartbeat_timeout
  BY <1>3 DEF connection_lost, HeartbeatAlive, HeartbeatProbe, close_heartbeat_timeout, beatFrame, taskVars,
     Holds, Parts, Still, Fewer, Parked, HeldBack
<1>4. ASSUME Parked' \subseteq Parked, UNCHANGED <<host, pendingPong, canWrite>>, Still \/ tail = <<>> PROVE Holds
  BY <1>4, HeldBackKept DEF Holds, Parts, Fewer
<1>5. CASE accept \/ HandlerCancelled \/ HelperEnds
  <2>1. CASE accept
    <3>1. UNCHANGED <<host, pendingPong, canWrite, tail>>
      BY <2>1 DEF accept, outVars
    <3>2. pc' = [t \in Tasks |-> "run"] \/ goto("handler", "run")
      BY <2>1 DEF accept
    <3>3. pc' = [t \in Tasks |-> "run"] => Parked' = {}
      BY DEF Parked
    <3>4. goto("handler", "run") => Parked' \subseteq Parked
      BY <1>0, Went
    <3>. QED BY <1>4, <3>1, <3>2, <3>3, <3>4 DEF Still
  <2>2. CASE HandlerCancelled \/ HelperEnds
    BY <1>0, <1>4, <2>2, Went DEF HandlerCancelled, HelperEnds, outVars, Still
  <2>. QED BY <1>5, <2>1, <2>2
<1>6. ASSUME NEW t \in Tasks, NEW c, NEW w \in {"closing", "ending"}, NEW a \in {"run", "done"},
             close_call(t, c, w, a), UNCHANGED <<host, pendingPong, canWrite>>
      PROVE  Holds
  <2>1. Parked' \subseteq Parked
    BY <1>6, CallHolds
  <2>2. Still \/ tail = <<>>
    BY <1>6, Calling
  <2>. QED BY <1>4, <1>6, <2>1, <2>2
<1>7. CASE HandlerEnds
  <2>1. PICK c : CloseOnExit(c, c = 1011)
    BY <1>7 DEF HandlerEnds
  <2>2. UNCHANGED <<host, pendingPong, canWrite>>
    BY <1>7 DEF HandlerEnds
  <2>3. CASE goto("handler", "done") /\ tail' = tail
    BY <1>0, <1>4, <2>2, <2>3, Went DEF Still
  <2>4. CASE close_call("handler", c, "ending", "done")
    BY <1>0, <1>6, <2>2, <2>4
  <2>. QED BY <2>1, <2>3, <2>4 DEF CloseOnExit
<1>8. ASSUME NEW t \in Tasks, TaskStep(t) PROVE Holds
  <2>1. CASE receive(t) \/ Received(t) \/ AsgiReceived(t) \/ CallTimesOut(t)
    BY <1>0, <1>4, <2>1, Went DEF receive, Received, AsgiReceived, CallTimesOut, outVars, Still
  <2>2. CASE CloseWaited(t)
    <3>1. PICK to \in {"run", "done"} : goto(t, to)
      BY <2>2 DEF CloseWaited
    <3>2. Parked' \subseteq Parked
      BY <1>0, <3>1, Went
    <3>. QED BY <1>4, <2>2, <3>2 DEF CloseWaited, Still
  <2>3. CASE send(t)
    <3>1. ~closed /\ UNCHANGED <<host, pendingPong, canWrite>>
      BY <2>3 DEF send
    <3>2. tail = <<>>
      BY <3>1 DEF Shut
    <3>3. host = "native" \/ pc' = pc
      BY <2>3 DEF send
    <3>. QED BY <3>1, <3>2, <3>3 DEF Holds, Parts, HeldBack
  <2>4. CASE Flush(t)
    <3>1. t \in Parked /\ goto(t, "run") /\ send_frame(Data) /\ UNCHANGED <<host, pendingPong, canWrite>>
      BY <2>4 DEF Flush, Parked
    <3>2. Parked' = Parked \ {t}
      BY <1>0, <3>1, Went
    <3>3. CASE Still
      BY <1>4, <3>1, <3>2, <3>3
    <3>4. CASE tail' = Append(tail, Data)
      <4>1. HeldBack'
        BY <3>1, <3>2, HeldBackKept
      <4>. QED BY <3>1, <3>2, <3>4, <4>1 DEF Holds, Parts, DataGoes
    <3>. QED BY <3>1, <3>3, <3>4 DEF send_frame, Written, Still, Data
  <2>5. CASE close(t)
    <3>1. PICK c : close_call(t, c, "closing", "run")
      BY <2>5 DEF close
    <3>2. UNCHANGED <<host, pendingPong, canWrite>>
      BY <2>5 DEF close
    <3>. QED BY <1>6, <3>1, <3>2
  <2>. QED BY <1>8, <2>1, <2>2, <2>3, <2>4, <2>5 DEF TaskStep
<1>. QED BY <1>1, <1>2, <1>3, <1>5, <1>7, <1>8

\* The count of what follows a Close frame.
Counted ==
    /\ Cardinality(Late("data")) + Cardinality(Parked) <= 2
    /\ \A i, j \in Late("pong") : i = j
    /\ pendingPong => Late("pong") = {}

\* At most the two tasks are parked.
LEMMA ParkedFinite == IsFiniteSet(Parked) /\ Cardinality(Parked) <= 2 /\ IsFiniteSet(Tasks) /\ Cardinality(Tasks) = 2
<1>1. IsFiniteSet(Tasks) /\ Cardinality(Tasks) = 2
  <2>1. "handler" # "helper"
    OBVIOUS
  <2>2. IsFiniteSet({}) /\ Cardinality({}) = 0
    BY FS_EmptySet
  <2>3. IsFiniteSet({"handler"}) /\ Cardinality({"handler"}) = 1
    BY FS_Singleton
  <2>4. Tasks = {"handler"} \cup {"helper"} /\ "helper" \notin {"handler"}
    BY DEF Tasks
  <2>. QED BY <2>3, <2>4, FS_AddElement
<1>. QED BY <1>1, FS_Subset DEF Parked

\* What follows the Close frame can be counted.
LEMMA LateFinite == ASSUME TypeInv, NEW op PROVE IsFiniteSet(Late(op)) /\ Cardinality(Late(op)) \in Nat
<1>1. Len(tail) \in Nat
  BY DEF TypeInv, OutType
<1>2. IsFiniteSet(2 .. Len(tail)) /\ Late(op) \subseteq 2 .. Len(tail)
  BY <1>1, FS_Interval DEF Late
<1>. QED BY <1>2, FS_Subset, FS_CardinalityType

\* Each late frame is one that was held back.
LEMMA CountedStep ==
    ASSUME TypeInv, Shut, Counted, Writes, Parts PROVE Counted'
<1>0. Len(tail) \in Nat /\ tail \in Seq(Sent)
  BY DEF TypeInv, OutType
<1>a. Cardinality(Parked) \in Nat /\ Cardinality(Parked) <= 2 /\ IsFiniteSet(Parked)
  BY ParkedFinite, FS_CardinalityType
<1>b. Cardinality(Parked)' \in Nat /\ Cardinality(Parked)' <= 2
  <2>1. Parked' \subseteq Tasks
    BY DEF Parked
  <2>. QED BY <2>1, ParkedFinite, FS_Subset, FS_CardinalityType
<1>1. CASE tail = <<>>
  <2>1. Len(tail') <= 1
    <3>1. CASE Still
      BY <1>1, <3>1 DEF Still
    <3>2. CASE Closes
      <4>1. PICK c : tail' = <<>> \/ tail' = Append(<<>>, Close(c))
        BY <1>1, <3>2 DEF Closes, send_frame, Written
      <4>2. Len(<<>>) = 0 /\ Len(Append(<<>>, Close(c))) = 1
        <5>1. \A x : Append(<<>>, x) = <<x>>
          OBVIOUS
        <5>. QED BY <5>1
      <4>3. Len(tail') \in {0, 1}
        BY <4>1, <4>2, Zenon
      <4>. QED BY <4>3, Few, Zenon
    <3>3. CASE Trails
      BY <1>1, <3>3 DEF Trails
    <3>. QED BY <3>1, <3>2, <3>3 DEF Writes
  <2>2. \A op : Late(op)' = {}
    <3>1. Len(tail') \in Nat
      <4>1. tail' = <<>> \/ \E x : tail' = Append(<<>>, x)
        BY <1>1 DEF Writes, Still, Closes, send_frame, Written, Trails
      <4>2. \A x : Append(<<>>, x) = <<x>>
        OBVIOUS
      <4>. QED BY <4>1, <4>2
    <3>. QED BY <2>1, <3>1 DEF Late
  <2>3. Cardinality({}) = 0
    BY FS_EmptySet
  <2>4. Late("data")' = {} /\ Late("pong")' = {}
    BY <2>2
  <2>5. Cardinality(Late("data"))' = 0
    BY <2>3, <2>4
  <2>. QED BY <1>b, <2>4, <2>5 DEF Counted
<1>2. CASE Still /\ Fewer /\ tail # <<>>
  <2>1. \A op : Late(op)' = Late(op)
    BY <1>2 DEF Late, Still
  <2>2. Parked' \subseteq Parked /\ (pendingPong' => pendingPong)
    BY <1>2 DEF Fewer, Shut
  <2>3. Cardinality(Parked)' <= Cardinality(Parked)
    BY <1>a, <2>2, FS_Subset
  <2>4. Cardinality(Late("data")) \in Nat
    BY LateFinite
  <2>. QED BY <1>a, <1>b, <2>1, <2>2, <2>3, <2>4 DEF Counted
<1>3. ASSUME NEW f \in {Data, Pong}, tail' = Append(tail, f), tail # <<>>
      PROVE  /\ Late(f.op)' = Late(f.op) \cup {Len(tail) + 1} /\ Len(tail) + 1 \notin Late(f.op)
             /\ \A op : op # f.op => Late(op)' = Late(op)
  <2>0. f \in Sent
    BY FramesSent
  <2>1. /\ Len(tail') = Len(tail) + 1 /\ tail'[Len(tail) + 1] = f
        /\ \A i \in 1 .. Len(tail) : tail'[i] = tail[i]
    BY <1>0, <1>3, <2>0
  <2>2. Len(tail) >= 1
    BY <1>0, <1>3
  <2>3. ASSUME NEW op PROVE Late(op)' = Late(op) \cup (IF f.op = op THEN {Len(tail) + 1} ELSE {})
    <3>1. \A i \in 2 .. Len(tail) : i \in 1 .. Len(tail) /\ tail'[i] = tail[i]
      BY <1>0, <2>1
    <3>2. 2 .. Len(tail') = (2 .. Len(tail)) \cup {Len(tail) + 1}
      BY <1>0, <2>1, <2>2
    <3>. QED BY <1>0, <2>1, <3>1, <3>2 DEF Late
  <2>4. Len(tail) + 1 \notin Late(f.op)
    BY <1>0 DEF Late
  <2>. QED BY <2>3, <2>4
<1>4. CASE PongGoes /\ tail # <<>>
  <2>1. Late("pong")' = Late("pong") \cup {Len(tail) + 1} /\ Late("data")' = Late("data")
    BY <1>3, <1>4 DEF PongGoes, Pong
  <2>. QED BY <1>4, <2>1 DEF PongGoes, Counted
<1>5. CASE DataGoes /\ tail # <<>>
  <2>1. /\ Late("data")' = Late("data") \cup {Len(tail) + 1} /\ Late("pong")' = Late("pong")
        /\ Len(tail) + 1 \notin Late("data")
    BY <1>3, <1>5 DEF DataGoes, Data
  <2>2. PICK t \in Parked : Parked' = Parked \ {t}
    BY <1>5 DEF DataGoes
  <2>3. Cardinality(Parked)' = Cardinality(Parked) - 1
    BY <1>a, <2>2, FS_RemoveElement
  <2>4. Cardinality(Late("data"))' = Cardinality(Late("data")) + 1 /\ Cardinality(Late("data")) \in Nat
    BY <2>1, LateFinite, FS_AddElement
  <2>. QED BY <1>5, <1>a, <2>1, <2>3, <2>4 DEF DataGoes, Counted
<1>. QED BY <1>1, <1>2, <1>4, <1>5 DEF Parts

\* Which is what may follow a Close frame.
LEMMA CountedSilent ==
    ASSUME TypeInv, HeldBack, Counted, host = "native" \/ Len(tail) <= 1 PROVE SilentAfterClose
<1>1. Cardinality(Late("data")) + Cardinality(Parked) <= Cardinality(Tasks)
  BY ParkedFinite DEF Counted
<1>2. Cardinality(Late("pong")) + (IF pendingPong THEN 1 ELSE 0) <= 1
  <2>1. CASE Late("pong") = {}
    BY <2>1, FS_EmptySet DEF TypeInv, OutType
  <2>2. CASE Late("pong") # {}
    <3>1. PICK i \in Late("pong") : TRUE
      BY <2>2
    <3>2. Late("pong") = {i} /\ ~pendingPong
      BY <2>2, <3>1 DEF Counted
    <3>3. Cardinality(Late("pong")) = 1
      BY <3>2, FS_Singleton
    <3>. QED BY <3>2, <3>3
  <2>. QED BY <2>1, <2>2
<1>. QED BY <1>1, <1>2 DEF SilentAfterClose

\* A socket that is not native writes nothing after its Close frame.
Last == host = "native" \/ Len(tail) <= 1

\* Off the native path nothing follows it.
LEMMA LastStep ==
    ASSUME TypeInv, Last, Writes PROVE Last'
<1>1. CASE host = "native"
  BY <1>1 DEF Last, Writes
<1>2. CASE Still
  BY <1>2 DEF Last, Writes, Still
<1>3. CASE tail = <<>> /\ Closes
  <2>1. PICK c : tail' = <<>> \/ tail' = Append(<<>>, Close(c))
    BY <1>3 DEF Closes, send_frame, Written
  <2>2. Len(<<>>) = 0 /\ Len(Append(<<>>, Close(c))) = 1
    <3>1. \A x : Append(<<>>, x) = <<x>>
      OBVIOUS
    <3>. QED BY <3>1
  <2>3. Len(tail') \in {0, 1}
    BY <2>1, <2>2, Zenon
  <2>. QED BY <2>3, Few, Zenon DEF Last
<1>. QED BY <1>1, <1>2, <1>3 DEF Writes

\* The handler's error.
Noted ==
    /\ handlerExc = raised
    /\ pc["helper"] # "ending"
    /\ pc["handler"] = "done" /\ raised => logged

\* The error is noted before the close that the handler may not survive.
LEMMA NotedStep ==
    ASSUME TypeInv, Noted, Next PROVE Noted'
<1>0. pc \in [Tasks -> Places] /\ "handler" \in Tasks /\ "helper" \in Tasks /\ Tasks = {"handler", "helper"}
  BY DEF TypeInv, TaskType, Tasks
<1>1. ASSUME UNCHANGED taskVars PROVE Noted'
  BY <1>1 DEF taskVars, Noted
<1>2. CASE \/ FrameWithoutEffect \/ FrameRefused \/ FramePing \/ FramePong \/ FrameClose \/ FrameUnparsed
           \/ pause_writing \/ HeartbeatAlive \/ HeartbeatProbe \/ close_heartbeat_timeout
           \/ \E f \in DataFrames : FrameData(f)
  <2>1. CASE FrameWithoutEffect \/ FrameRefused \/ FramePing \/ FramePong \/ FrameClose \/ FrameUnparsed
    <3>1. UNCHANGED taskVars
      BY <2>1 DEF FrameWithoutEffect, FrameRefused, FramePing, FramePong, FrameClose, FrameUnparsed, parserFrame
    <3>. QED BY <1>1, <3>1
  <2>2. CASE pause_writing \/ HeartbeatAlive \/ HeartbeatProbe \/ close_heartbeat_timeout
    <3>1. UNCHANGED taskVars
      BY <2>2 DEF pause_writing, HeartbeatAlive, HeartbeatProbe, close_heartbeat_timeout, beatFrame
    <3>. QED BY <1>1, <3>1
  <2>3. CASE \E f \in DataFrames : FrameData(f)
    <3>1. UNCHANGED taskVars
      BY <2>3 DEF FrameData, parserFrame
    <3>. QED BY <1>1, <3>1
  <2>. QED BY <1>2, <2>1, <2>2, <2>3
<1>3. CASE resume_writing
  <2>1. pc' = [t \in Tasks |-> IF pc[t] = "drain" THEN "flush" ELSE pc[t]] /\ UNCHANGED <<handlerExc, raised, logged>>
    BY <1>3 DEF resume_writing
  <2>2. pc'["helper"] # "ending" /\ (pc'["handler"] = "done" => pc["handler"] = "done")
    BY <1>0, <2>1 DEF Noted
  <2>. QED BY <2>1, <2>2 DEF Noted
<1>4. CASE connection_lost
  BY <1>4 DEF connection_lost, Noted
<1>5. ASSUME NEW t \in Tasks, NEW to, goto(t, to), to \notin {"done", "ending"} \/ (t = "helper" /\ to # "ending"), errorFrame
      PROVE  Noted'
  BY <1>0, <1>5 DEF goto, errorFrame, Noted
<1>6. CASE accept
  <2>1. pc' = [t \in Tasks |-> "run"] \/ goto("handler", "run")
    BY <1>6 DEF accept
  <2>2. CASE pc' = [t \in Tasks |-> "run"]
    BY <1>0, <1>6, <2>2 DEF accept, errorFrame, Noted
  <2>3. CASE goto("handler", "run")
    BY <1>0, <1>5, <1>6, <2>3 DEF accept
  <2>. QED BY <2>1, <2>2, <2>3
<1>7. CASE HandlerEnds
  <2>1. PICK c \in {1000, 1008, 1011} \cup AppCodes :
            /\ CloseOnExit(c, c = 1011) /\ raised' = (c = 1011) /\ handlerExc' = (c = 1011)
            /\ logged' = (c = 1011 /\ pc'["handler"] = "done")
    BY <1>7 DEF HandlerEnds
  <2>2. PICK to : goto("handler", to)
    BY <2>1 DEF CloseOnExit, close_call
  <2>3. pc'["helper"] = pc["helper"]
    BY <1>0, <2>2 DEF goto
  <2>4. handlerExc' = raised' /\ (pc'["handler"] = "done" /\ raised' => logged')
    BY <2>1
  <2>. QED BY <2>3, <2>4 DEF Noted
<1>8. CASE HandlerCancelled
  <2>1. goto("handler", "done") /\ logged' = handlerExc /\ UNCHANGED <<handlerExc, raised>>
    BY <1>8 DEF HandlerCancelled
  <2>2. pc'["helper"] = pc["helper"]
    BY <1>0, <2>1 DEF goto
  <2>. QED BY <2>1, <2>2 DEF Noted
<1>9. CASE HelperEnds
  BY <1>0, <1>5, <1>9 DEF HelperEnds
<1>10. ASSUME NEW t \in Tasks, TaskStep(t) PROVE Noted'
  <2>1. CASE send(t)
    <3>1. pc' = pc \/ goto(t, "drain")
      BY <2>1 DEF send
    <3>. QED BY <1>5, <2>1, <3>1 DEF send, errorFrame, Noted
  <2>2. CASE Flush(t) \/ receive(t) \/ Received(t) \/ AsgiReceived(t) \/ CallTimesOut(t)
    <3>1. goto(t, "run") \/ goto(t, "recv")
      BY <2>2 DEF Flush, receive, Received, AsgiReceived, CallTimesOut
    <3>2. errorFrame
      BY <2>2 DEF Flush, receive, Received, AsgiReceived, CallTimesOut
    <3>. QED BY <1>5, <3>1, <3>2
  <2>3. CASE close(t)
    <3>1. PICK c : close_call(t, c, "closing", "run")
      BY <2>3 DEF close
    <3>2. goto(t, "closing") \/ goto(t, "run")
      BY <3>1 DEF close_call
    <3>. QED BY <1>5, <2>3, <3>2 DEF close
  <2>4. CASE CloseWaited(t)
    <3>1. CASE pc[t] = "closing"
      <4>1. goto(t, "run") /\ UNCHANGED <<cancelled, handlerExc, raised, logged>>
        BY <2>4, <3>1 DEF CloseWaited
      <4>. QED BY <1>5, <4>1 DEF errorFrame
    <3>2. CASE pc[t] = "ending"
      <4>1. goto(t, "done") /\ logged' = raised /\ UNCHANGED <<handlerExc, raised>>
        BY <2>4, <3>2 DEF CloseWaited
      <4>2. t = "handler"
        BY <1>0, <3>2 DEF Noted
      <4>3. pc'["helper"] = pc["helper"]
        BY <1>0, <4>1, <4>2 DEF goto
      <4>. QED BY <4>1, <4>3 DEF Noted
    <3>. QED BY <2>4, <3>1, <3>2 DEF CloseWaited
  <2>. QED BY <1>10, <2>1, <2>2, <2>3, <2>4 DEF TaskStep
<1>. QED BY <1>2, <1>3, <1>4, <1>6, <1>7, <1>8, <1>9, <1>10 DEF Next

-----------------------------------------------------------------------------
(* The heartbeat, and the theorems.                                         *)

Guarded ==
    /\ hb.token => hb.armed /\ (hb.saw \/ probed)
    /\ closeCode = 1006 => closed
    /\ host = "manual" /\ accepted /\ ~closed => hb.armed

\* A peer is dropped for silence only after a PING it left unanswered.
Spared == (closed' /\ ~closed /\ closeCode' = 1006) => probed

\* Inbound bytes are noted.
LEMMA Heard ==
    ASSUME TypeInv, Guarded, hb' = Inbound, UNCHANGED <<host, accepted, closed, closeCode>>
    PROVE  Guarded' /\ Spared
<1>1. hb \in Beats
  BY DEF TypeInv, FlagsType
<1>2. hb'.token = hb.token /\ hb'.armed = hb.armed /\ (hb.armed => hb'.saw)
  BY <1>1 DEF Inbound, Beats
<1>. QED BY <1>2 DEF Guarded, Spared

\* A step that leaves the heartbeat alone keeps what it knows.
LEMMA Untouched ==
    ASSUME Guarded, UNCHANGED <<host, accepted, hb, probed, closeCode>>, closed => closed'
    PROVE  Guarded' /\ Spared
<1>1. host' = host /\ accepted' = accepted /\ hb' = hb /\ probed' = probed /\ closeCode' = closeCode
  OBVIOUS
<1>2. closeCode = 1006 => closed /\ closed'
  BY DEF Guarded
<1>3. ~closed' => ~closed
  OBVIOUS
<1>4. Guarded'
  BY <1>1, <1>2, <1>3 DEF Guarded
<1>. QED BY <1>1, <1>2, <1>4 DEF Spared

\* So does one that stops it with the socket.
LEMMA Dropped ==
    ASSUME closed', hb' = Unarmed PROVE Guarded'
BY DEF Guarded, Unarmed

\* The parser's steps keep it,
LEMMA ParserGuards ==
    ASSUME TypeInv, Guarded,
           \/ FrameWithoutEffect \/ FrameRefused \/ FramePing \/ FramePong \/ FrameClose \/ FrameUnparsed
           \/ \E f \in DataFrames : FrameData(f)
    PROVE  Guarded' /\ Spared
<1>1. CASE FrameWithoutEffect \/ FramePing
  BY <1>1, Heard DEF FrameWithoutEffect, FramePing, stateVars
<1>2. ASSUME NEW c, NEW r, r # 1006, terminate_raw(c, r) PROVE Guarded' /\ Spared
  BY <1>2, Dropped DEF terminate_raw, Spared
<1>3. CASE FrameRefused
  BY <1>2, <1>3 DEF FrameRefused
<1>4. CASE FrameClose
  <2>1. PICK body \in {"empty", "code", "short", "reserved", "reason"} :
            terminate_raw(close_reply(body)[1], close_reply(body)[2])
    BY <1>4 DEF FrameClose
  <2>2. close_reply(body)[2] # 1006
    BY DEF close_reply
  <2>. QED BY <1>2, <2>1, <2>2
<1>5. CASE FrameUnparsed
  BY <1>5 DEF FrameUnparsed, stateVars, hbVars, Guarded, Spared
<1>6. CASE FramePong
  <2>1. PICK match \in BOOLEAN : hb' = [Inbound EXCEPT !.token = @ /\ ~match]
    BY <1>6 DEF FramePong
  <2>2. hb \in Beats /\ UNCHANGED <<host, accepted, closed, closeCode>>
    BY <1>6 DEF TypeInv, FlagsType, FramePong, stateVars
  <2>3. Inbound \in Beats /\ Inbound.token = hb.token /\ Inbound.armed = hb.armed /\ (hb.armed => Inbound.saw)
    BY <2>2 DEF Inbound, Beats
  <2>4. PICK b \in BOOLEAN : b = (Inbound.token /\ ~match)
    OBVIOUS
  <2>5. hb' = [Inbound EXCEPT !.token = b]
    BY <2>1, <2>4
  <2>6. hb'.token = b /\ hb'.armed = hb.armed /\ (hb.armed => hb'.saw)
    BY <2>3, <2>5 DEF Beats
  <2>7. b => hb.token
    BY <2>3, <2>4
  <2>. QED BY <2>2, <2>6, <2>7 DEF Guarded, Spared
<1>7. ASSUME NEW f \in DataFrames, FrameData(f) PROVE Guarded' /\ Spared
  <2>0. UNCHANGED <<host, accepted>>
    BY <1>7 DEF FrameData, parserFrame
  <2>1. CASE hb' = Inbound /\ UNCHANGED <<closed, closeCode>>
    BY <2>0, <2>1, Heard
  <2>2. CASE Verdict(f) = 0
    <3>1. enqueue_or_close([op |-> Extended(f).op, bytes |-> Extended(f).bytes])
      BY <1>7, <2>2 DEF FrameData
    <3>2. (hb' = Inbound /\ UNCHANGED <<closed, closeCode>>) \/ terminate_raw(1009, 1009)
      BY <3>1 DEF enqueue_or_close
    <3>. QED BY <1>2, <2>1, <3>2
  <2>3. CASE Verdict(f) = 1
    BY <1>7, <2>1, <2>3 DEF FrameData
  <2>4. CASE Verdict(f) \notin {0, 1}
    <3>1. terminate_raw(Verdict(f), Verdict(f)) /\ Verdict(f) \in {0, 1, 1002, 1007, 1009}
      BY <1>7, <2>4, Verdicts DEF FrameData
    <3>. QED BY <1>2, <3>1
  <2>. QED BY <2>2, <2>3, <2>4
<1>. QED BY <1>1, <1>3, <1>4, <1>5, <1>6, <1>7

\* and all others; only its own timeout leaves code 1006.
LEMMA OthersGuard ==
    ASSUME TypeInv, Guarded,
           \/ pause_writing \/ resume_writing \/ connection_lost
           \/ HeartbeatAlive \/ HeartbeatProbe \/ close_heartbeat_timeout
           \/ accept \/ HandlerEnds \/ HandlerCancelled \/ HelperEnds
           \/ \E t \in Tasks : TaskStep(t)
    PROVE  Guarded' /\ Spared
<1>0. hb \in Beats
  BY DEF TypeInv, FlagsType
<1>1. ASSUME UNCHANGED <<host, accepted, hb, probed, closeCode>>, closed => closed' PROVE Guarded' /\ Spared
  BY <1>1, Untouched
<1>2. CASE pause_writing \/ resume_writing \/ connection_lost \/ HandlerCancelled \/ HelperEnds
  BY <1>1, <1>2 DEF pause_writing, resume_writing, connection_lost, HandlerCancelled, HelperEnds, stateVars, hbVars
<1>3. CASE HeartbeatAlive
  BY <1>3 DEF HeartbeatAlive, beatFrame, stateVars, Guarded, Spared, Unarmed
<1>4. CASE HeartbeatProbe
  <2>1. hb'.token = TRUE /\ hb'.armed = hb.armed /\ hb.armed /\ probed' = TRUE
        /\ UNCHANGED <<host, accepted, closed, closeCode>>
    BY <1>0, <1>4 DEF HeartbeatProbe, beatFrame, stateVars, Beats
  <2>. QED BY <2>1 DEF Guarded, Spared
<1>5. CASE close_heartbeat_timeout
  <2>1. closed' /\ hb' = Unarmed /\ hb.token /\ ~hb.saw
    BY <1>5 DEF close_heartbeat_timeout
  <2>2. probed
    BY <2>1 DEF Guarded
  <2>. QED BY <2>1, <2>2, Dropped DEF Spared
<1>6. CASE accept
  <2>1. UNCHANGED <<host, closed, closeCode, probed>>
    BY <1>6 DEF accept
  <2>2. CASE UNCHANGED <<accepted, hb>>
    BY <1>1, <2>1, <2>2
  <2>3. CASE accepted' = TRUE /\ hb' = start_heartbeat
    <3>1. PICK b \in BOOLEAN : b = (host = "manual")
      OBVIOUS
    <3>2. hb' = [Unarmed EXCEPT !.armed = b]
      BY <2>3, <3>1 DEF start_heartbeat
    <3>3. ~hb'.token /\ (host = "manual" => hb'.armed)
      BY <3>1, <3>2 DEF Unarmed
    <3>. QED BY <2>1, <3>3 DEF Guarded, Spared
  <2>. QED BY <1>6, <2>2, <2>3 DEF accept
<1>7. ASSUME NEW t, NEW c, NEW w, NEW a, close_call(t, c, w, a), UNCHANGED <<host, probed>>
      PROVE  Guarded' /\ Spared
  <2>1. CASE UNCHANGED <<stateVars, hb>>
    BY <1>1, <1>7, <2>1 DEF stateVars
  <2>2. CASE closed' = TRUE /\ hb' = Unarmed /\ closeCode' = closeCode
    <3>1. ~closed => closeCode # 1006
      BY DEF Guarded
    <3>. QED BY <2>2, <3>1, Dropped DEF Spared
  <2>. QED BY <1>7, <2>1, <2>2 DEF close_call
<1>8. CASE HandlerEnds
  <2>1. PICK c : CloseOnExit(c, c = 1011)
    BY <1>8 DEF HandlerEnds
  <2>2. UNCHANGED <<host, probed>>
    BY <1>8 DEF HandlerEnds
  <2>3. CASE UNCHANGED <<stateVars, hb>>
    BY <1>1, <2>2, <2>3 DEF stateVars
  <2>4. CASE close_call("handler", c, "ending", "done")
    BY <1>7, <2>2, <2>4
  <2>. QED BY <2>1, <2>3, <2>4 DEF CloseOnExit
<1>9. ASSUME NEW t \in Tasks, TaskStep(t) PROVE Guarded' /\ Spared
  <2>1. CASE send(t) \/ Flush(t) \/ receive(t) \/ Received(t) \/ CallTimesOut(t) \/ CloseWaited(t)
    BY <1>1, <2>1 DEF send, Flush, receive, Received, CallTimesOut, CloseWaited, stateVars, hbVars
  <2>2. CASE AsgiReceived(t)
    <3>1. UNCHANGED <<host, accepted, hb, probed>>
      BY <2>2 DEF AsgiReceived, hbVars
    <3>2. (closed' = TRUE /\ closeCode' = 1005) \/ UNCHANGED <<closed, closeCode>>
      BY <2>2 DEF AsgiReceived
    <3>. QED BY <3>1, <3>2 DEF Guarded, Spared
  <2>3. CASE close(t)
    <3>1. PICK c : close_call(t, c, "closing", "run")
      BY <2>3 DEF close
    <3>. QED BY <1>7, <2>3, <3>1 DEF close
  <2>. QED BY <1>9, <2>1, <2>2, <2>3 DEF TaskStep
<1>. QED BY <1>2, <1>3, <1>4, <1>5, <1>6, <1>8, <1>9

SocketInv == TypeInv /\ Receiving /\ Shut /\ HeldBack /\ Counted /\ Last /\ Noted /\ Guarded

\* The invariant is inductive, and no step drops a peer that was heard.
LEMMA SocketStep == SocketInv /\ [Next]_vars => SocketInv' /\ Spared
<1>. SUFFICES ASSUME SocketInv, [Next]_vars PROVE SocketInv' /\ Spared
  OBVIOUS
<1>0. TypeInv' /\ Receiving'
  BY TypeStep, ReceivingStep DEF SocketInv
<1>1. CASE UNCHANGED vars
  BY <1>0, <1>1 DEF SocketInv, vars, stateVars, inVars, outVars, hbVars, taskVars, Shut, HeldBack, Counted, Last,
     Noted, Guarded, Spared, Raw, Late, Parked
<1>2. CASE Next
  <2>1. Writes
    BY <1>2, ParserWrites, OthersWrite DEF SocketInv, Next
  <2>2. Holds
    BY <1>2, ParserHolds, OthersHold DEF SocketInv, Next
  <2>3. Guarded' /\ Spared
    BY <1>2, ParserGuards, OthersGuard DEF SocketInv, Next
  <2>4. Noted'
    BY <1>2, NotedStep DEF SocketInv
  <2>5. Shut' /\ Last'
    BY <2>1, ShutStep, LastStep DEF SocketInv
  <2>6. HeldBack' /\ Counted'
    BY <2>1, <2>2, CountedStep DEF SocketInv, Holds
  <2>. QED BY <1>0, <2>3, <2>4, <2>5, <2>6 DEF SocketInv
<1>. QED BY <1>1, <1>2

\* It holds at first,
LEMMA InitSocket == Init => SocketInv
<1>. SUFFICES ASSUME Init PROVE SocketInv
  OBVIOUS
<1>1. TypeInv
  BY InitTypes
<1>2. Receiving
  <2>0. <<>> \in Seq(Frames)
    BY NoElements, Zenon
  <2>1. Reassembly(<<>>) = NothingYet
    BY <2>0, ReassemblySteps, Zenon
  <2>2. <<>> \o <<>> = <<>> /\ Len(<<>>) = 0
    OBVIOUS
  <2>. QED BY <2>1, <2>2 DEF Init, Receiving, NothingYet, NoFrag
<1>3. tail = <<>> /\ Len(<<>>) = 0
  BY DEF Init
<1>4. Shut /\ Last
  BY <1>3 DEF Init, Shut, Last
<1>5. pc["handler"] = "start" /\ pc["helper"] = "idle" /\ Parked = {}
  BY DEF Init, Tasks, Parked
<1>6. HeldBack
  BY <1>5 DEF Init, HeldBack, Tasks
<1>7. Counted
  <2>1. Late("data") = {} /\ Late("pong") = {}
    BY <1>3 DEF Late
  <2>. QED BY <1>5, <2>1, FS_EmptySet DEF Counted
<1>8. Noted /\ Guarded
  <2>1. handlerExc = FALSE /\ raised = FALSE /\ accepted = FALSE /\ closeCode = 0 /\ hb.token = FALSE
    BY DEF Init, Unarmed
  <2>2. Noted
    BY <1>5, <2>1 DEF Noted
  <2>3. Guarded
    BY <2>1 DEF Guarded
  <2>. QED BY <2>2, <2>3
<1>. QED BY <1>1, <1>2, <1>4, <1>6, <1>7, <1>8 DEF SocketInv

\* and always.
LEMMA SocketAlways == Spec => []SocketInv
BY InitSocket, SocketStep, PTL DEF Spec

\* While a socket is open, what the application received and what waits for
\* it are the messages the peer completed: whole, in order, once (_parse_frame,
\* _enqueue_or_close, _raw_recv), for any payloads and any queue bound.
THEOREM NothingLost == Spec => []NothingLostWhileOpen
<1>1. SocketInv => NothingLostWhileOpen
  BY DEF SocketInv, Receiving, NothingLostWhileOpen, MessagesOf
<1>. QED BY <1>1, SocketAlways, PTL

\* One Close frame is written, with a code that may go on the wire, and after
\* it only what drain and back-pressure had held back (_needs_close,
\* _close_frame_sent, _raw_send).
THEOREM SocketClosesOnce == Spec => [](OneCloseFrame /\ CodesMayBeSent /\ SilentAfterClose)
<1>1. SocketInv => OneCloseFrame /\ CodesMayBeSent
  BY DEF SocketInv, Shut, OneCloseFrame, CodesMayBeSent
<1>2. SocketInv => SilentAfterClose
  BY CountedSilent DEF SocketInv, Last
<1>. QED BY <1>1, <1>2, SocketAlways, PTL

\* An error of the handler is reported when its task is done, although the
\* task may be cancelled while it closes the socket (_handler_exc,
\* _ws_task_done).
THEOREM HandlerErrorsReported == Spec => []ErrorReported
<1>1. SocketInv => ErrorReported
  BY DEF SocketInv, Noted, ErrorReported
<1>. QED BY <1>1, SocketAlways, PTL

\* An open hand-built socket keeps its heartbeat armed, and the heartbeat
\* drops no peer from which bytes came since the last PING (_heartbeat_tick).
THEOREM HeartbeatGuards == Spec => []HeartbeatArmed /\ HeartbeatSparesLive
<1>1. SocketInv => HeartbeatArmed
  BY DEF SocketInv, Guarded, HeartbeatArmed
<1>2. SocketInv /\ [Next]_vars => [(closed' /\ ~closed /\ closeCode' = 1006) => probed]_vars
  BY SocketStep DEF Spared
<1>. QED BY <1>1, <1>2, SocketAlways, PTL DEF Spec, HeartbeatSparesLive
=============================================================================
