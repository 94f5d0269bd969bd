-------------------------- MODULE ConnectionProofs ---------------------------
(***************************************************************************)
(* Proofs about the coordinator's connections: the life cycle of the       *)
(* threads that serve them, for any set of connections, and the frames     *)
(* they carry.                                                             *)
(*                                                                         *)
(* Frames stay frames, for every header and payload size, every cut TCP    *)
(* makes and any number of connections and requests.  The argument is      *)
(* about the cells a decoder has and those still on their way to it, taken *)
(* together: wherever the cut between the two is, they are whole frames in *)
(* the order in which they were sent, the last one possibly broken off,    *)
(* and they begin where a frame begins.                                    *)
(***************************************************************************)
EXTENDS Server, FrameStream, SequenceTheorems, TLAPS

(* What each thread may rely on.  Main knows from the exchange whether a   *)
(* Shutdown frame came first, and from its joins which threads are over; a *)
(* connection that is up is in the accept thread's hands or has a thread.  *)
ServerInv ==
  /\ ServerTypeOK
  /\ root = "bind" <=> acceptor = "none"
  /\ root \in {"serving", "shutdown"} /\ ~running => frameSeen
  /\ root \in {"skipped", "aborted"} => frameSeen
  /\ root \notin {"bind", "serving", "shutdown", "close", "skipped", "aborted",
                "thrown"} => ~listening
  /\ root # "thrown" =>
       (root \in {"join_conns", "stopped", "exited"} <=> acceptor = "joined")
  /\ acceptor = "none" => ~listening /\ \A c \in Client : handler[c] = "none"
  /\ (acceptor = "spawn") <=> (taken # NoConn)
  /\ \A c \in Client :
       /\ taken = c => handler[c] = "none" /\ peer[c] \in {"up", "down"}
       /\ peer[c] = "up" => taken = c \/ handler[c] = "recv"
       /\ peer[c] \in {"none", "pending"} => handler[c] = "none"
       /\ peer[c] = "pending" => listening
       /\ root \in {"stopped", "exited"} => handler[c] \in {"none", "joined"}
       /\ handler[c] = "joined" => root \in {"stopped", "exited"}

(* Before bind there are no threads and no connections. *)
LEMMA ServerInitial == ServerInit => ServerInv
BY ServerConstants, ZenonT(60) DEF ServerInit, ServerInv, ServerTypeOK

(* Every step of main, of the accept thread, of a connection's thread and  *)
(* of a client keeps the invariant.                                        *)
LEMMA ServerInductive == ServerInv /\ [ServerNext]_serverVars => ServerInv'
<1> SUFFICES ASSUME ServerInv, [ServerNext]_serverVars PROVE ServerInv'
  OBVIOUS
<1> USE ServerConstants DEF ServerInv, ServerTypeOK, Ended, acceptVars
<1>1. CASE Bind
  BY <1>1 DEF Bind
<1>2. CASE StopServing
  BY <1>2 DEF StopServing
<1>3. CASE Exchange
  BY <1>3, ZenonT(60) DEF Exchange
<1>4. CASE CloseListener
  BY <1>4, ZenonT(60) DEF CloseListener
<1>5. CASE JoinAcceptor
  BY <1>5 DEF JoinAcceptor
<1>6. CASE JoinConnections
  BY <1>6, SMTT(30) DEF JoinConnections
<1>7. CASE Destroy
  <2>1. CASE root = "stopped"
    <3>1. ~Joinable
      BY <2>1 DEF Joinable
    <3> QED
      BY <1>7, <2>1, <3>1 DEF Destroy
  <2>2. CASE root = "skipped"
    <3>1. Joinable
      BY <2>2 DEF Joinable
    <3> QED
      BY <1>7, <2>2, <3>1 DEF Destroy
  <2> QED
    BY <1>7, <2>1, <2>2 DEF Destroy
<1>8. CASE TestRunning
  BY <1>8 DEF TestRunning
<1>9. CASE AcceptFails
  BY <1>9 DEF AcceptFails
<1>10. CASE Spawn
  BY <1>10 DEF Spawn
<1>11. ASSUME NEW c \in Client, AcceptReturns(c) PROVE ServerInv'
  BY <1>11 DEF AcceptReturns
<1>12. ASSUME NEW c \in Client, HandleShutdown(c) PROVE ServerInv'
  BY <1>12, ZenonT(60) DEF HandleShutdown
<1>13. ASSUME NEW c \in Client, DecodeThrows(c) PROVE ServerInv'
  BY <1>13, ZenonT(60) DEF DecodeThrows
<1>14. ASSUME NEW c \in Client, Lose(c) PROVE ServerInv'
  BY <1>14 DEF Lose
<1>15. ASSUME NEW c \in Client, Erase(c) PROVE ServerInv'
  BY <1>15 DEF Erase
<1>16. ASSUME NEW c \in Client, Arrive(c) PROVE ServerInv'
  BY <1>16 DEF Arrive
<1>17. ASSUME NEW c \in Client, Leave(c) PROVE ServerInv'
  BY <1>17 DEF Leave
<1>18. CASE UNCHANGED serverVars
  BY <1>18 DEF serverVars
<1> QED
  BY ZenonT(60), <1>1, <1>2, <1>3, <1>4, <1>5, <1>6, <1>7, <1>8, <1>9, <1>10, <1>11, <1>12,
     <1>13, <1>14, <1>15, <1>16, <1>17, <1>18 DEF ServerNext, RootStep, AcceptStep

(* So the invariant holds at every moment of the server's life. *)
LEMMA ServerAlways == ServerSpec => []ServerInv
BY ServerInitial, ServerInductive, PTL DEF ServerSpec

(* Once shutdown has stopped the server nothing of it is left, however     *)
(* many connections there are and whenever they came.                      *)
THEOREM ServerStoppedForGood == ServerSpec => []StoppedForGood
<1>1. ASSUME ServerInv, root \in {"stopped", "exited"}
      PROVE  /\ acceptor = "joined" /\ taken = NoConn
             /\ \A c \in Client : handler[c] \in {"none", "joined"} /\ peer[c] \in {"none", "down"}
             /\ conns = {}
  <2>1. acceptor = "joined" /\ taken = NoConn
    BY <1>1 DEF ServerInv
  <2>2. ASSUME NEW c \in Client
        PROVE  handler[c] \in {"none", "joined"} /\ peer[c] \in {"none", "down"}
    BY <1>1, <2>1, ServerConstants DEF ServerInv, ServerTypeOK
  <2>3. conns = {}
    BY <1>1, <2>2 DEF ServerInv, ServerTypeOK
  <2> QED
    BY <2>1, <2>2, <2>3
<1>2. ServerInv => StoppedForGood
  BY <1>1 DEF StoppedForGood
<1> QED
  BY <1>2, ServerAlways, PTL

(* Without a Shutdown frame the coordinator is never destroyed with a      *)
(* thread still joinable, however many connections there are and whichever *)
(* of them are being accepted, served or lost.                             *)
THEOREM ServerAbortNeedsFrame == ServerSpec => []AbortNeedsFrame
<1>1. ServerInv => AbortNeedsFrame
  BY DEF ServerInv, AbortNeedsFrame
<1> QED
  BY <1>1, ServerAlways, PTL

-----------------------------------------------------------------------------
(* The cells of frame f that s holds where f should begin. *)
Starts(s, i, f) ==
  \A l \in 1 .. Total(f) : i + l - 1 <= Len(s) => s[i + l - 1] = <<f, l>>

(* Every frame in s that begins goes on to its end or to the end of s, and *)
(* after frame q[m] comes frame q[m + 1].                                  *)
InOrder(s, q) ==
  \A i \in 1 .. Len(s) :
    /\ s[i][2] = 1 => Starts(s, i, s[i][1])
    /\ s[i][2] = Total(s[i][1]) /\ i < Len(s) =>
         \E m \in 1 .. Len(q) - 1 : q[m] = s[i][1] /\ s[i + 1] = <<q[m + 1], 1>>

(* The first cell of s is the first of frame q[k + 1]. *)
BeginsAfter(s, q, k) == s # <<>> => k < Len(q) /\ s[1] = <<q[k + 1], 1>>

(* The last cell of s is the last of the last frame of q; none is missing. *)
Complete(s, q, k) ==
  IF s = <<>> THEN k = Len(q)
  ELSE q # <<>> /\ s[Len(s)] = <<q[Len(q)], Total(q[Len(q)])>>

(* What is on its way to a connection's thread or waits in its buffer. *)
Inbound(c) == buffer[c] \o up[c]

(* Requests on a connection have increasing numbers. *)
Numbered(c) ==
  /\ \A i, j \in 1 .. Len(sent[c]) : i < j => sent[c][i].id < sent[c][j].id
  /\ \A i \in 1 .. Len(sent[c]) :
       sent[c][i].id <= IF c = Peer THEN Len(sent[c]) ELSE asked

ThreadInv(c) ==
  /\ Len(handled[c]) <= Len(sent[c])
  /\ \A i \in 1 .. Len(handled[c]) :
       handled[c][i] = sent[c][i] /\ handled[c][i].fault = "none"
  /\ Numbered(c)
  /\ InOrder(Inbound(c), sent[c])
  /\ BeginsAfter(Inbound(c), sent[c], Len(handled[c]))
  /\ link[c] = "up" => Complete(Inbound(c), sent[c], Len(handled[c]))
  /\ thread[c] = "recv" => Decode(buffer[c]) = "more"
  /\ link[c] = "closed" =>
       /\ thread[c] = "none"
       /\ <<up[c], down[c], buffer[c], sent[c], handled[c]>>
            = <<<<>>, <<>>, <<>>, <<>>, <<>>>>

(* s holds the first cells of frame g, as far as it goes. *)
Piece(s, g) == Len(s) <= Total(g) /\ \A i \in 1 .. Len(s) : s[i] = <<g, i>>

(* What is on its way to the session or waits in its buffer. *)
Answer == decoder \o down[sock]

(* There is at most one reply, and it answers the request in hand; or it   *)
(* is the rest of one that broke off with the connection, and will never   *)
(* be a whole frame.  While the connection is up the request is either     *)
(* unanswered or the whole answer is on its way.                           *)
SessionInv ==
  /\ Decode(decoder) = "more"
  /\ session # "idle" => sock # 0
  /\ ReplyMatches
  /\ sock # 0 =>
       /\ link[sock] # "closed"
       /\ session = "idle" => down[sock] = <<>>
       /\ Answer # <<>> =>
            \E g \in Frame :
              /\ g.fault = "none" /\ Piece(Answer, g)
              /\ \/ g.id = asked /\ (link[sock] = "up" => Len(Answer) = Total(g))
                 \/ link[sock] # "up" /\ down[sock] = <<>> /\ Len(Answer) < Total(g)
       /\ link[sock] = "up" =>
            IF session # "idle" /\ Answer = <<>>
            THEN /\ Len(sent[sock]) = Len(handled[sock]) + 1
                 /\ sent[sock][Len(sent[sock])].id = asked
            ELSE /\ Len(sent[sock]) = Len(handled[sock])
                 /\ session = "idle" => Answer = <<>>

StreamInv == StreamTypeOK /\ (\A c \in Conn : ThreadInv(c)) /\ SessionInv

-----------------------------------------------------------------------------
(* Frames and cells. *)
LEMMA FrameSize ==
  ASSUME NEW f \in Frame
  PROVE  /\ Total(f) \in Nat /\ Total(f) >= HeaderSize
         /\ HeaderSize \in Nat /\ HeaderSize > 0
         /\ f.id \in 1 .. MaxFrames /\ f.fault \in {"header", "body", "none"}
<1>1. f.id \in 1 .. MaxFrames /\ f.size \in Sizes /\ f.fault \in Faults \cup {"none"}
  BY Zenon DEF Frame
<1>2. f.fault \in {"header", "body", "none"}
  BY <1>1, FrameConstants, Zenon
<1>3. f.size \in Nat
  BY <1>1, FrameConstants, Zenon
<1>4. HeaderSize \in Nat /\ HeaderSize > 0
  BY FrameConstants
<1>5. QED
  BY <1>1, <1>2, <1>3, <1>4 DEF Total

(* What push_back leaves at the end of a sequence. *)
LEMMA LastAppended ==
  ASSUME NEW S, NEW s \in Seq(S), NEW e \in S
  PROVE  Len(Append(s, e)) = Len(s) + 1 /\ Append(s, e)[Len(Append(s, e))] = e
BY AppendProperties

(* A piece of a frame is where that frame starts. *)
LEMMA PieceStarts ==
  ASSUME NEW s \in Seq(Cell), NEW g \in Frame, Piece(s, g)
  PROVE  Starts(s, 1, g)
<1>1. Len(s) \in Nat /\ Total(g) \in Nat
  BY FrameSize, LenProperties, ZenonT(60)
<1>2. \A l \in 1 .. Total(g) : 1 + l - 1 = l /\ (l <= Len(s) => l \in 1 .. Len(s))
  BY <1>1, SMTT(30)
<1>3. QED
  BY <1>2, ZenonT(60) DEF Starts, Piece

LEMMA CellParts ==
  ASSUME NEW x \in Cell
  PROVE  x[1] \in Frame /\ x[2] \in 1 .. Total(x[1]) /\ x = <<x[1], x[2]>>
BY DEF Cell

LEMMA FrameCell ==
  ASSUME NEW f \in Frame, NEW l \in 1 .. Total(f)
  PROVE  <<f, l>> \in Cell
BY FrameSize DEF Cell

(* An encoded frame is the sequence of its cells. *)
LEMMA EncodedFrame ==
  ASSUME NEW f \in Frame
  PROVE  /\ Encode(f) \in Seq(Cell)
         /\ Len(Encode(f)) = Total(f)
         /\ \A l \in 1 .. Total(f) : Encode(f)[l] = <<f, l>>
<1>1. Total(f) \in Nat
  BY FrameSize, Zenon
<1>2. \A l \in 1 .. Total(f) : <<f, l>> \in Cell
  BY FrameCell, Zenon
<1>3. Encode(f) \in [1 .. Total(f) -> Cell]
  BY <1>2, Zenon DEF Encode
<1>4. Encode(f) \in Seq(Cell)
  BY <1>1, <1>3, SeqDef, Zenon
<1>5. Len(Encode(f)) = Total(f)
  BY <1>1, <1>3, <1>4, LenProperties
<1>6. QED
  BY <1>4, <1>5, Zenon DEF Encode

(* What decode_one makes of a buffer that begins with a frame. *)
LEMMA DecodeResult ==
  ASSUME NEW b \in Seq(Cell), NEW f \in Frame, b # <<>>, Starts(b, 1, f)
  PROVE  /\ b[1] = <<f, 1>>
         /\ Decode(b) = IF Len(b) < HeaderSize THEN "more"
                        ELSE IF f.fault = "header" THEN "malformed"
                        ELSE IF Len(b) < Total(f) THEN "more"
                        ELSE IF f.fault = "none" THEN "frame" ELSE "malformed"
<1>1. Len(b) \in Nat \ {0}
  BY EmptySeq, Zenon
<1>2. b[1] = <<f, 1>>
  BY <1>1, FrameSize DEF Starts
<1>3. ASSUME Len(b) >= Total(f)
      PROVE  SubSeq(b, 1, Total(f)) = Encode(f)
  <2>1. \A l \in 1 .. Total(f) : b[l] = <<f, l>>
    BY <1>1, <1>3, FrameSize DEF Starts
  <2>2. \A l \in 1 .. Total(f) : b[l] \in Cell
    BY <2>1, FrameCell, Zenon
  <2>3. /\ SubSeq(b, 1, Total(f)) \in Seq(Cell)
        /\ Len(SubSeq(b, 1, Total(f))) = Total(f)
        /\ \A l \in 1 .. Total(f) : SubSeq(b, 1, Total(f))[l] = b[l]
    BY <2>2, FrameSize, SubSeqProperties
  <2>4. QED
    BY <2>1, <2>3, EncodedFrame, SeqEqual, ZenonT(60)
<1>4. QED
  BY <1>1, <1>2, <1>3, FrameSize DEF Decode, DecodeHeaded

LEMMA DecodeEmpty == Decode(<<>>) = "more"
BY FrameConstants DEF Decode
-----------------------------------------------------------------------------
(* What happens to the cells between a sender and a decoder. *)
LEMMA FirstFrame ==
  ASSUME NEW s \in Seq(Cell), NEW q \in Seq(Frame), NEW k \in Nat,
         InOrder(s, q), BeginsAfter(s, q, k), s # <<>>
  PROVE  q[k + 1] \in Frame /\ k + 1 \in 1 .. Len(q) /\ Starts(s, 1, q[k + 1])
<1>1. Len(s) \in Nat \ {0} /\ Len(q) \in Nat
  BY EmptySeq, LenProperties, Zenon
<1>2. k + 1 \in 1 .. Len(q) /\ s[1] = <<q[k + 1], 1>>
  BY <1>1 DEF BeginsAfter
<1>3. q[k + 1] \in Frame
  BY <1>2, ElementOfSeq, Zenon
<1>4. Starts(s, 1, q[k + 1])
  BY <1>1, <1>2 DEF InOrder
<1>5. QED
  BY <1>2, <1>3, <1>4, Zenon

(* The last of what is on its way is lost. *)
LEMMA CutKeeps ==
  ASSUME NEW s \in Seq(Cell), NEW q \in Seq(Frame), NEW k \in Nat,
         InOrder(s, q), BeginsAfter(s, q, k),
         NEW t \in Seq(Cell), Len(t) <= Len(s), \A i \in 1 .. Len(t) : t[i] = s[i]
  PROVE  InOrder(t, q) /\ BeginsAfter(t, q, k)
<1>1. Len(s) \in Nat /\ Len(t) \in Nat
  BY LenProperties, Zenon
<1>2. BeginsAfter(t, q, k)
  <2>1. CASE t = <<>>
    BY <2>1, Zenon DEF BeginsAfter
  <2>2. CASE t # <<>>
    <3>1. Len(t) >= 1
      BY <1>1, <2>2, EmptySeq
    <3>2. s # <<>> /\ t[1] = s[1]
      BY <1>1, <3>1, EmptySeq
    <3>3. QED
      BY <3>2, Zenon DEF BeginsAfter
  <2>3. QED
    BY <2>1, <2>2, Zenon
<1>3. ASSUME NEW i \in 1 .. Len(t)
      PROVE  /\ t[i][2] = 1 => Starts(t, i, t[i][1])
             /\ t[i][2] = Total(t[i][1]) /\ i < Len(t) =>
                  \E m \in 1 .. Len(q) - 1 : q[m] = t[i][1] /\ t[i + 1] = <<q[m + 1], 1>>
  <2>1. i \in 1 .. Len(s) /\ t[i] = s[i]
    BY <1>1
  <2>2. ASSUME t[i][2] = 1
        PROVE  Starts(t, i, t[i][1])
    <3>1. Starts(s, i, t[i][1])
      BY <2>1, <2>2, Zenon DEF InOrder
    <3>2. t[i][1] \in Frame
      BY <1>1, CellParts, ElementOfSeq, Zenon
    <3>3. PICK f \in Frame : f = t[i][1] /\ Total(f) \in Nat
      BY <3>2, FrameSize, Zenon
    <3>4. ASSUME NEW l \in 1 .. Total(f), i + l - 1 <= Len(t)
          PROVE  t[i + l - 1] = <<f, l>>
      <4>1. i + l - 1 \in 1 .. Len(t) /\ i + l - 1 <= Len(s)
        BY <1>1, <3>3, <3>4
      <4>2. QED
        BY <3>1, <3>3, <4>1, Zenon DEF Starts
    <3>5. QED
      BY <3>3, <3>4, Zenon DEF Starts
  <2>3. ASSUME t[i][2] = Total(t[i][1]), i < Len(t)
        PROVE  \E m \in 1 .. Len(q) - 1 : q[m] = t[i][1] /\ t[i + 1] = <<q[m + 1], 1>>
    <3>1. i < Len(s) /\ t[i + 1] = s[i + 1]
      BY <1>1, <2>3, SMTT(30)
    <3>2. QED
      BY <2>1, <2>3, <3>1, Zenon DEF InOrder
  <2>4. QED
    BY <2>2, <2>3, Zenon
<1>4. QED
  BY <1>2, <1>3, Zenon DEF InOrder

(* A frame is sent. *)
LEMMA SendKeeps ==
  ASSUME NEW s \in Seq(Cell), NEW q \in Seq(Frame), NEW k \in Nat, NEW f \in Frame,
         InOrder(s, q), BeginsAfter(s, q, k), Complete(s, q, k),
         NEW t, t = s \o Encode(f), NEW r, r = Append(q, f)
  PROVE  InOrder(t, r) /\ BeginsAfter(t, r, k) /\ Complete(t, r, k)
<1>1. Len(s) \in Nat /\ Len(q) \in Nat /\ Total(f) \in Nat \ {0}
  BY LenProperties, FrameSize
<1>2. /\ t \in Seq(Cell) /\ Len(t) = Len(s) + Total(f) /\ t # <<>>
      /\ \A i \in 1 .. Len(s) : t[i] = s[i]
      /\ \A l \in 1 .. Total(f) : t[Len(s) + l] = <<f, l>>
  <2>1. /\ t \in Seq(Cell) /\ Len(t) = Len(s) + Total(f)
        /\ \A i \in 1 .. Len(s) + Total(f) :
             t[i] = IF i <= Len(s) THEN s[i] ELSE Encode(f)[i - Len(s)]
    BY EncodedFrame, ConcatProperties, SMTT(30)
  <2>2. t # <<>>
    BY <1>1, <2>1, EmptySeq
  <2>3. \A l \in 1 .. Total(f) : Encode(f)[l] = <<f, l>>
    BY EncodedFrame, Zenon
  <2>4. QED
    BY <1>1, <2>1, <2>2, <2>3, SMTT(30)
<1>3. /\ r \in Seq(Frame) /\ Len(r) = Len(q) + 1 /\ r # <<>>
      /\ \A i \in 1 .. Len(q) : r[i] = q[i]
      /\ r[Len(q) + 1] = f
  BY AppendProperties, SMTT(30)
<1>4. Complete(t, r, k)
  <2>1. t[Len(t)] = <<f, Total(f)>>
    <3>1. Total(f) \in 1 .. Total(f) /\ Len(t) = Len(s) + Total(f)
      BY <1>1, <1>2
    <3>2. QED
      BY <1>2, <3>1, Zenon
  <2>2. r[Len(r)] = f
    BY <1>3, Zenon
  <2>3. QED
    BY <1>2, <1>3, <2>1, <2>2, Zenon DEF Complete
<1>5. BeginsAfter(t, r, k)
  <2>1. CASE s = <<>>
    <3>1. k = Len(q) /\ Len(s) = 0
      BY <2>1, EmptySeq, Zenon DEF Complete
    <3>2. t[1] = <<f, 1>>
      BY <1>1, <1>2, <3>1
    <3>3. QED
      BY <1>1, <1>3, <3>1, <3>2 DEF BeginsAfter
  <2>2. CASE s # <<>>
    <3>1. Len(s) >= 1
      BY <1>1, <2>2, EmptySeq
    <3>2. k < Len(q) /\ s[1] = <<q[k + 1], 1>> /\ t[1] = s[1]
      BY <1>1, <1>2, <2>2, <3>1 DEF BeginsAfter
    <3>3. k < Len(r) /\ r[k + 1] = q[k + 1]
      BY <1>1, <1>3, <3>2, SMTT(30)
    <3>4. QED
      BY <3>2, <3>3, Zenon DEF BeginsAfter
  <2>3. QED
    BY <2>1, <2>2, Zenon
<1>6. ASSUME NEW i \in 1 .. Len(t), t[i][2] = 1
      PROVE  Starts(t, i, t[i][1])
  <2>1. CASE i <= Len(s)
    <3>1. i \in 1 .. Len(s) /\ t[i] = s[i]
      BY <1>1, <1>2, <2>1
    <3> DEFINE g == s[i][1]
    <3>2. g \in Frame /\ Starts(s, i, g)
      BY <1>6, <3>1, ElementOfSeq, CellParts, ZenonT(60) DEF InOrder
    <3>3. Total(g) \in Nat
      BY <3>2, FrameSize, Zenon
    <3>4. i + Total(g) - 1 <= Len(s)
      <4>1. s # <<>> /\ q # <<>> /\ s[Len(s)] = <<q[Len(q)], Total(q[Len(q)])>>
        BY <1>1, <3>1, EmptySeq DEF Complete
      <4>2. SUFFICES ASSUME i + Total(g) - 1 > Len(s)
                     PROVE  FALSE
        BY <1>1, <3>1, <3>3
      <4>3. Len(s) - i + 1 \in 1 .. Total(g) /\ i + (Len(s) - i + 1) - 1 = Len(s)
        BY <1>1, <3>1, <3>3, <4>2
      <4>4. s[Len(s)] = <<g, Len(s) - i + 1>>
        BY <3>2, <4>3 DEF Starts
      <4>5. Len(s) - i + 1 = Total(g)
        BY <4>1, <4>4
      <4>6. QED
        BY <1>1, <3>1, <3>3, <4>2, <4>5
    <3> HIDE DEF g
    <3>5. Starts(t, i, g)
      <4> SUFFICES ASSUME NEW l \in 1 .. Total(g)
                   PROVE  t[i + l - 1] = <<g, l>>
        BY Zenon DEF Starts
      <4>1. i + l - 1 \in 1 .. Len(s)
        BY <1>1, <3>1, <3>3, <3>4, SMTT(30)
      <4>2. QED
        BY <1>2, <3>2, <4>1 DEF Starts
    <3>6. QED
      BY <3>1, <3>5, Zenon DEF g
  <2>2. CASE i > Len(s)
    <3>1. PICK j \in 1 .. Total(f) : i = Len(s) + j
      <4>1. i - Len(s) \in 1 .. Total(f) /\ i = Len(s) + (i - Len(s))
        BY <1>1, <1>2, <2>2
      <4>2. QED
        BY <4>1, Zenon
    <3>2. j = 1 /\ t[i][1] = f
      BY <1>2, <1>6, <3>1, SMTT(30)
    <3>3. Starts(t, i, f)
      <4> SUFFICES ASSUME NEW l \in 1 .. Total(f)
                   PROVE  t[i + l - 1] = <<f, l>>
        BY Zenon DEF Starts
      <4>1. i + l - 1 = Len(s) + l
        BY <1>1, <3>1, <3>2
      <4>2. QED
        BY <1>2, <4>1, Zenon
    <3>4. QED
      BY <3>2, <3>3, Zenon
  <2>3. QED
    BY <1>1, <2>1, <2>2
<1>7. ASSUME NEW i \in 1 .. Len(t), t[i][2] = Total(t[i][1]), i < Len(t)
      PROVE  \E m \in 1 .. Len(r) - 1 : r[m] = t[i][1] /\ t[i + 1] = <<r[m + 1], 1>>
  <2>1. CASE i < Len(s)
    <3>1. i \in 1 .. Len(s) /\ t[i] = s[i] /\ t[i + 1] = s[i + 1]
      BY <1>1, <1>2, <2>1, SMTT(30)
    <3>2. PICK m \in 1 .. Len(q) - 1 : q[m] = s[i][1] /\ s[i + 1] = <<q[m + 1], 1>>
      BY <1>7, <2>1, <3>1, Zenon DEF InOrder
    <3>3. m \in 1 .. Len(r) - 1 /\ r[m] = q[m] /\ r[m + 1] = q[m + 1]
      BY <1>1, <1>3, SMTT(30)
    <3>4. QED
      BY <3>1, <3>2, <3>3
  <2>2. CASE i = Len(s)
    <3>1. s # <<>> /\ t[i] = s[i] /\ t[i + 1] = <<f, 1>>
      BY <1>1, <1>2, <2>2, EmptySeq, SMTT(30)
    <3>2. q # <<>> /\ s[i] = <<q[Len(q)], Total(q[Len(q)])>>
      BY <2>2, <3>1, Zenon DEF Complete
    <3>3. Len(q) \in 1 .. Len(r) - 1 /\ r[Len(q)] = q[Len(q)] /\ r[Len(q) + 1] = f
      BY <1>1, <1>3, <3>2, EmptySeq
    <3>4. r[Len(q)] = t[i][1] /\ t[i + 1] = <<r[Len(q) + 1], 1>>
      BY <3>1, <3>2, <3>3, SMTT(30)
    <3>5. QED
      BY <3>3, <3>4, Zenon
  <2>3. CASE i > Len(s)
    <3>1. i - Len(s) \in 1 .. Total(f) /\ i = Len(s) + (i - Len(s)) /\ i - Len(s) < Total(f)
      BY <1>1, <1>2, <1>7, <2>3, SMTT(30)
    <3>2. t[i] = <<f, i - Len(s)>>
      BY <1>2, <3>1, Zenon
    <3>3. QED
      BY <1>1, <1>7, <3>1, <3>2
  <2>4. i < Len(s) \/ i = Len(s) \/ i > Len(s)
    BY <1>1
  <2>5. QED
    BY <2>1, <2>2, <2>3, <2>4, Zenon
<1>8. QED
  BY <1>4, <1>5, <1>6, <1>7, Zenon DEF InOrder

(* A position in a buffer, and the same position before the first n cells left. *)
LEMMA Position ==
  ASSUME NEW i \in Nat, NEW l \in Nat, NEW a \in Nat, i >= 1, l >= 1, i + l - 1 <= a
  PROVE  i + l - 1 \in 1 .. a
OBVIOUS
LEMMA Shifted ==
  ASSUME NEW n \in Nat, NEW i \in Nat, NEW l \in Nat
  PROVE  n + (i + l - 1) = n + i + l - 1
OBVIOUS
LEMMA ShiftedBound ==
  ASSUME NEW n \in Nat, NEW b \in Nat, NEW j \in Int, j <= b - n
  PROVE  n + j <= b
OBVIOUS

(* The first frame is handed over and leaves the buffer. *)
LEMMA DropKeeps ==
  ASSUME NEW s \in Seq(Cell), NEW q \in Seq(Frame), NEW k \in Nat,
         \A i, j \in 1 .. Len(q) : i < j => q[i].id < q[j].id,
         InOrder(s, q), BeginsAfter(s, q, k), s # <<>>,
         NEW n \in Nat, n = Total(q[k + 1]), n <= Len(s),
         NEW t \in Seq(Cell), Len(t) = Len(s) - n,
         \A i \in 1 .. Len(t) : t[i] = s[n + i]
  PROVE  /\ InOrder(t, q)
         /\ BeginsAfter(t, q, k + 1)
         /\ Complete(s, q, k) => Complete(t, q, k + 1)
<1>1. Len(s) \in Nat /\ Len(q) \in Nat /\ Len(t) \in Nat
  BY LenProperties, Zenon
<1>2. PICK f \in Frame : f = q[k + 1]
  BY FirstFrame, Zenon
<1>3. n \in Nat \ {0} /\ n = Total(f) /\ k + 1 \in 1 .. Len(q) /\ s[n] = <<f, n>>
  <2>1. n \in Nat \ {0} /\ n = Total(f)
    BY <1>2, FrameSize
  <2>2. Starts(s, 1, f) /\ k + 1 \in 1 .. Len(q)
    BY <1>2, FirstFrame, Zenon
  <2>3. n \in 1 .. Total(f) /\ 1 + n - 1 = n
    BY <2>1
  <2>4. s[n] = <<f, n>>
    BY <2>2, <2>3, Zenon DEF Starts
  <2>5. QED
    BY <2>1, <2>2, <2>4, Zenon
<1>4. ASSUME NEW m \in 1 .. Len(q), q[m] = f
      PROVE  m = k + 1
  <2>1. m \in Int /\ k + 1 \in Int
    OBVIOUS
  <2>2. q[m].id = q[k + 1].id /\ q[m].id \in Int
    BY <1>2, <1>4, FrameSize, SMTT(30)
  <2>3. ~(m < k + 1) /\ ~(k + 1 < m)
    BY <1>3, <2>2, SMTT(30)
  <2>4. QED
    BY <2>1, <2>3
<1>5. BeginsAfter(t, q, k + 1)
  <2> SUFFICES ASSUME t # <<>>
               PROVE  k + 1 < Len(q) /\ t[1] = <<q[k + 1 + 1], 1>>
    BY Zenon DEF BeginsAfter
  <2>1. Len(t) >= 1 /\ n \in 1 .. Len(s) /\ n < Len(s)
    BY <1>1, <1>3, EmptySeq, SMTT(30)
  <2>2. s[n][1] = f /\ s[n][2] = Total(s[n][1])
    BY <1>3
  <2>3. PICK m \in 1 .. Len(q) - 1 : q[m] = f /\ s[n + 1] = <<q[m + 1], 1>>
    BY <2>1, <2>2, Zenon DEF InOrder
  <2>4. m = k + 1
    BY <1>1, <1>4, <2>3, SMTT(30)
  <2>5. t[1] = s[n + 1]
    BY <1>1, <2>1
  <2>6. k + 1 < Len(q)
    BY <1>1, <2>3, <2>4
  <2>7. QED
    BY <2>3, <2>4, <2>5, <2>6, Zenon
<1>6. ASSUME Complete(s, q, k)
      PROVE  Complete(t, q, k + 1)
  <2>1. q # <<>> /\ s[Len(s)] = <<q[Len(q)], Total(q[Len(q)])>>
    BY <1>6, Zenon DEF Complete
  <2>2. CASE t = <<>>
    <3>1. Len(s) = n
      BY <1>1, <2>2, EmptySeq
    <3>2. q[Len(q)] = f
      BY <1>3, <2>1, <3>1
    <3>3. Len(q) \in 1 .. Len(q)
      BY <1>1, <1>3
    <3>4. QED
      BY <1>4, <2>2, <3>2, <3>3, Zenon DEF Complete
  <2>3. CASE t # <<>>
    <3>1. Len(t) \in 1 .. Len(t) /\ n + Len(t) = Len(s)
      BY <1>1, <2>3, EmptySeq, SMTT(30)
    <3>2. t[Len(t)] = s[Len(s)]
      BY <3>1, Zenon
    <3>3. QED
      BY <2>1, <2>3, <3>2, Zenon DEF Complete
  <2>4. QED
    BY <2>2, <2>3, Zenon
<1>7. ASSUME NEW i \in 1 .. Len(t)
      PROVE  /\ t[i][2] = 1 => Starts(t, i, t[i][1])
             /\ t[i][2] = Total(t[i][1]) /\ i < Len(t) =>
                  \E m \in 1 .. Len(q) - 1 : q[m] = t[i][1] /\ t[i + 1] = <<q[m + 1], 1>>
  <2>1. i \in Nat /\ i >= 1 /\ n + i \in 1 .. Len(s)
    BY <1>1, SMTT(30)
  <2>2. t[i][1] \in Frame /\ t[i] = s[n + i]
    BY ElementOfSeq, CellParts, Zenon
  <2>3. ASSUME t[i][2] = 1
        PROVE  Starts(t, i, t[i][1])
    <3>1. Starts(s, n + i, t[i][1])
      BY <2>1, <2>2, <2>3, Zenon DEF InOrder
    <3> SUFFICES ASSUME NEW l \in 1 .. Total(t[i][1]), i + l - 1 <= Len(t)
                 PROVE  t[i + l - 1] = <<t[i][1], l>>
      BY Zenon DEF Starts
    <3>2. Total(t[i][1]) \in Nat
      BY <2>2, FrameSize, Zenon
    <3>3. l \in Nat /\ l >= 1
      BY <3>2
    <3>4. i + l - 1 \in 1 .. Len(t) /\ n + (i + l - 1) = n + i + l - 1
          /\ n + i + l - 1 <= Len(s)
      <4>1. i + l - 1 \in 1 .. Len(t)
        BY <1>1, <2>1, <3>3, Position, Zenon
      <4>2. n + (i + l - 1) = n + i + l - 1
        BY <2>1, <3>3, Shifted, ZenonT(60)
      <4>3. i + l - 1 \in Int
        BY <2>1, <3>3
      <4>4. n + (i + l - 1) <= Len(s)
        BY <1>1, <4>3, ShiftedBound, Zenon
      <4>5. QED
        BY <4>1, <4>2, <4>4, Zenon
    <3>5. t[i + l - 1] = s[n + i + l - 1]
      BY <3>4, Zenon
    <3>6. QED
      BY <3>1, <3>4, <3>5, Zenon DEF Starts
  <2>4. ASSUME t[i][2] = Total(t[i][1]), i < Len(t)
        PROVE  \E m \in 1 .. Len(q) - 1 : q[m] = t[i][1] /\ t[i + 1] = <<q[m + 1], 1>>
    <3>1. i + 1 \in 1 .. Len(t) /\ n + (i + 1) = n + i + 1 /\ n + i < Len(s)
      BY <1>1, <2>4, SMTT(30)
    <3>2. t[i + 1] = s[n + i + 1]
      BY <3>1, Zenon
    <3>3. QED
      BY <2>1, <2>2, <2>4, <3>1, <3>2, ZenonT(60) DEF InOrder
  <2>5. QED
    BY <2>3, <2>4, Zenon
<1>8. QED
  BY <1>5, <1>6, <1>7, Zenon DEF InOrder
LEMMA Pieces ==
  ASSUME NEW u \in Seq(Cell), NEW n \in 0 .. Len(u)
  PROVE  /\ SubSeq(u, 1, n) \in Seq(Cell)
         /\ Len(SubSeq(u, 1, n)) = n
         /\ \A i \in 1 .. n : SubSeq(u, 1, n)[i] = u[i]
         /\ SubSeq(u, n + 1, Len(u)) \in Seq(Cell)
         /\ Len(SubSeq(u, n + 1, Len(u))) = Len(u) - n
         /\ \A i \in 1 .. Len(u) - n : SubSeq(u, n + 1, Len(u))[i] = u[n + i]
<1>1. Len(u) \in Nat /\ n \in Int /\ n >= 0 /\ n <= Len(u)
  BY LenProperties
<1>2. \A i \in 1 .. Len(u) : u[i] \in Cell
  BY ElementOfSeq, Zenon
<1>3. /\ SubSeq(u, 1, n) \in Seq(Cell)
      /\ Len(SubSeq(u, 1, n)) = IF 1 <= n THEN n - 1 + 1 ELSE 0
      /\ \A i \in 1 .. n - 1 + 1 : SubSeq(u, 1, n)[i] = u[1 + i - 1]
  <2>1. 1 \in Int /\ \A i \in 1 .. n : u[i] \in Cell
    BY <1>1, <1>2
  <2>2. QED
    BY <1>1, <2>1, SubSeqProperties
<1>4. /\ SubSeq(u, n + 1, Len(u)) \in Seq(Cell)
      /\ Len(SubSeq(u, n + 1, Len(u))) = IF n + 1 <= Len(u) THEN Len(u) - (n + 1) + 1 ELSE 0
      /\ \A i \in 1 .. Len(u) - (n + 1) + 1 : SubSeq(u, n + 1, Len(u))[i] = u[n + 1 + i - 1]
  <2>1. n + 1 \in Int /\ Len(u) \in Int /\ \A i \in n + 1 .. Len(u) : u[i] \in Cell
    BY <1>1, <1>2
  <2>2. QED
    BY <2>1, SubSeqProperties
<1>5. QED
  BY <1>1, <1>3, <1>4

LEMMA Associative ==
  ASSUME NEW a \in Seq(Cell), NEW b \in Seq(Cell), NEW e \in Seq(Cell)
  PROVE  a \o (b \o e) = (a \o b) \o e
BY ConcatAssociative, SMTT(30)

(* A chunk that arrives moves from the network to the buffer. *)
LEMMA ChunkMoves ==
  ASSUME NEW b \in Seq(Cell), NEW u \in Seq(Cell), NEW n \in 0 .. Len(u)
  PROVE  /\ b \o SubSeq(u, 1, n) \in Seq(Cell)
         /\ (b \o SubSeq(u, 1, n)) \o SubSeq(u, n + 1, Len(u)) = b \o u
<1>1. SubSeq(u, 1, n) \in Seq(Cell) /\ SubSeq(u, n + 1, Len(u)) \in Seq(Cell)
  BY Pieces, Zenon
<1>2. SubSeq(u, 1, n) \o SubSeq(u, n + 1, Len(u)) = SubSeq(u, 1, Len(u))
  <2>1. Len(u) \in Nat
    BY LenProperties, Zenon
  <2>2. 1 \in 1 .. Len(u) + 1 /\ n \in 1 - 1 .. Len(u) /\ Len(u) \in n .. Len(u)
    BY <2>1
  <2>3. QED
    BY <2>2, ConcatAdjacentSubSeq, Zenon
<1>3. SubSeq(u, 1, Len(u)) = u
  BY SubSeqFull, Zenon
<1>4. b \o SubSeq(u, 1, n) \in Seq(Cell)
  BY <1>1, ConcatProperties, Zenon
<1>5. b \o (SubSeq(u, 1, n) \o SubSeq(u, n + 1, Len(u)))
        = (b \o SubSeq(u, 1, n)) \o SubSeq(u, n + 1, Len(u))
  BY <1>1, Associative, ZenonT(60)
<1>6. QED
  BY <1>2, <1>3, <1>4, <1>5, Zenon

(* The first n cells leave the buffer. *)
LEMMA BufferDrops ==
  ASSUME NEW b \in Seq(Cell), NEW u \in Seq(Cell), NEW n \in 0 .. Len(b)
  PROVE  \E t \in Seq(Cell) :
           /\ t = SubSeq(b, n + 1, Len(b)) \o u
           /\ Len(t) = Len(b \o u) - n
           /\ \A i \in 1 .. Len(t) : t[i] = (b \o u)[n + i]
<1> DEFINE r == SubSeq(b, n + 1, Len(b))
<1>1. /\ r \in Seq(Cell) /\ Len(r) = Len(b) - n
      /\ \A i \in 1 .. Len(b) - n : r[i] = b[n + i]
  BY Pieces, Zenon
<1>2. PICK t : t = r \o u
  BY Zenon
<1> HIDE DEF r
<1>3. Len(b) \in Nat /\ Len(u) \in Nat
  BY LenProperties, Zenon
<1>4. /\ t \in Seq(Cell) /\ Len(t) = Len(r) + Len(u)
      /\ \A i \in 1 .. Len(r) + Len(u) : t[i] = IF i <= Len(r) THEN r[i] ELSE u[i - Len(r)]
  <2>1. /\ r \o u \in Seq(Cell) /\ Len(r \o u) = Len(r) + Len(u)
        /\ \A i \in 1 .. Len(r) + Len(u) :
             (r \o u)[i] = IF i <= Len(r) THEN r[i] ELSE u[i - Len(r)]
    BY <1>1, ConcatProperties, Zenon
  <2>2. QED
    BY <1>2, <2>1, Zenon
<1>5. /\ Len(b \o u) = Len(b) + Len(u)
      /\ \A i \in 1 .. Len(b) + Len(u) :
           (b \o u)[i] = IF i <= Len(b) THEN b[i] ELSE u[i - Len(b)]
  BY ConcatProperties, Zenon
<1>6. ASSUME NEW i \in 1 .. Len(t)
      PROVE  t[i] = (b \o u)[n + i]
  <2>1. i \in 1 .. Len(r) + Len(u) /\ n + i \in 1 .. Len(b) + Len(u)
        /\ (i <= Len(r) <=> n + i <= Len(b)) /\ i - Len(r) = n + i - Len(b)
    BY <1>1, <1>3, <1>4
  <2>2. CASE i <= Len(r)
    <3>1. i \in 1 .. Len(b) - n
      BY <1>1, <1>3, <2>2
    <3>2. QED
      BY <1>1, <1>4, <1>5, <2>1, <2>2, <3>1, Zenon
  <2>3. CASE ~(i <= Len(r))
    BY <1>4, <1>5, <2>1, <2>3, SMTT(30)
  <2>4. QED
    BY <2>2, <2>3, Zenon
<1>7. Len(t) = Len(b \o u) - n
  BY <1>1, <1>3, <1>4, <1>5
<1>8. QED
  BY <1>2, <1>4, <1>6, <1>7, Zenon DEF r

(* The last cells on their way are lost. *)
LEMMA TailLost ==
  ASSUME NEW b \in Seq(Cell), NEW u \in Seq(Cell), NEW n \in 0 .. Len(u)
  PROVE  \E t \in Seq(Cell) :
           /\ t = b \o SubSeq(u, 1, n)
           /\ Len(t) <= Len(b \o u)
           /\ \A i \in 1 .. Len(t) : t[i] = (b \o u)[i]
<1> DEFINE v == SubSeq(u, 1, n)
<1>1. v \in Seq(Cell) /\ Len(v) = n /\ \A i \in 1 .. n : v[i] = u[i]
  BY Pieces, Zenon
<1>2. PICK t : t = b \o v
  BY Zenon
<1> HIDE DEF v
<1>3. Len(b) \in Nat /\ Len(u) \in Nat
  BY LenProperties, Zenon
<1>4. /\ t \in Seq(Cell) /\ Len(t) = Len(b) + n
      /\ \A i \in 1 .. Len(b) + n : t[i] = IF i <= Len(b) THEN b[i] ELSE v[i - Len(b)]
  <2>1. /\ b \o v \in Seq(Cell) /\ Len(b \o v) = Len(b) + Len(v)
        /\ \A i \in 1 .. Len(b) + Len(v) :
             (b \o v)[i] = IF i <= Len(b) THEN b[i] ELSE v[i - Len(b)]
    BY <1>1, ConcatProperties, Zenon
  <2>2. QED
    BY <1>1, <1>2, <2>1, Zenon
<1>5. /\ Len(b \o u) = Len(b) + Len(u)
      /\ \A i \in 1 .. Len(b) + Len(u) :
           (b \o u)[i] = IF i <= Len(b) THEN b[i] ELSE u[i - Len(b)]
  BY ConcatProperties, Zenon
<1>6. ASSUME NEW i \in 1 .. Len(t)
      PROVE  t[i] = (b \o u)[i]
  <2>1. i \in 1 .. Len(b) + n /\ i \in 1 .. Len(b) + Len(u)
        /\ (~(i <= Len(b)) => i - Len(b) \in 1 .. n)
    BY <1>3, <1>4
  <2>2. QED
    BY <1>1, <1>4, <1>5, <2>1, Zenon
<1>7. Len(t) <= Len(b \o u)
  BY <1>3, <1>4, <1>5
<1>8. QED
  BY <1>2, <1>4, <1>6, <1>7, Zenon DEF v

(* The buffer is the beginning of what it and the network hold. *)
LEMMA BufferFirst ==
  ASSUME NEW b \in Seq(Cell), NEW u \in Seq(Cell)
  PROVE  /\ b \o u \in Seq(Cell)
         /\ Len(b \o u) = Len(b) + Len(u) /\ Len(b) \in Nat /\ Len(u) \in Nat
         /\ \A i \in 1 .. Len(b) : (b \o u)[i] = b[i]
         /\ b # <<>> => b \o u # <<>>
         /\ \A f \in Frame : Starts(b \o u, 1, f) => Starts(b, 1, f)
<1>1. Len(b) \in Nat /\ Len(u) \in Nat
  BY LenProperties, Zenon
<1>2. /\ b \o u \in Seq(Cell) /\ Len(b \o u) = Len(b) + Len(u)
      /\ \A i \in 1 .. Len(b) + Len(u) :
           (b \o u)[i] = IF i <= Len(b) THEN b[i] ELSE u[i - Len(b)]
  BY ConcatProperties, Zenon
<1>3. \A i \in 1 .. Len(b) : (b \o u)[i] = b[i]
  BY <1>1, <1>2
<1>4. b # <<>> => b \o u # <<>>
  BY ConcatEqualIffEmpty
<1>5. ASSUME NEW f \in Frame, Starts(b \o u, 1, f)
      PROVE  Starts(b, 1, f)
  <2> SUFFICES ASSUME NEW l \in 1 .. Total(f), 1 + l - 1 <= Len(b)
               PROVE  b[1 + l - 1] = <<f, l>>
    BY Zenon DEF Starts
  <2>1. Total(f) \in Nat
    BY FrameSize, Zenon
  <2>2. 1 + l - 1 <= Len(b \o u) /\ 1 + l - 1 \in 1 .. Len(b)
    BY <1>1, <1>2, <2>1
  <2>3. QED
    BY <1>3, <1>5, <2>2, Zenon DEF Starts
<1>6. QED
  BY <1>1, <1>2, <1>3, <1>4, <1>5, Zenon
-----------------------------------------------------------------------------
(* The threads. *)

(* A step that leaves a connection's stream alone, and at most breaks the  *)
(* connection.                                                             *)
LEMMA ThreadQuiet ==
  ASSUME StreamTypeOK, NEW c \in Conn, ThreadInv(c),
         up'[c] = up[c], buffer'[c] = buffer[c], sent'[c] = sent[c],
         handled'[c] = handled[c], asked' \in Int, asked <= asked',
         link'[c] = "up" => link[c] = "up",
         link'[c] = "closed" => link[c] = "closed" /\ thread'[c] = thread[c] /\ down'[c] = down[c],
         thread'[c] = "recv" => thread[c] = "recv"
  PROVE  ThreadInv(c)'
<1>1. Inbound(c)' = Inbound(c)
  BY ZenonT(60) DEF Inbound
<1>2. Numbered(c)'
  <2>1. asked \in Int /\ sent[c] \in Seq(Frame)
    BY FrameConstants DEF StreamTypeOK
  <2>2. \A i \in 1 .. Len(sent[c]) : sent[c][i].id \in Int
    BY <2>1, ElementOfSeq, FrameSize, SMTT(30)
  <2>3. QED
    BY <2>1, <2>2, SMTT(30) DEF ThreadInv, Numbered, Peer
<1>3. QED
  BY <1>1, <1>2, Zenon DEF ThreadInv
(* A frame with a new number is sent. *)
LEMMA ThreadSent ==
  ASSUME StreamTypeOK, NEW c \in Conn, ThreadInv(c), link[c] = "up", NEW f \in Frame,
         up'[c] = up[c] \o Encode(f), sent'[c] = Append(sent[c], f),
         buffer'[c] = buffer[c], handled'[c] = handled[c],
         link'[c] = link[c], thread'[c] = thread[c],
         \A i \in 1 .. Len(sent[c]) : sent[c][i].id < f.id,
         f.id <= IF c = Peer THEN Len(sent[c]) + 1 ELSE asked', asked' \in Int
  PROVE  ThreadInv(c)'
<1>1. /\ up[c] \in Seq(Cell) /\ buffer[c] \in Seq(Cell)
      /\ sent[c] \in Seq(Frame) /\ handled[c] \in Seq(Frame)
  BY Zenon DEF StreamTypeOK
<1>2. Inbound(c) \in Seq(Cell) /\ Inbound(c)' = Inbound(c) \o Encode(f)
  <2>1. Encode(f) \in Seq(Cell)
    BY EncodedFrame, Zenon
  <2>2. buffer[c] \o (up[c] \o Encode(f)) = (buffer[c] \o up[c]) \o Encode(f)
    BY <1>1, <2>1, Associative, Zenon
  <2>3. buffer[c] \o up[c] \in Seq(Cell)
    BY <1>1, ConcatProperties, Zenon
  <2>4. QED
    BY <2>2, <2>3, Zenon DEF Inbound
<1>3. Len(sent[c]) \in Nat /\ Len(handled[c]) \in Nat
  BY <1>1, LenProperties, ZenonT(60)
<1>4. /\ InOrder(Inbound(c)', sent'[c])
      /\ BeginsAfter(Inbound(c)', sent'[c], Len(handled[c]))
      /\ Complete(Inbound(c)', sent'[c], Len(handled[c]))
  <2>1. /\ InOrder(Inbound(c), sent[c]) /\ BeginsAfter(Inbound(c), sent[c], Len(handled[c]))
        /\ Complete(Inbound(c), sent[c], Len(handled[c]))
    BY Zenon DEF ThreadInv
  <2>2. QED
    BY <1>1, <1>2, <1>3, <2>1, SendKeeps, ZenonT(60)
<1>5. /\ Len(sent'[c]) = Len(sent[c]) + 1
      /\ \A i \in 1 .. Len(sent[c]) : sent'[c][i] = sent[c][i]
      /\ sent'[c][Len(sent[c]) + 1] = f
  BY <1>1, AppendProperties
<1>6. \A i \in 1 .. Len(sent'[c]) : i \in 1 .. Len(sent[c]) \/ i = Len(sent[c]) + 1
  BY <1>3, <1>5
<1>7. Numbered(c)'
  <2>1. f.id \in Int /\ \A i \in 1 .. Len(sent[c]) : sent[c][i].id \in Int
    <3>1. f.id \in Int
      BY FrameSize
    <3>2. ASSUME NEW g \in Frame
          PROVE  g.id \in Int
      BY FrameSize
    <3>3. \A i \in 1 .. Len(sent[c]) : sent[c][i] \in Frame
      BY <1>1, ElementOfSeq, Zenon
    <3>4. QED
      BY <3>1, <3>2, <3>3, Zenon
  <2>2. ASSUME NEW i \in 1 .. Len(sent'[c]), NEW j \in 1 .. Len(sent'[c]), i < j
        PROVE  sent'[c][i].id < sent'[c][j].id
    <3>1. i \in 1 .. Len(sent[c])
      BY <1>3, <1>5, <2>2, SMTT(30)
    <3>2. CASE j \in 1 .. Len(sent[c])
      BY <1>5, <2>2, <3>1, <3>2, ZenonT(60) DEF ThreadInv, Numbered
    <3>3. CASE j = Len(sent[c]) + 1
      BY <1>5, <3>1, <3>3
    <3>4. QED
      BY <1>6, <3>2, <3>3, ZenonT(60)
  <2>3. ASSUME NEW i \in 1 .. Len(sent'[c])
        PROVE  sent'[c][i].id <= IF c = Peer THEN Len(sent'[c]) ELSE asked'
    <3>1. CASE i \in 1 .. Len(sent[c])
      BY <1>3, <1>5, <2>1, <3>1, SMTT(30)
    <3>2. CASE i = Len(sent[c]) + 1
      BY <1>5, <3>2, Zenon
    <3>3. QED
      BY <1>6, <3>1, <3>2, ZenonT(60)
  <2>4. QED
    BY <2>2, <2>3, Zenon DEF Numbered, Peer
<1>8. /\ Len(handled'[c]) <= Len(sent'[c])
      /\ \A i \in 1 .. Len(handled'[c]) :
           handled'[c][i] = sent'[c][i] /\ handled'[c][i].fault = "none"
  BY <1>3, <1>5, SMTT(30) DEF ThreadInv
<1>9. (thread[c] = "recv" => Decode(buffer[c]) = "more")
  BY Zenon DEF ThreadInv
<1>10. QED
  BY <1>4, <1>7, <1>8, <1>9, Zenon DEF ThreadInv

LEMMA ThreadConnected ==
  ASSUME StreamTypeOK, NEW c \in Conn, ThreadInv(c), link[c] = "closed",
         up'[c] = up[c], buffer'[c] = buffer[c], sent'[c] = sent[c],
         handled'[c] = handled[c], asked' = asked, link'[c] = "up"
  PROVE  ThreadInv(c)'
<1>1. /\ up[c] = <<>> /\ buffer[c] = <<>> /\ sent[c] = <<>> /\ handled[c] = <<>>
  BY Zenon DEF ThreadInv
<1>2. Inbound(c)' = Inbound(c) /\ Inbound(c) = <<>>
  BY <1>1, ConcatEmptySeq DEF Inbound
<1>3. Complete(<<>>, <<>>, Len(<<>>))
  BY Zenon DEF Complete
<1>4. Numbered(c)'
  BY Zenon DEF ThreadInv, Numbered, Peer
<1>5. QED
  BY <1>1, <1>2, <1>3, <1>4, DecodeEmpty, ZenonT(60) DEF ThreadInv

(* A chunk arrives, or the buffer is found to hold no whole frame. *)
LEMMA ThreadReceives ==
  ASSUME StreamTypeOK, NEW c \in Conn, ThreadInv(c), thread[c] # "none",
         Inbound(c)' = Inbound(c), sent'[c] = sent[c],
         handled'[c] = handled[c], asked' = asked, link'[c] = link[c],
         thread'[c] = "recv" => Decode(buffer'[c]) = "more"
  PROVE  ThreadInv(c)'
<1>1. Numbered(c)'
  BY ZenonT(60) DEF ThreadInv, Numbered, Peer
<1>2. QED
  BY <1>1, Zenon DEF ThreadInv

LEMMA ThreadReset ==
  ASSUME StreamTypeOK, NEW c \in Conn, ThreadInv(c), NEW n \in 0 .. Len(up[c]),
         up'[c] = SubSeq(up[c], 1, n), buffer'[c] = buffer[c], sent'[c] = sent[c],
         handled'[c] = handled[c], asked' = asked, thread'[c] = thread[c],
         link'[c] = "down"
  PROVE  ThreadInv(c)'
<1>1. /\ up[c] \in Seq(Cell) /\ buffer[c] \in Seq(Cell)
      /\ sent[c] \in Seq(Frame) /\ handled[c] \in Seq(Frame)
  BY Zenon DEF StreamTypeOK
<1>2. Inbound(c)' = buffer[c] \o SubSeq(up[c], 1, n)
  BY Zenon DEF Inbound
<1>3. /\ Inbound(c)' \in Seq(Cell)
      /\ Len(Inbound(c)') <= Len(Inbound(c))
      /\ \A i \in 1 .. Len(Inbound(c)') : Inbound(c)'[i] = Inbound(c)[i]
  <2>1. PICK t \in Seq(Cell) :
          /\ t = buffer[c] \o SubSeq(up[c], 1, n)
          /\ Len(t) <= Len(buffer[c] \o up[c])
          /\ \A i \in 1 .. Len(t) : t[i] = (buffer[c] \o up[c])[i]
    BY <1>1, TailLost, Zenon
  <2>2. t = Inbound(c)'
    BY <1>2, <2>1, Zenon
  <2>3. QED
    BY <2>1, <2>2, Zenon DEF Inbound
<1>4. Inbound(c) \in Seq(Cell) /\ Len(handled[c]) \in Nat
  BY <1>1, BufferFirst, LenProperties, ZenonT(60) DEF Inbound
<1>5. InOrder(Inbound(c)', sent[c]) /\ BeginsAfter(Inbound(c)', sent[c], Len(handled[c]))
  <2>1. InOrder(Inbound(c), sent[c]) /\ BeginsAfter(Inbound(c), sent[c], Len(handled[c]))
    BY Zenon DEF ThreadInv
  <2>2. QED
    BY <1>1, <1>3, <1>4, <2>1, CutKeeps, ZenonT(60)
<1>6. Numbered(c)'
  BY Zenon DEF ThreadInv, Numbered, Peer
<1>7. QED
  BY <1>5, <1>6 DEF ThreadInv

(* The frame a thread hands over is the next one that was sent. *)
LEMMA NextFrame ==
  ASSUME StreamTypeOK, NEW c \in Conn, ThreadInv(c), Decode(buffer[c]) = "frame",
         NEW f, f = Decoded(buffer[c])
  PROVE  /\ f \in Frame /\ f.fault = "none" /\ buffer[c] # <<>>
         /\ Len(handled[c]) < Len(sent[c]) /\ f = sent[c][Len(handled[c]) + 1]
         /\ Total(f) \in 0 .. Len(buffer[c])
<1>1. /\ up[c] \in Seq(Cell) /\ buffer[c] \in Seq(Cell)
      /\ sent[c] \in Seq(Frame) /\ handled[c] \in Seq(Frame)
  BY Zenon DEF StreamTypeOK
<1>2. buffer[c] # <<>>
  BY DecodeEmpty, Zenon
<1>3. Inbound(c) \in Seq(Cell) /\ Inbound(c) # <<>>
  BY <1>1, <1>2, BufferFirst, Zenon DEF Inbound
<1>4. PICK k \in Nat : k = Len(handled[c])
  BY <1>1, LenProperties, Zenon
<1>5. PICK g \in Frame : g = sent[c][k + 1] /\ k + 1 \in 1 .. Len(sent[c]) /\ Starts(Inbound(c), 1, g)
  <2>1. InOrder(Inbound(c), sent[c]) /\ BeginsAfter(Inbound(c), sent[c], k)
    BY <1>4, Zenon DEF ThreadInv
  <2>2. QED
    BY <1>1, <1>3, <2>1, FirstFrame, Zenon
<1>6. Starts(buffer[c], 1, g)
  BY <1>1, <1>5, BufferFirst, ZenonT(60) DEF Inbound
<1>7. /\ buffer[c][1] = <<g, 1>>
      /\ "frame" = IF Len(buffer[c]) < HeaderSize THEN "more"
                   ELSE IF g.fault = "header" THEN "malformed"
                   ELSE IF Len(buffer[c]) < Total(g) THEN "more"
                   ELSE IF g.fault = "none" THEN "frame" ELSE "malformed"
  BY <1>1, <1>2, <1>6, DecodeResult
<1>8. g.fault = "none" /\ ~(Len(buffer[c]) < Total(g))
  BY <1>7, ZenonT(60)
<1>9. f = g
  BY <1>7 DEF Decoded
<1>10. Len(buffer[c]) \in Nat /\ Total(g) \in Nat /\ Len(sent[c]) \in Nat
  BY <1>1, LenProperties, FrameSize, ZenonT(60)
<1>11. QED
  BY <1>2, <1>4, <1>5, <1>8, <1>9, <1>10

(* handle_frame takes the next frame off the buffer. *)
LEMMA ThreadHandles ==
  ASSUME StreamTypeOK, NEW c \in Conn, ThreadInv(c), Decode(buffer[c]) = "frame",
         NEW f, f = Decoded(buffer[c]),
         up'[c] = up[c], buffer'[c] = Rest(buffer[c]), sent'[c] = sent[c],
         handled'[c] = Append(handled[c], f), asked' = asked, thread'[c] # "recv",
         link'[c] \in {link[c], "down"}, link'[c] # "closed"
  PROVE  ThreadInv(c)'
<1>1. /\ up[c] \in Seq(Cell) /\ buffer[c] \in Seq(Cell)
      /\ sent[c] \in Seq(Frame) /\ handled[c] \in Seq(Frame)
  BY Zenon DEF StreamTypeOK
<1>2. /\ f \in Frame /\ f.fault = "none" /\ buffer[c] # <<>>
      /\ Len(handled[c]) < Len(sent[c]) /\ f = sent[c][Len(handled[c]) + 1]
      /\ Total(f) \in 0 .. Len(buffer[c])
  BY NextFrame, Zenon
<1>3. PICK k \in Nat : k = Len(handled[c])
  BY <1>1, LenProperties, Zenon
<1>4. PICK n \in 0 .. Len(buffer[c]) : n = Total(f)
  BY <1>2, Zenon
<1>5. Inbound(c)' = SubSeq(buffer[c], n + 1, Len(buffer[c])) \o up[c]
  BY <1>4, Zenon DEF Inbound, Rest
<1>6. /\ Inbound(c)' \in Seq(Cell)
      /\ Len(Inbound(c)') = Len(Inbound(c)) - n
      /\ \A i \in 1 .. Len(Inbound(c)') : Inbound(c)'[i] = Inbound(c)[n + i]
  <2>1. PICK t \in Seq(Cell) :
          /\ t = SubSeq(buffer[c], n + 1, Len(buffer[c])) \o up[c]
          /\ Len(t) = Len(buffer[c] \o up[c]) - n
          /\ \A i \in 1 .. Len(t) : t[i] = (buffer[c] \o up[c])[n + i]
    BY <1>1, BufferDrops, Zenon
  <2>2. t = Inbound(c)'
    BY <1>5, <2>1, Zenon
  <2>3. QED
    BY <2>1, <2>2, Zenon DEF Inbound
<1>7. /\ Inbound(c) \in Seq(Cell) /\ Inbound(c) # <<>> /\ n \in Nat
      /\ n <= Len(Inbound(c))
  <2>1. /\ Inbound(c) \in Seq(Cell) /\ Inbound(c) # <<>>
        /\ Len(Inbound(c)) = Len(buffer[c]) + Len(up[c])
        /\ Len(buffer[c]) \in Nat /\ Len(up[c]) \in Nat
    BY <1>1, <1>2, BufferFirst, ZenonT(60) DEF Inbound
  <2>2. ASSUME NEW a \in Nat, NEW b \in Nat, NEW e, e = a + b, NEW m \in 0 .. a
        PROVE  m \in Nat /\ m <= e
    BY <2>2
  <2>3. QED
    BY <2>1, <2>2, Zenon
<1>8. /\ InOrder(Inbound(c)', sent[c])
      /\ BeginsAfter(Inbound(c)', sent[c], k + 1)
      /\ Complete(Inbound(c), sent[c], k) => Complete(Inbound(c)', sent[c], k + 1)
  <2>1. /\ InOrder(Inbound(c), sent[c]) /\ BeginsAfter(Inbound(c), sent[c], k)
        /\ \A i, j \in 1 .. Len(sent[c]) : i < j => sent[c][i].id < sent[c][j].id
    BY <1>3, ZenonT(60) DEF ThreadInv, Numbered
  <2>2. n = Total(sent[c][k + 1])
    BY <1>2, <1>3, <1>4
  <2>3. PICK t \in Seq(Cell) : t = Inbound(c)'
    BY <1>6, Zenon
  <2>4. Len(t) = Len(Inbound(c)) - n /\ \A i \in 1 .. Len(t) : t[i] = Inbound(c)[n + i]
    BY <1>6, <2>3, Zenon
  <2>5. /\ InOrder(t, sent[c]) /\ BeginsAfter(t, sent[c], k + 1)
        /\ Complete(Inbound(c), sent[c], k) => Complete(t, sent[c], k + 1)
    BY <1>1, <1>7, <2>1, <2>2, <2>4, DropKeeps, ZenonT(60)
  <2>6. QED
    BY <2>3, <2>5, Zenon
<1>9. /\ Len(handled'[c]) = k + 1
      /\ \A i \in 1 .. k : handled'[c][i] = handled[c][i]
      /\ handled'[c][k + 1] = f
  BY <1>1, <1>2, <1>3, AppendProperties
<1>10. Len(handled'[c]) <= Len(sent[c])
  BY <1>1, <1>2, <1>3, <1>9, LenProperties
<1>11. \A i \in 1 .. Len(handled'[c]) :
         handled'[c][i] = sent[c][i] /\ handled'[c][i].fault = "none"
  <2>1. \A i \in 1 .. k : handled'[c][i] = sent[c][i] /\ handled'[c][i].fault = "none"
    BY <1>3, <1>9, ZenonT(60) DEF ThreadInv
  <2>2. handled'[c][k + 1] = sent[c][k + 1] /\ handled'[c][k + 1].fault = "none"
    BY <1>2, <1>3, <1>9, ZenonT(60)
  <2>3. \A i \in 1 .. k + 1 : i \in 1 .. k \/ i = k + 1
    BY <1>3, SMTT(30)
  <2>4. QED
    BY <1>9, <2>1, <2>2, <2>3, ZenonT(60)
<1>12. Numbered(c)'
  BY Zenon DEF ThreadInv, Numbered, Peer
<1>13. link'[c] = "up" => Complete(Inbound(c)', sent[c], k + 1)
  BY <1>3, <1>8, Zenon DEF ThreadInv
<1>14. QED
  BY <1>8, <1>9, <1>10, <1>11, <1>12, <1>13, ZenonT(60) DEF ThreadInv
-----------------------------------------------------------------------------
(* The session. *)

(* A step of others that at most breaks the session's connection. *)
LEMMA SessionQuiet ==
  ASSUME SessionInv, UNCHANGED <<sock, decoder, session, asked, answers>>,
         sock # 0 => /\ down'[sock] = down[sock] /\ sent'[sock] = sent[sock]
                     /\ handled'[sock] = handled[sock]
                     /\ link'[sock] = link[sock] \/ link'[sock] = "down"
  PROVE  SessionInv'
<1>1. Decode(decoder)' = "more" /\ ReplyMatches' /\ (session' # "idle" => sock' # 0)
  BY Zenon DEF SessionInv, ReplyMatches
<1>2. CASE sock = 0
  BY <1>1, <1>2, Zenon DEF SessionInv
<1>3. CASE sock # 0
  <2>1. Answer' = Answer
    BY <1>3, Zenon DEF Answer
  <2>2. QED
    BY <1>1, <1>3, <2>1, Zenon DEF SessionInv
<1>4. QED
  BY <1>2, <1>3, Zenon

(* What a push onto the session's decoder leads to, when b is what the     *)
(* decoder then holds and u is still on its way: it goes on waiting, or it *)
(* returns the answer and nothing is left.                                 *)
LEMMA PushedAnswer ==
  ASSUME StreamTypeOK, SessionInv, session # "idle",
         NEW b \in Seq(Cell), NEW u \in Seq(Cell), b \o u = Answer, Pushed(b)
  PROVE  /\ ReplyMatches' /\ answers' \subseteq (1 .. MaxFrames) \X (1 .. MaxFrames)
         /\ decoder' \in Seq(Cell) /\ Decode(decoder)' = "more"
         /\ \/ session' = "recv" /\ decoder' = b
            \/ /\ session' = "idle" /\ decoder' = <<>> /\ u = <<>>
               /\ link[sock] = "up" => Len(sent[sock]) = Len(handled[sock])
<1>1. sock # 0 /\ Answer \in Seq(Cell)
  BY BufferFirst, Zenon DEF SessionInv
<1>2. /\ Len(b) \in Nat /\ Len(u) \in Nat /\ Len(Answer) = Len(b) + Len(u)
      /\ \A i \in 1 .. Len(b) : Answer[i] = b[i]
      /\ b # <<>> => Answer # <<>>
  BY BufferFirst, Zenon
<1>3. ReplyMatches /\ answers \subseteq (1 .. MaxFrames) \X (1 .. MaxFrames)
  BY Zenon DEF SessionInv, StreamTypeOK
<1>4. CASE Decode(b) = "more"
  <2>1. decoder' = b /\ session' = "recv" /\ answers' = answers
    BY <1>4, Zenon DEF Pushed
  <2>2. QED
    BY <1>3, <1>4, <2>1, Zenon DEF ReplyMatches
<1>5. CASE Decode(b) # "more"
  <2>1. b # <<>> /\ Answer # <<>>
    BY <1>2, <1>5, DecodeEmpty, Zenon
  <2>2. PICK g \in Frame :
          /\ g.fault = "none" /\ Piece(Answer, g)
          /\ \/ g.id = asked /\ (link[sock] = "up" => Len(Answer) = Total(g))
             \/ link[sock] # "up" /\ down[sock] = <<>> /\ Len(Answer) < Total(g)
    BY <1>1, <2>1, Zenon DEF SessionInv
  <2>3. Total(g) \in Nat /\ g.id \in 1 .. MaxFrames /\ HeaderSize \in Nat
    BY FrameSize, Zenon
  <2>4. Len(Answer) <= Total(g) /\ \A i \in 1 .. Len(Answer) : Answer[i] = <<g, i>>
    BY <2>2, Zenon DEF Piece
  <2>5. Starts(b, 1, g)
    <3> SUFFICES ASSUME NEW l \in 1 .. Total(g), 1 + l - 1 <= Len(b)
                 PROVE  b[1 + l - 1] = <<g, l>>
      BY Zenon DEF Starts
    <3>1. l \in 1 .. Len(b) /\ l \in 1 .. Len(Answer) /\ 1 + l - 1 = l
      BY <1>2, <2>3
    <3>2. QED
      BY <1>2, <2>4, <3>1, Zenon
  <2>6. /\ b[1] = <<g, 1>>
        /\ Decode(b) = IF Len(b) < HeaderSize THEN "more"
                       ELSE IF g.fault = "header" THEN "malformed"
                       ELSE IF Len(b) < Total(g) THEN "more"
                       ELSE IF g.fault = "none" THEN "frame" ELSE "malformed"
    BY <2>1, <2>5, DecodeResult, ZenonT(60)
  <2>7. Decode(b) = "frame" /\ ~(Len(b) < Total(g))
    BY <1>5, <2>2, <2>6, ZenonT(60)
  <2>8. Len(b) = Total(g) /\ Len(u) = 0 /\ ~(Len(Answer) < Total(g))
    BY <1>2, <2>3, <2>4, <2>7
  <2>9. Decoded(b) = g /\ g.id = asked /\ u = <<>>
    <3>1. Decoded(b) = g
      BY <2>6 DEF Decoded
    <3>2. u = <<>>
      BY <2>8, EmptySeq
    <3>3. QED
      BY <2>2, <2>8, <3>1, <3>2, ZenonT(60)
  <2>10. Rest(b) = <<>>
    <3>1. Total(g) + 1 \in Int /\ Len(b) \in Int /\ Len(b) < Total(g) + 1
      BY <2>3, <2>8
    <3>2. QED
      BY <2>9, <3>1, SubSeqEmpty, Zenon DEF Rest
  <2>11. answers' = answers \cup {<<asked, g.id>>} /\ decoder' = <<>> /\ session' = "idle"
    BY <2>7, <2>9, <2>10 DEF Pushed
  <2>12. ReplyMatches'
    BY <1>3, <2>9, <2>11, SMTT(30) DEF ReplyMatches
  <2>13. answers' \subseteq (1 .. MaxFrames) \X (1 .. MaxFrames)
    BY <1>3, <2>3, <2>9, <2>11
  <2>14. decoder' \in Seq(Cell) /\ Decode(decoder)' = "more"
    BY <2>11, DecodeEmpty, EmptySeq, Zenon
  <2>15. link[sock] = "up" => Len(sent[sock]) = Len(handled[sock])
    BY <1>1, <2>1, Zenon DEF SessionInv
  <2>16. QED
    BY <2>9, <2>11, <2>12, <2>13, <2>14, <2>15, ZenonT(60)
<1>6. QED
  BY <1>4, <1>5, Zenon
-----------------------------------------------------------------------------
(* The steps. *)
LEMMA ConnectKeeps ==
  ASSUME StreamInv, NEW c \in SessionConn, Connect(c)
  PROVE  StreamInv'
<1>1. StreamTypeOK /\ SessionInv /\ c \in Conn /\ ThreadInv(c) /\ c # 0
  BY FrameConstants DEF StreamInv, Conn, SessionConn
<1>2. StreamTypeOK'
  BY <1>1, EmptySeq, Zenon DEF StreamTypeOK, Connect
<1>3. /\ sock' = c /\ decoder' = <<>> /\ link'[c] = "up" /\ session = "idle"
      /\ link[c] = "closed"
      /\ UNCHANGED <<up, down, buffer, handled, session, asked, sent, answers>>
      /\ \A d \in Conn \ {c} : link'[d] = link[d] /\ thread'[d] = thread[d]
  BY <1>1, Zenon DEF Connect, StreamTypeOK
<1>4. ASSUME NEW d \in Conn
      PROVE  ThreadInv(d)'
  <2>1. CASE d = c
    BY <1>1, <1>3, <2>1, ThreadConnected, ZenonT(60)
  <2>2. CASE d # c
    <3>1. ThreadInv(d) /\ asked \in Int
      BY FrameConstants DEF StreamInv, StreamTypeOK
    <3>2. QED
      BY <1>1, <1>3, <2>2, <3>1, ThreadQuiet, SMTT(30)
  <2>3. QED
    BY <2>1, <2>2, ZenonT(60)
<1>5. SessionInv'
  <2>1. down[c] = <<>> /\ sent[c] = <<>> /\ handled[c] = <<>>
    BY <1>1, <1>3, Zenon DEF ThreadInv
  <2>2. Answer' = <<>>
    <3>1. Answer' = <<>> \o <<>>
      BY <1>3, <2>1, Zenon DEF Answer
    <3>2. QED
      BY <3>1, ConcatEmptySeq, EmptySeq, Zenon
  <2>3. Decode(decoder)' = "more" /\ ReplyMatches'
    BY <1>1, <1>3, DecodeEmpty, Zenon DEF SessionInv, ReplyMatches
  <2>4. QED
    BY <1>3, <2>1, <2>2, <2>3, Zenon DEF SessionInv
<1>6. QED
  BY <1>2, <1>4, <1>5, Zenon DEF StreamInv

LEMMA CloseKeeps ==
  ASSUME StreamInv, Close
  PROVE  StreamInv'
<1>1. StreamTypeOK /\ SessionInv /\ sock \in Conn /\ sock # 0
  BY Zenon DEF StreamInv, StreamTypeOK, Conn, Close
<1>2. StreamTypeOK'
  BY <1>1, EmptySeq, Zenon DEF StreamTypeOK, Close, threadVars
<1>3. /\ sock' = 0 /\ session = "idle"
      /\ UNCHANGED <<up, buffer, thread, handled, decoder, session, asked, sent, answers>>
      /\ \A d \in Conn : (link'[d] = link[d] /\ down'[d] = down[d]) \/ link'[d] = "down"
  BY <1>1, ZenonT(60) DEF Close, StreamTypeOK, threadVars
<1>4. ASSUME NEW d \in Conn
      PROVE  ThreadInv(d)'
  <2>1. ThreadInv(d) /\ asked \in Int
    BY FrameConstants DEF StreamInv, StreamTypeOK
  <2>2. /\ link'[d] = "up" => link[d] = "up"
        /\ link'[d] = "closed" => link[d] = "closed" /\ down'[d] = down[d]
    BY <1>3, Zenon
  <2>3. QED
    BY <1>1, <1>3, <2>1, <2>2, ThreadQuiet, SMTT(30)
<1>5. SessionInv'
  BY <1>1, <1>3, Zenon DEF SessionInv, ReplyMatches
<1>6. QED
  BY <1>2, <1>4, <1>5, ZenonT(60) DEF StreamInv

LEMMA AskKeeps ==
  ASSUME StreamInv, NEW f \in Frame, Ask(f)
  PROVE  StreamInv'
<1>1. StreamTypeOK /\ SessionInv /\ sock \in Conn /\ sock # 0 /\ sock # Peer
  BY Zenon DEF StreamInv, StreamTypeOK, Conn, Ask, Peer
<1>2. /\ UNCHANGED <<link, down, buffer, thread, handled, sock, decoder, answers>>
      /\ session = "idle" /\ session' = "poll" /\ asked' = f.id /\ f.id = asked + 1
      /\ asked \in Int /\ f.id \in 1 .. MaxFrames
      /\ \A d \in Conn \ {sock} : up'[d] = up[d] /\ sent'[d] = sent[d]
      /\ link[sock] = "up" => /\ up'[sock] = up[sock] \o Encode(f)
                              /\ sent'[sock] = Append(sent[sock], f)
      /\ link[sock] # "up" => up' = up /\ sent' = sent
  <2>1. asked \in Int /\ f.id \in 1 .. MaxFrames
    BY <1>1, FrameSize, FrameConstants DEF StreamTypeOK
  <2>2. QED
    BY <1>1, <2>1, ZenonT(60) DEF Ask, StreamTypeOK, threadVars
<1>3. StreamTypeOK'
  <2>1. up' \in [Conn -> Seq(Cell)] /\ sent' \in [Conn -> Seq(Frame)]
    <3>1. CASE link[sock] # "up"
      BY <1>1, <1>2, <3>1, ZenonT(60) DEF StreamTypeOK
    <3>2. CASE link[sock] = "up"
      <4>1. up[sock] \o Encode(f) \in Seq(Cell) /\ Append(sent[sock], f) \in Seq(Frame)
        BY <1>1, EncodedFrame, ConcatProperties, AppendProperties DEF StreamTypeOK
      <4>2. /\ up' = [up EXCEPT ![sock] = up[sock] \o Encode(f)]
            /\ sent' = [sent EXCEPT ![sock] = Append(sent[sock], f)]
        BY <3>2, ZenonT(60) DEF Ask
      <4>3. QED
        BY <1>1, <4>1, <4>2, ZenonT(60) DEF StreamTypeOK
    <3>3. QED
      BY <3>1, <3>2, Zenon
  <2>2. asked' \in 0 .. MaxFrames /\ crashed' = crashed
    BY <1>2, FrameConstants DEF Ask, threadVars
  <2>3. QED
    BY <1>1, <1>2, <2>1, <2>2, Zenon DEF StreamTypeOK
<1>4. ASSUME NEW d \in Conn
      PROVE  ThreadInv(d)'
  <2>1. ThreadInv(d) /\ asked' \in Int /\ asked <= asked'
    BY <1>2 DEF StreamInv
  <2>2. CASE d = sock /\ link[sock] = "up"
    <3>1. \A i \in 1 .. Len(sent[d]) : sent[d][i].id < f.id
      <4>1. sent[d] \in Seq(Frame)
        BY <1>1, ZenonT(60) DEF StreamTypeOK
      <4>2. ASSUME NEW i \in 1 .. Len(sent[d])
            PROVE  sent[d][i].id < f.id
        <5>1. sent[d][i].id \in Int
          BY <4>1, ElementOfSeq, FrameSize, SMTT(30)
        <5>2. sent[d][i].id <= asked
          BY <1>1, <2>1, <2>2, ZenonT(60) DEF ThreadInv, Numbered, Peer
        <5>3. QED
          BY <1>2, <5>1, <5>2, SMTT(30)
      <4>3. QED
        BY <4>2, Zenon
    <3>2. f.id <= IF d = Peer THEN Len(sent[d]) + 1 ELSE asked'
      BY <1>1, <1>2, <2>2, SMTT(30)
    <3>3. QED
      BY <1>1, <1>2, <2>1, <2>2, <3>1, <3>2, ThreadSent, ZenonT(60)
  <2>3. CASE ~(d = sock /\ link[sock] = "up")
    <3>1. up'[d] = up[d] /\ sent'[d] = sent[d]
      BY <1>2, <2>3, Zenon
    <3>2. QED
      BY <1>1, <1>2, <2>1, <3>1, ThreadQuiet
  <2>4. QED
    BY <2>2, <2>3, ZenonT(60)
<1>5. SessionInv'
  <2>1. Answer' = Answer /\ Decode(decoder)' = "more" /\ ReplyMatches'
    BY <1>1, <1>2, Zenon DEF Answer, SessionInv, ReplyMatches
  <2>2. link[sock] # "closed" /\ down[sock] = <<>> /\ Decode(decoder) = "more"
    BY <1>1, <1>2, ZenonT(60) DEF SessionInv
  <2>3. Answer = decoder /\ decoder \in Seq(Cell)
    BY <1>1, <2>2, ConcatEmptySeq, ZenonT(60) DEF Answer, StreamTypeOK
  <2>4. CASE link[sock] = "up"
    <3>1. Answer = <<>> /\ Len(sent[sock]) = Len(handled[sock])
      BY <1>1, <1>2, <2>4, ZenonT(60) DEF SessionInv
    <3>2. Len(sent'[sock]) = Len(sent[sock]) + 1 /\ sent'[sock][Len(sent'[sock])] = f
      <4>1. sent[sock] \in Seq(Frame)
        BY <1>1, Zenon DEF StreamTypeOK
      <4>2. sent'[sock] = Append(sent[sock], f)
        BY <1>2, <2>4, Zenon
      <4>3. /\ Len(Append(sent[sock], f)) = Len(sent[sock]) + 1
            /\ Append(sent[sock], f)[Len(Append(sent[sock], f))] = f
        BY <4>1, LastAppended, ZenonT(60)
      <4>4. QED
        BY <4>2, <4>3, SMTT(30)
    <3>3. QED
      BY <1>1, <1>2, <2>1, <2>2, <2>4, <3>1, <3>2, ZenonT(60) DEF SessionInv
  <2>5. CASE link[sock] # "up"
    <3>1. ASSUME Answer # <<>>
          PROVE  \E g \in Frame : g.fault = "none" /\ Piece(Answer, g) /\ Len(Answer) < Total(g)
      <4>1. PICK g \in Frame : g.fault = "none" /\ Piece(Answer, g)
        BY <1>1, <3>1, ZenonT(60) DEF SessionInv
      <4>2. Starts(decoder, 1, g)
        BY <2>3, <4>1, PieceStarts, ZenonT(60)
      <4>3. Decode(decoder) = IF Len(decoder) < HeaderSize THEN "more"
                       ELSE IF g.fault = "header" THEN "malformed"
                       ELSE IF Len(decoder) < Total(g) THEN "more"
                       ELSE IF g.fault = "none" THEN "frame" ELSE "malformed"
        BY <2>3, <3>1, <4>2, DecodeResult, ZenonT(60)
      <4>4. Len(decoder) < HeaderSize \/ Len(decoder) < Total(g)
        BY <2>2, <4>1, <4>3, ZenonT(60)
      <4>5. Len(decoder) < Total(g)
        BY <2>3, <4>4, LenProperties, FrameSize
      <4>6. QED
        BY <2>3, <4>1, <4>5, Zenon
    <3>2. QED
      BY <1>1, <1>2, <2>1, <2>2, <2>5, <3>1, ZenonT(60) DEF SessionInv
  <2>6. QED
    BY <2>4, <2>5, Zenon
<1>6. QED
  BY <1>3, <1>4, <1>5, Zenon DEF StreamInv
(* The session looks into its buffer, which now holds b. *)
LEMMA PushKeeps ==
  ASSUME StreamInv, session # "idle",
         NEW b \in Seq(Cell), NEW u \in Seq(Cell), b \o u = Answer, Pushed(b),
         down' = [down EXCEPT ![sock] = u], u = down[sock] \/ down[sock] # <<>>,
         UNCHANGED <<link, up, threadVars, sock, asked, sent>>
  PROVE  StreamInv'
<1>1. StreamTypeOK /\ SessionInv /\ sock \in Conn /\ sock # 0 /\ link[sock] # "closed"
  BY Zenon DEF StreamInv, StreamTypeOK, SessionInv, Conn
<1>2. /\ ReplyMatches' /\ answers' \subseteq (1 .. MaxFrames) \X (1 .. MaxFrames)
      /\ decoder' \in Seq(Cell) /\ Decode(decoder)' = "more"
      /\ \/ session' = "recv" /\ decoder' = b
         \/ /\ session' = "idle" /\ decoder' = <<>> /\ u = <<>>
            /\ link[sock] = "up" => Len(sent[sock]) = Len(handled[sock])
  BY <1>1, PushedAnswer, Zenon
<1>3. /\ down' \in [Conn -> Seq(Cell)] /\ down'[sock] = u
      /\ \A d \in Conn \ {sock} : down'[d] = down[d]
  BY <1>1, Zenon DEF StreamTypeOK
<1>4. StreamTypeOK'
  <2>1. session' \in {"idle", "poll", "recv"}
    BY <1>2, ZenonT(60)
  <2>2. QED
    BY <1>1, <1>2, <1>3, <2>1, ZenonT(60) DEF StreamTypeOK, threadVars
<1>5. ASSUME NEW d \in Conn
      PROVE  ThreadInv(d)'
  <2>1. ThreadInv(d) /\ asked \in Int /\ asked <= asked
    BY FrameConstants DEF StreamInv, StreamTypeOK
  <2>2. link[d] = "closed" => down'[d] = down[d]
    BY <1>1, <1>3, Zenon
  <2>3. QED
    BY <1>1, <2>1, <2>2, ThreadQuiet, ZenonT(60) DEF threadVars
<1>6. SessionInv'
  <2>1. CASE session' = "recv" /\ decoder' = b
    <3>1. Answer' = Answer
      BY <1>3, <2>1, Zenon DEF Answer
    <3>2. ASSUME down[sock] = <<>>
          PROVE  down'[sock] = <<>>
      BY <1>3, <3>2, Zenon
    <3>3. QED
      BY <1>1, <1>2, <2>1, <3>1, <3>2, ZenonT(60) DEF SessionInv, threadVars
  <2>2. CASE /\ session' = "idle" /\ decoder' = <<>> /\ u = <<>>
             /\ link[sock] = "up" => Len(sent[sock]) = Len(handled[sock])
    <3>1. Answer' = <<>> \o <<>>
      BY <1>3, <2>2, ZenonT(60) DEF Answer
    <3>2. Answer' = <<>>
      BY <3>1, ConcatEmptySeq, EmptySeq, SMTT(30)
    <3>3. QED
      BY <1>1, <1>2, <1>3, <2>2, <3>2, ZenonT(60) DEF SessionInv, threadVars
  <2>3. QED
    BY <1>2, <2>1, <2>2, Zenon
<1>7. QED
  BY <1>4, <1>5, <1>6, Zenon DEF StreamInv

LEMMA PollKeeps ==
  ASSUME StreamInv, Poll
  PROVE  StreamInv'
<1>1. sock \in Conn /\ decoder \in Seq(Cell) /\ down \in [Conn -> Seq(Cell)]
  BY Zenon DEF StreamInv, StreamTypeOK, Conn, Peer
<1>2. down[sock] \in Seq(Cell) /\ [down EXCEPT ![sock] = down[sock]] = down
  BY <1>1, Zenon
<1>3. /\ session # "idle" /\ Pushed(decoder)
      /\ UNCHANGED <<link, up, threadVars, sock, asked, sent>> /\ down' = down
  BY Zenon DEF Poll
<1>4. QED
  BY <1>1, <1>2, <1>3, PushKeeps, ZenonT(60) DEF Answer

LEMMA SessionReceivesKeeps ==
  ASSUME StreamInv, NEW n \in 1 .. Len(down[sock]), SessionReceives(n)
  PROVE  StreamInv'
<1>1. sock \in Conn /\ decoder \in Seq(Cell) /\ down \in [Conn -> Seq(Cell)]
  BY Zenon DEF StreamInv, StreamTypeOK, Conn, Peer
<1>2. down[sock] \in Seq(Cell)
  BY <1>1, Zenon
<1>3. Len(down[sock]) \in Nat /\ n \in 0 .. Len(down[sock]) /\ down[sock] # <<>>
  BY <1>2, LenProperties, EmptySeq
<1>4. PICK b \in Seq(Cell) : b = decoder \o SubSeq(down[sock], 1, n)
  BY <1>1, <1>2, <1>3, ChunkMoves, Zenon
<1>5. PICK u \in Seq(Cell) : u = SubSeq(down[sock], n + 1, Len(down[sock]))
  BY <1>2, <1>3, Pieces, Zenon
<1>6. b \o u = Answer
  BY <1>1, <1>2, <1>3, <1>4, <1>5, ChunkMoves, ZenonT(60) DEF Answer
<1>7. /\ session # "idle" /\ Pushed(b)
      /\ UNCHANGED <<link, up, threadVars, sock, asked, sent>>
      /\ down' = [down EXCEPT ![sock] = u]
  BY <1>4, <1>5 DEF SessionReceives
<1>8. QED
  BY <1>3, <1>6, <1>7, PushKeeps, ZenonT(60)

LEMMA SessionEndsKeeps ==
  ASSUME StreamInv, SessionEnds
  PROVE  StreamInv'
<1>1. StreamTypeOK /\ SessionInv
  BY Zenon DEF StreamInv
<1>2. StreamTypeOK'
  BY <1>1, ZenonT(60) DEF StreamTypeOK, SessionEnds, threadVars
<1>3. ASSUME NEW d \in Conn
      PROVE  ThreadInv(d)'
  <2>1. ThreadInv(d) /\ asked \in Int /\ asked <= asked
    BY FrameConstants DEF StreamInv, StreamTypeOK
  <2>2. QED
    BY <1>1, <2>1, ThreadQuiet, SMTT(30) DEF SessionEnds, threadVars
<1>4. SessionInv'
  <2>1. Answer' = Answer /\ ReplyMatches' /\ Decode(decoder)' = "more"
    BY <1>1, Zenon DEF Answer, SessionEnds, SessionInv, ReplyMatches
  <2>2. link[sock] = "down" /\ down[sock] = <<>> /\ session' = "idle" /\ sock # 0
        /\ UNCHANGED <<sock, link, down, asked, sent, handled>>
    BY <1>1, Zenon DEF SessionEnds, threadVars, SessionInv
  <2>3. QED
    BY <1>1, <2>1, <2>2, Zenon DEF SessionInv
<1>5. QED
  BY <1>2, <1>3, <1>4, Zenon DEF StreamInv
LEMMA ServerReceivesKeeps ==
  ASSUME StreamInv, NEW c \in Conn, NEW n \in 1 .. Len(up[c]), ServerReceives(c, n)
  PROVE  StreamInv'
<1>1. /\ StreamTypeOK /\ SessionInv /\ ThreadInv(c)
      /\ up[c] \in Seq(Cell) /\ buffer[c] \in Seq(Cell)
  BY Zenon DEF StreamInv, StreamTypeOK
<1>2. n \in 0 .. Len(up[c])
  BY <1>1, LenProperties
<1>3. /\ buffer' = [buffer EXCEPT ![c] = buffer[c] \o SubSeq(up[c], 1, n)]
      /\ up' = [up EXCEPT ![c] = SubSeq(up[c], n + 1, Len(up[c]))]
      /\ thread' = [thread EXCEPT ![c] = "push"] /\ thread[c] = "recv"
      /\ UNCHANGED <<link, down, crashed, handled, sock, decoder, session, asked, sent, answers>>
  BY Zenon DEF ServerReceives, sessionVars
<1>4. /\ buffer[c] \o SubSeq(up[c], 1, n) \in Seq(Cell)
      /\ SubSeq(up[c], n + 1, Len(up[c])) \in Seq(Cell)
      /\ (buffer[c] \o SubSeq(up[c], 1, n)) \o SubSeq(up[c], n + 1, Len(up[c]))
           = buffer[c] \o up[c]
  BY <1>1, <1>2, ChunkMoves, Pieces, Zenon
<1>5. /\ buffer'[c] = buffer[c] \o SubSeq(up[c], 1, n)
      /\ up'[c] = SubSeq(up[c], n + 1, Len(up[c]))
      /\ thread'[c] = "push"
      /\ \A d \in Conn \ {c} : buffer'[d] = buffer[d] /\ up'[d] = up[d] /\ thread'[d] = thread[d]
  BY <1>1, <1>3, Zenon DEF StreamTypeOK
<1>6. StreamTypeOK'
  <2>1. buffer' \in [Conn -> Seq(Cell)] /\ up' \in [Conn -> Seq(Cell)]
        /\ thread' \in [Conn -> {"none", "recv", "push", "gone"}]
    BY <1>1, <1>3, <1>4, ZenonT(60) DEF StreamTypeOK
  <2>2. QED
    BY <1>1, <1>3, <2>1, ZenonT(60) DEF StreamTypeOK
<1>7. ASSUME NEW d \in Conn
      PROVE  ThreadInv(d)'
  <2>1. CASE d = c
    <3>1. Inbound(c)' = Inbound(c)
      BY <1>4, <1>5, ZenonT(60) DEF Inbound
    <3>2. QED
      BY <1>1, <1>3, <1>5, <2>1, <3>1, ThreadReceives, ZenonT(60)
  <2>2. CASE d # c
    <3>1. ThreadInv(d) /\ asked \in Int /\ asked <= asked
      BY FrameConstants DEF StreamInv, StreamTypeOK
    <3>2. QED
      BY <1>1, <1>3, <1>5, <2>2, <3>1, ThreadQuiet, ZenonT(60)
  <2>3. QED
    BY <2>1, <2>2, Zenon
<1>8. SessionInv'
  BY <1>1, <1>3, SessionQuiet, Zenon
<1>9. QED
  BY <1>6, <1>7, <1>8, Zenon DEF StreamInv

LEMMA DrainedKeeps ==
  ASSUME StreamInv, NEW c \in Conn, Drained(c)
  PROVE  StreamInv'
<1>1. StreamTypeOK /\ SessionInv /\ ThreadInv(c)
  BY Zenon DEF StreamInv
<1>2. /\ thread' = [thread EXCEPT ![c] = "recv"] /\ thread[c] = "push"
      /\ Decode(buffer[c]) = "more"
      /\ UNCHANGED <<link, up, down, buffer, crashed, handled, sock, decoder, session,
                     asked, sent, answers>>
  BY Zenon DEF Drained, sessionVars
<1>3. /\ thread'[c] = "recv" /\ \A d \in Conn \ {c} : thread'[d] = thread[d]
      /\ thread' \in [Conn -> {"none", "recv", "push", "gone"}]
  BY <1>1, <1>2, Zenon DEF StreamTypeOK
<1>4. StreamTypeOK'
  BY <1>1, <1>2, <1>3, Zenon DEF StreamTypeOK
<1>5. ASSUME NEW d \in Conn
      PROVE  ThreadInv(d)'
  <2>1. CASE d = c
    <3>1. Inbound(c)' = Inbound(c)
      BY <1>2, ZenonT(60) DEF Inbound
    <3>2. QED
      BY <1>1, <1>2, <1>3, <2>1, <3>1, ThreadReceives, ZenonT(60)
  <2>2. CASE d # c
    <3>1. ThreadInv(d) /\ asked \in Int /\ asked <= asked
      BY FrameConstants DEF StreamInv, StreamTypeOK
    <3>2. QED
      BY <1>1, <1>2, <1>3, <2>2, <3>1, ThreadQuiet, ZenonT(60)
  <2>3. QED
    BY <2>1, <2>2, ZenonT(60)
<1>6. SessionInv'
  BY <1>1, <1>2, SessionQuiet, Zenon
<1>7. QED
  BY <1>4, <1>5, <1>6, Zenon DEF StreamInv

(* The thread gives up, or the process ends: connections go down. *)
LEMMA BrokenKeeps ==
  ASSUME StreamInv,
         UNCHANGED <<up, down, buffer, handled, sock, decoder, session, asked, sent, answers>>,
         crashed' \in BOOLEAN,
         link' \in [Conn -> {"closed", "up", "down"}],
         thread' \in [Conn -> {"none", "recv", "push", "gone"}],
         \A d \in Conn : /\ link'[d] = link[d] \/ (link'[d] = "down" /\ link[d] # "closed")
                         /\ thread'[d] = thread[d] \/ (thread'[d] = "gone" /\ link'[d] = "down")
  PROVE  StreamInv'
<1>1. StreamTypeOK /\ SessionInv
  BY Zenon DEF StreamInv
<1>2. StreamTypeOK'
  BY <1>1, Zenon DEF StreamTypeOK
<1>3. ASSUME NEW d \in Conn
      PROVE  ThreadInv(d)'
  <2>1. ThreadInv(d) /\ asked \in Int /\ asked <= asked
    BY FrameConstants DEF StreamInv, StreamTypeOK
  <2>2. QED
    BY <1>1, <2>1, ThreadQuiet, ZenonT(60)
<1>4. SessionInv'
  <2>1. sock # 0 => sock \in Conn
    BY <1>1, Zenon DEF StreamTypeOK, Conn
  <2>2. QED
    BY <1>1, <2>1, SessionQuiet, Zenon
<1>5. QED
  BY <1>2, <1>3, <1>4, Zenon DEF StreamInv

LEMMA ServerEndsKeeps ==
  ASSUME StreamInv, NEW c \in Conn, ServerEnds(c)
  PROVE  StreamInv'
<1>1. StreamTypeOK
  BY Zenon DEF StreamInv
<1>2. /\ link' = [link EXCEPT ![c] = "down"] /\ thread' = [thread EXCEPT ![c] = "gone"]
      /\ link[c] = "down"
      /\ UNCHANGED <<up, down, buffer, crashed, handled, sock, decoder, session, asked,
                     sent, answers>>
  BY Zenon DEF ServerEnds, Hangup, sessionVars
<1>3. QED
  BY <1>1, <1>2, BrokenKeeps, Zenon DEF StreamTypeOK

LEMMA TerminateKeeps ==
  ASSUME StreamInv, NEW c \in Conn, Terminate(c)
  PROVE  StreamInv'
<1>1. StreamTypeOK
  BY Zenon DEF StreamInv
<1>2. /\ link' = [d \in Conn |-> IF link[d] = "up" THEN "down" ELSE link[d]]
      /\ crashed' = TRUE
      /\ UNCHANGED <<up, down, buffer, thread, handled, sock, decoder, session, asked,
                     sent, answers>>
  BY Zenon DEF Terminate, sessionVars
<1>3. QED
  BY <1>1, <1>2, BrokenKeeps, ZenonT(60) DEF StreamTypeOK
LEMMA ResetKeeps ==
  ASSUME StreamInv, NEW c \in Conn, Reset(c)
  PROVE  StreamInv'
<1>1. /\ StreamTypeOK /\ SessionInv /\ ThreadInv(c)
      /\ up[c] \in Seq(Cell) /\ down[c] \in Seq(Cell)
  BY Zenon DEF StreamInv, StreamTypeOK
<1>2. PICK n \in 0 .. Len(up[c]) : up' = [up EXCEPT ![c] = SubSeq(up[c], 1, n)]
  BY Zenon DEF Reset
<1>3. PICK k \in 0 .. Len(down[c]) : down' = [down EXCEPT ![c] = SubSeq(down[c], 1, k)]
  BY Zenon DEF Reset
<1>4. /\ link' = [link EXCEPT ![c] = "down"] /\ link[c] = "up"
      /\ UNCHANGED <<buffer, thread, crashed, handled, sock, decoder, session, asked, sent, answers>>
  BY Zenon DEF Reset, threadVars, sessionVars
<1>5. /\ SubSeq(up[c], 1, n) \in Seq(Cell) /\ SubSeq(down[c], 1, k) \in Seq(Cell)
      /\ Len(SubSeq(down[c], 1, k)) = k
  BY <1>1, Pieces, ZenonT(60)
<1>6. /\ up'[c] = SubSeq(up[c], 1, n) /\ down'[c] = SubSeq(down[c], 1, k) /\ link'[c] = "down"
      /\ \A d \in Conn \ {c} : up'[d] = up[d] /\ down'[d] = down[d] /\ link'[d] = link[d]
  BY <1>1, <1>2, <1>3, <1>4, ZenonT(60) DEF StreamTypeOK
<1>7. StreamTypeOK'
  <2>1. up' \in [Conn -> Seq(Cell)] /\ down' \in [Conn -> Seq(Cell)]
        /\ link' \in [Conn -> {"closed", "up", "down"}]
    BY <1>1, <1>2, <1>3, <1>4, <1>5, ZenonT(60) DEF StreamTypeOK
  <2>2. QED
    BY <1>1, <1>4, <2>1, ZenonT(60) DEF StreamTypeOK
<1>8. ASSUME NEW d \in Conn
      PROVE  ThreadInv(d)'
  <2>1. CASE d = c
    BY <1>1, <1>4, <1>6, <2>1, ThreadReset, ZenonT(60)
  <2>2. CASE d # c
    <3>1. ThreadInv(d) /\ asked \in Int /\ asked <= asked
      BY FrameConstants DEF StreamInv, StreamTypeOK
    <3>2. QED
      BY <1>1, <1>4, <1>6, <2>2, <3>1, ThreadQuiet, ZenonT(60)
  <2>3. QED
    BY <2>1, <2>2, ZenonT(60)
<1>9. SessionInv'
  <2>1. CASE sock # c \/ sock = 0
    <3>1. sock # 0 => sock \in Conn \ {c}
      BY <1>1, <2>1, Zenon DEF StreamTypeOK, Conn
    <3>2. QED
      BY <1>1, <1>4, <1>6, <3>1, SessionQuiet, ZenonT(60)
  <2>2. CASE sock = c /\ sock # 0
    <3>1. decoder \in Seq(Cell)
      BY <1>1, Zenon DEF StreamTypeOK
    <3>2. PICK t \in Seq(Cell) :
            /\ t = decoder \o SubSeq(down[c], 1, k)
            /\ Len(t) <= Len(decoder \o down[c])
            /\ \A i \in 1 .. Len(t) : t[i] = (decoder \o down[c])[i]
      BY <1>1, <3>1, TailLost, ZenonT(60)
    <3>3. Answer' = t /\ Answer = decoder \o down[c]
      BY <1>4, <1>6, <2>2, <3>2, Zenon DEF Answer
    <3>4. Answer \in Seq(Cell) /\ Len(Answer) \in Nat /\ Len(t) \in Nat
      BY <1>1, <3>1, <3>3, BufferFirst, LenProperties, ZenonT(60)
    <3>5. ASSUME t # <<>>
          PROVE  \E g \in Frame : g.fault = "none" /\ Piece(t, g) /\ g.id = asked
      <4>1. Answer # <<>>
        BY <3>2, <3>3, <3>4, <3>5, EmptySeq, SMTT(30)
      <4>2. PICK g \in Frame : g.fault = "none" /\ Piece(Answer, g) /\ g.id = asked
        BY <1>1, <1>4, <2>2, <4>1, ZenonT(60) DEF SessionInv
      <4>3. Total(g) \in Nat
        BY FrameSize, Zenon
      <4>4. Piece(t, g)
        <5>1. /\ Len(t) <= Len(Answer) /\ \A i \in 1 .. Len(t) : t[i] = Answer[i]
              /\ Len(Answer) <= Total(g) /\ \A i \in 1 .. Len(Answer) : Answer[i] = <<g, i>>
          BY <3>2, <3>3, <4>2, ZenonT(60) DEF Piece
        <5>2. Len(t) <= Total(g) /\ \A i \in 1 .. Len(t) : i \in 1 .. Len(Answer)
          BY <3>4, <4>3, <5>1
        <5>3. QED
          BY <5>1, <5>2, Zenon DEF Piece
      <4>5. QED
        BY <4>2, <4>4, ZenonT(60)
    <3>6. session = "idle" => down'[sock] = <<>>
      <4>1. session = "idle" => down[c] = <<>>
        BY <1>1, <2>2, ZenonT(60) DEF SessionInv
      <4>2. ASSUME down[c] = <<>>
            PROVE  down'[c] = <<>>
        <5>1. k = 0
          BY <1>1, <4>2, EmptySeq, SMTT(30)
        <5>2. QED
          BY <1>5, <1>6, <5>1, EmptySeq, ZenonT(60)
      <4>3. QED
        BY <2>2, <4>1, <4>2, ZenonT(60)
    <3>7. Decode(decoder)' = "more" /\ ReplyMatches'
      BY <1>1, <1>4, ZenonT(60) DEF SessionInv, ReplyMatches
    <3>8. QED
      BY <1>4, <1>6, <2>2, <3>3, <3>5, <3>6, <3>7, ZenonT(60) DEF SessionInv
  <2>3. QED
    BY <2>1, <2>2, Zenon
<1>10. QED
  BY <1>7, <1>8, <1>9, Zenon DEF StreamInv

LEMMA PeerSendsKeeps ==
  ASSUME StreamInv, NEW f \in Frame, PeerSends(f)
  PROVE  StreamInv'
<1>1. /\ StreamTypeOK /\ SessionInv /\ Peer \in Conn /\ ThreadInv(Peer)
      /\ up[Peer] \in Seq(Cell) /\ sent[Peer] \in Seq(Frame)
  BY Zenon DEF StreamInv, StreamTypeOK, Conn
<1>2. /\ up' = [up EXCEPT ![Peer] = up[Peer] \o Encode(f)]
      /\ sent' = [sent EXCEPT ![Peer] = Append(sent[Peer], f)]
      /\ link[Peer] = "up" /\ f.id = Len(sent[Peer]) + 1
      /\ UNCHANGED <<link, down, buffer, thread, crashed, handled, sock, decoder, session,
                     asked, answers>>
  BY ZenonT(60) DEF PeerSends, threadVars
<1>3. /\ up'[Peer] = up[Peer] \o Encode(f) /\ sent'[Peer] = Append(sent[Peer], f)
      /\ \A d \in Conn \ {Peer} : up'[d] = up[d] /\ sent'[d] = sent[d]
  BY <1>1, <1>2 DEF StreamTypeOK
<1>4. up[Peer] \o Encode(f) \in Seq(Cell) /\ Append(sent[Peer], f) \in Seq(Frame)
  BY <1>1, EncodedFrame, ConcatProperties, AppendProperties, Zenon
<1>5. StreamTypeOK'
  <2>1. up' \in [Conn -> Seq(Cell)] /\ sent' \in [Conn -> Seq(Frame)]
    BY <1>1, <1>2, <1>4 DEF StreamTypeOK
  <2>2. QED
    BY <1>1, <1>2, <2>1, ZenonT(60) DEF StreamTypeOK
<1>6. ASSUME NEW d \in Conn
      PROVE  ThreadInv(d)'
  <2>1. asked \in Int /\ asked <= asked
    BY <1>1, FrameConstants DEF StreamTypeOK
  <2>2. CASE d = Peer
    <3>1. ASSUME NEW i \in 1 .. Len(sent[Peer])
          PROVE  sent[Peer][i].id < f.id
      <4>1. sent[Peer][i].id \in Int /\ Len(sent[Peer]) \in Int
        BY <1>1, ElementOfSeq, FrameSize, LenProperties, SMTT(30)
      <4>2. sent[Peer][i].id <= Len(sent[Peer])
        BY <1>1, ZenonT(60) DEF ThreadInv, Numbered
      <4>3. QED
        BY <1>2, <4>1, <4>2, SMTT(30)
    <3>2. f.id <= IF Peer = Peer THEN Len(sent[Peer]) + 1 ELSE asked'
      BY <1>1, <1>2, LenProperties
    <3>3. QED
      BY <1>1, <1>2, <1>3, <2>1, <2>2, <3>1, <3>2, ThreadSent, ZenonT(60)
  <2>3. CASE d # Peer
    <3>1. ThreadInv(d)
      BY ZenonT(60) DEF StreamInv
    <3>2. QED
      BY <1>1, <1>2, <1>3, <2>1, <2>3, <3>1, ThreadQuiet, ZenonT(60)
  <2>4. QED
    BY <2>2, <2>3, ZenonT(60)
<1>7. SessionInv'
  <2>1. sock # 0 => sock \in Conn \ {Peer}
    BY <1>1, ZenonT(60) DEF StreamTypeOK, Conn, Peer
  <2>2. QED
    BY <1>1, <1>2, <1>3, <2>1, SessionQuiet, ZenonT(60)
<1>8. QED
  BY <1>5, <1>6, <1>7, Zenon DEF StreamInv
(* The one reply to a frame that came over the session's connection. *)
LEMMA SessionAnswered ==
  ASSUME StreamTypeOK, SessionInv, sock # 0, ThreadInv(sock), link[sock] = "up",
         Decode(buffer[sock]) = "frame",
         NEW f, f = Decoded(buffer[sock]), NEW g \in Frame, g.id = f.id, g.fault = "none",
         down'[sock] = down[sock] \o Encode(g),
         handled'[sock] = Append(handled[sock], f),
         UNCHANGED <<sock, decoder, session, asked, answers, sent, link>>
  PROVE  SessionInv'
<1>1. /\ sock \in Conn /\ decoder \in Seq(Cell) /\ down[sock] \in Seq(Cell)
      /\ handled[sock] \in Seq(Frame) /\ sent[sock] \in Seq(Frame)
  BY Zenon DEF StreamTypeOK, Conn
<1>2. /\ f \in Frame /\ Len(handled[sock]) < Len(sent[sock])
      /\ f = sent[sock][Len(handled[sock]) + 1]
  BY <1>1, NextFrame, Zenon
<1>3. Len(handled[sock]) \in Nat /\ Len(sent[sock]) \in Nat
  BY <1>1, LenProperties, Zenon
<1>4. /\ session # "idle" /\ Answer = <<>>
      /\ Len(sent[sock]) = Len(handled[sock]) + 1
      /\ sent[sock][Len(sent[sock])].id = asked
  <2>1. Len(sent[sock]) # Len(handled[sock])
    BY <1>2, <1>3, SMTT(30)
  <2>2. QED
    BY <2>1, ZenonT(60) DEF SessionInv
<1>5. g.id = asked
  BY <1>2, <1>4, SMTT(30)
<1>6. Encode(g) \in Seq(Cell) /\ Len(Encode(g)) = Total(g) /\ Total(g) \in Nat \ {0}
      /\ \A l \in 1 .. Total(g) : Encode(g)[l] = <<g, l>>
  <2>1. /\ Encode(g) \in Seq(Cell) /\ Len(Encode(g)) = Total(g)
        /\ \A l \in 1 .. Total(g) : Encode(g)[l] = <<g, l>>
    BY EncodedFrame, Zenon
  <2>2. Total(g) \in Nat /\ Total(g) >= HeaderSize /\ HeaderSize \in Nat /\ HeaderSize > 0
    BY FrameSize, Zenon
  <2>3. Total(g) \in Nat \ {0}
    BY <2>2, SMTT(30)
  <2> QED
    BY <2>1, <2>3, Zenon
<1>7. Answer' = Encode(g)
  <2>1. decoder = <<>> /\ down[sock] = <<>>
    BY <1>1, <1>4, ConcatEqualIffEmpty, SMTT(30) DEF Answer
  <2>2. Answer' = <<>> \o (<<>> \o Encode(g))
    BY <2>1, Zenon DEF Answer
  <2>3. <<>> \o Encode(g) = Encode(g)
    BY <1>6, ConcatEmptySeq, Zenon
  <2>4. QED
    BY <2>2, <2>3, ZenonT(60)
<1>8. Answer' # <<>> /\ Piece(Answer', g) /\ Len(Answer') = Total(g)
  <2>1. Encode(g) # <<>> /\ Piece(Encode(g), g)
    BY <1>6, EmptySeq, SMTT(30) DEF Piece
  <2>2. QED
    BY <1>6, <1>7, <2>1, ZenonT(60)
<1>9. Len(handled'[sock]) = Len(sent[sock])
  BY <1>1, <1>2, <1>4, AppendProperties
<1>10. Decode(decoder)' = "more" /\ ReplyMatches'
  BY Zenon DEF SessionInv, ReplyMatches
<1>11. QED
  BY <1>4, <1>5, <1>8, <1>9, <1>10, ZenonT(60) DEF SessionInv

LEMMA HandleKeeps ==
  ASSUME StreamInv, NEW c \in Conn, NEW size \in Sizes, Handle(c, size)
  PROVE  StreamInv'
<1> DEFINE f == Decoded(buffer[c])
           g == [id |-> f.id, size |-> size, fault |-> "none"]
<1>1. /\ StreamTypeOK /\ SessionInv /\ ThreadInv(c)
      /\ up[c] \in Seq(Cell) /\ down[c] \in Seq(Cell) /\ buffer[c] \in Seq(Cell)
      /\ handled[c] \in Seq(Frame)
  BY Zenon DEF StreamInv, StreamTypeOK
<1>2. /\ thread[c] = "push" /\ Decode(buffer[c]) = "frame"
      /\ buffer' = [buffer EXCEPT ![c] = Rest(buffer[c])]
      /\ handled' = [handled EXCEPT ![c] = Append(handled[c], f)]
      /\ UNCHANGED <<up, crashed, sock, decoder, session, asked, sent, answers>>
  BY Zenon DEF Handle, sessionVars
<1>3. \/ /\ link[c] = "up" /\ UNCHANGED <<thread, link>>
         /\ down' = IF c = Peer THEN down ELSE [down EXCEPT ![c] = down[c] \o Encode(g)]
      \/ /\ link[c] # "up" /\ down' = down
         /\ \/ UNCHANGED <<thread, link>>
            \/ thread' = [thread EXCEPT ![c] = "gone"] /\ link' = [link EXCEPT ![c] = "down"]
  BY Zenon DEF Handle, Reply, Hangup
<1>4. f \in Frame /\ Total(f) \in 0 .. Len(buffer[c])
  BY <1>1, <1>2, NextFrame, ZenonT(60)
<1>5. g \in Frame /\ g.id = f.id /\ g.fault = "none"
  BY <1>4, FrameConstants, SMTT(30) DEF Frame
<1>6. link[c] # "closed"
  BY <1>1, <1>2, ZenonT(60) DEF ThreadInv
<1> HIDE DEF f, g
<1>7. /\ Rest(buffer[c]) \in Seq(Cell) /\ Append(handled[c], f) \in Seq(Frame)
      /\ down[c] \o Encode(g) \in Seq(Cell)
  <2>1. Rest(buffer[c]) = SubSeq(buffer[c], Total(f) + 1, Len(buffer[c]))
    BY Zenon DEF Rest, f
  <2>2. QED
    BY <1>1, <1>4, <1>5, <2>1, Pieces, AppendProperties, EncodedFrame, ConcatProperties, ZenonT(60)
<1>8. /\ buffer'[c] = Rest(buffer[c]) /\ handled'[c] = Append(handled[c], f)
      /\ \A d \in Conn \ {c} : buffer'[d] = buffer[d] /\ handled'[d] = handled[d]
      /\ buffer' \in [Conn -> Seq(Cell)] /\ handled' \in [Conn -> Seq(Frame)]
  BY <1>1, <1>2, <1>7, ZenonT(60) DEF StreamTypeOK
<1>9. /\ link' \in [Conn -> {"closed", "up", "down"}]
      /\ thread' \in [Conn -> {"none", "recv", "push", "gone"}]
      /\ link'[c] \in {link[c], "down"} /\ thread'[c] # "recv"
      /\ \A d \in Conn \ {c} : link'[d] = link[d] /\ thread'[d] = thread[d]
  BY <1>1, <1>2, <1>3, ZenonT(60) DEF StreamTypeOK
<1>10. /\ down' \in [Conn -> Seq(Cell)]
       /\ \A d \in Conn \ {c} : down'[d] = down[d]
       /\ link[c] = "up" /\ c # Peer => down'[c] = down[c] \o Encode(g) /\ link' = link
       /\ link[c] # "up" => down'[c] = down[c]
  BY <1>1, <1>3, <1>7, ZenonT(60) DEF StreamTypeOK
<1>11. StreamTypeOK'
  BY <1>1, <1>2, <1>8, <1>9, <1>10, Zenon DEF StreamTypeOK
<1>12. ASSUME NEW d \in Conn
       PROVE  ThreadInv(d)'
  <2>1. CASE d = c
    <3>1. link'[c] # "closed"
      BY <1>6, <1>9
    <3>2. f = Decoded(buffer[c])
      BY ZenonT(60) DEF f
    <3>3. QED
      BY <1>1, <1>2, <1>8, <1>9, <2>1, <3>1, <3>2, ThreadHandles, ZenonT(60)
  <2>2. CASE d # c
    <3>1. ThreadInv(d) /\ asked \in Int /\ asked <= asked
      BY FrameConstants DEF StreamInv, StreamTypeOK
    <3>2. QED
      BY <1>1, <1>2, <1>8, <1>9, <1>10, <2>2, <3>1, ThreadQuiet, ZenonT(60)
  <2>3. QED
    BY <2>1, <2>2, Zenon
<1>13. SessionInv'
  <2>1. sock # 0 => sock \in Conn /\ sock # Peer
    BY <1>1, Zenon DEF StreamTypeOK, Conn, Peer
  <2>2. CASE sock = c /\ sock # 0 /\ link[c] = "up"
    <3>1. f = Decoded(buffer[sock]) /\ ThreadInv(sock) /\ Decode(buffer[sock]) = "frame"
          /\ link[sock] = "up" /\ handled'[sock] = Append(handled[sock], f)
          /\ down'[sock] = down[sock] \o Encode(g) /\ link' = link
      BY <1>1, <1>2, <1>8, <1>10, <2>1, <2>2, ZenonT(60) DEF f
    <3>2. QED
      BY <1>1, <1>2, <1>5, <2>2, <3>1, SessionAnswered, ZenonT(60)
  <2>3. CASE sock = c /\ sock # 0 /\ link[c] # "up"
    <3>1. Answer' = Answer /\ Decode(decoder)' = "more" /\ ReplyMatches'
      BY <1>1, <1>2, <1>10, <2>3, ZenonT(60) DEF Answer, SessionInv, ReplyMatches
    <3>2. link'[sock] # "up" /\ link'[sock] # "closed" /\ down'[sock] = down[sock]
      BY <1>6, <1>9, <1>10, <2>3, ZenonT(60)
    <3>3. QED
      BY <1>1, <1>2, <2>3, <3>1, <3>2, ZenonT(60) DEF SessionInv
  <2>4. CASE sock # c \/ sock = 0
    <3>1. sock # 0 => sock \in Conn \ {c}
      BY <2>1, <2>4
    <3>2. QED
      BY <1>1, <1>2, <1>8, <1>9, <1>10, <3>1, SessionQuiet, ZenonT(60)
  <2>5. QED
    BY <2>2, <2>3, <2>4, ZenonT(60)
<1>14. QED
  BY <1>11, <1>12, <1>13, ZenonT(60) DEF StreamInv
-----------------------------------------------------------------------------
LEMMA StreamInitial ==
  ASSUME StreamInit
  PROVE  StreamInv
<1>1. <<>> \in Seq(Cell) /\ <<>> \in Seq(Frame) /\ Len(<<>>) = 0
  BY EmptySeq, Zenon
<1>2. StreamTypeOK
  <2>1. 0 \in 0 .. MaxFrames
    BY FrameConstants
  <2>2. /\ link \in [Conn -> {"closed", "up", "down"}]
        /\ thread \in [Conn -> {"none", "recv", "push", "gone"}]
    BY Zenon DEF StreamInit
  <2>3. /\ up \in [Conn -> Seq(Cell)] /\ down \in [Conn -> Seq(Cell)]
        /\ buffer \in [Conn -> Seq(Cell)] /\ decoder \in Seq(Cell)
        /\ sent \in [Conn -> Seq(Frame)] /\ handled \in [Conn -> Seq(Frame)]
    BY <1>1, Zenon DEF StreamInit
  <2>4. /\ sock = 0 /\ session = "idle" /\ asked = 0 /\ crashed = FALSE /\ answers = {}
    BY Zenon DEF StreamInit
  <2>5. QED
    BY <2>1, <2>2, <2>3, <2>4, ZenonT(60) DEF StreamTypeOK
<1>3. ASSUME NEW c \in Conn
      PROVE  ThreadInv(c)
  <2>1. /\ up[c] = <<>> /\ down[c] = <<>> /\ buffer[c] = <<>> /\ sent[c] = <<>>
        /\ handled[c] = <<>> /\ (link[c] = "closed" => thread[c] = "none")
    BY ZenonT(60) DEF StreamInit
  <2>2. Inbound(c) = <<>>
    BY <1>1, <2>1, ConcatEmptySeq, ZenonT(60) DEF Inbound
  <2>3. Numbered(c)
    BY <1>1, <2>1, SMTT(30) DEF Numbered
  <2>4. /\ InOrder(<<>>, <<>>) /\ BeginsAfter(<<>>, <<>>, 0) /\ Complete(<<>>, <<>>, 0)
    BY <1>1 DEF InOrder, BeginsAfter, Complete
  <2>5. Len(<<>>) <= Len(<<>>) /\ 1 .. Len(<<>>) = {}
    BY <1>1, SMTT(30)
  <2>6. /\ InOrder(Inbound(c), sent[c]) /\ BeginsAfter(Inbound(c), sent[c], Len(handled[c]))
        /\ Complete(Inbound(c), sent[c], Len(handled[c])) /\ Decode(buffer[c]) = "more"
    BY <1>1, <2>1, <2>2, <2>4, DecodeEmpty, ZenonT(60)
  <2>7. /\ Len(handled[c]) <= Len(sent[c])
        /\ \A i \in 1 .. Len(handled[c]) :
             handled[c][i] = sent[c][i] /\ handled[c][i].fault = "none"
    BY <2>1, <2>5
  <2>8. QED
    BY <2>1, <2>3, <2>6, <2>7, ZenonT(60) DEF ThreadInv
<1>4. SessionInv
  BY DecodeEmpty, Zenon DEF StreamInit, SessionInv, ReplyMatches
<1>5. QED
  BY <1>2, <1>3, <1>4, Zenon DEF StreamInv

LEMMA StreamStutters ==
  ASSUME StreamInv, UNCHANGED streamVars
  PROVE  StreamInv'
<1>1. StreamTypeOK'
  BY Zenon DEF StreamInv, StreamTypeOK, streamVars, threadVars, sessionVars
<1>2. ASSUME NEW c \in Conn
      PROVE  ThreadInv(c)'
  BY ZenonT(60) DEF StreamInv, ThreadInv, Numbered, Inbound, streamVars, threadVars, sessionVars
<1>3. SessionInv'
  BY Zenon DEF StreamInv, SessionInv, Answer, ReplyMatches, streamVars, threadVars, sessionVars
<1>4. QED
  BY <1>1, <1>2, <1>3, ZenonT(60) DEF StreamInv

(* One step per action. *)
LEMMA StreamInductive ==
  ASSUME StreamInv, [StreamNext]_streamVars
  PROVE  StreamInv'
<1>1. CASE SessionStep
  BY <1>1, PollKeeps, SessionEndsKeeps, SessionReceivesKeeps, Zenon DEF SessionStep
<1>2. ASSUME NEW c \in Conn, ThreadStep(c)
      PROVE  StreamInv'
  BY ZenonT(60), <1>2, DrainedKeeps, ServerEndsKeeps, TerminateKeeps, HandleKeeps, ServerReceivesKeeps,
     Zenon DEF ThreadStep
<1>3. CASE Close
  BY <1>3, CloseKeeps, Zenon
<1>4. ASSUME NEW f \in Frame, Ask(f) \/ PeerSends(f)
      PROVE  StreamInv'
  BY <1>4, AskKeeps, PeerSendsKeeps, Zenon
<1>5. ASSUME NEW c \in SessionConn, Connect(c)
      PROVE  StreamInv'
  BY <1>5, ConnectKeeps, Zenon
<1>6. ASSUME NEW c \in Conn, Reset(c)
      PROVE  StreamInv'
  BY <1>6, ResetKeeps, Zenon
<1>7. CASE UNCHANGED streamVars
  BY <1>7, StreamStutters, ZenonT(60)
<1>8. QED
  BY <1>1, <1>2, <1>3, <1>4, <1>5, <1>6, <1>7, ZenonT(60) DEF StreamNext

LEMMA StreamAlways == StreamSpec => []StreamInv
BY StreamInitial, StreamInductive, PTL DEF StreamSpec

-----------------------------------------------------------------------------
(* A buffer that is not empty begins with the next frame to be handled. *)
LEMMA BufferStarts ==
  ASSUME StreamTypeOK, NEW c \in Conn, ThreadInv(c), buffer[c] # <<>>
  PROVE  \E g \in Frame :
           /\ g = sent[c][Len(handled[c]) + 1]
           /\ Starts(buffer[c], 1, g) /\ Starts(Inbound(c), 1, g)
<1>1. /\ up[c] \in Seq(Cell) /\ buffer[c] \in Seq(Cell)
      /\ sent[c] \in Seq(Frame) /\ handled[c] \in Seq(Frame)
  BY Zenon DEF StreamTypeOK
<1>2. Inbound(c) \in Seq(Cell) /\ Inbound(c) # <<>>
  BY <1>1, BufferFirst, Zenon DEF Inbound
<1>3. PICK k \in Nat : k = Len(handled[c])
  BY <1>1, LenProperties, Zenon
<1>4. InOrder(Inbound(c), sent[c]) /\ BeginsAfter(Inbound(c), sent[c], k)
  BY <1>3, Zenon DEF ThreadInv
<1>5. sent[c][k + 1] \in Frame /\ Starts(Inbound(c), 1, sent[c][k + 1])
  BY <1>1, <1>2, <1>4, FirstFrame, Zenon
<1>6. Starts(buffer[c], 1, sent[c][k + 1])
  BY <1>1, <1>5, BufferFirst, Zenon DEF Inbound
<1>7. QED
  BY <1>3, <1>5, <1>6, Zenon

(* A thread that waits while nothing is on its way has handled everything. *)
LEMMA AllHandled ==
  ASSUME StreamTypeOK, NEW c \in Conn, ThreadInv(c),
         link[c] = "up", thread[c] = "recv", up[c] = <<>>
  PROVE  handled[c] = sent[c]
<1>1. /\ buffer[c] \in Seq(Cell) /\ sent[c] \in Seq(Frame) /\ handled[c] \in Seq(Frame)
  BY Zenon DEF StreamTypeOK
<1>2. Inbound(c) = buffer[c]
  BY <1>1, ConcatEmptySeq, Zenon DEF Inbound
<1>3. Complete(buffer[c], sent[c], Len(handled[c])) /\ Decode(buffer[c]) = "more"
  BY <1>2, ZenonT(60) DEF ThreadInv
<1>4. buffer[c] = <<>>
  <2>1. SUFFICES ASSUME buffer[c] # <<>>
                 PROVE  FALSE
    BY Zenon
  <2>2. PICK g \in Frame : Starts(buffer[c], 1, g)
    BY <2>1, BufferStarts, ZenonT(60)
  <2>3. Len(buffer[c]) \in Nat \ {0} /\ Total(g) \in Nat /\ Total(g) >= HeaderSize
    BY <1>1, <2>1, EmptySeq, FrameSize, ZenonT(60)
  <2>4. Len(buffer[c]) < Total(g)
    BY <1>1, <1>3, <2>1, <2>2, <2>3, DecodeResult, FrameConstants, SMTT(30)
  <2>5. buffer[c][Len(buffer[c])] = <<g, Len(buffer[c])>>
    BY <2>2, <2>3, <2>4 DEF Starts
  <2>6. PICK h : buffer[c][Len(buffer[c])] = <<h, Total(h)>>
    BY <1>3, <2>1, Zenon DEF Complete
  <2>7. QED
    BY <2>3, <2>4, <2>5, <2>6, SMTT(30)
<1>5. Len(handled[c]) = Len(sent[c])
  BY <1>3, <1>4, Zenon DEF Complete
<1>6. \A i \in 1 .. Len(handled[c]) : handled[c][i] = sent[c][i]
  BY ZenonT(60) DEF ThreadInv
<1>7. QED
  BY <1>1, <1>5, <1>6, SeqEqual, ZenonT(60)

LEMMA Prefix ==
  ASSUME NEW q \in Seq(Frame), NEW h \in Seq(Frame), Len(h) <= Len(q),
         \A i \in 1 .. Len(h) : h[i] = q[i]
  PROVE  h = SubSeq(q, 1, Len(h))
<1>1. PICK n \in Nat : n = Len(h)
  BY LenProperties
<1>2. \A i \in 1 .. n : q[i] \in Frame /\ h[i] = q[i]
  BY <1>1, ElementOfSeq, ZenonT(60)
<1>3. /\ SubSeq(q, 1, n) \in Seq(Frame) /\ Len(SubSeq(q, 1, n)) = n
      /\ \A i \in 1 .. n : SubSeq(q, 1, n)[i] = q[i]
  BY <1>2, SubSeqProperties
<1>4. QED
  BY <1>1, <1>2, <1>3, SeqEqual, ZenonT(60)

(* Registration frames are "never lost or double-consumed"                 *)
(* (coordinator.hpp): the coordinator's receive loop hands over what was   *)
(* sent, in order, each frame once, whole and well-formed, and all of it   *)
(* once everything has arrived.                                            *)
THEOREM StreamConsumedOnce == StreamSpec => []ConsumedOnce
<1>1. ASSUME StreamInv
      PROVE  ConsumedOnce
  <2>1. StreamTypeOK /\ \A c \in Conn : ThreadInv(c)
    BY <1>1, Zenon DEF StreamInv
  <2>2. ASSUME NEW c \in Conn
        PROVE  /\ Len(handled[c]) <= Len(sent[c])
               /\ handled[c] = SubSeq(sent[c], 1, Len(handled[c]))
               /\ \A i \in DOMAIN handled[c] : handled[c][i].fault = "none"
               /\ link[c] = "up" /\ thread[c] = "recv" /\ up[c] = <<>>
                    => handled[c] = sent[c]
    <3>1. sent[c] \in Seq(Frame) /\ handled[c] \in Seq(Frame)
      BY <2>1, Zenon DEF StreamTypeOK
    <3>2. /\ Len(handled[c]) <= Len(sent[c])
          /\ \A i \in 1 .. Len(handled[c]) :
               handled[c][i] = sent[c][i] /\ handled[c][i].fault = "none"
      BY <2>1, Zenon DEF ThreadInv
    <3>3. handled[c] = SubSeq(sent[c], 1, Len(handled[c]))
      BY <3>1, <3>2, Prefix, ZenonT(60)
    <3>4. DOMAIN handled[c] = 1 .. Len(handled[c])
      BY <3>1, LenProperties, ZenonT(60)
    <3>5. QED
      BY <2>1, <3>2, <3>3, <3>4, AllHandled, ZenonT(60)
  <2>3. QED
    BY <2>1, <2>2, ZenonT(60) DEF ConsumedOnce
<1>2. QED
  BY <1>1, StreamAlways, PTL

(* FrameStreamDecoder and its reset keep both ends at a frame's boundary:  *)
(* the session never meets a malformed frame, and the coordinator only one *)
(* that was sent so.                                                       *)
THEOREM StreamInSync == StreamSpec => []InSync
<1>1. ASSUME StreamInv
      PROVE  InSync
  <2>1. StreamTypeOK /\ SessionInv /\ \A c \in Conn : ThreadInv(c)
    BY <1>1, Zenon DEF StreamInv
  <2>2. Decode(decoder) # "malformed"
    BY <2>1, ZenonT(60) DEF SessionInv
  <2>3. ASSUME NEW c \in Conn, Decode(buffer[c]) = "malformed"
        PROVE  Decoded(buffer[c]).fault # "none"
    <3>1. buffer[c] \in Seq(Cell) /\ buffer[c] # <<>>
      BY <2>1, <2>3, DecodeEmpty DEF StreamTypeOK
    <3>2. PICK g \in Frame : Starts(buffer[c], 1, g)
      BY <2>1, <3>1, BufferStarts, ZenonT(60)
    <3>3. buffer[c][1] = <<g, 1>> /\ g.fault # "none"
      BY <2>3, <3>1, <3>2, DecodeResult, ZenonT(60)
    <3>4. QED
      BY <3>3, SMTT(30) DEF Decoded
  <2>4. QED
    BY <2>2, <2>3, Zenon DEF InSync
<1>2. QED
  BY <1>1, StreamAlways, PTL

(* recv_frame takes the first frame that comes, and no frame names the     *)
(* request it answers: still, a reply the session returns is the answer to *)
(* the request it has just sent.                                           *)
THEOREM StreamReplyMatches == StreamSpec => []ReplyMatches
<1>1. StreamInv => ReplyMatches
  BY Zenon DEF StreamInv, SessionInv
<1>2. QED
  BY <1>1, StreamAlways, PTL
=============================================================================
