----------------------------- MODULE FrameStream -----------------------------
(***************************************************************************)
(* Frames over TCP: FrameStreamDecoder (protocol_frame.cpp), the receive   *)
(* loop of a connection's thread (coordinator.cpp) and the WorkerSession   *)
(* that asks for one thing at a time and waits for its reply (worker.cpp). *)
(*                                                                         *)
(* A frame of HeaderSize + size bytes travels as that many cells           *)
(* <<frame, position>>; TCP delivers them in chunks of any length.  What a *)
(* frame says is its id: the request's number, and in a reply the number   *)
(* of the request that is answered.  Besides the session there is a Peer,  *)
(* another program with a connection of its own that sends frames without  *)
(* waiting for replies, and of which some are not well formed.             *)
(***************************************************************************)
EXTENDS Integers, Sequences

CONSTANTS
  HeaderSize,   \* kFrameHeaderSize
  Sizes,        \* payload sizes
  Faults,       \* what may be wrong with the Peer's frames: "header", "body"
  MaxConn,      \* bound: connections the session opens
  MaxFrames     \* bound: frames the session and the Peer send together

ASSUME FrameConstants ==
  /\ HeaderSize \in Nat \ {0}
  /\ Sizes \subseteq Nat
  /\ Faults \subseteq {"header", "body"}
  /\ MaxConn \in Nat
  /\ MaxFrames \in Nat

Peer == 0
SessionConn == 1 .. MaxConn
Conn == SessionConn \cup {Peer}

VARIABLES
  sock,      \* the session's connection, 0 for none
  link,      \* of each connection: "closed", "up" or "down"
  up, down,  \* the cells on their way to the coordinator and to the session
  buffer,    \* buffer_ of the decoder of each connection's thread
  thread,    \* the next step of each connection's thread
  decoder,   \* buffer_ of decoder_, the session's
  session,   \* the next step of the session
  asked,     \* the number of the request in hand, and of the last one
  crashed,   \* the coordinator's process was terminated
  sent,      \* requests sent over each connection (history)
  handled,   \* requests given to handle_frame on each connection (history)
  answers    \* <<request, reply>> pairs the session returned (history)

threadVars == <<buffer, thread, crashed, handled>>
sessionVars == <<sock, decoder, session, asked, sent, answers>>
streamVars == <<link, up, down, threadVars, sessionVars>>

Frame == [id: 1 .. MaxFrames, size: Sizes, fault: Faults \cup {"none"}]

Budget == asked + Len(sent[Peer]) < MaxFrames

-----------------------------------------------------------------------------
Total(f) == HeaderSize + f.size

(* encode_frame *)
Encode(f) == [k \in 1 .. Total(f) |-> <<f, k>>]

(* decode_one on a buffer that holds a whole header: magic, version and    *)
(* length, then the whole frame with its checksum and type.                *)
DecodeHeaded(b) ==
  LET f == b[1][1] IN
  CASE b[1][2] # 1 \/ f.fault = "header"                         -> "malformed"
    [] b[1][2] = 1 /\ f.fault # "header" /\ Len(b) < Total(f)    -> "more"
    [] OTHER ->
         IF f.fault = "none" /\ SubSeq(b, 1, Total(f)) = Encode(f)
         THEN "frame" ELSE "malformed"

Decode(b) == IF Len(b) < HeaderSize THEN "more" ELSE DecodeHeaded(b)

Decoded(b) == b[1][1]
Rest(b) == SubSeq(b, Total(Decoded(b)) + 1, Len(b))

StreamInit ==
  /\ sock = 0
  /\ link = [c \in Conn |-> IF c = Peer THEN "up" ELSE "closed"]
  /\ up = [c \in Conn |-> <<>>]
  /\ down = [c \in Conn |-> <<>>]
  /\ buffer = [c \in Conn |-> <<>>]
  /\ thread = [c \in Conn |-> IF c = Peer THEN "recv" ELSE "none"]
  /\ decoder = <<>>
  /\ session = "idle"
  /\ asked = 0
  /\ crashed = FALSE
  /\ sent = [c \in Conn |-> <<>>]
  /\ handled = [c \in Conn |-> <<>>]
  /\ answers = {}

-----------------------------------------------------------------------------
(* The session.                                                            *)

(* Faulty variant: what is left of an earlier connection stays buffered. *)
ConnectKeepingBytes(c) ==
  /\ session = "idle" /\ ~crashed
  /\ link[c] = "closed" /\ \A d \in SessionConn : d < c => link[d] # "closed"
  /\ sock' = c
  /\ link' = [link EXCEPT ![c] = "up"]
  /\ thread' = [thread EXCEPT ![c] = "recv"]
  /\ UNCHANGED <<up, down, buffer, crashed, handled, decoder, session, asked, sent, answers>>

(* connect: a new socket, decoder_.reset(); the coordinator accepts it and *)
(* starts a thread.  A socket the session had is not closed.               *)
Connect(c) ==
  /\ session = "idle" /\ ~crashed
  /\ link[c] = "closed" /\ \A d \in SessionConn : d < c => link[d] # "closed"
  /\ sock' = c
  /\ decoder' = <<>>
  /\ link' = [link EXCEPT ![c] = "up"]
  /\ thread' = [thread EXCEPT ![c] = "recv"]
  /\ UNCHANGED <<up, down, buffer, crashed, handled, session, asked, sent, answers>>

(* close: what was sent still arrives, what was not received is gone. *)
Close ==
  /\ session = "idle" /\ sock # 0
  /\ sock' = 0
  /\ link' = [link EXCEPT ![sock] = "down"]
  /\ down' = [down EXCEPT ![sock] = <<>>]
  /\ UNCHANGED <<up, threadVars, decoder, session, asked, sent, answers>>

(* A send_*: the request is encoded and sent; a send that fails is not     *)
(* noticed.  Then recv_frame, which looks into the buffer first.           *)
Ask(f) ==
  /\ session = "idle" /\ sock # 0
  /\ f.id = asked + 1 /\ f.fault = "none" /\ Budget
  /\ asked' = f.id
  /\ session' = "poll"
  /\ IF link[sock] = "up"
     THEN /\ up' = [up EXCEPT ![sock] = @ \o Encode(f)]
          /\ sent' = [sent EXCEPT ![sock] = Append(@, f)]
     ELSE UNCHANGED <<up, sent>>
  /\ UNCHANGED <<link, down, threadVars, sock, decoder, answers>>

(* Faulty variant: a chunk that completes no frame ends the wait. *)
PushedGivingUp(b) ==
  CASE Decode(b) = "frame" ->
         /\ answers' = answers \cup {<<asked, Decoded(b).id>>}
         /\ decoder' = Rest(b)
         /\ session' = "idle"
    [] OTHER ->
         /\ decoder' = b
         /\ session' = IF session = "poll" THEN "recv" ELSE "idle"
         /\ UNCHANGED answers

(* What a push onto the session's decoder leads to. *)
Pushed(b) ==
  CASE Decode(b) = "frame" ->
         /\ answers' = answers \cup {<<asked, Decoded(b).id>>}
         /\ decoder' = Rest(b)
         /\ session' = "idle"
    [] Decode(b) = "more" ->
         decoder' = b /\ session' = "recv" /\ UNCHANGED answers
    [] OTHER ->
         decoder' = b /\ session' = "idle" /\ UNCHANGED answers

Poll ==
  /\ session = "poll"
  /\ Pushed(decoder)
  /\ UNCHANGED <<link, up, down, threadVars, sock, asked, sent>>

SessionReceives(n) ==
  /\ session = "recv"
  /\ n \in 1 .. Len(down[sock])
  /\ Pushed(decoder \o SubSeq(down[sock], 1, n))
  /\ down' = [down EXCEPT ![sock] = SubSeq(@, n + 1, Len(@))]
  /\ UNCHANGED <<link, up, threadVars, sock, asked, sent>>

(* Faulty variant: the end of the stream is taken for an empty chunk. *)
SessionRetries ==
  /\ session = "recv"
  /\ link[sock] = "down" /\ down[sock] = <<>>
  /\ UNCHANGED streamVars

(* recv returns nothing: no reply. *)
SessionEnds ==
  /\ session = "recv"
  /\ link[sock] = "down" /\ down[sock] = <<>>
  /\ session' = "idle"
  /\ UNCHANGED <<link, up, down, threadVars, sock, decoder, asked, sent, answers>>

-----------------------------------------------------------------------------
(* A connection's thread: receive a chunk, then hand over every complete   *)
(* frame in the buffer before receiving again.                             *)
ServerReceives(c, n) ==
  /\ thread[c] = "recv" /\ ~crashed
  /\ n \in 1 .. Len(up[c])
  /\ buffer' = [buffer EXCEPT ![c] = @ \o SubSeq(up[c], 1, n)]
  /\ up' = [up EXCEPT ![c] = SubSeq(@, n + 1, Len(@))]
  /\ thread' = [thread EXCEPT ![c] = "push"]
  /\ UNCHANGED <<link, down, crashed, handled, sessionVars>>

Hangup(c) ==
  /\ thread' = [thread EXCEPT ![c] = "gone"]
  /\ link' = [link EXCEPT ![c] = "down"]

(* The Peer takes its replies as they come. *)
Reply(c, f) ==
  down' = IF c = Peer THEN down ELSE [down EXCEPT ![c] = @ \o Encode(f)]

(* Faulty variant: one frame per received chunk. *)
HandleOne(c, size) ==
  LET f == Decoded(buffer[c]) IN
  /\ thread[c] = "push" /\ ~crashed
  /\ Decode(buffer[c]) = "frame"
  /\ buffer' = [buffer EXCEPT ![c] = Rest(@)]
  /\ handled' = [handled EXCEPT ![c] = Append(@, f)]
  /\ IF link[c] = "up"
     THEN Reply(c, [id |-> f.id, size |-> size, fault |-> "none"])
          /\ thread' = [thread EXCEPT ![c] = "recv"]
          /\ UNCHANGED link
     ELSE Hangup(c) /\ UNCHANGED down
  /\ UNCHANGED <<up, crashed, sessionVars>>

(* handle_frame and its one reply, of whatever size.  To a connection that *)
(* is down it is sent in vain, or the send fails and the thread gives up.  *)
Handle(c, size) ==
  LET f == Decoded(buffer[c]) IN
  /\ thread[c] = "push" /\ ~crashed
  /\ Decode(buffer[c]) = "frame"
  /\ buffer' = [buffer EXCEPT ![c] = Rest(@)]
  /\ handled' = [handled EXCEPT ![c] = Append(@, f)]
  /\ IF link[c] = "up"
     THEN Reply(c, [id |-> f.id, size |-> size, fault |-> "none"])
          /\ UNCHANGED <<thread, link>>
     ELSE UNCHANGED down /\ (Hangup(c) \/ UNCHANGED <<thread, link>>)
  /\ UNCHANGED <<up, crashed, sessionVars>>

Drained(c) ==
  /\ thread[c] = "push" /\ ~crashed
  /\ Decode(buffer[c]) = "more"
  /\ thread' = [thread EXCEPT ![c] = "recv"]
  /\ UNCHANGED <<link, up, down, buffer, crashed, handled, sessionVars>>

ServerEnds(c) ==
  /\ thread[c] = "recv" /\ ~crashed
  /\ link[c] = "down" /\ up[c] = <<>>
  /\ Hangup(c)
  /\ UNCHANGED <<up, down, buffer, crashed, handled, sessionVars>>

(* push throws ProtocolError, which nothing in the thread catches: the     *)
(* process ends and with it every connection.                              *)
Terminate(c) ==
  /\ thread[c] = "push" /\ ~crashed
  /\ Decode(buffer[c]) = "malformed"
  /\ crashed' = TRUE
  /\ link' = [d \in Conn |-> IF link[d] = "up" THEN "down" ELSE link[d]]
  /\ UNCHANGED <<up, down, buffer, thread, handled, sessionVars>>

(* A connection is reset: the last of what is on its way is lost. *)
Reset(c) ==
  /\ link[c] = "up"
  /\ link' = [link EXCEPT ![c] = "down"]
  /\ \E n \in 0 .. Len(up[c]) : up' = [up EXCEPT ![c] = SubSeq(@, 1, n)]
  /\ \E n \in 0 .. Len(down[c]) : down' = [down EXCEPT ![c] = SubSeq(@, 1, n)]
  /\ UNCHANGED <<threadVars, sessionVars>>

PeerSends(f) ==
  /\ link[Peer] = "up"
  /\ f.id = Len(sent[Peer]) + 1 /\ Budget
  /\ up' = [up EXCEPT ![Peer] = @ \o Encode(f)]
  /\ sent' = [sent EXCEPT ![Peer] = Append(@, f)]
  /\ UNCHANGED <<link, down, threadVars, sock, decoder, session, asked, answers>>

-----------------------------------------------------------------------------
SessionStep ==
  \/ Poll \/ SessionEnds
  \/ sock # 0 /\ \E n \in 1 .. Len(down[sock]) : SessionReceives(n)

ThreadStep(c) ==
  \/ Drained(c) \/ ServerEnds(c) \/ Terminate(c)
  \/ \E size \in Sizes : Handle(c, size)
  \/ \E n \in 1 .. Len(up[c]) : ServerReceives(c, n)

StreamNext ==
  \/ Close \/ SessionStep
  \/ \E f \in Frame : Ask(f) \/ PeerSends(f)
  \/ \E c \in SessionConn : Connect(c)
  \/ \E c \in Conn : Reset(c) \/ ThreadStep(c)

StreamSpec == StreamInit /\ [][StreamNext]_streamVars

(* The session waits in recv_frame until it returns, and the threads run.  *)
FairStreamSpec ==
  /\ StreamSpec
  /\ WF_streamVars(SessionStep)
  /\ \A c \in Conn : WF_streamVars(ThreadStep(c))

-----------------------------------------------------------------------------
Cell == {c \in Frame \X Nat : c[2] \in 1 .. Total(c[1])}

(* Every variable keeps to its domain. *)
StreamTypeOK ==
  /\ sock \in SessionConn \cup {0}
  /\ link \in [Conn -> {"closed", "up", "down"}]
  /\ thread \in [Conn -> {"none", "recv", "push", "gone"}]
  /\ session \in {"idle", "poll", "recv"}
  /\ asked \in 0 .. MaxFrames
  /\ crashed \in BOOLEAN
  /\ up \in [Conn -> Seq(Cell)]
  /\ down \in [Conn -> Seq(Cell)]
  /\ buffer \in [Conn -> Seq(Cell)]
  /\ sent \in [Conn -> Seq(Frame)]
  /\ handled \in [Conn -> Seq(Frame)]
  /\ decoder \in Seq(Cell)
  /\ answers \subseteq (1 .. MaxFrames) \X (1 .. MaxFrames)

(* coordinator.hpp: "registration frames are never lost or                 *)
(* double-consumed".  However TCP cuts the stream, a connection's thread   *)
(* hands over the frames that were sent, in their order, each once and     *)
(* only whole and well-formed ones; and once everything has arrived and    *)
(* the thread waits for more, it has handed over all of them.              *)
ConsumedOnce ==
  /\ StreamTypeOK
  /\ \A c \in Conn :
       /\ Len(handled[c]) <= Len(sent[c])
       /\ handled[c] = SubSeq(sent[c], 1, Len(handled[c]))
       /\ \A i \in DOMAIN handled[c] : handled[c][i].fault = "none"
       /\ link[c] = "up" /\ thread[c] = "recv" /\ up[c] = <<>>
            => handled[c] = sent[c]

(* protocol_frame.hpp, reset: bytes of a connection that broke off never   *)
(* run together with those of the next, and what a decoder leaves behind   *)
(* starts at a frame's boundary.  So the session meets no malformed frame, *)
(* and the coordinator only one that was sent so.                          *)
InSync ==
  /\ Decode(decoder) # "malformed"
  /\ \A c \in Conn :
       Decode(buffer[c]) = "malformed" => Decoded(buffer[c]).fault # "none"

(* A reply the session returns answers the request it has just sent, not   *)
(* one of an earlier call or an earlier connection (recv_frame takes the   *)
(* first frame that comes; nothing in a frame names the request).          *)
ReplyMatches == \A a \in answers : a[1] = a[2]

(* recv_frame returns: with the reply or, if the connection or the         *)
(* coordinator goes down, without one.                                     *)
RequestEnds == session # "idle" ~> session = "idle"
=============================================================================
