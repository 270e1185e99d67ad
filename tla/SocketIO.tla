------------------------------ MODULE SocketIO ------------------------------
(***************************************************************************)
(* SocketIO under one TcpConnection: isClosed() and readline() take a      *)
(* byte stream apart into messages, sendn() writes the answers, and the    *)
(* peer sends, ends or aborts the connection at any moment.                *)
(*                                                                         *)
(* Bytes are named by their position in the peer's stream; only whether a  *)
(* byte is '\n' matters.  One step per call of recv or send; a call that   *)
(* finds nothing, or no room, waits, as the sockets are blocking.  EINTR,  *)
(* which needs a signal handler, is left out.                              *)
(***************************************************************************)
EXTENDS Integers, Sequences

CONSTANTS
    MaxLen,     \* the length of the buffer given to readline (65536)
    Room,       \* what send() takes before the peer reads: the socket buffers
    MaxBytes    \* bound: what the peer sends in all

ASSUME SocketAssumption ==
    MaxLen \in Nat /\ MaxLen > 1 /\ Room \in Nat \ {0} /\ MaxBytes \in Nat

VARIABLES
    arrived,    \* the bytes 1..arrived have reached this host
    newlines,   \* those of them that are '\n'
    consumed,   \* the bytes 1..consumed have left the receive buffer
    fin, rst,   \* the peer's FIN, and its RST, have arrived
    error,      \* ECONNRESET is pending: the next recv or send reports it
    pc,         \* where the IO thread is
    buff,       \* receive()'s array, with the cells before and after it
    pos,        \* pbuf, as an index of buff; total moves with it
    left,       \* the bytes readline may still store
    want,       \* the bytes readn has still to move
    text,       \* all that receive() has returned, message after message
    cuts,       \* where the messages end in text
    answered,   \* text[1..answered] has been handed to sendn
    out,        \* the bytes sendn has still to send
    delivered,  \* what send() has taken, in order
    unread      \* how many of these bytes the peer has not read

peerVars == <<arrived, newlines, fin, rst>>
lineVars == <<buff, pos, left, want>>
answerVars == <<answered, out, delivered, unread>>
vars == <<peerVars, consumed, error, pc, lineVars, text, cuts, answerVars>>

NUL == 0
Cells == -1..MaxLen
\* What stands next to the array: neither NUL nor a byte of the stream.
Canary == MaxBytes + 1
\* receive()'s array, zeroed, between its neighbours.
Blank == [i \in Cells |-> IF i \in 0..(MaxLen - 1) THEN NUL ELSE Canary]
\* What receive() makes of byte n: readline overwrites '\n'.
Returned(n) == IF n \in newlines THEN NUL ELSE n

TypeOK ==
    /\ arrived \in Nat /\ consumed \in 0..arrived
    /\ newlines \subseteq 1..arrived
    /\ fin \in BOOLEAN /\ rst \in BOOLEAN /\ error \in BOOLEAN
    /\ pc \in {"idle", "peek", "line", "part", "send", "closed", "killed"}
    /\ buff \in [Cells -> Nat]
    /\ pos \in Int /\ left \in Int /\ want \in Nat
    /\ text \in Seq(Nat) /\ cuts \subseteq 1..Len(text)
    /\ answered \in Nat /\ out \in Seq(Nat) /\ delivered \in Seq(Nat)
    /\ unread \in 0..Room

Init ==
    /\ arrived = 0 /\ newlines = {} /\ consumed = 0
    /\ fin = FALSE /\ rst = FALSE /\ error = FALSE
    /\ pc = "idle"
    /\ buff = Blank /\ pos = 0 /\ left = 0 /\ want = 0
    /\ text = <<>> /\ cuts = {}
    /\ answered = 0 /\ out = <<>> /\ delivered = <<>> /\ unread = 0

----------------------------------------------------------------------------
\* The peer and the kernel

Arrive ==
    /\ ~fin /\ ~rst /\ arrived < MaxBytes
    /\ arrived' = arrived + 1
    /\ newlines' \in {newlines, newlines \cup {arrived + 1}}
    /\ UNCHANGED <<fin, rst, consumed, error, pc, lineVars, text, cuts, answerVars>>

End ==
    /\ ~fin /\ ~rst
    /\ fin' = TRUE
    /\ UNCHANGED <<arrived, newlines, rst, consumed, error, pc, lineVars, text, cuts, answerVars>>

\* After a FIN the reading side is done and an RST is seen by send() only.
Abort ==
    /\ ~rst
    /\ rst' = TRUE
    /\ error' = ~fin
    /\ UNCHANGED <<arrived, newlines, fin, consumed, pc, lineVars, text, cuts, answerVars>>

\* The peer reads some of what it has been sent.
Read ==
    /\ \E n \in 1..unread : unread' = unread - n
    /\ UNCHANGED <<peerVars, consumed, error, pc, lineVars, text, cuts, answered, out, delivered>>

Readable == arrived > consumed \/ fin \/ rst

\* The possible results of recv(fd, buff, len): bytes that are there first, then
\* the end of the stream or the pending error.  Empty: the call blocks.
RecvResults(len) ==
    IF arrived > consumed THEN {k \in 1..len : k <= arrived - consumed}
    ELSE IF error THEN {-1}
    ELSE IF fin \/ rst THEN {0}
    ELSE {}

ErrorTaken(ret) == error' = (error /\ ret # -1)

\* recv stores the next n bytes of the stream at pbuf.
Store(n) ==
    [i \in Cells |-> IF i \in pos..(pos + n - 1) THEN consumed + 1 + (i - pos) ELSE buff[i]]

----------------------------------------------------------------------------
\* TcpConnection::isClosed, ::receive and SocketIO::readline

\* Mutant: the whole buffer is offered to recv.
IsClosedWholeBuffer ==
    /\ pc = "idle" /\ Readable
    /\ \E ret \in RecvResults(20) :
        /\ ErrorTaken(ret)
        /\ pc' = IF ret = 0 THEN "closed" ELSE "peek"
    /\ buff' = Blank /\ pos' = 0 /\ left' = MaxLen /\ want' = 0
    /\ UNCHANGED <<peerVars, consumed, text, cuts, answerVars>>

\* Mutant: the sign of the result is mixed up.
IsClosedOnError ==
    /\ pc = "idle" /\ Readable
    /\ \E ret \in RecvResults(20) :
        /\ ErrorTaken(ret)
        /\ pc' = IF ret < 0 THEN "closed" ELSE "peek"
    /\ buff' = Blank /\ pos' = 0 /\ left' = MaxLen - 1 /\ want' = 0
    /\ UNCHANGED <<peerVars, consumed, text, cuts, answerVars>>

\* Mutant: a single byte counts as the end of the stream.
IsClosedShort ==
    /\ pc = "idle" /\ Readable
    /\ \E ret \in RecvResults(20) :
        /\ ErrorTaken(ret)
        /\ pc' = IF ret <= 1 THEN "closed" ELSE "peek"
    /\ buff' = Blank /\ pos' = 0 /\ left' = MaxLen - 1 /\ want' = 0
    /\ UNCHANGED <<peerVars, consumed, text, cuts, answerVars>>

\* The loop asks isClosed() first, which peeks up to 20 bytes; any result but 0
\* leads into receive() with a zeroed array.
IsClosed ==
    /\ pc = "idle" /\ Readable
    /\ \E ret \in RecvResults(20) :
        /\ ErrorTaken(ret)
        /\ pc' = IF ret = 0 THEN "closed" ELSE "peek"
    /\ buff' = Blank /\ pos' = 0 /\ left' = MaxLen - 1 /\ want' = 0
    /\ UNCHANGED <<peerVars, consumed, text, cuts, answerVars>>

\* The offsets of the newlines among the next n bytes.
Hits(n) == {i \in 0..(n - 1) : consumed + 1 + i \in newlines}

\* Mutant: the last newline peeked, not the first.
PeekFindsLast ==
    /\ pc = "peek"
    /\ \E ret \in RecvResults(left) :
        /\ ErrorTaken(ret)
        /\ buff' = Store(ret)
        /\ \/ /\ \E i \in Hits(ret) : (\A j \in Hits(ret) : j <= i) /\ want' = i + 1
              /\ pc' = "line"
              /\ UNCHANGED <<pos, left>>
           \/ /\ Hits(ret) = {} /\ ret > 0
              /\ want' = ret /\ pc' = "part"
              /\ UNCHANGED <<pos, left>>
           \/ /\ ret <= 0
              /\ pos' = pos + ret /\ left' = left - ret
              /\ UNCHANGED <<pc, want>>
    /\ UNCHANGED <<peerVars, consumed, text, cuts, answerVars>>

\* readline peeks and looks for the first newline.  Of an error, or of the end
\* of the stream, it makes readn(pbuf, -1) or readn(pbuf, 0), which returns its
\* argument at once, and goes round again.
ReadlinePeek ==
    /\ pc = "peek"
    /\ \E ret \in RecvResults(left) :
        /\ ErrorTaken(ret)
        /\ buff' = Store(ret)
        /\ \/ /\ \E i \in Hits(ret) : (\A j \in Hits(ret) : i <= j) /\ want' = i + 1
              /\ pc' = "line"
              /\ UNCHANGED <<pos, left>>
           \/ /\ Hits(ret) = {} /\ ret > 0
              /\ want' = ret /\ pc' = "part"
              /\ UNCHANGED <<pos, left>>
           \/ /\ ret <= 0
              /\ pos' = pos + ret /\ left' = left - ret
              /\ UNCHANGED <<pc, want>>
    /\ UNCHANGED <<peerVars, consumed, text, cuts, answerVars>>

\* receive() returns the first n bytes of its array.
ReturnMessage(n) ==
    /\ text' = text \o [i \in 1..n |-> buff'[i - 1]]
    /\ cuts' = cuts \cup {Len(text) + n}
    /\ pc' = "idle"

\* Mutant: what has been peeked without a newline is given up after the removal.
ReadnForgets(n) ==
    /\ consumed' = consumed + n /\ want' = want - n
    /\ IF want > n THEN pos' = pos + n /\ left' = left - n
                   ELSE pos' = pos + n /\ left' = left

\* readn moves n bytes out of the receive buffer.  Its own pbuf and left are
\* those of readline brought forward.
Readn(n) ==
    /\ consumed' = consumed + n /\ want' = want - n
    /\ pos' = pos + n /\ left' = left - n

\* readn up to and including the newline, which becomes the terminator.
ReadLine ==
    /\ pc = "line"
    /\ \E n \in RecvResults(want) :
        /\ n > 0
        /\ Readn(n)
        /\ IF n < want
           THEN buff' = Store(n) /\ UNCHANGED <<pc, text, cuts>>
           ELSE buff' = [Store(n) EXCEPT ![pos'- 1] = NUL] /\ ReturnMessage(pos')
    /\ UNCHANGED <<peerVars, error, answerVars>>

\* readn of bytes without a newline; a full buffer is returned as it is.
ReadPart ==
    /\ pc = "part"
    /\ \E n \in RecvResults(want) :
        /\ n > 0
        /\ Readn(n)
        /\ \/ n < want /\ buff' = Store(n) /\ UNCHANGED <<pc, text, cuts>>
           \/ n = want /\ left' > 0 /\ buff' = Store(n) /\ pc' = "peek" /\ UNCHANGED <<text, cuts>>
           \/ n = want /\ left' <= 0 /\ buff' = [Store(n) EXCEPT ![MaxLen - 1] = NUL]
              /\ ReturnMessage(MaxLen - 1)
    /\ UNCHANGED <<peerVars, error, answerVars>>

----------------------------------------------------------------------------
\* TcpConnection::send and SocketIO::sendn

\* The loop sends the next message back.
SendBegin ==
    /\ pc = "idle" /\ answered < Len(text)
    /\ \E c \in cuts :
        /\ c > answered /\ \A d \in cuts : d > answered => c <= d
        /\ out' = SubSeq(text, answered + 1, c) /\ answered' = c
    /\ pc' = "send"
    /\ UNCHANGED <<peerVars, consumed, error, lineVars, text, cuts, delivered, unread>>

\* A send takes some of the bytes, as many as there is room for; without room it
\* waits for the peer to read.
Sendn ==
    /\ pc = "send" /\ ~rst
    /\ \E n \in 1..Len(out) :
        /\ unread + n <= Room /\ unread' = unread + n
        /\ delivered' = delivered \o SubSeq(out, 1, n)
        /\ out' = SubSeq(out, n + 1, Len(out))
        /\ pc' = IF n = Len(out) THEN "idle" ELSE "send"
    /\ UNCHANGED <<peerVars, consumed, error, lineVars, text, cuts, answered>>

\* sendn gives up at an error; once the error has been reported SIGPIPE ends
\* the process.
SendFails ==
    /\ pc = "send" /\ rst
    /\ out' = <<>> /\ error' = FALSE
    /\ pc' = IF error THEN "idle" ELSE "killed"
    /\ UNCHANGED <<peerVars, consumed, lineVars, text, cuts, answered, delivered, unread>>

Peer == Arrive \/ End \/ Abort \/ Read
IoThread == IsClosed \/ ReadlinePeek \/ ReadLine \/ ReadPart \/ SendBegin \/ Sendn \/ SendFails
\* A connection that is closed, or the process ended, is the end of the run.
Done == pc \in {"closed", "killed"} /\ UNCHANGED vars
Next == Peer \/ IoThread \/ Done

Spec == Init /\ [][Next]_vars
\* The IO thread runs; the peer need not do anything, not even read its answers.
FairSpec == Spec /\ WF_vars(IoThread)

----------------------------------------------------------------------------
InReceive == pc \in {"peek", "line", "part"}

\* Between two calls of receive() the messages returned so far are exactly the
\* bytes taken from the socket: readline's peeking and removing in pieces loses,
\* repeats and reorders nothing, at a full buffer neither.
StreamPreserved ==
    ~InReceive =>
        /\ Len(text) = consumed
        /\ \A i \in 1..consumed : text[i] = Returned(i)

\* A message ends at its first newline or fills the buffer, and nothing else
\* ends one: readline never takes bytes of the next line along.
MessagesAreLines ==
    /\ \A i \in 1..Len(text) : i \in newlines => i \in cuts
    /\ \A c \in cuts : c \in newlines \/ c - (MaxLen - 1) \in cuts \cup {0}

\* The loop of readline stays inside the array it was given, whatever the peer
\* does, also when recvPeek has failed and pbuf has moved back.
WritesInBounds == buff[-1] = Canary /\ buff[MaxLen] = Canary

\* sendn sends the answers byte for byte in order over short writes; an error
\* cuts them off and nothing follows it.
AnswersInOrder ==
    /\ Len(delivered) <= Len(text)
    /\ delivered = SubSeq(text, 1, Len(delivered))

\* The contract of readline and sendn: see LineStream.  Peeking, removing in pieces
\* and short writes do not show.
Contract == INSTANCE LineStream
                WITH Most <- MaxLen - 1, Mark <- NUL, ended <- fin, broken <- rst
ImplementsLineStream == Contract!Spec

\* The IO thread stands in send(), before a peer that does not read.
SendBlocked == pc = "send" /\ ~rst /\ unread = Room

\* A line that has arrived is read, also if the peer ends or aborts the
\* connection right behind it, unless the peer stops the IO thread by never
\* reading the answers to the lines before.
LinesAreRead ==
    \/ \A n \in 1..MaxBytes : n \in newlines ~> (consumed >= n \/ pc = "killed")
    \/ <>[]SendBlocked

\* A peer that ends its stream after a whole line is noticed by isClosed(),
\* unless it stops the IO thread by never reading.
EndIsNoticed ==
    \/ fin /\ (arrived = 0 \/ arrived \in newlines) ~> pc \in {"closed", "killed"}
    \/ <>[]SendBlocked

\* "判断一个连接是否断开了" (TcpConnection.cpp:44): an aborted connection is found
\* to be closed.  It is not: recvPeek reports it by -1, once, and readline then
\* reads 0 bytes for ever.
AbortIsNoticed == rst /\ ~fin ~> pc \in {"closed", "killed"}
=============================================================================
