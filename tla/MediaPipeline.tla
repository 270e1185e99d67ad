---------------------------- MODULE MediaPipeline ----------------------------
(***************************************************************************)
(* The FFmpeg practice programs: Full_Decode_Practice takes a file apart   *)
(* into packets, decodes each stream and writes the frames;                *)
(* Full_Encode_Practice makes frames and writes the packets they are       *)
(* encoded to.  Both drive a codec in the same way: send one item, receive *)
(* until the codec asks for more, and drain it at the end.                 *)
(*                                                                         *)
(* The codec is libavcodec's: it keeps up to Delay items back, refuses a   *)
(* new one (EAGAIN) while it holds more, gives them out in any order (with *)
(* B frames packets leave in decoding order) and may fail at any call,     *)
(* losing what it holds.  It refers to the buffer of what it was sent and  *)
(* makes no copy.  A packet is taken to carry one frame.                   *)
(***************************************************************************)
EXTENDS Integers, Sequences, FiniteSets

CONSTANTS
    MaxItems,   \* bound: packets of a stream, and frames to encode (25)
    Delay       \* items a codec may keep back (B frames)

ASSUME MediaAssumption == MaxItems \in Nat /\ Delay \in Nat

Video == "video"
Audio == "audio"
Streams == {Video, Audio}

VARIABLES
    program,    \* which of the two runs: "decode" or "encode"
    pc,         \* where it is
    present,    \* the streams of the file
    idx,        \* idx[s]: videoStreamIdx and audioStreamIdx
    ctx,        \* ctx[s]: the codec context is "null", "allocated" or "open"
    cur,        \* the stream whose codec is being driven
    ending,     \* the loop is over, the codecs are being drained
    made,       \* made[s]: packets read, or frames filled
    content,    \* content[b]: the item in data buffer b; the last is in use
    held,       \* held[s]: the buffers the codec of s refers to
    draining,   \* draining[s]: the codec knows that nothing follows
    written,    \* written[s]: what has gone to the file of s
    failed      \* a call of the library has failed

codecVars == <<held, draining>>
setupVars == <<program, present, idx, ctx>>
vars == <<setupVars, pc, cur, ending, made, content, codecVars, written, failed>>

Item(s, n) == <<s, n>>      \* packet or frame n of stream s

TypeOK ==
    /\ program \in {"decode", "encode"}
    /\ pc \in {"openVideo", "openAudio", "next", "send", "receive", "flush",
               "done", "exit", "crashed"}
    /\ present \subseteq Streams
    /\ idx \in [Streams -> Streams \cup {"?"}]
    /\ ctx \in [Streams -> {"null", "allocated", "open"}]
    /\ cur \in Streams /\ ending \in BOOLEAN
    /\ made \in [Streams -> Nat]
    /\ content \in Seq(Streams \X Nat)
    /\ held \in [Streams -> SUBSET Nat]
    /\ draining \in [Streams -> BOOLEAN]
    /\ written \in [Streams -> Seq(Streams \X Nat)]
    /\ failed \in BOOLEAN

\* The indices of the decoder are not initialised: any value may be there.
Init ==
    /\ program \in {"decode", "encode"}
    /\ pc = IF program = "decode" THEN "openVideo" ELSE "next"
    /\ present \in IF program = "decode" THEN SUBSET Streams ELSE {{Video}}
    /\ idx \in [Streams -> Streams \cup {"?"}]
    /\ ctx = [s \in Streams |-> IF program = "encode" /\ s = Video THEN "open" ELSE "null"]
    /\ cur = Video /\ ending = FALSE
    /\ made = [s \in Streams |-> 0] /\ content = <<>>
    /\ held = [s \in Streams |-> {}] /\ draining = [s \in Streams |-> FALSE]
    /\ written = [s \in Streams |-> <<>>] /\ failed = FALSE

----------------------------------------------------------------------------
\* Setting the decoder up

\* openCodecContext: the index is set before the decoder is found, and the
\* context stays when it cannot be opened.
OpenCodec(s) ==
    \/ s \notin present /\ UNCHANGED <<idx, ctx>>
    \/ /\ s \in present /\ idx' = [idx EXCEPT ![s] = s]
       /\ ctx' \in {[ctx EXCEPT ![s] = x] : x \in {"null", "allocated", "open"}}

OpenVideo ==
    /\ pc = "openVideo" /\ OpenCodec(Video)
    /\ pc' = "openAudio"
    /\ UNCHANGED <<program, present, cur, ending, made, content, codecVars, written, failed>>

OpenAudio ==
    /\ pc = "openAudio" /\ OpenCodec(Audio)
    /\ pc' = IF \E s \in Streams : ctx'[s] = "open" THEN "next" ELSE "exit"
    /\ UNCHANGED <<program, present, cur, ending, made, content, codecVars, written, failed>>

\* A file, a frame or a buffer could not be had: exit(1).  The decoder looks for
\* all of them before its loop, but for the frame of decodePacket; the encoder
\* may get no new buffer for any of its frames.
GiveUp ==
    /\ \/ pc = "openVideo"
       \/ pc = "openAudio" /\ ctx[Video] = "open"
       \/ program = "decode" /\ pc = "next" /\ \A s \in Streams : made[s] = 0
       \/ program = "encode" /\ pc = "next" /\ made[Video] < MaxItems
    /\ pc' = "exit"
    /\ UNCHANGED <<setupVars, cur, ending, made, content, codecVars, written, failed>>

----------------------------------------------------------------------------
\* The main loops

\* av_read_frame: the packet goes to the decoder its stream index belongs to.
ReadPacket ==
    /\ program = "decode" /\ pc = "next"
    /\ \E s \in present :
        /\ made[s] < MaxItems
        /\ made' = [made EXCEPT ![s] = @ + 1]
        /\ content' = Append(content, Item(s, made[s] + 1))
        /\ \/ idx[Video] = s /\ cur' = Video /\ pc' = "send"
           \/ idx[Video] # s /\ idx[Audio] = s /\ cur' = Audio /\ pc' = "send"
           \/ idx[Video] # s /\ idx[Audio] # s /\ UNCHANGED <<cur, pc>>
    /\ UNCHANGED <<setupVars, ending, codecVars, written, failed>>

InUse(b) == b \in held[Video]

\* Mutant: av_frame_make_writable is left out.
FillFrameInPlace ==
    /\ program = "encode" /\ pc = "next" /\ made[Video] < MaxItems
    /\ made' = [made EXCEPT ![Video] = @ + 1]
    /\ content' = <<Item(Video, made'[Video])>>
    /\ pc' = "send"
    /\ UNCHANGED <<setupVars, cur, ending, codecVars, written, failed>>

\* av_frame_make_writable takes a new buffer if the encoder refers to this one;
\* then the picture is drawn.
FillFrame ==
    /\ program = "encode" /\ pc = "next" /\ made[Video] < MaxItems
    /\ made' = [made EXCEPT ![Video] = @ + 1]
    /\ content' = IF content = <<>> \/ InUse(Len(content))
                  THEN Append(content, Item(Video, made[Video] + 1))
                  ELSE [content EXCEPT ![Len(content)] = Item(Video, made[Video] + 1)]
    /\ pc' = "send"
    /\ UNCHANGED <<setupVars, cur, ending, codecVars, written, failed>>

BeginFlush == ending' = TRUE /\ cur' = Video /\ pc' = "flush"

\* The end of the file, which av_read_frame may report at any time, or the last
\* frame.
InputEnds ==
    /\ pc = "next"
    /\ program = "encode" => made[Video] = MaxItems
    /\ BeginFlush
    /\ UNCHANGED <<setupVars, made, content, codecVars, written, failed>>

\* The codec of the other stream is drained next.
FlushNext ==
    /\ IF cur = Video /\ program = "decode"
       THEN cur' = Audio /\ pc' = "flush"
       ELSE cur' = cur /\ pc' = "done"
    /\ UNCHANGED ending

\* Where decodePacket or encode returns to: an error ends the loop of the
\* decoder, and the encoder.
Return(ok) ==
    IF program = "encode" /\ ~ok THEN pc' = "exit" /\ UNCHANGED <<cur, ending>>
    ELSE IF ending THEN FlushNext
    ELSE IF ok THEN pc' = "next" /\ UNCHANGED <<cur, ending>>
    ELSE BeginFlush

----------------------------------------------------------------------------
\* decodePacket and encode over the codec

\* decodePacket allocates its frame after the send, and exits if it gets none.
Sent == pc' \in {"receive"} \cup IF program = "decode" THEN {"exit"} ELSE {}

\* The codec takes the item, unless output is due or nothing may follow.
Send ==
    /\ pc = "send" /\ ctx[cur] = "open"
    /\ Cardinality(held[cur]) <= Delay /\ ~draining[cur]
    /\ held' = [held EXCEPT ![cur] = @ \cup {Len(content)}]
    /\ Sent
    /\ UNCHANGED <<setupVars, cur, ending, made, content, draining, written, failed>>

\* EAGAIN, EOF, or the context is not open.
SendRefused ==
    /\ pc = "send" /\ ctx[cur] # "null"
    /\ ctx[cur] = "open" => Cardinality(held[cur]) > Delay \/ draining[cur]
    /\ Return(FALSE)
    /\ UNCHANGED <<setupVars, made, content, codecVars, written, failed>>

\* A call that fails leaves some of these buffers with the codec.
CodecFails(buffers) ==
    /\ failed' = TRUE
    /\ \E kept \in SUBSET buffers : held' = [held EXCEPT ![cur] = kept]
    /\ Return(FALSE)

\* The item may have been taken all the same.
SendFails ==
    /\ pc = "send" /\ ctx[cur] = "open"
    /\ CodecFails(held[cur] \cup {Len(content)})
    /\ UNCHANGED <<setupVars, made, content, draining, written>>

\* A stream without a decoder has an index and no context.
SendCrashes ==
    /\ pc = "send" /\ ctx[cur] = "null"
    /\ pc' = "crashed"
    /\ UNCHANGED <<setupVars, cur, ending, made, content, codecVars, written, failed>>

\* The codec has output: it goes to the file, and the loop asks again.
Receive ==
    /\ pc = "receive"
    /\ \E b \in held[cur] :
        /\ written' = [written EXCEPT ![cur] = Append(@, content[b])]
        /\ held' = [held EXCEPT ![cur] = @ \ {b}]
    /\ UNCHANGED <<setupVars, pc, cur, ending, made, content, draining, failed>>

\* Mutant: there is no loop around receive.
ReceiveEndsEarly ==
    /\ pc = "receive"
    /\ Return(TRUE)
    /\ UNCHANGED <<setupVars, made, content, codecVars, written, failed>>

\* EAGAIN while items may be held back, EOF when all has been given out.
ReceiveEnds ==
    /\ pc = "receive"
    /\ IF draining[cur] THEN held[cur] = {} ELSE Cardinality(held[cur]) <= Delay
    /\ Return(TRUE)
    /\ UNCHANGED <<setupVars, made, content, codecVars, written, failed>>

ReceiveFails ==
    /\ pc = "receive"
    /\ CodecFails(held[cur])
    /\ UNCHANGED <<setupVars, made, content, draining, written>>

\* Mutant: what the codec holds back at the end is not asked for.
FlushNothing ==
    /\ pc = "flush"
    /\ FlushNext
    /\ UNCHANGED <<setupVars, made, content, codecVars, written, failed>>

\* decodePacket(ctx, nullptr) and encode(ctx, nullptr) drain what is open.
Flush ==
    /\ pc = "flush"
    /\ IF ctx[cur] = "open"
       THEN /\ draining' = [draining EXCEPT ![cur] = TRUE]
            /\ Sent /\ UNCHANGED <<cur, ending>>
       ELSE FlushNext /\ UNCHANGED draining
    /\ UNCHANGED <<setupVars, made, content, held, written, failed>>

\* The codec refuses to be drained: the decoder goes on, the encoder exits.
FlushFails ==
    /\ pc = "flush" /\ ctx[cur] = "open"
    /\ CodecFails(held[cur])
    /\ UNCHANGED <<setupVars, made, content, draining, written>>

Setup == OpenVideo \/ OpenAudio \/ GiveUp
MainLoop == ReadPacket \/ FillFrame \/ InputEnds
Call == Send \/ SendRefused \/ SendFails \/ SendCrashes
        \/ Receive \/ ReceiveEnds \/ ReceiveFails \/ Flush \/ FlushFails
Ended == pc \in {"done", "exit", "crashed"} /\ UNCHANGED vars
Next == Setup \/ MainLoop \/ Call \/ Ended

Spec == Init /\ [][Next]_vars

----------------------------------------------------------------------------
\* An item is sent only when the codec can take it: receiving until EAGAIN after
\* every item is enough, and neither program treats a refusal.
CodecReady ==
    pc = "send" /\ ctx[cur] = "open" => Cardinality(held[cur]) <= Delay /\ ~draining[cur]

\* The files hold items of their own streams, as they were read or drawn, and
\* none twice, also when the library fails in between, and although the encoder
\* refers to the buffer in which the next picture is drawn.
WrittenOnce ==
    \A s \in Streams : \A i \in 1..Len(written[s]) :
        /\ \E n \in 1..made[s] : written[s][i] = Item(s, n)
        /\ \A j \in 1..Len(written[s]) : written[s][i] = written[s][j] => i = j

\* The contract of both programs: see Transcoder.  The codec refers to buffers,
\* some of which are drawn in again; what it was sent must not change by that.
Inside(s) == {content[b] : b \in held[s]}

Contract == INSTANCE Transcoder
                WITH inside <- [s \in Streams |-> Inside(s)], closed <- draining, out <- written
ImplementsTranscoder == Contract!Spec

\* If every stream of the file could be opened and no call failed, everything
\* read or drawn has been written at the end: draining gets the last items out.
OutputComplete ==
    pc = "done" /\ ~failed /\ (\A s \in present : ctx[s] = "open") =>
        \A s \in present : \A n \in 1..made[s] :
            \E i \in 1..Len(written[s]) : written[s][i] = Item(s, n)
=============================================================================
