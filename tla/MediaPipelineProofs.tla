------------------------- MODULE MediaPipelineProofs -------------------------
(***************************************************************************)
(* The decoder and the encoder for every number of items and every delay   *)
(* of the codec: sending is never refused for lack of receiving, no item   *)
(* is written twice or changed, and draining completes the files.          *)
(***************************************************************************)
EXTENDS MediaPipeline, SequenceTheorems, FiniteSetTheorems, TLAPS

\* What has been made of s, and what of it the codec has taken.
Items(s) == {Item(s, n) : n \in 1..made[s]}
Gone(s) == {written[s][i] : i \in 1..Len(written[s])}
Taken(s) == Gone(s) \cup Inside(s)

\* The loops run only over streams that are there, and the index of each of
\* them has been set by then.  The first failure ends the loop.
SetupInv ==
    /\ program = "encode" =>
          present = {Video} /\ ctx[Video] = "open" /\ cur = Video /\ held[Audio] = {}
    /\ \A s \in Streams : ctx[s] # "null" => s \in present
    /\ pc \in {"openVideo", "openAudio"} =>
          /\ program = "decode" /\ ~ending
          /\ \A s \in Streams :
                made[s] = 0 /\ held[s] = {} /\ written[s] = <<>> /\ ~draining[s]
    /\ pc = "openAudio" /\ Video \in present => idx[Video] = Video
    /\ program = "decode" /\ pc \in {"next", "send", "receive", "flush"} =>
          \A s \in present : idx[s] = s
    /\ pc \in {"next", "send"} => ~ending
    /\ pc = "flush" => ending
    /\ failed => ending \/ pc \in {"exit", "crashed"}

\* The codec refers to a buffer of its own for each item it holds, and what it
\* holds and what has been written are different items of the stream.
HeldInv ==
    \A s \in Streams :
        /\ ctx[s] # "open" => held[s] = {}
        /\ held[s] \subseteq 1..Len(content)
        /\ \A b, d \in held[s] : content[b] = content[d] => b = d
        /\ Taken(s) \subseteq Items(s) /\ Gone(s) \cap Inside(s) = {}
        /\ \A i, j \in 1..Len(written[s]) : written[s][i] = written[s][j] => i = j

AllOpen == \A s \in present : ctx[s] = "open"

\* The item about to be sent.
Pending(s) == IF pc = "send" /\ cur = s THEN {Item(s, made[s])} ELSE {}

\* While packets are read, and after that if nothing has gone wrong, an item is
\* with the codec or in the file, but for the one about to be sent.
Complete ==
    /\ ~failed
    /\ \/ ~ending /\ pc \in {"next", "send", "receive"}
       \/ AllOpen /\ pc \in {"receive", "flush", "done"}
CountInv ==
    /\ pc = "send" /\ ctx[cur] = "open" =>
          /\ content # <<>> /\ content[Len(content)] = Item(cur, made[cur])
          /\ made[cur] > 0 /\ Item(cur, made[cur]) \notin Taken(cur)
          /\ Len(content) \notin held[cur]
    /\ Complete /\ (pc = "send" => ctx[cur] = "open") =>
          \A s \in Streams : ctx[s] = "open" => Taken(s) = Items(s) \ Pending(s)

\* Between two items the codec holds no more than it keeps back.
DelayInv ==
    /\ ~ending => \A s \in Streams : ~draining[s]
    /\ pc \in {"next", "send"} => \A s \in Streams : Cardinality(held[s]) <= Delay
    /\ pc = "receive" /\ ~ending => \A s \in Streams : s # cur => Cardinality(held[s]) <= Delay
    /\ pc = "receive" /\ ending => draining[cur]

\* What has been drained is empty, unless the codec failed.
DrainInv ==
    ~failed =>
        /\ pc \in {"flush", "receive"} /\ ending /\ cur = Audio => held[Video] = {}
        /\ pc = "done" => \A s \in Streams : held[s] = {}

IInv == TypeOK /\ SetupInv /\ HeldInv /\ CountInv /\ DelayInv /\ DrainInv

----------------------------------------------------------------------------
\* What a codec holds is finite, and so is what it holds by value.
LEMMA HeldFinite ==
    ASSUME IInv, NEW s \in Streams
    PROVE  /\ IsFiniteSet(held[s]) /\ Cardinality(held[s]) \in Nat
           /\ IsFiniteSet(Inside(s)) /\ Cardinality(Inside(s)) \in Nat
           /\ Cardinality(Inside(s)) <= Cardinality(held[s])
<1>1. Len(content) \in Nat /\ held[s] \in SUBSET (1..Len(content))
  BY DEF IInv, TypeOK, HeldInv
<1>2. IsFiniteSet(1..Len(content))
  BY <1>1, FS_Interval
<1>3. IsFiniteSet(held[s])
  BY <1>1, <1>2, FS_Subset
<1> DEFINE f == [b \in held[s] |-> content[b]]
<1>4. f \in Surjection(held[s], Inside(s))
  BY DEF Surjection, Inside
<1> HIDE DEF f
<1>5. IsFiniteSet(Inside(s)) /\ Cardinality(Inside(s)) <= Cardinality(held[s])
  BY <1>3, <1>4, FS_Surjection
<1> QED
  BY <1>3, <1>5, FS_CardinalityType

\* A stream of which nothing has been made.
LEMMA Fresh ==
    ASSUME NEW s \in Streams, made[s] = 0, held[s] = {}, written[s] = <<>>
    PROVE  Items(s) = {} /\ Gone(s) = {} /\ Inside(s) = {} /\ Cardinality(held[s]) = 0
<1>1. \A i : i \notin 1..0
  OBVIOUS
<1> QED
  BY <1>1, FS_EmptySet DEF Items, Gone, Inside

LEMMA InitInv == Init => IInv
<1> SUFFICES ASSUME Init PROVE IInv
  OBVIOUS
<1> USE MediaAssumption DEF Init, Streams, Video, Audio
<1>1. TypeOK
  <2>1. present \subseteq Streams
    OBVIOUS
  <2>2. pc \in {"openVideo", "next"}
    OBVIOUS
  <2>3. ctx \in [Streams -> {"null", "allocated", "open"}]
    OBVIOUS
  <2>4. made \in [Streams -> Nat] /\ draining \in [Streams -> BOOLEAN]
    OBVIOUS
  <2>5. held \in [Streams -> SUBSET Nat] /\ written \in [Streams -> Seq(Streams \X Nat)]
    OBVIOUS
  <2>6. content \in Seq(Streams \X Nat)
    OBVIOUS
  <2> QED
    BY <2>1, <2>2, <2>3, <2>4, <2>5, <2>6 DEF TypeOK
<1>2. SetupInv
  BY DEF SetupInv
<1>3. \A s \in Streams : made[s] = 0 /\ held[s] = {} /\ written[s] = <<>>
  OBVIOUS
<1>4. \A s \in Streams :
         /\ Items(s) = {} /\ Gone(s) = {} /\ Inside(s) = {}
         /\ Cardinality(held[s]) = 0
  BY <1>3, Fresh
<1>5. HeldInv
  BY <1>3, <1>4 DEF HeldInv, Taken
<1>6. DelayInv /\ DrainInv
  <2>1. \A s \in Streams : ~draining[s] /\ Cardinality(held[s]) <= Delay
    BY <1>4
  <2> QED
    BY <1>3, <2>1 DEF DelayInv, DrainInv
<1>7. CountInv
  <2>1. \A s \in Streams : Taken(s) = Items(s) \ Pending(s)
    BY <1>4 DEF Taken
  <2> QED
    BY <2>1 DEF CountInv
<1> QED
  BY <1>1, <1>2, <1>5, <1>6, <1>7 DEF IInv

\* What has been made and taken depends on the items, buffers and files only.
LEMMA TakenSame ==
    ASSUME UNCHANGED <<made, content, held, written>>, NEW s \in Streams
    PROVE  /\ Items(s)' = Items(s) /\ Gone(s)' = Gone(s)
           /\ Inside(s)' = Inside(s) /\ Taken(s)' = Taken(s)
BY DEF Items, Gone, Inside, Taken

\* The part about buffers and files is untouched by steps that only steer.
LEMMA HeldSame ==
    ASSUME HeldInv, UNCHANGED <<ctx, made, content, held, written>>
    PROVE  HeldInv'
BY TakenSame DEF HeldInv

LEMMA OpenInv == IInv /\ (OpenVideo \/ OpenAudio) => IInv'
<1> SUFFICES ASSUME IInv, OpenVideo \/ OpenAudio PROVE IInv'
  OBVIOUS
<1> USE MediaAssumption DEF IInv, Streams, Video, Audio
<1>1. /\ pc \in {"openVideo", "openAudio"} /\ ~ending /\ program = "decode" /\ ~failed
      /\ UNCHANGED <<program, present, cur, ending, made, content, codecVars, written, failed>>
      /\ \A s \in Streams : made[s] = 0 /\ held[s] = {} /\ written[s] = <<>> /\ ~draining[s]
  BY DEF OpenVideo, OpenAudio, SetupInv
<1>2. ASSUME NEW s \in Streams, OpenCodec(s)
      PROVE  /\ idx' \in [Streams -> Streams \cup {"?"}]
             /\ ctx' \in [Streams -> {"null", "allocated", "open"}]
             /\ s \in present => idx'[s] = s
             /\ \A r \in Streams : r # s => idx'[r] = idx[r]
             /\ \A r \in Streams : ctx'[r] # "null" => r \in present
  BY <1>2 DEF OpenCodec, TypeOK, SetupInv
<1>3. UNCHANGED <<made, content, held, written, draining>>
  BY <1>1 DEF codecVars
<1>4. \A s \in Streams :
         /\ Items(s)' = {} /\ Gone(s)' = {} /\ Inside(s)' = {} /\ Taken(s)' = {}
         /\ Cardinality(held'[s]) = 0
  <2>1. \A s \in Streams :
           /\ Items(s) = {} /\ Gone(s) = {} /\ Inside(s) = {}
           /\ Cardinality(held[s]) = 0
    BY <1>1, Fresh
  <2> QED
    BY <1>3, <2>1, TakenSame DEF Taken
<1>5. HeldInv'
  BY <1>1, <1>3, <1>4 DEF HeldInv
<1>6. DelayInv' /\ DrainInv'
  <2>1. \A s \in Streams : ~draining'[s] /\ Cardinality(held'[s]) <= Delay
    BY <1>1, <1>3, <1>4
  <2>2. pc' \in {"openAudio", "next", "exit"}
    BY DEF OpenVideo, OpenAudio
  <2> QED
    BY <2>1, <2>2 DEF DelayInv, DrainInv
<1>7. CountInv'
  <2>1. pc' # "send"
    BY DEF OpenVideo, OpenAudio
  <2>2. \A s \in Streams : Taken(s)' = Items(s)' \ Pending(s)'
    BY <1>4
  <2> QED
    BY <2>1, <2>2 DEF CountInv
<1>8. CASE OpenVideo
  <2>1. pc' = "openAudio" /\ OpenCodec(Video)
    BY <1>8 DEF OpenVideo
  <2>2. TypeOK' /\ SetupInv'
    BY <1>1, <1>2, <2>1 DEF TypeOK, SetupInv, codecVars
  <2> QED
    BY <1>5, <1>6, <1>7, <2>2
<1>9. CASE OpenAudio
  <2>1. pc' \in {"next", "exit"} /\ OpenCodec(Audio) /\ pc = "openAudio"
    BY <1>9 DEF OpenAudio
  <2>2. TypeOK' /\ SetupInv'
    BY <1>1, <1>2, <2>1 DEF TypeOK, SetupInv, codecVars
  <2> QED
    BY <1>5, <1>6, <1>7, <2>2
<1> QED
  BY <1>8, <1>9

\* The program ends at once.
LEMMA EndInv == IInv /\ (GiveUp \/ SendCrashes) => IInv'
<1> SUFFICES ASSUME IInv, GiveUp \/ SendCrashes PROVE IInv'
  OBVIOUS
<1>1. /\ pc' \in {"exit", "crashed"}
      /\ UNCHANGED <<setupVars, cur, ending, made, content, codecVars, written, failed>>
  BY DEF GiveUp, SendCrashes
<1>2. HeldInv'
  BY <1>1, HeldSame DEF IInv, setupVars, codecVars
<1> QED
  BY <1>1, <1>2 DEF IInv, TypeOK, SetupInv, CountInv, Complete, DelayInv, DrainInv,
                    setupVars, codecVars

\* The steps that only steer: what is with the codecs and in the files stays.
Steady == UNCHANGED <<setupVars, made, content, held, written>>

LEMMA SteadyTypes ==
    ASSUME IInv, Steady, cur' \in Streams, ending' \in BOOLEAN, failed' \in BOOLEAN,
           draining' \in [Streams -> BOOLEAN], pc' \in {"next", "receive", "flush", "done", "exit"}
    PROVE  TypeOK' /\ HeldInv'
<1>1. HeldInv'
  BY HeldSame DEF IInv, Steady, setupVars
<1> QED
  BY <1>1 DEF IInv, TypeOK, Steady, setupVars

\* What CountInv compares stays, so it is enough that the places where it demands
\* something are places where it did.
LEMMA SteadyCount ==
    ASSUME IInv, Steady, pc' # "send", pc # "send", Complete' => Complete
    PROVE  CountInv'
<1>1. \A s \in Streams :
         /\ Taken(s)' = Taken(s) /\ Items(s)' = Items(s) /\ ctx'[s] = ctx[s]
         /\ Pending(s) = {} /\ Pending(s)' = {}
  BY TakenSame DEF Steady, setupVars, Pending
<1> QED
  BY <1>1 DEF IInv, CountInv

LEMMA NothingToCount ==
    ASSUME IInv, pc' # "send", ~Complete'
    PROVE  CountInv'
BY DEF CountInv

LEMMA InputEndsInv == IInv /\ InputEnds => IInv'
<1> SUFFICES ASSUME IInv, InputEnds PROVE IInv'
  OBVIOUS
<1> USE DEF Streams, Video, Audio
<1>1. /\ pc = "next" /\ pc' = "flush" /\ ending' = TRUE /\ cur' = Video /\ ~ending
      /\ UNCHANGED <<setupVars, made, content, codecVars, written, failed>>
  BY DEF InputEnds, BeginFlush, IInv, SetupInv
<1>2. Steady
  BY <1>1 DEF Steady, codecVars
<1>3. TypeOK' /\ HeldInv'
  BY <1>1, <1>2, SteadyTypes DEF IInv, TypeOK, codecVars
<1>4. CountInv'
  BY <1>1, <1>2, SteadyCount DEF Complete
<1> QED
  BY <1>1, <1>3, <1>4 DEF IInv, SetupInv, DelayInv, DrainInv, setupVars, codecVars

\* What has been drained or lost is no longer there; what is, is as it was.
LEMMA KeptInv ==
    ASSUME IInv,
           NEW kept \in SUBSET (held[cur] \cup
                                IF pc = "send" /\ ctx[cur] = "open" THEN {Len(content)} ELSE {}),
           held' = [held EXCEPT ![cur] = kept], UNCHANGED <<ctx, made, content, written>>
    PROVE  /\ HeldInv' /\ held' \in [Streams -> SUBSET Nat] /\ held'[cur] = kept
           /\ \A r \in Streams : r # cur => held'[r] = held[r] /\ Inside(r)' = Inside(r)
           /\ \A r \in Streams : Items(r)' = Items(r) /\ Gone(r)' = Gone(r)
<1>1. PICK s \in Streams : s = cur
  BY DEF IInv, TypeOK
<1> DEFINE item == Item(s, made[s])
<1>2. ASSUME pc = "send", ctx[s] = "open"
      PROVE  /\ Len(content) \in 1..Len(content) /\ content[Len(content)] = item
             /\ item \in Items(s) /\ item \notin Taken(s)
  <2>1. /\ content # <<>> /\ content[Len(content)] = item /\ made[s] > 0 /\ made[s] \in Nat
        /\ item \notin Taken(s)
    BY <1>1, <1>2 DEF IInv, CountInv, TypeOK
  <2>2. content \in Seq(Streams \X Nat) /\ Len(content) \in Nat
    BY DEF IInv, TypeOK
  <2>3. Len(content) \in 1..Len(content)
    BY <2>1, <2>2, EmptySeq
  <2>4. item \in Items(s)
    BY <2>1 DEF Items
  <2> QED
    BY <1>1, <1>2, <2>1, <2>3, <2>4
<1>3. \/ kept \subseteq held[s]
      \/ /\ kept \subseteq held[s] \cup {Len(content)} /\ ctx[s] = "open"
         /\ Len(content) \in 1..Len(content) /\ content[Len(content)] = item
         /\ item \in Items(s) /\ item \notin Taken(s)
  BY <1>1, <1>2
<1>4. /\ held \in [Streams -> SUBSET Nat] /\ Len(content) \in Nat
      /\ held[s] \subseteq 1..Len(content)
      /\ \A b, d \in held[s] : content[b] = content[d] => b = d
      /\ \A b \in held[s] : content[b] \in Taken(s) /\ content[b] \in Inside(s)
      /\ Taken(s) \subseteq Items(s) /\ Gone(s) \cap Inside(s) = {} /\ Gone(s) \subseteq Taken(s)
      /\ ctx[s] # "open" => held[s] = {}
  <2>1. held \in [Streams -> SUBSET Nat] /\ Len(content) \in Nat
    BY DEF IInv, TypeOK
  <2>2. /\ held[s] \subseteq 1..Len(content)
        /\ \A b, d \in held[s] : content[b] = content[d] => b = d
        /\ Taken(s) \subseteq Items(s) /\ Gone(s) \cap Inside(s) = {}
        /\ ctx[s] # "open" => held[s] = {}
    BY DEF IInv, HeldInv
  <2>3. \A b \in held[s] : content[b] \in Inside(s)
    BY DEF Inside
  <2> QED
    BY <2>1, <2>2, <2>3 DEF Taken
<1>5. held'[s] = kept /\ held' \in [Streams -> SUBSET Nat]
      /\ \A r \in Streams : r # s => held'[r] = held[r]
  <2>1. kept \in SUBSET Nat
    BY <1>3, <1>4
  <2> QED
    BY <1>1, <1>4, <2>1
<1>6. \A r \in Streams : Items(r)' = Items(r) /\ Gone(r)' = Gone(r)
  BY DEF Items, Gone
<1>7. \A r \in Streams : r # s => Inside(r)' = Inside(r)
  BY <1>5 DEF Inside
<1>8. /\ ctx'[s] # "open" => kept = {}
      /\ kept \subseteq 1..Len(content)
      /\ \A b, d \in kept : content[b] = content[d] => b = d
  BY <1>3, <1>4
<1>9. \A b \in kept : content[b] \in Items(s) /\ content[b] \notin Gone(s)
  BY <1>3, <1>4
<1>10. Taken(s)' \subseteq Items(s)' /\ Gone(s)' \cap Inside(s)' = {}
  <2>1. Inside(s)' = {content[b] : b \in kept}
    BY <1>5 DEF Inside
  <2> QED
    BY <1>4, <1>6, <1>9, <2>1 DEF Taken
<1>11. HeldInv'
  <2>1. ASSUME NEW r \in Streams, r # s
        PROVE  /\ ctx'[r] # "open" => held'[r] = {}
               /\ held'[r] \subseteq 1..Len(content')
               /\ \A b, d \in held'[r] : content'[b] = content'[d] => b = d
               /\ Taken(r)' \subseteq Items(r)' /\ Gone(r)' \cap Inside(r)' = {}
    BY <1>5, <1>6, <1>7, <2>1 DEF IInv, HeldInv, Taken
  <2>2. \A r \in Streams : \A i, j \in 1..Len(written'[r]) : written'[r][i] = written'[r][j] => i = j
    BY DEF IInv, HeldInv
  <2> QED
    BY <1>5, <1>8, <1>10, <2>1, <2>2 DEF HeldInv
<1> QED
  BY <1>1, <1>5, <1>6, <1>7, <1>11

\* A call that fails ends the loop, the program, or the draining of one codec.
LEMMA FailsInv == IInv /\ (SendFails \/ ReceiveFails \/ FlushFails) => IInv'
<1> SUFFICES ASSUME IInv, SendFails \/ ReceiveFails \/ FlushFails PROVE IInv'
  OBVIOUS
<1> USE DEF Streams, Video, Audio
<1>1. PICK kept \in SUBSET (held[cur] \cup
                            IF pc = "send" /\ ctx[cur] = "open" THEN {Len(content)} ELSE {}) :
        held' = [held EXCEPT ![cur] = kept]
  BY DEF SendFails, ReceiveFails, FlushFails, CodecFails
<1>2. /\ pc \in {"send", "receive", "flush"} /\ failed' = TRUE /\ Return(FALSE)
      /\ UNCHANGED <<setupVars, made, content, draining, written>>
  BY DEF SendFails, ReceiveFails, FlushFails, CodecFails
<1>3. /\ pc' \in {"flush", "done", "exit"} /\ (pc' \in {"flush", "done"} => ending')
      /\ cur' \in Streams /\ ending' \in BOOLEAN
      /\ program = "encode" => cur' = cur
      /\ ~ending' => ~ending
  BY <1>2 DEF Return, BeginFlush, FlushNext, IInv, TypeOK
<1>4. /\ HeldInv' /\ held' \in [Streams -> SUBSET Nat]
      /\ \A r \in Streams : r # cur => held'[r] = held[r]
  BY <1>1, <1>2, KeptInv DEF setupVars
<1>5. TypeOK'
  BY <1>2, <1>3, <1>4 DEF IInv, TypeOK, setupVars
<1>6. SetupInv'
  <2>1. program = "encode" => held'[Audio] = {}
    BY <1>4 DEF IInv, SetupInv
  <2> QED
    BY <1>2, <1>3, <2>1 DEF IInv, SetupInv, setupVars
<1>7. CountInv'
  BY <1>2, <1>3, NothingToCount DEF Complete
<1>8. DelayInv' /\ DrainInv'
  BY <1>2, <1>3 DEF IInv, DelayInv, DrainInv
<1> QED
  BY <1>4, <1>5, <1>6, <1>7, <1>8 DEF IInv

\* Only a context that is not open refuses; the loop ends and something is missing.
LEMMA SendRefusedInv == IInv /\ SendRefused => IInv'
<1> SUFFICES ASSUME IInv, SendRefused PROVE IInv'
  OBVIOUS
<1> USE DEF Streams, Video, Audio
<1>1. /\ pc = "send" /\ ctx[cur] # "null" /\ Return(FALSE) /\ ~ending /\ cur \in Streams
      /\ UNCHANGED <<setupVars, made, content, codecVars, written, failed>>
  BY DEF SendRefused, IInv, SetupInv, TypeOK
<1>2. ctx[cur] # "open"
  <2> SUFFICES ASSUME ctx[cur] = "open" PROVE FALSE
    OBVIOUS
  <2>1. Cardinality(held[cur]) > Delay \/ draining[cur]
    BY DEF SendRefused
  <2>2. ~draining[cur] /\ Cardinality(held[cur]) <= Delay
    BY <1>1 DEF IInv, DelayInv
  <2>3. Cardinality(held[cur]) \in Int /\ Delay \in Int
    BY <1>1, HeldFinite, MediaAssumption
  <2> QED
    BY <2>1, <2>2, <2>3
<1>3. program = "decode" /\ cur \in present
  BY <1>1, <1>2 DEF IInv, SetupInv, TypeOK
<1>4. pc' = "flush" /\ ending' = TRUE /\ cur' = Video
  BY <1>1, <1>3 DEF Return, BeginFlush
<1>5. Steady
  BY <1>1 DEF Steady, codecVars
<1>6. TypeOK' /\ HeldInv'
  BY <1>1, <1>4, <1>5, SteadyTypes DEF IInv, TypeOK, codecVars
<1>7. CountInv'
  BY <1>1, <1>2, <1>3, <1>4, NothingToCount DEF Complete, AllOpen, setupVars
<1> QED
  BY <1>1, <1>3, <1>4, <1>6, <1>7 DEF IInv, SetupInv, DelayInv, DrainInv, setupVars, codecVars

LEMMA ReceiveEndsInv == IInv /\ ReceiveEnds => IInv'
<1> SUFFICES ASSUME IInv, ReceiveEnds PROVE IInv'
  OBVIOUS
<1> USE DEF Streams, Video, Audio
<1>1. /\ pc = "receive" /\ Return(TRUE) /\ cur \in Streams /\ ending \in BOOLEAN
      /\ UNCHANGED <<setupVars, made, content, codecVars, written, failed>>
      /\ IF draining[cur] THEN held[cur] = {} ELSE Cardinality(held[cur]) <= Delay
  BY DEF ReceiveEnds, IInv, TypeOK
<1>2. Steady
  BY <1>1 DEF Steady, codecVars
<1>3. CASE ending
  <2>1. /\ ending' = ending /\ pc' \in {"flush", "done"} /\ cur' \in Streams
        /\ cur = Video /\ program = "decode" => cur' = Audio /\ pc' = "flush"
        /\ ~(cur = Video /\ program = "decode") => cur' = cur /\ pc' = "done"
    BY <1>1, <1>3 DEF Return, FlushNext
  <2>2. held[cur] = {}
    BY <1>1, <1>3 DEF IInv, DelayInv
  <2>3. TypeOK' /\ HeldInv'
    BY <1>1, <1>2, <1>3, <2>1, SteadyTypes DEF IInv, TypeOK, codecVars
  <2>4. CountInv'
    BY <1>1, <1>2, <1>3, <2>1, SteadyCount DEF Complete, AllOpen, setupVars
  <2>5. DrainInv'
    BY <1>1, <1>3, <2>1, <2>2 DEF IInv, TypeOK, SetupInv, DrainInv, setupVars, codecVars
  <2> QED
    BY <1>1, <1>3, <2>1, <2>3, <2>4, <2>5 DEF IInv, SetupInv, DelayInv, setupVars, codecVars
<1>4. CASE ~ending
  <2>1. pc' = "next" /\ cur' = cur /\ ending' = ending
    BY <1>1, <1>4 DEF Return
  <2>2. TypeOK' /\ HeldInv'
    BY <1>1, <1>2, <2>1, SteadyTypes DEF IInv, TypeOK, codecVars
  <2>3. CountInv'
    BY <1>1, <1>2, <1>4, <2>1, SteadyCount DEF Complete
  <2>4. DelayInv'
    BY <1>1, <1>4, <2>1 DEF IInv, DelayInv, codecVars
  <2> QED
    BY <1>1, <1>4, <2>1, <2>2, <2>3, <2>4 DEF IInv, SetupInv, DrainInv, setupVars, codecVars
<1> QED
  BY <1>1, <1>3, <1>4

LEMMA FlushInv == IInv /\ Flush => IInv'
<1> SUFFICES ASSUME IInv, Flush PROVE IInv'
  OBVIOUS
<1> USE DEF Streams, Video, Audio
<1>1. /\ pc = "flush" /\ ending = TRUE /\ cur \in Streams
      /\ UNCHANGED <<setupVars, made, content, held, written, failed>>
  BY DEF Flush, IInv, SetupInv, TypeOK
<1>2. Steady
  BY <1>1 DEF Steady
<1>3. CASE ctx[cur] = "open"
  <2>1. /\ draining' = [draining EXCEPT ![cur] = TRUE] /\ pc' \in {"receive", "exit"}
        /\ UNCHANGED <<cur, ending>>
    BY <1>3 DEF Flush, Sent
  <2>2. draining' \in [Streams -> BOOLEAN] /\ draining'[cur]
    BY <1>1, <2>1 DEF IInv, TypeOK
  <2>3. TypeOK' /\ HeldInv'
    BY <1>1, <1>2, <2>1, <2>2, SteadyTypes DEF IInv, TypeOK
  <2>4. CountInv'
    BY <1>1, <1>2, <2>1, SteadyCount DEF Complete, AllOpen, setupVars
  <2> QED
    BY <1>1, <2>1, <2>2, <2>3, <2>4 DEF IInv, SetupInv, DelayInv, DrainInv, setupVars
<1>4. CASE ctx[cur] # "open"
  <2>1. /\ draining' = draining /\ ending' = ending /\ pc' \in {"flush", "done"} /\ cur' \in Streams
        /\ cur = Video /\ program = "decode" => cur' = Audio /\ pc' = "flush"
        /\ ~(cur = Video /\ program = "decode") => cur' = cur /\ pc' = "done"
    BY <1>1, <1>4 DEF Flush, FlushNext
  <2>2. held[cur] = {}
    BY <1>1, <1>4 DEF IInv, HeldInv
  <2>3. TypeOK' /\ HeldInv'
    BY <1>1, <1>2, <2>1, SteadyTypes DEF IInv, TypeOK
  <2>4. CountInv'
    BY <1>1, <1>2, <2>1, SteadyCount DEF Complete, AllOpen, setupVars
  <2>5. DrainInv'
    BY <1>1, <2>1, <2>2 DEF IInv, TypeOK, SetupInv, DrainInv, setupVars
  <2> QED
    BY <1>1, <2>1, <2>3, <2>4, <2>5 DEF IInv, SetupInv, DelayInv, setupVars
<1> QED
  BY <1>3, <1>4

----------------------------------------------------------------------------
\* A new item of s, in a buffer no codec refers to, is about to be sent to the
\* codec of c: its own, or, if the index of c was never set, one that is not there.
LEMMA NewItemInv ==
    ASSUME IInv, pc = "next", NEW s \in Streams, NEW c \in Streams,
           ctx[c] = "open" => c = s, program = "encode" => c = Video,
           made' = [made EXCEPT ![s] = @ + 1], cur' = c, pc' = "send",
           UNCHANGED <<setupVars, ending, codecVars, written, failed>>,
           content' \in Seq(Streams \X Nat), content' # <<>>, Len(content') >= Len(content),
           content'[Len(content')] = Item(s, made[s] + 1),
           \A r \in Streams : Len(content') \notin held[r],
           \A r \in Streams : \A b \in held[r] : content'[b] = content[b]
    PROVE  IInv'
<1> USE DEF Streams, Video, Audio
<1>1. made[s] \in Nat /\ made'[s] = made[s] + 1 /\ made' \in [Streams -> Nat]
      /\ \A r \in Streams : r # s => made'[r] = made[r]
  BY DEF IInv, TypeOK
<1>2. TypeOK'
  BY <1>1 DEF IInv, TypeOK, setupVars, codecVars
<1>3. SetupInv' /\ DelayInv' /\ DrainInv'
  BY DEF IInv, SetupInv, DelayInv, DrainInv, setupVars, codecVars
<1>4. \A r \in Streams :
         Inside(r)' = Inside(r) /\ Gone(r)' = Gone(r) /\ Taken(r)' = Taken(r)
  <2>1. \A r \in Streams : Inside(r)' = Inside(r) /\ Gone(r)' = Gone(r)
    BY DEF Inside, Gone, codecVars
  <2> QED
    BY <2>1 DEF Taken
<1>5. /\ Items(s)' = Items(s) \cup {Item(s, made[s] + 1)}
      /\ Item(s, made[s] + 1) \notin Items(s)
      /\ \A r \in Streams : r # s => Items(r)' = Items(r)
  <2>1. \A n : n \in 1..(made[s] + 1) <=> n \in 1..made[s] \/ n = made[s] + 1
    BY <1>1
  <2>2. made[s] + 1 \notin 1..made[s]
    BY <1>1
  <2> QED
    BY <1>1, <2>1, <2>2 DEF Items, Item
<1>6. \A r \in Streams : Items(r) \subseteq Items(r)'
  BY <1>5
<1>7. HeldInv'
  <2>1. Len(content) \in Nat /\ Len(content') \in Nat
    BY DEF IInv, TypeOK
  <2>2. \A r \in Streams : held[r] \subseteq 1..Len(content')
    BY <2>1 DEF IInv, HeldInv
  <2> QED
    BY <1>4, <1>6, <2>2 DEF IInv, HeldInv, setupVars, codecVars
<1>8. CountInv'
  <2>1. ~ending /\ ~failed
    BY DEF IInv, SetupInv
  <2>2. \A r \in Streams : ctx[r] = "open" => Taken(r) = Items(r)
    BY <2>1 DEF IInv, CountInv, Complete, Pending
  <2>3. Taken(s) \subseteq Items(s)
    BY DEF IInv, HeldInv
  <2>4. \A r \in Streams : ctx'[r] = "open" /\ ctx'[c] = "open" => Taken(r)' = Items(r)' \ Pending(r)'
    <3>1. ASSUME ctx[c] = "open", NEW r \in Streams, ctx[r] = "open"
          PROVE  Taken(r)' = Items(r)' \ Pending(r)'
      <4>1. c = s
        BY <3>1
      <4>2. CASE r = s
        <5>1. Pending(r)' = {Item(s, made[s] + 1)}
          BY <1>1, <4>1, <4>2 DEF Pending
        <5> QED
          BY <1>4, <1>5, <2>2, <3>1, <4>2, <5>1
      <4>3. CASE r # s
        <5>1. Pending(r)' = {}
          BY <4>1, <4>3 DEF Pending
        <5> QED
          BY <1>4, <1>5, <2>2, <3>1, <4>3, <5>1
      <4> QED
        BY <4>2, <4>3
    <3> QED
      BY <3>1 DEF setupVars
  <2>5. ctx'[c] = "open" =>
           /\ content'[Len(content')] = Item(c, made'[c])
           /\ made'[c] > 0 /\ Item(c, made'[c]) \notin Taken(c)'
           /\ Len(content') \notin held'[c]
    <3>1. ctx'[c] = "open" => c = s
      BY DEF setupVars
    <3>2. made'[s] > 0
      BY <1>1
    <3>3. Item(s, made'[s]) \notin Taken(s)'
      BY <1>1, <1>4, <1>5, <2>3
    <3> QED
      BY <1>1, <3>1, <3>2, <3>3 DEF codecVars
  <2> QED
    BY <2>4, <2>5 DEF CountInv
<1> QED
  BY <1>2, <1>3, <1>7, <1>8 DEF IInv

\* A packet of s, if an index is set to s, goes to a codec of that index.
ToIts(s) ==
    idx[Video] = s \/ idx[Audio] = s =>
        idx[cur'] = s /\ pc' = "send" /\ cur' \in Streams

\* The new item stands in a buffer no codec refers to, and the others are as they
\* were: the encoder draws in the last buffer only if it is free.
LEMMA BuffersKept ==
    ASSUME IInv, ReadPacket \/ FillFrame
    PROVE  \E s \in Streams :
              /\ made' = [made EXCEPT ![s] = @ + 1]
              /\ content' \in Seq(Streams \X Nat) /\ content' # <<>>
              /\ Len(content') >= Len(content)
              /\ content'[Len(content')] = Item(s, made[s] + 1)
              /\ \A r \in Streams : Len(content') \notin held[r]
              /\ \A r \in Streams : \A b \in held[r] : content'[b] = content[b]
              /\ ReadPacket => s \in present /\ ToIts(s)
              /\ FillFrame => s = Video
<1> USE DEF Streams, Video, Audio
<1>1. PICK s \in Streams :
        /\ made' = [made EXCEPT ![s] = @ + 1]
        /\ \/ content' = Append(content, Item(s, made[s] + 1))
           \/ /\ content # <<>> /\ FillFrame /\ Len(content) \notin held[Video]
              /\ content' = [content EXCEPT ![Len(content)] = Item(s, made[s] + 1)]
        /\ ReadPacket => s \in present /\ ToIts(s)
        /\ FillFrame => s = Video
  <2>1. CASE ReadPacket
    <3>1. ~FillFrame
      BY <2>1 DEF ReadPacket, FillFrame
    <3>2. PICK s \in present :
            /\ made' = [made EXCEPT ![s] = @ + 1]
            /\ content' = Append(content, Item(s, made[s] + 1))
            /\ \/ idx[Video] = s /\ cur' = Video /\ pc' = "send"
               \/ idx[Video] # s /\ idx[Audio] = s /\ cur' = Audio /\ pc' = "send"
               \/ idx[Video] # s /\ idx[Audio] # s
      BY <2>1 DEF ReadPacket
    <3>3. s \in Streams
      BY DEF IInv, TypeOK
    <3>4. ToIts(s)
      BY <3>2 DEF ToIts
    <3> QED
      BY <3>1, <3>2, <3>3, <3>4
  <2>2. CASE FillFrame
    <3>1. ~ReadPacket
      BY <2>2 DEF ReadPacket, FillFrame
    <3> QED
      BY <2>2, <3>1 DEF FillFrame, InUse
  <2> QED
    BY <2>1, <2>2
<1>2. content \in Seq(Streams \X Nat) /\ Item(s, made[s] + 1) \in Streams \X Nat
  <2>1. made[s] + 1 \in Nat
    BY DEF IInv, TypeOK
  <2> QED
    BY <2>1 DEF IInv, TypeOK, Item
<1>3. PICK l \in Nat : l = Len(content) /\ \A r \in Streams : held[r] \subseteq 1..l
  BY <1>2 DEF IInv, HeldInv
<1>4. CASE content' = Append(content, Item(s, made[s] + 1))
  <2>1. /\ content' \in Seq(Streams \X Nat) /\ Len(content') = l + 1
        /\ content'[l + 1] = Item(s, made[s] + 1)
        /\ \A b \in 1..l : content'[b] = content[b]
    BY <1>2, <1>3, <1>4, AppendProperties
  <2>2. l + 1 \notin 1..l /\ l + 1 >= l /\ l + 1 # 0
    OBVIOUS
  <2>3. content' # <<>>
    BY <2>1, <2>2, EmptySeq
  <2> QED
    BY <1>1, <1>3, <2>1, <2>2, <2>3
<1>5. CASE /\ content # <<>> /\ FillFrame /\ Len(content) \notin held[Video]
           /\ content' = [content EXCEPT ![Len(content)] = Item(s, made[s] + 1)]
  <2>1. l \in 1..l
    BY <1>2, <1>3, <1>5, EmptySeq
  <2>2. /\ content' \in Seq(Streams \X Nat) /\ Len(content') = l
        /\ content'[l] = Item(s, made[s] + 1)
        /\ \A b \in 1..l : b # l => content'[b] = content[b]
    BY <1>2, <1>3, <1>5, <2>1, ExceptSeq
  <2>3. content' # <<>> /\ l >= l
    <3>1. Len(content') # 0
      BY <2>1, <2>2
    <3> QED
      BY <3>1
  <2>4. held[Audio] = {}
    BY <1>5 DEF FillFrame, IInv, SetupInv
  <2>5. \A r \in Streams : l \notin held[r]
    BY <1>3, <1>5, <2>4
  <2> QED
    BY <1>1, <1>3, <2>2, <2>3, <2>5
<1> QED
  BY <1>1, <1>4, <1>5

LEMMA ReadPacketInv == IInv /\ ReadPacket => IInv'
<1> SUFFICES ASSUME IInv, ReadPacket PROVE IInv'
  OBVIOUS
<1> USE DEF Streams, Video, Audio
<1>1. PICK s \in Streams :
        /\ made' = [made EXCEPT ![s] = @ + 1]
        /\ content' \in Seq(Streams \X Nat) /\ content' # <<>>
        /\ Len(content') >= Len(content)
        /\ content'[Len(content')] = Item(s, made[s] + 1)
        /\ \A r \in Streams : Len(content') \notin held[r]
        /\ \A r \in Streams : \A b \in held[r] : content'[b] = content[b]
        /\ s \in present /\ ToIts(s)
  BY BuffersKept
<1>2. /\ program = "decode" /\ pc = "next"
      /\ UNCHANGED <<setupVars, ending, codecVars, written, failed>>
  BY DEF ReadPacket
<1>3. \A r \in present : idx[r] = r
  BY <1>2 DEF IInv, SetupInv
<1>4. idx[cur'] = s /\ pc' = "send" /\ cur' \in Streams
  <2>1. idx[s] = s
    BY <1>1, <1>3
  <2> QED
    BY <1>1, <2>1 DEF ToIts
<1>5. PICK c \in Streams : c = cur'
  BY <1>4
<1>6. ctx[c] = "open" => c = s
  BY <1>3, <1>4, <1>5 DEF IInv, SetupInv
<1> QED
  BY <1>1, <1>2, <1>4, <1>5, <1>6, NewItemInv

LEMMA FillFrameInv == IInv /\ FillFrame => IInv'
<1> SUFFICES ASSUME IInv, FillFrame PROVE IInv'
  OBVIOUS
<1>1. /\ made' = [made EXCEPT ![Video] = @ + 1]
      /\ content' \in Seq(Streams \X Nat) /\ content' # <<>>
      /\ Len(content') >= Len(content)
      /\ content'[Len(content')] = Item(Video, made[Video] + 1)
      /\ \A r \in Streams : Len(content') \notin held[r]
      /\ \A r \in Streams : \A b \in held[r] : content'[b] = content[b]
  BY BuffersKept
<1>2. /\ pc = "next" /\ pc' = "send" /\ cur' = Video /\ Video \in Streams
      /\ UNCHANGED <<setupVars, ending, codecVars, written, failed>>
  BY DEF FillFrame, IInv, SetupInv, Streams
<1> QED
  BY <1>1, <1>2, NewItemInv

----------------------------------------------------------------------------
\* The item goes to the codec.
LEMMA SendInv == IInv /\ Send => IInv'
<1> SUFFICES ASSUME IInv, Send PROVE IInv'
  OBVIOUS
<1> USE DEF Streams, Video, Audio
<1>1. PICK s \in Streams : s = cur
  BY DEF IInv, TypeOK
<1> DEFINE item == Item(s, made[s])
<1>2. /\ pc = "send" /\ pc' \in {"receive", "exit"} /\ ctx[s] = "open" /\ ~ending /\ ~failed
      /\ held' = [held EXCEPT ![cur] = held[cur] \cup {Len(content)}]
      /\ UNCHANGED <<setupVars, cur, ending, made, content, draining, written, failed>>
  BY <1>1 DEF Send, Sent, IInv, SetupInv
<1>3. /\ HeldInv' /\ held' \in [Streams -> SUBSET Nat]
      /\ held'[s] = held[s] \cup {Len(content)}
      /\ \A r \in Streams : r # s => held'[r] = held[r] /\ Inside(r)' = Inside(r)
      /\ \A r \in Streams : Items(r)' = Items(r) /\ Gone(r)' = Gone(r)
  BY <1>1, <1>2, KeptInv DEF setupVars
<1>4. content[Len(content)] = item /\ made[s] > 0 /\ made[s] \in Nat /\ item \notin Taken(s)
  BY <1>1, <1>2 DEF IInv, CountInv, TypeOK
<1>5. TypeOK' /\ SetupInv'
  BY <1>1, <1>2, <1>3 DEF IInv, TypeOK, SetupInv, setupVars
<1>6. CountInv'
  <2>1. \A r \in Streams : ctx[r] = "open" => Taken(r) = Items(r) \ Pending(r)
    BY <1>1, <1>2 DEF IInv, CountInv, Complete
  <2>2. Taken(s)' = Taken(s) \cup {item}
    <3>1. Inside(s)' = Inside(s) \cup {content[Len(content)]}
      BY <1>2, <1>3 DEF Inside
    <3> QED
      BY <1>3, <1>4, <3>1 DEF Taken
  <2>3. item \in Items(s) /\ Pending(s) = {item}
    <3>1. made[s] \in 1..made[s]
      BY <1>4
    <3>2. item \in Items(s)
      BY <3>1 DEF Items
    <3> QED
      BY <1>1, <1>2, <3>2 DEF Pending
  <2>4. ASSUME NEW r \in Streams, ctx[r] = "open" PROVE Taken(r)' = Items(r)'
    <3>1. CASE r = s
      <4>1. Taken(s) = Items(s) \ {item}
        BY <2>1, <2>3, <2>4, <3>1
      <4>2. Taken(s)' = Items(s)
        BY ONLY <2>2, <2>3, <4>1
      <4> QED
        BY <1>3, <3>1, <4>2
    <3>2. CASE r # s
      <4>1. Taken(r)' = Taken(r)
        BY <1>3, <3>2 DEF Taken
      <4>2. Pending(r) = {}
        BY <1>1, <3>2 DEF Pending
      <4> QED
        BY <1>3, <2>1, <2>4, <4>1, <4>2
    <3> QED
      BY <3>1, <3>2
  <2>5. \A r \in Streams : Pending(r)' = {} /\ ctx'[r] = ctx[r]
    BY <1>2 DEF Pending, setupVars
  <2> QED
    BY <1>2, <2>4, <2>5 DEF CountInv
<1>7. DelayInv' /\ DrainInv'
  BY <1>1, <1>2, <1>3 DEF IInv, DelayInv, DrainInv
<1> QED
  BY <1>3, <1>5, <1>6, <1>7 DEF IInv

\* An item more in a file.
Elements(w) == {w[i] : i \in 1..Len(w)}
Distinct(w) == \A i, j \in 1..Len(w) : w[i] = w[j] => i = j

LEMMA OneMore ==
    ASSUME NEW T, NEW w \in Seq(T), NEW x \in T
    PROVE  /\ Append(w, x) \in Seq(T)
           /\ Elements(Append(w, x)) = Elements(w) \cup {x}
           /\ x \notin Elements(w) /\ Distinct(w) => Distinct(Append(w, x))
<1>1. PICK l \in Nat : l = Len(w)
  OBVIOUS
<1>2. PICK a \in Seq(T) : a = Append(w, x)
  BY AppendProperties
<1>3. Len(a) = l + 1 /\ a[l + 1] = x /\ \A i \in 1..l : a[i] = w[i]
  BY <1>1, <1>2, AppendProperties
<1>4. \A i : i \in 1..(l + 1) <=> i \in 1..l \/ i = l + 1
  BY <1>1
<1>5. {a[i] : i \in 1..(l + 1)} = {w[i] : i \in 1..l} \cup {x}
  BY <1>3, <1>4
<1>6. ASSUME x \notin {w[i] : i \in 1..l}, \A i, j \in 1..l : w[i] = w[j] => i = j,
             NEW i \in 1..(l + 1), NEW j \in 1..(l + 1), a[i] = a[j]
      PROVE  i = j
  <2>1. CASE i \in 1..l /\ j \in 1..l
    BY <1>3, <1>6, <2>1
  <2>2. CASE i = l + 1 /\ j \in 1..l
    BY <1>3, <1>6, <2>2
  <2>3. CASE i \in 1..l /\ j = l + 1
    BY <1>3, <1>6, <2>3
  <2> QED
    BY <1>4, <1>6, <2>1, <2>2, <2>3
<1> QED
  BY <1>1, <1>2, <1>3, <1>5, <1>6 DEF Elements, Distinct

\* The effect of Receive on what is inside and in the file.
LEMMA ReceiveMoves ==
    ASSUME IInv, NEW s \in Streams, NEW b \in held[s],
           written' = [written EXCEPT ![s] = Append(@, content[b])],
           held' = [held EXCEPT ![s] = @ \ {b}], content' = content
    PROVE  /\ written' \in [Streams -> Seq(Streams \X Nat)] /\ held' \in [Streams -> SUBSET Nat]
           /\ held'[s] = held[s] \ {b} /\ content[b] \in Inside(s)
           /\ Inside(s)' = Inside(s) \ {content[b]} /\ Gone(s)' = Gone(s) \cup {content[b]}
           /\ \A i, j \in 1..Len(written'[s]) : written'[s][i] = written'[s][j] => i = j
           /\ \A r \in Streams : r # s => /\ held'[r] = held[r] /\ written'[r] = written[r]
                                          /\ Inside(r)' = Inside(r) /\ Gone(r)' = Gone(r)
<1>1. /\ written \in [Streams -> Seq(Streams \X Nat)] /\ held \in [Streams -> SUBSET Nat]
      /\ content \in Seq(Streams \X Nat)
      /\ held[s] \subseteq 1..Len(content)
      /\ \A c, d \in held[s] : content[c] = content[d] => c = d
      /\ Gone(s) \cap Inside(s) = {}
      /\ \A i, j \in 1..Len(written[s]) : written[s][i] = written[s][j] => i = j
  BY DEF IInv, TypeOK, HeldInv
<1>2. PICK x \in Streams \X Nat : x = content[b]
  <2>1. b \in 1..Len(content)
    BY <1>1
  <2> QED
    BY <1>1, <2>1
<1>3. x \in Inside(s) /\ x \notin Gone(s)
  BY <1>1, <1>2 DEF Inside
<1>4. /\ written'[s] = Append(written[s], x) /\ held'[s] = held[s] \ {b}
      /\ \A r \in Streams : r # s => held'[r] = held[r] /\ written'[r] = written[r]
  BY <1>1, <1>2
<1>5. written[s] \in Seq(Streams \X Nat) /\ x \in Streams \X Nat
  BY <1>1
<1>6. /\ Append(written[s], x) \in Seq(Streams \X Nat)
      /\ Elements(Append(written[s], x)) = Elements(written[s]) \cup {x}
      /\ x \notin Elements(written[s]) /\ Distinct(written[s]) => Distinct(Append(written[s], x))
  BY <1>5, OneMore
<1>7. Gone(s)' = Gone(s) \cup {x}
  BY <1>4, <1>6 DEF Gone, Elements
<1>8. \A i, j \in 1..Len(written'[s]) : written'[s][i] = written'[s][j] => i = j
  <2>1. x \notin Elements(written[s]) /\ Distinct(written[s])
    BY <1>1, <1>3 DEF Gone, Elements, Distinct
  <2> QED
    BY <1>4, <1>6, <2>1 DEF Distinct
<1>9. Inside(s)' = Inside(s) \ {x}
  <2>1. Inside(s)' = {content[c] : c \in held[s] \ {b}}
    BY <1>4 DEF Inside
  <2> QED
    BY <1>1, <1>2, <2>1 DEF Inside
<1>10. \A r \in Streams : r # s => Inside(r)' = Inside(r) /\ Gone(r)' = Gone(r)
  BY <1>4 DEF Inside, Gone
<1>11. written' \in [Streams -> Seq(Streams \X Nat)] /\ held' \in [Streams -> SUBSET Nat]
  <2>1. written' = [written EXCEPT ![s] = Append(written[s], x)] /\ held' = [held EXCEPT ![s] = held[s] \ {b}]
    BY <1>2
  <2>2. held[s] \ {b} \in SUBSET Nat
    BY <1>1
  <2> QED
    BY <1>1, <1>6, <2>1, <2>2
<1> QED
  BY <1>2, <1>3, <1>4, <1>7, <1>8, <1>9, <1>10, <1>11

\* An item of the codec goes to the file.
LEMMA ReceiveInv == IInv /\ Receive => IInv'
<1> SUFFICES ASSUME IInv, Receive PROVE IInv'
  OBVIOUS
<1> USE DEF Streams, Video, Audio
<1>1. PICK s \in Streams : s = cur
  BY DEF IInv, TypeOK
<1>2. PICK b \in held[s] :
        /\ written' = [written EXCEPT ![s] = Append(@, content[b])]
        /\ held' = [held EXCEPT ![s] = @ \ {b}]
  BY <1>1 DEF Receive
<1>3. pc = "receive" /\ UNCHANGED <<setupVars, pc, cur, ending, made, content, draining, failed>>
  BY DEF Receive
<1>4. /\ written' \in [Streams -> Seq(Streams \X Nat)] /\ held' \in [Streams -> SUBSET Nat]
      /\ held'[s] = held[s] \ {b} /\ content[b] \in Inside(s)
      /\ Inside(s)' = Inside(s) \ {content[b]} /\ Gone(s)' = Gone(s) \cup {content[b]}
      /\ \A i, j \in 1..Len(written'[s]) : written'[s][i] = written'[s][j] => i = j
      /\ \A r \in Streams : r # s => /\ held'[r] = held[r] /\ written'[r] = written[r]
                                     /\ Inside(r)' = Inside(r) /\ Gone(r)' = Gone(r)
  BY <1>2, <1>3, ReceiveMoves
<1>5. \A r \in Streams : Taken(r)' = Taken(r) /\ Items(r)' = Items(r)
  BY <1>3, <1>4 DEF Taken, Items
<1>6. TypeOK'
  BY <1>3, <1>4 DEF IInv, TypeOK, setupVars
<1>7. SetupInv'
  <2>1. \A r \in Streams : held'[r] \subseteq held[r]
    BY <1>4
  <2> QED
    BY <1>3, <2>1 DEF IInv, SetupInv, setupVars
<1>8. HeldInv'
  <2>1. \A r \in Streams : held'[r] \subseteq held[r]
    BY <1>4
  <2>2. \A r \in Streams : Gone(r)' \cap Inside(r)' = {}
    BY <1>4 DEF IInv, HeldInv
  <2>3. \A r \in Streams : \A i, j \in 1..Len(written'[r]) : written'[r][i] = written'[r][j] => i = j
    BY <1>4 DEF IInv, HeldInv
  <2>4. ctx' = ctx /\ content' = content
    BY <1>3 DEF setupVars
  <2> QED
    BY <1>5, <2>1, <2>2, <2>3, <2>4 DEF IInv, HeldInv
<1>9. CountInv'
  <2>1. Complete' => Complete
    BY <1>3 DEF Complete, AllOpen, setupVars
  <2>2. \A r \in Streams : Pending(r)' = Pending(r) /\ ctx'[r] = ctx[r]
    BY <1>3 DEF Pending, setupVars
  <2> QED
    BY <1>3, <1>5, <2>1, <2>2 DEF IInv, CountInv
<1>10. DelayInv' /\ DrainInv'
  <2>1. \A r \in Streams : held[r] = {} => held'[r] = {}
    BY <1>4
  <2> QED
    BY <1>1, <1>3, <1>4, <2>1 DEF IInv, DelayInv, DrainInv
<1> QED
  BY <1>6, <1>7, <1>8, <1>9, <1>10 DEF IInv

----------------------------------------------------------------------------
LEMMA Inductive == IInv /\ [Next]_vars => IInv'
<1> SUFFICES ASSUME IInv, [Next]_vars PROVE IInv'
  OBVIOUS
<1>1. CASE Setup
  BY <1>1, OpenInv, EndInv DEF Setup
<1>2. CASE MainLoop
  BY <1>2, ReadPacketInv, FillFrameInv, InputEndsInv DEF MainLoop
<1>3. CASE Call
  BY <1>3, SendInv, SendRefusedInv, FailsInv, EndInv, ReceiveInv, ReceiveEndsInv, FlushInv DEF Call
<1>4. CASE UNCHANGED vars
  <2>1. UNCHANGED <<program, present, idx, ctx, pc, cur, ending, made, content, held, draining,
                    written, failed>>
    BY <1>4 DEF vars, setupVars, codecVars
  <2>2. HeldInv'
    BY <2>1, HeldSame DEF IInv
  <2>3. \A s \in Streams :
           Taken(s)' = Taken(s) /\ Items(s)' = Items(s) /\ Pending(s)' = Pending(s)
    BY <2>1, TakenSame DEF Pending
  <2>4. cur \in Streams
    BY DEF IInv, TypeOK
  <2>5. CountInv'
    BY <2>1, <2>3, <2>4 DEF IInv, CountInv, Complete, AllOpen
  <2> QED
    BY <2>1, <2>2, <2>5 DEF IInv, TypeOK, SetupInv, DelayInv, DrainInv
<1> QED
  BY <1>1, <1>2, <1>3, <1>4 DEF Next, Ended

LEMMA SafeState == IInv => CodecReady /\ WrittenOnce /\ OutputComplete
<1> SUFFICES ASSUME IInv PROVE CodecReady /\ WrittenOnce /\ OutputComplete
  OBVIOUS
<1>1. CodecReady
  BY DEF IInv, TypeOK, SetupInv, DelayInv, CodecReady
<1>2. WrittenOnce
  <2> SUFFICES ASSUME NEW s \in Streams, NEW i \in 1..Len(written[s])
               PROVE  /\ \E n \in 1..made[s] : written[s][i] = Item(s, n)
                      /\ \A j \in 1..Len(written[s]) : written[s][i] = written[s][j] => i = j
    BY DEF WrittenOnce
  <2>1. written[s][i] \in Items(s)
    BY DEF IInv, HeldInv, Taken, Gone
  <2> QED
    BY <2>1 DEF IInv, HeldInv, Items
<1>3. OutputComplete
  <2> SUFFICES ASSUME pc = "done", ~failed, AllOpen, NEW s \in present, NEW n \in 1..made[s]
               PROVE  \E i \in 1..Len(written[s]) : written[s][i] = Item(s, n)
    BY DEF OutputComplete, AllOpen
  <2>1. s \in Streams /\ ctx[s] = "open" /\ held[s] = {}
    BY DEF IInv, TypeOK, AllOpen, DrainInv
  <2>2. Taken(s) = Items(s)
    BY <2>1 DEF IInv, CountInv, Complete, Pending
  <2>3. Inside(s) = {}
    BY <2>1 DEF Inside
  <2>4. Item(s, n) \in Gone(s)
    BY <2>2, <2>3 DEF Taken, Items
  <2> QED
    BY <2>4 DEF Gone
<1> QED
  BY <1>1, <1>2, <1>3

\* For every number of items, every delay of the codec and every order in which it
\* gives out: sending never meets a codec that wants to be received from, no item is
\* written twice or changed, and draining completes the files of a run without failures.
THEOREM MediaSafe == Spec => [](CodecReady /\ WrittenOnce /\ OutputComplete)
<1>1. Spec => []IInv
  BY InitInv, Inductive, PTL DEF Spec
<1> QED
  BY <1>1, SafeState, PTL

\* The files hold items of their own streams, unchanged, and none of them twice.
COROLLARY FilesHoldItemsOnce == Spec => []WrittenOnce
BY MediaSafe, PTL

\* A run without failures writes everything it has read or drawn.
COROLLARY DrainingCompletes == Spec => []OutputComplete
BY MediaSafe, PTL

----------------------------------------------------------------------------
\* Refinement of Transcoder

\* What the contract reads of a stream.
LEMMA ContractReads ==
    ASSUME NEW s \in Streams
    PROVE  /\ [r \in Streams |-> Inside(r)][s] = Inside(s)
           /\ Contract!Waiting(s) = Items(s) \ Taken(s)
<1>1. [r \in Streams |-> Inside(r)][s] = Inside(s)
  OBVIOUS
<1> QED
  BY <1>1 DEF Contract!Waiting, Items, Taken, Gone, Item

\* The codec takes the item just made, and it is the only one it has not taken.
LEMMA SendAccepts == IInv /\ Send => Contract!Accept(cur)
<1> SUFFICES ASSUME IInv, Send PROVE Contract!Accept(cur)
  OBVIOUS
<1>1. PICK s \in Streams : s = cur
  BY DEF IInv, TypeOK
<1>2. /\ pc = "send" /\ ctx[s] = "open" /\ ~ending /\ ~failed
      /\ Cardinality(held[s]) <= Delay /\ ~draining[s]
      /\ held' = [held EXCEPT ![cur] = held[cur] \cup {Len(content)}]
      /\ UNCHANGED <<made, content, draining, written, failed, ctx>>
  BY <1>1 DEF Send, IInv, SetupInv, setupVars
<1>3. /\ held'[s] = held[s] \cup {Len(content)}
      /\ \A r \in Streams : r # s => Inside(r)' = Inside(r)
  BY <1>1, <1>2, KeptInv
<1>4. content[Len(content)] = Item(s, made[s]) /\ Item(s, made[s]) \notin Taken(s)
      /\ made[s] > 0 /\ made[s] \in Nat
  BY <1>1, <1>2 DEF IInv, CountInv, TypeOK
<1>5. Contract!Waiting(s) = {Item(s, made[s])}
  <2>1. Taken(s) = Items(s) \ {Item(s, made[s])}
    BY <1>1, <1>2 DEF IInv, CountInv, Complete, Pending
  <2>2. Item(s, made[s]) \in Items(s)
    BY <1>4 DEF Items
  <2> QED
    BY <2>1, <2>2, ContractReads
<1>6. Inside(s)' = Inside(s) \cup Contract!Waiting(s)
  BY <1>2, <1>3, <1>4, <1>5 DEF Inside
<1>7. [r \in Streams |-> Inside(r)]'
         = [[r \in Streams |-> Inside(r)] EXCEPT ![s] = @ \cup Contract!Waiting(s)]
  BY <1>3, <1>6
<1>8. Contract!Cardinality([r \in Streams |-> Inside(r)][s]) <= Delay
  <2>1. /\ Cardinality(Inside(s)) <= Cardinality(held[s])
        /\ Cardinality(Inside(s)) \in Nat /\ Cardinality(held[s]) \in Nat /\ Delay \in Nat
    BY HeldFinite, MediaAssumption
  <2>2. Cardinality(Inside(s)) <= Delay
    BY <1>2, <2>1
  <2>3. Contract!Cardinality(Inside(s)) = Cardinality(Inside(s))
    BY DEF Contract!Cardinality, Cardinality
  <2> QED
    BY <2>2, <2>3, ContractReads
<1> QED
  BY <1>1, <1>2, <1>5, <1>7, <1>8 DEF Contract!Accept, Item

\* An item leaves the codec for the file.
LEMMA ReceiveEmits == IInv /\ Receive => Contract!Emit(cur)
<1> SUFFICES ASSUME IInv, Receive PROVE Contract!Emit(cur)
  OBVIOUS
<1>1. PICK s \in Streams : s = cur
  BY DEF IInv, TypeOK
<1>2. PICK b \in held[s] :
        /\ written' = [written EXCEPT ![s] = Append(@, content[b])]
        /\ held' = [held EXCEPT ![s] = @ \ {b}]
  BY <1>1 DEF Receive
<1>3. UNCHANGED <<made, content, draining, failed>>
  BY DEF Receive
<1>4. /\ content[b] \in Inside(s) /\ Inside(s)' = Inside(s) \ {content[b]}
      /\ \A r \in Streams : r # s => Inside(r)' = Inside(r)
  BY <1>2, <1>3, ReceiveMoves
<1>5. [r \in Streams |-> Inside(r)]'
         = [[r \in Streams |-> Inside(r)] EXCEPT ![s] = @ \ {content[b]}]
  BY <1>4
<1>6. content[b] \in [r \in Streams |-> Inside(r)][s]
  BY <1>4, ContractReads
<1> QED
  BY <1>1, <1>2, <1>3, <1>5, <1>6 DEF Contract!Emit

\* A failing call loses some of what the codec holds, or of the item being sent.
LEMMA FailsLose == IInv /\ (SendFails \/ ReceiveFails \/ FlushFails) => Contract!Fail(cur)
<1> SUFFICES ASSUME IInv, SendFails \/ ReceiveFails \/ FlushFails PROVE Contract!Fail(cur)
  OBVIOUS
<1>1. PICK s \in Streams : s = cur
  BY DEF IInv, TypeOK
<1>2. PICK kept \in SUBSET (held[cur] \cup
                            IF pc = "send" /\ ctx[cur] = "open" THEN {Len(content)} ELSE {}) :
        held' = [held EXCEPT ![cur] = kept]
  BY DEF SendFails, ReceiveFails, FlushFails, CodecFails
<1>3. failed' = TRUE /\ UNCHANGED <<setupVars, made, content, draining, written>>
  BY DEF SendFails, ReceiveFails, FlushFails, CodecFails
<1>4. held'[s] = kept /\ \A r \in Streams : r # s => Inside(r)' = Inside(r)
  BY <1>1, <1>2, <1>3, KeptInv DEF setupVars
<1>5. Inside(s)' \subseteq Inside(s) \cup IF failed THEN {} ELSE Contract!Waiting(s)
  <2>1. Inside(s)' = {content[b] : b \in kept}
    BY <1>3, <1>4 DEF Inside
  <2>2. CASE pc = "send" /\ ctx[s] = "open"
    <3>1. ~failed /\ content[Len(content)] = Item(s, made[s]) /\ Item(s, made[s]) \notin Taken(s)
      BY <1>1, <2>2 DEF IInv, SetupInv, CountInv
    <3>2. Item(s, made[s]) \in Items(s)
      <4>1. made[s] \in Nat /\ made[s] > 0
        BY <1>1, <2>2 DEF IInv, CountInv, TypeOK
      <4> QED
        BY <4>1 DEF Items
    <3> QED
      BY <1>1, <1>2, <2>1, <3>1, <3>2, ContractReads DEF Inside
  <2>3. CASE ~(pc = "send" /\ ctx[s] = "open")
    BY <1>1, <1>2, <2>1, <2>3 DEF Inside
  <2> QED
    BY <2>2, <2>3
<1>6. [r \in Streams |-> Inside(r)]' = [[r \in Streams |-> Inside(r)] EXCEPT ![s] = Inside(s)']
  BY <1>4
<1>7. Inside(s)' \in SUBSET ([r \in Streams |-> Inside(r)][s]
                               \cup IF failed THEN {} ELSE Contract!Waiting(s))
  BY <1>5, ContractReads
<1> QED
  BY <1>1, <1>3, <1>6, <1>7 DEF Contract!Fail

\* Reading and drawing only make items: what the codecs refer to is not touched.
LEMMA MakesItem == IInv /\ (ReadPacket \/ FillFrame) => \E s \in Streams : Contract!Make(s)
<1> SUFFICES ASSUME IInv, ReadPacket \/ FillFrame PROVE \E s \in Streams : Contract!Make(s)
  OBVIOUS
<1>1. PICK s \in Streams :
        /\ made' = [made EXCEPT ![s] = @ + 1]
        /\ \A r \in Streams : \A b \in held[r] : content'[b] = content[b]
  BY BuffersKept
<1>2. pc = "next" /\ UNCHANGED <<held, draining, written, failed>>
  BY DEF ReadPacket, FillFrame, codecVars
<1>3. ~draining[s] /\ ~failed
  BY <1>2 DEF IInv, SetupInv, DelayInv
<1>4. \A r \in Streams : Inside(r)' = Inside(r)
  BY <1>1, <1>2 DEF Inside
<1>5. [r \in Streams |-> Inside(r)]' = [r \in Streams |-> Inside(r)]
  BY <1>4
<1> QED
  BY <1>1, <1>2, <1>3, <1>5 DEF Contract!Make

LEMMA MediaStepRefines == IInv /\ [Next]_vars => [Contract!Next]_(Contract!vars)
<1> SUFFICES ASSUME IInv, [Next]_vars PROVE [Contract!Next]_(Contract!vars)
  OBVIOUS
<1>1. cur \in Streams
  BY DEF IInv, TypeOK
<1>2. ASSUME UNCHANGED <<content, held>> PROVE [r \in Streams |-> Inside(r)]' = [r \in Streams |-> Inside(r)]
  BY <1>2 DEF Inside
<1>3. ASSUME UNCHANGED <<made, content, codecVars, written, failed>> PROVE UNCHANGED Contract!vars
  BY <1>2, <1>3 DEF Contract!vars, codecVars
<1>4. CASE ReadPacket \/ FillFrame
  BY <1>4, MakesItem DEF Contract!Next
<1>5. CASE Send
  BY <1>1, <1>5, SendAccepts DEF Contract!Next
<1>6. CASE Receive
  BY <1>1, <1>6, ReceiveEmits DEF Contract!Next
<1>7. CASE SendFails \/ ReceiveFails \/ FlushFails
  BY <1>1, <1>7, FailsLose DEF Contract!Next
<1>8. CASE Flush
  <2>1. UNCHANGED <<made, content, held, written, failed>>
    BY <1>8 DEF Flush
  <2>2. CASE ctx[cur] = "open"
    <3>1. Contract!Finish(cur)
      BY <1>2, <1>8, <2>1, <2>2 DEF Flush, Contract!Finish
    <3> QED
      BY <1>1, <3>1 DEF Contract!Next
  <2>3. CASE ctx[cur] # "open"
    <3>1. UNCHANGED draining
      BY <1>8, <2>3 DEF Flush
    <3> QED
      BY <1>3, <2>1, <3>1 DEF codecVars
  <2> QED
    BY <2>2, <2>3
\* The remaining steps move nothing.
<1>9. CASE Setup \/ InputEnds \/ SendRefused \/ SendCrashes \/ ReceiveEnds \/ UNCHANGED vars
  <2>1. UNCHANGED <<made, content, codecVars, written, failed>>
    BY <1>9 DEF Setup, OpenVideo, OpenAudio, GiveUp, InputEnds, SendRefused, SendCrashes,
                ReceiveEnds, vars
  <2> QED
    BY <1>3, <2>1
<1> QED
  BY <1>4, <1>5, <1>6, <1>7, <1>8, <1>9 DEF Next, MainLoop, Call, Ended

\* Both programs implement Transcoder: what the codec has been sent keeps its value
\* although pictures are drawn in the buffers it refers to, no item is skipped, sent
\* twice or sent after the end or a failure, and each that comes out is written once.
THEOREM MediaIsTranscoder == Spec => ImplementsTranscoder
<1>1. Init => IInv
  BY InitInv
<1>2. Init => Contract!Init
  <2> SUFFICES ASSUME Init PROVE Contract!Init
    OBVIOUS
  <2>1. \A s \in Streams : held[s] = {}
    BY DEF Init
  <2>2. \A s \in Streams : Inside(s) = {}
    BY <2>1 DEF Inside
  <2> QED
    BY <2>2 DEF Init, Contract!Init
<1>3. IInv /\ [Next]_vars => IInv'
  BY Inductive
<1>4. IInv /\ [Next]_vars => [Contract!Next]_(Contract!vars)
  BY MediaStepRefines
<1> QED
  BY <1>1, <1>2, <1>3, <1>4, PTL DEF Spec, ImplementsTranscoder, Contract!Spec

=============================================================================
