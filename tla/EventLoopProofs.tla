--------------------------- MODULE EventLoopProofs ---------------------------
(***************************************************************************)
(* EventLoop for every set of posters, functors and descriptors, and for   *)
(* any number of posts: what is posted is run once and in order, nothing   *)
(* waits unannounced, and the eventfd is never read when it is empty.      *)
(***************************************************************************)
EXTENDS EventLoop, SequenceTheorems, TLAPS

\* The local vector of doPendingFunctors is empty unless functors are running,
\* so the swap overwrites nothing.
TmpOK == ioPc # "run" => tmp = <<>>

\* While the functors run the eventfd's event has been consumed: coming back to
\* the dispatch loop, handleReadEvent is not called a second time.
EventConsumed == ioPc \in {"swap", "run"} => EventFd \notin ready

\* The inductive invariant.
LoopInv ==
    /\ LoopTypeOK
    /\ TmpOK
    /\ EventConsumed
    /\ MailboxFifo
    /\ MailboxAnnounced
    /\ EventReadNeverBlocks

\* Running the head of tmp moves it over to what has been run.
LEMMA RunKeepsOrder ==
    ASSUME NEW S, NEW r \in Seq(S), NEW t \in Seq(S), NEW p \in Seq(S), t # <<>>
    PROVE  /\ Tail(t) \in Seq(S)
           /\ Append(r, Head(t)) \in Seq(S)
           /\ Append(r, Head(t)) \o Tail(t) \o p = r \o t \o p
<1>1. Head(t) \in S /\ Tail(t) \in Seq(S)
  BY HeadTailProperties
<1>2. Append(r, Head(t)) \in Seq(S)
  BY <1>1, AppendProperties
<1>3. Append(r, Head(t)) \o Tail(t) = r \o t
  OBVIOUS
<1> QED BY <1>1, <1>2, <1>3

LEMMA LoopInitInv == LoopInit => LoopInv
<1> SUFFICES ASSUME LoopInit PROVE LoopInv
  OBVIOUS
<1> USE DEF LoopInit
<1>1. LoopTypeOK
  <2>1. posting \in [Posters -> Functors \cup {NoFunctor}]
    OBVIOUS
  <2>2. pending \in Seq(Functors) /\ tmp \in Seq(Functors)
        /\ posted \in Seq(Functors) /\ ran \in Seq(Functors)
    OBVIOUS
  <2> QED BY <2>1, <2>2 DEF LoopTypeOK
<1>2. TmpOK /\ EventConsumed /\ MailboxAnnounced /\ EventReadNeverBlocks
  BY DEF TmpOK, EventConsumed, MailboxAnnounced, EventReadNeverBlocks
<1>3. MailboxFifo
  BY DEF MailboxFifo
<1> QED BY <1>1, <1>2, <1>3 DEF LoopInv

LEMMA LoopNextInv == LoopInv /\ [LoopNext]_eventVars => LoopInv'
<1> SUFFICES ASSUME LoopInv, [LoopNext]_eventVars PROVE LoopInv'
  OBVIOUS
<1> USE LoopAssumption
<1> USE DEF LoopInv, mailboxVars, loopVars
<1>1. ASSUME NEW t \in Posters, NEW f \in Functors, PostAppend(t, f)
      PROVE  LoopInv'
  <2>1. /\ Append(pending, f) \in Seq(Functors)
        /\ Append(ran \o tmp \o pending, f) = ran \o tmp \o Append(pending, f)
    <3> DEFINE begun == ran \o tmp
    <3>1. begun \in Seq(Functors) /\ pending \in Seq(Functors)
      BY ConcatProperties DEF LoopTypeOK
    <3> HIDE DEF begun
    <3>2. Append(begun \o pending, f) = begun \o Append(pending, f)
      BY <3>1
    <3>3. Append(pending, f) \in Seq(Functors)
      BY <3>1, AppendProperties
    <3> QED BY <3>2, <3>3 DEF begun
  <2>2. posted' \in Seq(Functors)
    BY <1>1, AppendProperties DEF LoopTypeOK, PostAppend
  <2>3. LoopTypeOK'
    BY <1>1, <2>1, <2>2 DEF LoopTypeOK, PostAppend
  <2>4. MailboxFifo'
    BY <1>1, <2>1 DEF MailboxFifo, PostAppend
  <2>5. MailboxAnnounced'
    BY <1>1 DEF LoopTypeOK, MailboxAnnounced, PostAppend
  <2>6. TmpOK' /\ EventConsumed' /\ EventReadNeverBlocks'
    BY <1>1 DEF TmpOK, EventConsumed, EventReadNeverBlocks, PostAppend
  <2> QED BY <2>3, <2>4, <2>5, <2>6
<1>2. ASSUME NEW t \in Posters, PostWakeup(t)
      PROVE  LoopInv'
  <2>1. LoopTypeOK'
    BY <1>2 DEF LoopTypeOK, PostWakeup
  <2>2. TmpOK' /\ EventConsumed' /\ MailboxFifo'
    BY <1>2 DEF TmpOK, EventConsumed, MailboxFifo, PostWakeup
  <2>3. counter' > 0
    BY <1>2 DEF LoopTypeOK, PostWakeup
  <2>4. MailboxAnnounced' /\ EventReadNeverBlocks'
    BY <2>3 DEF MailboxAnnounced, EventReadNeverBlocks
  <2> QED BY <2>1, <2>2, <2>4
<1>3. CASE LoopEnter
  BY <1>3 DEF LoopTypeOK, TmpOK, EventConsumed, MailboxFifo, MailboxAnnounced,
              EventReadNeverBlocks, LoopEnter
<1>4. CASE LoopTest
  BY <1>4 DEF LoopTypeOK, TmpOK, EventConsumed, MailboxFifo, MailboxAnnounced,
              EventReadNeverBlocks, LoopTest
<1>5. CASE Unloop
  BY <1>5 DEF LoopTypeOK, TmpOK, EventConsumed, MailboxFifo, MailboxAnnounced,
              EventReadNeverBlocks, Unloop
<1>6. ASSUME NEW R \in SUBSET Sources, EpollReturns(R)
      PROVE  LoopInv'
  <2>1. LoopTypeOK'
    BY <1>6 DEF LoopTypeOK, EpollReturns, EventReady
  <2>2. TmpOK' /\ EventConsumed' /\ MailboxFifo' /\ MailboxAnnounced'
    BY <1>6 DEF TmpOK, EventConsumed, MailboxFifo, MailboxAnnounced, EpollReturns
  \* The eventfd is reported only if it has something to read.
  <2>3. EventReadNeverBlocks'
    BY <1>6 DEF EventReadNeverBlocks, EpollReturns, EventReady
  <2> QED BY <2>1, <2>2, <2>3
<1>7. CASE EpollTimesOut
  BY <1>7 DEF LoopTypeOK, TmpOK, EventConsumed, MailboxFifo, MailboxAnnounced,
              EventReadNeverBlocks, EpollTimesOut
<1>8. CASE HandleReadEvent
  <2>1. LoopTypeOK'
    BY <1>8 DEF LoopTypeOK, HandleReadEvent
  <2>2. TmpOK' /\ EventConsumed' /\ MailboxFifo' /\ EventReadNeverBlocks'
    BY <1>8 DEF TmpOK, EventConsumed, MailboxFifo, EventReadNeverBlocks, HandleReadEvent
  \* The swap that follows makes up for the counter that has been cleared.
  <2>3. MailboxAnnounced'
    BY <1>8 DEF MailboxAnnounced, HandleReadEvent
  <2> QED BY <2>1, <2>2, <2>3
<1>9. CASE SwapPending
  <2>1. LoopTypeOK'
    BY <1>9 DEF LoopTypeOK, SwapPending
  <2>2. TmpOK' /\ EventConsumed' /\ MailboxAnnounced' /\ EventReadNeverBlocks'
    BY <1>9 DEF TmpOK, EventConsumed, MailboxAnnounced, EventReadNeverBlocks, SwapPending
  <2>3. tmp = <<>>
    BY <1>9 DEF TmpOK, SwapPending
  <2>4. ran \o <<>> \o pending = ran \o pending \o <<>>
    <3>1. ran \in Seq(Functors) /\ pending \in Seq(Functors)
      BY DEF LoopTypeOK
    <3>2. ran \o <<>> = ran /\ (ran \o pending) \o <<>> = ran \o pending
      BY <3>1, ConcatProperties, ConcatEmptySeq
    <3> QED BY <3>2
  <2>5. MailboxFifo'
    BY <1>9, <2>3, <2>4 DEF MailboxFifo, SwapPending
  <2> QED BY <2>1, <2>2, <2>5
<1>10. CASE RunFunctor
  <2>1. /\ tmp' \in Seq(Functors)
        /\ ran' \in Seq(Functors)
        /\ ran' \o tmp' \o pending = ran \o tmp \o pending
    BY <1>10, RunKeepsOrder DEF LoopTypeOK, RunFunctor
  <2>2. LoopTypeOK'
    BY <1>10, <2>1 DEF LoopTypeOK, RunFunctor
  <2>3. MailboxFifo'
    BY <1>10, <2>1 DEF MailboxFifo, RunFunctor
  <2>4. TmpOK' /\ EventConsumed' /\ MailboxAnnounced' /\ EventReadNeverBlocks'
    BY <1>10 DEF TmpOK, EventConsumed, MailboxAnnounced, EventReadNeverBlocks, RunFunctor
  <2> QED BY <2>2, <2>3, <2>4
<1>11. CASE RunReturns
  BY <1>11 DEF LoopTypeOK, TmpOK, EventConsumed, MailboxFifo, MailboxAnnounced,
               EventReadNeverBlocks, RunReturns
<1>12. ASSUME NEW s \in Sources, HandleSource(s)
       PROVE  LoopInv'
  BY <1>12 DEF LoopTypeOK, TmpOK, EventConsumed, MailboxFifo, MailboxAnnounced,
               EventReadNeverBlocks, HandleSource
<1>13. CASE DispatchDone
  BY <1>13 DEF LoopTypeOK, TmpOK, EventConsumed, MailboxFifo, MailboxAnnounced,
               EventReadNeverBlocks, DispatchDone
<1>14. CASE UNCHANGED eventVars
  BY <1>14 DEF eventVars, LoopTypeOK, TmpOK, EventConsumed, MailboxFifo,
               MailboxAnnounced, EventReadNeverBlocks
<1> QED
  BY <1>1, <1>2, <1>3, <1>4, <1>5, <1>6, <1>7, <1>8, <1>9, <1>10, <1>11, <1>12,
     <1>13, <1>14 DEF LoopNext, LoopInternal

\* Type correctness and the safety of the mailbox in every reachable state: no
\* functor posted with runInLoop is lost, repeated or overtaken, one that waits
\* has an eventfd write or a swap ahead of it, and handleReadEvent never blocks
\* the IO thread.
THEOREM LoopSafe ==
    LoopSpec => [](/\ LoopTypeOK
                   /\ MailboxFifo
                   /\ MailboxAnnounced
                   /\ EventReadNeverBlocks)
<1>1. LoopInit => LoopInv
  BY LoopInitInv
<1>2. LoopInv /\ [LoopNext]_eventVars => LoopInv'
  BY LoopNextInv
<1>3. LoopInv => /\ LoopTypeOK
                 /\ MailboxFifo
                 /\ MailboxAnnounced
                 /\ EventReadNeverBlocks
  BY DEF LoopInv
<1> QED BY <1>1, <1>2, <1>3, PTL DEF LoopSpec

\* Functors are run once each, in the order in which runInLoop took them.
COROLLARY FunctorsKeepOrder == LoopSpec => []MailboxFifo
BY LoopSafe, PTL

\* handleReadEvent finds something to read.
COROLLARY EventReadsReturn == LoopSpec => []EventReadNeverBlocks
BY LoopSafe, PTL

----------------------------------------------------------------------------
\* What a step does to the functors that wait, in either vector.
LEMMA LoopStepRefines ==
    ASSUME LoopInv, LoopInv', [LoopNext]_eventVars
    PROVE  [Contract!Next]_(Contract!vars)
<1> USE LoopAssumption
<1> USE DEF mailboxVars, loopVars, Contract!vars
<1>0. /\ tmp \in Seq(Functors) /\ pending \in Seq(Functors) /\ ran \in Seq(Functors)
  BY DEF LoopInv, LoopTypeOK
<1>1. ASSUME NEW t \in Posters, NEW f \in Functors, PostAppend(t, f)
      PROVE  Contract!Post(f)
  <2>1. pending' = Append(pending, f) /\ UNCHANGED <<tmp, ran>>
    BY <1>1 DEF PostAppend
  <2>2. tmp \o Append(pending, f) = Append(tmp \o pending, f)
    BY <1>0
  <2> QED BY <2>1, <2>2 DEF Contract!Post
<1>2. CASE SwapPending
  <2>1. tmp = <<>> /\ tmp' = pending /\ pending' = <<>> /\ ran' = ran
    BY <1>2 DEF SwapPending, LoopInv, TmpOK
  <2>2. <<>> \o pending = pending /\ pending \o <<>> = pending
    BY <1>0, ConcatEmptySeq
  <2> QED BY <2>1, <2>2
<1>3. CASE RunFunctor
  <2>1. /\ tmp # <<>> /\ tmp' = Tail(tmp) /\ ran' = Append(ran, Head(tmp))
        /\ pending' = pending
    BY <1>3 DEF RunFunctor
  <2>2. /\ tmp \o pending # <<>> /\ Head(tmp \o pending) = Head(tmp)
        /\ Tail(tmp \o pending) = Tail(tmp) \o pending
    BY <1>0, <2>1
  <2> QED BY <2>1, <2>2 DEF Contract!Next, Contract!CarryOut
<1>4. ASSUME \/ \E t \in Posters : PostWakeup(t)
             \/ \E R \in SUBSET Sources : EpollReturns(R)
             \/ \E s \in Sources : HandleSource(s)
             \/ Unloop \/ LoopEnter \/ LoopTest \/ HandleReadEvent \/ RunReturns
             \/ DispatchDone \/ EpollTimesOut \/ UNCHANGED eventVars
      PROVE  UNCHANGED <<tmp, pending, ran>>
  BY <1>4 DEF PostWakeup, EpollReturns, HandleSource, Unloop, LoopEnter, LoopTest,
              HandleReadEvent, RunReturns, DispatchDone, EpollTimesOut, eventVars
<1> QED
  BY <1>1, <1>2, <1>3, <1>4 DEF LoopNext, LoopInternal, Contract!Next

\* EventLoop implements the mailbox: the append, the eventfd, the swap and the
\* loop over the swapped vector together carry out what was handed over, each
\* functor once and in order, for any number of threads and posts.
THEOREM LoopIsMailbox == LoopSpec => ImplementsMailbox
<1>1. LoopInit => Contract!Init
  BY DEF LoopInit, Contract!Init
<1>2. LoopInv /\ LoopInv' /\ [LoopNext]_eventVars => [Contract!Next]_(Contract!vars)
  BY LoopStepRefines
<1> QED
  BY LoopInitInv, LoopNextInv, <1>1, <1>2, PTL DEF LoopSpec, ImplementsMailbox, Contract!Spec
==============================================================================
