------------------------------ MODULE EventLoop ------------------------------
(***************************************************************************)
(* EventLoop: the IO thread's epoll loop and the mailbox through which     *)
(* other threads hand it functors (runInLoop).  The mailbox is a vector    *)
(* under a mutex plus an eventfd counter: posting is "append, then write   *)
(* the counter", taking is "read the counter to zero, then swap the        *)
(* vector", and neither pair is atomic.                                    *)
(*                                                                         *)
(* The mutex of this class covers one statement on each side, so those     *)
(* statements are atomic steps here.  What the loop does for a descriptor  *)
(* other than the eventfd is a parameter: EchoServer gives it.             *)
(***************************************************************************)
EXTENDS Naturals, Sequences

CONSTANTS
    Posters,    \* the threads that call runInLoop
    Functors,   \* what they post
    NoFunctor,  \* a poster that is not inside runInLoop
    Sources,    \* the other descriptors watched by epoll
    EventFd     \* _eventfd

ASSUME LoopAssumption ==
    /\ NoFunctor \notin Functors
    /\ EventFd \notin Sources

VARIABLES
    pending,    \* _pendingFunctors
    counter,    \* the kernel's counter behind _eventfd
    posting,    \* posting[t]: the functor t has appended without having
                \* written the eventfd yet
    ioPc,       \* where the IO thread is in loop()
    ready,      \* the events of _evtArr that are not handled yet
    tmp,        \* the local vector of doPendingFunctors
    looping,    \* _isLooping
    unlooped,   \* history: whether unloop() has been called "never", only
                \* "early", before loop() was entered, or "inLoop"
    posted,     \* history: every functor ever posted, in order
    ran         \* history: every functor ever run, in order

mailboxVars == <<pending, counter, posting, posted>>
loopVars == <<ioPc, ready, tmp, looping, unlooped, ran>>
eventVars == <<mailboxVars, loopVars>>

LoopTypeOK ==
    /\ pending \in Seq(Functors)
    /\ counter \in Nat
    /\ posting \in [Posters -> Functors \cup {NoFunctor}]
    /\ ioPc \in {"init", "test", "wait", "dispatch", "swap", "run", "stopped"}
    /\ ready \subseteq Sources \cup {EventFd}
    /\ tmp \in Seq(Functors)
    /\ looping \in BOOLEAN
    /\ unlooped \in {"never", "early", "inLoop"}
    /\ posted \in Seq(Functors)
    /\ ran \in Seq(Functors)

LoopInit ==
    /\ pending = <<>>
    /\ counter = 0
    /\ posting = [t \in Posters |-> NoFunctor]
    /\ ioPc = "init"
    /\ ready = {}
    /\ tmp = <<>>
    /\ looping = FALSE
    /\ unlooped = "never"
    /\ posted = <<>>
    /\ ran = <<>>

----------------------------------------------------------------------------
\* runInLoop(cb): append under the lock, then wakeup().

PostAppend(t, f) ==
    /\ posting[t] = NoFunctor
    /\ pending' = Append(pending, f)
    /\ posted' = Append(posted, f)
    /\ posting' = [posting EXCEPT ![t] = f]
    /\ UNCHANGED <<counter, loopVars>>

\* Mutant: the eventfd is not written.
PostWakeupLost(t) ==
    /\ posting[t] # NoFunctor
    /\ posting' = [posting EXCEPT ![t] = NoFunctor]
    /\ UNCHANGED <<pending, counter, posted, loopVars>>

PostWakeup(t) ==
    /\ posting[t] # NoFunctor
    /\ counter' = counter + 1
    /\ posting' = [posting EXCEPT ![t] = NoFunctor]
    /\ UNCHANGED <<pending, posted, loopVars>>

----------------------------------------------------------------------------
\* loop() and unloop()

\* _isLooping = true, whatever unloop() has written before.
LoopEnter ==
    /\ ioPc = "init"
    /\ looping' = TRUE
    /\ ioPc' = "test"
    /\ UNCHANGED <<mailboxVars, ready, tmp, unlooped, ran>>

LoopTest ==
    /\ ioPc = "test"
    /\ ioPc' = IF looping THEN "wait" ELSE "stopped"
    /\ UNCHANGED <<mailboxVars, ready, tmp, looping, unlooped, ran>>

\* unloop(): a plain store from another thread.
Unloop ==
    /\ looping' = FALSE
    /\ unlooped' = IF ioPc = "init" THEN "early" ELSE "inLoop"
    /\ UNCHANGED <<mailboxVars, ioPc, ready, tmp, ran>>

----------------------------------------------------------------------------
\* waitEpollFd(), with level-triggered descriptors: `readable` are the other
\* descriptors that have something to read.

EventReady == IF counter > 0 THEN {EventFd} ELSE {}

\* Mutant: handleReadEvent is called on every return of epoll_wait.
EpollReturnsAlways(readable) ==
    /\ ioPc = "wait"
    /\ readable \cup EventReady # {}
    /\ ready' = readable \cup {EventFd}
    /\ ioPc' = "dispatch"
    /\ UNCHANGED <<mailboxVars, tmp, looping, unlooped, ran>>

EpollReturns(readable) ==
    /\ ioPc = "wait"
    /\ readable \cup EventReady # {}
    /\ ready' = readable \cup EventReady
    /\ ioPc' = "dispatch"
    /\ UNCHANGED <<mailboxVars, tmp, looping, unlooped, ran>>

\* Mutant: epoll_wait without a timeout, restarted after a signal.
EpollWaitsForever ==
    /\ ioPc = "wait"
    /\ UNCHANGED eventVars

\* Nothing happened for 5000 ms, or a signal interrupted the call (EINTR).  The
\* other errors of epoll_wait, on which the code exits, come from bad arguments
\* only: _epfd and _evtArr are good as long as the loop runs.
EpollTimesOut ==
    /\ ioPc = "wait"
    /\ ioPc' = "test"
    /\ UNCHANGED <<mailboxVars, ready, tmp, looping, unlooped, ran>>

\* handleReadEvent(): reading the eventfd zeroes the counter.
HandleReadEvent ==
    /\ ioPc = "dispatch"
    /\ EventFd \in ready
    /\ ready' = ready \ {EventFd}
    /\ counter' = 0
    /\ ioPc' = "swap"
    /\ UNCHANGED <<pending, posting, posted, tmp, looping, unlooped, ran>>

\* Mutant: the vector is copied in place of swapped.
SwapPendingCopies ==
    /\ ioPc = "swap"
    /\ tmp' = pending
    /\ ioPc' = "run"
    /\ UNCHANGED <<mailboxVars, ready, looping, unlooped, ran>>

\* doPendingFunctors(): take the whole vector, then run what was in it.
SwapPending ==
    /\ ioPc = "swap"
    /\ tmp' = pending
    /\ pending' = <<>>
    /\ ioPc' = "run"
    /\ UNCHANGED <<counter, posting, posted, ready, looping, unlooped, ran>>

RunFunctor ==
    /\ ioPc = "run"
    /\ tmp # <<>>
    /\ tmp' = Tail(tmp)
    /\ ran' = Append(ran, Head(tmp))
    /\ UNCHANGED <<mailboxVars, ioPc, ready, looping, unlooped>>

\* Mutant: the eventfd is read again after the functors have run.
RunReturnsReadsAgain ==
    /\ ioPc = "run"
    /\ tmp = <<>>
    /\ counter' = 0
    /\ ioPc' = "dispatch"
    /\ UNCHANGED <<pending, posting, posted, ready, tmp, looping, unlooped, ran>>

RunReturns ==
    /\ ioPc = "run"
    /\ tmp = <<>>
    /\ ioPc' = "dispatch"
    /\ UNCHANGED <<mailboxVars, ready, tmp, looping, unlooped, ran>>

\* handleNewConnection() or handleMessage(s), seen from the loop.
HandleSource(s) ==
    /\ ioPc = "dispatch"
    /\ s \in ready \cap Sources
    /\ ready' = ready \ {s}
    /\ UNCHANGED <<mailboxVars, ioPc, tmp, looping, unlooped, ran>>

DispatchDone ==
    /\ ioPc = "dispatch"
    /\ ready = {}
    /\ ioPc' = "test"
    /\ UNCHANGED <<mailboxVars, ready, tmp, looping, unlooped, ran>>

----------------------------------------------------------------------------
\* The steps of the IO thread that need nothing from outside.
LoopInternal ==
    \/ LoopEnter \/ LoopTest
    \/ HandleReadEvent \/ SwapPending \/ RunFunctor \/ RunReturns \/ DispatchDone

LoopNext ==
    \/ \E t \in Posters :
          \/ \E f \in Functors : PostAppend(t, f)
          \/ PostWakeup(t)
    \/ Unloop
    \/ LoopInternal
    \/ \E R \in SUBSET Sources : EpollReturns(R)
    \/ EpollTimesOut
    \/ \E s \in Sources : HandleSource(s)

LoopSpec == LoopInit /\ [][LoopNext]_eventVars

\* Every thread goes on, handlers terminate, and epoll_wait reports the eventfd
\* once it stays ready, in spite of interruptions and timeouts.  Nothing says
\* that the other descriptors ever become readable.
LoopFairness ==
    /\ \A t \in Posters : WF_eventVars(PostWakeup(t))
    /\ WF_eventVars(LoopInternal)
    /\ WF_eventVars(\E s \in Sources : HandleSource(s))
    /\ WF_eventVars(EpollTimesOut)
    /\ SF_eventVars(counter > 0 /\ \E R \in SUBSET Sources : EpollReturns(R))

----------------------------------------------------------------------------
\* Properties

\* The mailbox keeps the order of the posts and neither loses nor repeats a
\* functor, although the swap may take functors whose eventfd write is still
\* to come.
MailboxFifo == posted = ran \o tmp \o pending

\* The contract of runInLoop: see Mailbox.  Between the swap and the last functor
\* the box is in two vectors.
Contract == INSTANCE Mailbox
                WITH Messages <- Functors, box <- tmp \o pending, done <- ran
ImplementsMailbox == Contract!Spec

\* No lost wakeup: a functor that waits in _pendingFunctors has an eventfd
\* write behind it that is unread, or still to come, or read by a loop that
\* has not swapped the vector yet.
MailboxAnnounced ==
    pending # <<>> =>
        \/ counter > 0
        \/ ioPc = "swap"
        \/ \E t \in Posters : posting[t] # NoFunctor

\* The eventfd is read only when it has been written, so the blocking read()
\* of handleReadEvent never stops the IO thread.
EventReadNeverBlocks ==
    ioPc = "dispatch" /\ EventFd \in ready => counter > 0

\* unloop(), called while loop() is running, ends the loop: the 5000 ms timeout
\* makes up for the missing wakeup.  (A call that comes before loop() is lost.)
UnloopTakesEffect == unlooped = "inLoop" ~> ioPc = "stopped"

==============================================================================
