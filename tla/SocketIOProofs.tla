--------------------------- MODULE SocketIOProofs ---------------------------
(***************************************************************************)
(* readline is right for every buffer length and every stream: nothing is  *)
(* lost or repeated, messages are lines, and no write leaves the array.    *)
(***************************************************************************)
EXTENDS SocketIO, SequenceTheorems, TLAPS

Types ==
    /\ arrived \in Nat /\ consumed \in Nat /\ consumed <= arrived
    /\ newlines \subseteq 1..arrived
    /\ fin \in BOOLEAN /\ rst \in BOOLEAN /\ error \in BOOLEAN
    /\ pc \in {"idle", "peek", "line", "part", "send", "closed", "killed"}
    /\ buff \in [Cells -> Nat]
    /\ pos \in Int /\ left \in Int /\ want \in Nat
    /\ text \in Seq(Nat)

\* The error of an abort has been read: all that recv returns from now on is 0.
Broken == rst /\ ~fin /\ ~error /\ arrived = consumed /\ pc = "peek"

\* In readline: pbuf and left divide the array, and what lies before pbuf are
\* the bytes taken since the call, none of them a newline.
LineInv ==
    InReceive /\ ~Broken =>
        /\ pos >= 0 /\ left > 0 /\ pos + left = MaxLen - 1
        /\ Len(text) + pos = consumed
        /\ \A i \in 0..(pos - 1) :
              buff[i] = Len(text) + 1 + i /\ Len(text) + 1 + i \notin newlines

\* readn moves what has been peeked: up to the first newline, or bytes without.
ReadnInv ==
    /\ pc \in {"line", "part"} =>
        /\ 0 < want /\ want <= left /\ consumed + want <= arrived
        /\ \A i \in (consumed + 1)..(consumed + want - 1) : i \notin newlines
    /\ pc = "line" => consumed + want \in newlines
    /\ pc = "part" => consumed + want \notin newlines

TextInv ==
    /\ Len(text) <= consumed
    /\ ~InReceive => Len(text) = consumed
    /\ \A i \in 1..Len(text) : text[i] = Returned(i)

CutsInv ==
    /\ \A i \in 1..Len(text) : i \in newlines => i \in cuts
    /\ \A c \in cuts : c \in newlines \/ c - (MaxLen - 1) \in cuts \cup {0}
    /\ Len(text) \in cuts \cup {0}

\* The kernel reports an abort to recv unless the stream has ended before.
AbortInv == error => rst /\ ~fin

IInv == Types /\ AbortInv /\ LineInv /\ ReadnInv /\ TextInv /\ CutsInv /\ WritesInBounds

\* What receive() returns extends the text by the first n cells of the array.
LEMMA MessageAppends ==
    ASSUME NEW t \in Seq(Nat), NEW b \in [Cells -> Nat], NEW n \in Nat, n <= MaxLen + 1,
           MaxLen \in Nat
    PROVE  LET m == [i \in 1..n |-> b[i - 1]] IN
           /\ t \o m \in Seq(Nat)
           /\ Len(t \o m) = Len(t) + n
           /\ \A i \in 1..Len(t) : (t \o m)[i] = t[i]
           /\ \A i \in 1..n : (t \o m)[Len(t) + i] = b[i - 1]
<1> DEFINE m == [i \in 1..n |-> b[i - 1]]
<1>1. \A i \in 1..n : b[i - 1] \in Nat
  BY DEF Cells
<1>2. m \in Seq(Nat) /\ Len(m) = n
  BY <1>1
<1>3. t \o m \in Seq(Nat) /\ Len(t \o m) = Len(t) + n
  BY <1>2
<1>4. \A i \in 1..Len(t) : (t \o m)[i] = t[i]
  BY <1>2
<1>5. \A i \in 1..n : (t \o m)[Len(t) + i] = m[i]
  BY <1>2
<1> QED
  BY <1>2, <1>3, <1>4, <1>5

\* Where recv stores and what.
LEMMA StoreKeeps ==
    ASSUME Types, NEW n \in Int, MaxLen \in Nat
    PROVE  /\ pos >= 0 \/ n <= 0 => Store(n) \in [Cells -> Nat]
           /\ \A i \in Cells : i \in pos..(pos + n - 1) => Store(n)[i] = consumed + 1 + (i - pos)
           /\ \A i \in Cells : i \notin pos..(pos + n - 1) => Store(n)[i] = buff[i]
BY DEF Types, Store, Cells

\* The zeroed array of receive().
LEMMA BlankArray == Blank \in [Cells -> Nat] /\ Blank[-1] = Canary /\ Blank[MaxLen] = Canary
BY SocketAssumption DEF Blank, Cells, NUL, Canary

LEMMA InitInv == Init => IInv
<1> SUFFICES ASSUME Init PROVE IInv
  OBVIOUS
<1>0. arrived = 0 /\ consumed = 0 /\ newlines = {} /\ text = <<>> /\ pc = "idle" /\ buff = Blank
      /\ error = FALSE /\ fin = FALSE /\ rst = FALSE /\ pos = 0 /\ left = 0 /\ want = 0
  BY DEF Init
<1>1. Types /\ AbortInv /\ WritesInBounds
  <2>1. <<>> \in Seq(Nat) /\ {} \subseteq 1..0 /\ 0 \in Nat /\ 0 \in Int /\ 0 <= 0
    OBVIOUS
  <2>2. arrived \in Nat /\ consumed \in Nat /\ consumed <= arrived /\ newlines \subseteq 1..arrived
    BY ONLY <1>0, <2>1
  <2>3. Types
    BY <1>0, <2>1, <2>2, BlankArray DEF Types
  <2> QED
    BY <1>0, <2>3, BlankArray DEF AbortInv, WritesInBounds
<1>2. LineInv /\ ReadnInv /\ TextInv /\ CutsInv
  BY SocketAssumption DEF Init, LineInv, ReadnInv, TextInv, CutsInv, InReceive, Returned
<1> QED
  BY <1>1, <1>2 DEF IInv

LEMMA PeerInv == IInv /\ Peer => IInv'
<1> SUFFICES ASSUME IInv, Peer PROVE IInv'
  OBVIOUS
<1> USE DEF IInv, Types, AbortInv, lineVars, answerVars
<1>1. CASE Arrive
  <2> USE <1>1 DEF Arrive
  <2>1. Types' /\ AbortInv' /\ WritesInBounds'
    BY DEF WritesInBounds
  <2>2. arrived + 1 > consumed /\ ~Broken'
    BY DEF Broken
  <2>3. \A i \in 1..arrived : i \in newlines' <=> i \in newlines
    OBVIOUS
  <2>4. LineInv' /\ ReadnInv'
    BY <2>2, <2>3 DEF LineInv, ReadnInv, InReceive, Broken
  <2>5. TextInv'
    BY <2>3 DEF TextInv, InReceive, Returned
  <2>6. CutsInv'
    BY <2>3 DEF CutsInv, TextInv
  <2> QED
    BY <2>1, <2>4, <2>5, <2>6
<1>2. CASE End
  BY <1>2 DEF End, Broken, LineInv, ReadnInv, TextInv, CutsInv, WritesInBounds, InReceive, Returned
<1>3. CASE Abort
  BY <1>3 DEF Abort, Broken, LineInv, ReadnInv, TextInv, CutsInv, WritesInBounds, InReceive, Returned
<1>4. CASE Read
  BY <1>4 DEF Read, peerVars, Broken, LineInv, ReadnInv, TextInv, CutsInv, WritesInBounds, InReceive, Returned
<1> QED
  BY <1>1, <1>2, <1>3, <1>4 DEF Peer

LEMMA IsClosedInv == IInv /\ IsClosed => IInv'
<1> SUFFICES ASSUME IInv, IsClosed PROVE IInv'
  OBVIOUS
<1> USE SocketAssumption DEF IInv, IsClosed, answerVars, peerVars
<1>1. PICK ret \in RecvResults(20) :
        ErrorTaken(ret) /\ pc' = IF ret = 0 THEN "closed" ELSE "peek"
  OBVIOUS
<1>2. Types' /\ AbortInv' /\ WritesInBounds'
  BY <1>1, BlankArray DEF Types, AbortInv, WritesInBounds, ErrorTaken
<1>3. LineInv'
  BY DEF LineInv, TextInv, InReceive, Types
<1>4. ReadnInv' /\ TextInv' /\ CutsInv'
  BY <1>1 DEF ReadnInv, TextInv, CutsInv, InReceive, Returned
<1> QED
  BY <1>2, <1>3, <1>4

\* A part of what is there is there.
LEMMA PartIsThere == \A a, b, c, d \in Int : b <= c /\ a + c <= d => a + b <= d
OBVIOUS

LEMMA PeekInv == IInv /\ ReadlinePeek => IInv'
<1> SUFFICES ASSUME IInv, ReadlinePeek PROVE IInv'
  OBVIOUS
<1> USE SocketAssumption DEF IInv, answerVars, peerVars
<1>1. PICK ret \in Int :
        /\ ret \in RecvResults(left) /\ ErrorTaken(ret)
        /\ buff' = Store(ret)
        /\ \/ /\ \E i \in Hits(ret) : (\A j \in Hits(ret) : i <= j) /\ want' = i + 1
              /\ pc' = "line"
              /\ UNCHANGED <<pos, left>>
           \/ /\ Hits(ret) = {} /\ ret > 0
              /\ want' = ret /\ pc' = "part"
              /\ UNCHANGED <<pos, left>>
           \/ /\ ret <= 0
              /\ pos' = pos + ret /\ left' = left - ret
              /\ UNCHANGED <<pc, want>>
  BY DEF ReadlinePeek, RecvResults, Types
<1>2. /\ pc = "peek"
      /\ UNCHANGED <<peerVars, consumed, text, cuts, answerVars>>
  BY DEF ReadlinePeek
<1>3. CASE ret > 0
  <2>1. ret <= left /\ consumed + ret <= arrived /\ ~Broken
    BY <1>1, <1>3 DEF RecvResults, Broken, Types
  <2>2. pos >= 0 /\ pos + left = MaxLen - 1 /\ Len(text) + pos = consumed
    BY <1>2, <2>1 DEF LineInv, InReceive
  <2>3. buff' \in [Cells -> Nat]
    BY <1>1, <1>2, <2>2, StoreKeeps
  <2>4. error' = error /\ want' \in 1..ret /\ pc' \in {"line", "part"} /\ UNCHANGED <<pos, left>>
    BY <1>1, <1>2, <1>3 DEF ErrorTaken, Hits, Types
  <2>5. Types' /\ AbortInv'
    BY <1>2, <2>3, <2>4 DEF Types, AbortInv
  <2>6. \A i \in Cells : i \notin pos..(pos + ret - 1) => buff'[i] = buff[i]
    BY <1>1, <1>2, StoreKeeps
  <2>7. WritesInBounds'
    BY <1>2, <2>1, <2>2, <2>6 DEF WritesInBounds, Cells, Types, NUL
  <2>8. LineInv'
    BY <1>2, <2>1, <2>2, <2>4, <2>6 DEF LineInv, InReceive, Cells, Types
  <2>11. 0 < want' /\ want' <= left' /\ consumed' + want' <= arrived'
    <3>1. want' \in Int /\ 0 < want' /\ want' <= ret
      BY <2>4
    <3>2. arrived' = arrived /\ consumed' = consumed /\ left' = left
      BY <1>2, <2>4
    <3>3. left \in Int /\ arrived \in Int /\ consumed \in Int
      BY DEF Types
    <3>4. consumed + want' <= arrived
      BY <2>1, <3>1, <3>3, PartIsThere
    <3>5. want' <= left
      BY <2>1, <3>1, <3>3
    <3> QED
      BY ONLY <3>1, <3>2, <3>4, <3>5
  <2>9. ReadnInv'
    <3>1. CASE pc' = "line"
      <4>1. PICK i \in Hits(ret) : (\A j \in Hits(ret) : i <= j) /\ want' = i + 1
        BY <1>1, <1>2, <3>1, <1>3
      <4>2. consumed + want' \in newlines
        BY <4>1, <1>2 DEF Hits, Types
      <4>3. ASSUME NEW k \in (consumed + 1)..(consumed + want' - 1) PROVE k \notin newlines
        <5>1. k - consumed - 1 \in 0..(ret - 1) /\ k - consumed - 1 < i
          BY <4>1, <4>3, <1>2 DEF Hits, Types
        <5>2. k - consumed - 1 \notin Hits(ret)
          BY <4>1, <5>1 DEF Hits
        <5> QED
          BY <5>1, <5>2 DEF Hits, Types
      <4>4. consumed' = consumed /\ newlines' = newlines
        BY <1>2
      <4> QED
        BY <2>11, <3>1, <4>2, <4>3, <4>4 DEF ReadnInv
    <3>2. CASE pc' = "part"
      <4>1. Hits(ret) = {} /\ want' = ret
        BY <1>1, <3>2, <1>2
      <4>2. ASSUME NEW k \in (consumed + 1)..(consumed + ret) PROVE k \notin newlines
        <5>1. k - consumed - 1 \in 0..(ret - 1) /\ consumed + 1 + (k - consumed - 1) = k
          BY <1>2 DEF Types
        <5> QED
          BY <4>1, <5>1 DEF Hits
      <4> QED
        BY <3>2, <4>1, <4>2, <1>2, <1>3, <2>1, <2>4 DEF ReadnInv, Types
    <3> QED
      BY <2>4, <3>1, <3>2
  <2>10. TextInv' /\ CutsInv'
    BY <1>2, <2>4 DEF TextInv, CutsInv, InReceive, Returned
  <2> QED
    BY <2>5, <2>7, <2>8, <2>9, <2>10
<1>4. CASE ret <= 0
  <2>1. arrived = consumed /\ ret \in {0, -1} /\ Hits(ret) = {}
    BY <1>1, <1>4 DEF RecvResults, Types, Hits
  <2>2. pc' = "peek" /\ want' = want /\ pos' = pos + ret /\ left' = left - ret
    BY <1>1, <1>2, <1>4, <2>1
  <2>3. buff' = buff
    BY <1>1, <2>1 DEF Store, Types, Cells
  <2>4. Types' /\ AbortInv' /\ WritesInBounds'
    BY <1>1, <1>2, <2>1, <2>2, <2>3 DEF Types, AbortInv, WritesInBounds, ErrorTaken
  <2>5. CASE ret = -1
    <3>1. Broken'
      BY <1>1, <1>2, <2>1, <2>2, <2>5 DEF Broken, ErrorTaken, RecvResults, Types, AbortInv
    <3> QED
      BY <1>2, <2>2, <2>4, <3>1 DEF LineInv, ReadnInv, TextInv, CutsInv, InReceive, Returned
  <2>6. CASE ret = 0
    <3>1. pos' = pos /\ left' = left /\ error' = error
      BY <1>1, <2>2, <2>6 DEF Types, ErrorTaken
    <3>2. LineInv'
      BY <1>2, <2>2, <2>3, <3>1 DEF LineInv, InReceive, Broken
    <3>3. ReadnInv' /\ TextInv' /\ CutsInv'
      BY <1>2, <2>2 DEF ReadnInv, TextInv, CutsInv, InReceive, Returned
    <3> QED
      BY <2>4, <3>2, <3>3
  <2> QED
    BY <2>1, <2>5, <2>6
<1> QED
  BY <1>2, <1>3, <1>4

\* What readn has moved stands in the array behind what was there, and only its
\* last byte can be a newline.
LEMMA ReadnStores ==
    ASSUME IInv, pc \in {"line", "part"}, NEW n \in Int, n \in RecvResults(want), n > 0, Readn(n)
    PROVE  /\ n <= want /\ consumed' \in Nat /\ consumed' <= arrived /\ want' \in Nat
           /\ pos' \in Int /\ left' \in Int /\ pos' > 0 /\ left' >= 0 /\ pos' + left' = MaxLen - 1
           /\ Len(text) + pos' = consumed'
           /\ Store(n) \in [Cells -> Nat] /\ Store(n)[-1] = Canary /\ Store(n)[MaxLen] = Canary
           /\ \A i \in 0..(pos' - 1) : Store(n)[i] = Len(text) + 1 + i
           /\ \A i \in 0..(pos' - 1) :
                 i < pos' - 1 \/ n < want => Len(text) + 1 + i \notin newlines
<1> USE SocketAssumption DEF IInv
<1>1. /\ 0 < want /\ want <= left /\ consumed + want <= arrived
      /\ \A i \in (consumed + 1)..(consumed + want - 1) : i \notin newlines
  BY DEF ReadnInv
<1>2. InReceive /\ ~Broken
  BY DEF InReceive, Broken
<1>3. /\ pos >= 0 /\ left > 0 /\ pos + left = MaxLen - 1 /\ Len(text) + pos = consumed
      /\ \A i \in 0..(pos - 1) : buff[i] = Len(text) + 1 + i /\ Len(text) + 1 + i \notin newlines
  BY <1>2 DEF LineInv
<1>4. /\ consumed \in Nat /\ arrived \in Nat /\ pos \in Int /\ left \in Int /\ want \in Nat
      /\ Len(text) \in Nat
  BY DEF Types
<1>5. n <= want
  BY <1>4 DEF RecvResults, Types
<1>6. consumed' = consumed + n /\ want' = want - n /\ pos' = pos + n /\ left' = left - n
  BY DEF Readn
<1>7. consumed + n <= arrived
  BY <1>1, <1>4, <1>5
<1>8. Store(n) \in [Cells -> Nat]
  BY <1>3, StoreKeeps
<1>9. /\ \A i \in Cells : i \in pos..(pos + n - 1) => Store(n)[i] = consumed + 1 + (i - pos)
      /\ \A i \in Cells : i \notin pos..(pos + n - 1) => Store(n)[i] = buff[i]
  BY StoreKeeps
<1>10. pos + n <= MaxLen - 1
  BY <1>1, <1>3, <1>4, <1>5
<1>11. Store(n)[-1] = Canary /\ Store(n)[MaxLen] = Canary
  BY <1>3, <1>4, <1>9, <1>10 DEF WritesInBounds, Cells
<1>12. ASSUME NEW i \in 0..(pos' - 1)
       PROVE  /\ Store(n)[i] = Len(text) + 1 + i
              /\ i < pos' - 1 \/ n < want => Len(text) + 1 + i \notin newlines
  <2>0. pos' = pos + n
    BY <1>6
  <2>1. i \in Cells
    BY <1>4, <1>10, <2>0 DEF Cells
  <2>2. CASE i < pos
    BY <1>3, <1>4, <1>9, <2>0, <2>1, <2>2
  <2>3. CASE i >= pos
    <3>1. consumed + 1 + (i - pos) = Len(text) + 1 + i
      BY <1>3, <1>4
    <3>2. Store(n)[i] = consumed + 1 + (i - pos)
      BY <1>4, <1>9, <2>0, <2>1, <2>3
    <3>3. i < pos' - 1 \/ n < want
             => consumed + 1 + (i - pos) \in (consumed + 1)..(consumed + want - 1)
      BY <1>4, <1>5, <2>0, <2>3
    <3> QED
      BY <1>1, <3>1, <3>2, <3>3
  <2> QED
    BY <1>4, <2>2, <2>3
<1>13. /\ consumed' \in Nat /\ consumed' <= arrived /\ want' \in Nat
       /\ pos' \in Int /\ left' \in Int /\ pos' > 0 /\ left' >= 0 /\ pos' + left' = MaxLen - 1
       /\ Len(text) + pos' = consumed'
  BY <1>1, <1>3, <1>4, <1>5, <1>6, <1>7
<1> QED
  BY ONLY <1>5, <1>8, <1>11, <1>12, <1>13

\* readn that has not moved all it was asked for keeps the invariant.
LEMMA ReadnGoesOn ==
    ASSUME IInv, pc \in {"line", "part"}, NEW n \in Int, n \in RecvResults(want), n > 0, Readn(n),
           n < want, buff' = Store(n),
           UNCHANGED <<pc, text, cuts, peerVars, error>>
    PROVE  IInv'
<1> USE SocketAssumption DEF IInv, peerVars
<1>1. /\ consumed' \in Nat /\ consumed' <= arrived /\ want' \in Nat
      /\ pos' \in Int /\ left' \in Int /\ pos' > 0 /\ left' >= 0 /\ pos' + left' = MaxLen - 1
      /\ Len(text) + pos' = consumed'
      /\ Store(n) \in [Cells -> Nat] /\ Store(n)[-1] = Canary /\ Store(n)[MaxLen] = Canary
      /\ \A i \in 0..(pos' - 1) : Store(n)[i] = Len(text) + 1 + i
      /\ \A i \in 0..(pos' - 1) : Len(text) + 1 + i \notin newlines
  BY ReadnStores
<1>2. Types' /\ AbortInv' /\ WritesInBounds'
  BY <1>1 DEF Types, AbortInv, WritesInBounds
<1>3. 0 < want' /\ want' <= left' /\ consumed' + want' = consumed + want
  BY DEF ReadnInv, Readn, Types
<1>4. LineInv'
  <2>1. left' > 0 /\ pos' >= 0
    BY <1>1, <1>3
  <2> QED
    BY <1>1, <2>1 DEF LineInv
<1>5. ReadnInv'
  <2>1. \A i \in (consumed' + 1)..(consumed' + want' - 1) : i \in (consumed + 1)..(consumed + want - 1)
    BY <1>1, <1>3 DEF Readn, Types
  <2> QED
    BY <1>3, <2>1 DEF ReadnInv
<1>6. TextInv'
  <2>1. Len(text) <= consumed'
    BY <1>1 DEF Types
  <2> QED
    BY <2>1 DEF TextInv, InReceive, Returned
<1>7. CutsInv'
  BY DEF CutsInv
<1> QED
  BY <1>2, <1>4, <1>5, <1>6, <1>7

\* A message that is returned takes the text to what has been consumed.
LEMMA ReturnKeeps ==
    ASSUME IInv, NEW n \in Int, 0 < n, n <= MaxLen - 1,
           buff' \in [Cells -> Nat], buff'[-1] = Canary, buff'[MaxLen] = Canary,
           consumed' = Len(text) + n, consumed' <= arrived,
           pos' \in Int, left' \in Int, want' \in Nat,
           \A i \in 0..(n - 1) : buff'[i] = Returned(Len(text) + 1 + i),
           \A i \in 0..(n - 2) : Len(text) + 1 + i \notin newlines,
           Len(text) + n \in newlines \/ n = MaxLen - 1,
           ReturnMessage(n), UNCHANGED <<peerVars, error>>
    PROVE  IInv'
<1> USE SocketAssumption DEF IInv, peerVars, ReturnMessage
<1> DEFINE m == [i \in 1..n |-> buff'[i - 1]]
<1>0. Len(text) \in Nat /\ text \in Seq(Nat) /\ n \in Nat /\ n <= MaxLen + 1
  BY DEF Types
<1>1. /\ text' \in Seq(Nat) /\ Len(text') = Len(text) + n
      /\ \A i \in 1..Len(text) : text'[i] = text[i]
      /\ \A i \in 1..n : text'[Len(text) + i] = buff'[i - 1]
  <2>1. text' = text \o m /\ MaxLen \in Nat
    OBVIOUS
  <2>2. /\ text \o m \in Seq(Nat) /\ Len(text \o m) = Len(text) + n
        /\ \A i \in 1..Len(text) : (text \o m)[i] = text[i]
        /\ \A i \in 1..n : (text \o m)[Len(text) + i] = buff'[i - 1]
    BY ONLY <1>0, <2>1, buff' \in [Cells -> Nat], MessageAppends
  <2> QED
    BY ONLY <2>1, <2>2
<1>2. Types' /\ AbortInv' /\ WritesInBounds'
  BY <1>0, <1>1 DEF Types, AbortInv, WritesInBounds
<1>3. LineInv' /\ ReadnInv'
  BY DEF LineInv, ReadnInv, InReceive
<1>4. ASSUME NEW k \in 1..Len(text'), k > Len(text)
      PROVE  /\ k - Len(text) \in 1..n /\ k - Len(text) - 1 \in 0..(n - 1)
             /\ Len(text) + (k - Len(text)) = k /\ Len(text) + 1 + (k - Len(text) - 1) = k
             /\ k < Len(text) + n => k - Len(text) - 1 \in 0..(n - 2)
  BY <1>0, <1>1, <1>4
<1>5. TextInv'
  <2>1. ASSUME NEW k \in 1..Len(text') PROVE text'[k] = Returned(k)
    <3>1. CASE k <= Len(text)
      BY <1>0, <1>1, <3>1 DEF TextInv
    <3>2. CASE k > Len(text)
      <4>1. text'[Len(text) + (k - Len(text))] = buff'[k - Len(text) - 1]
        BY <1>1, <1>4, <3>2
      <4>2. buff'[k - Len(text) - 1] = Returned(Len(text) + 1 + (k - Len(text) - 1))
        BY <1>4, <3>2
      <4> QED
        BY <1>4, <3>2, <4>1, <4>2
    <3> QED
      BY <1>0, <1>1, <3>1, <3>2
  <2>2. \A k \in 1..Len(text') : text'[k] = (Returned(k))'
    BY <2>1 DEF Returned
  <2>3. Len(text') = consumed' /\ consumed' \in Nat
    BY <1>0, <1>1
  <2> QED
    BY <2>2, <2>3 DEF TextInv
<1>6. CutsInv'
  <2>1. cuts' = cuts \cup {Len(text) + n} /\ newlines' = newlines
    OBVIOUS
  <2>2. ASSUME NEW k \in 1..Len(text'), k \in newlines PROVE k \in cuts'
    <3>1. CASE k <= Len(text)
      BY <1>0, <1>1, <2>1, <2>2, <3>1 DEF CutsInv
    <3>2. CASE k > Len(text)
      <4>1. ~(k < Len(text) + n)
        BY <1>4, <2>2, <3>2
      <4>2. k = Len(text) + n
        BY <1>0, <1>1, <4>1
      <4> QED
        BY <2>1, <4>2
    <3> QED
      BY <1>0, <1>1, <3>1, <3>2
  <2>3. ASSUME NEW c \in cuts' PROVE c \in newlines \/ c - (MaxLen - 1) \in cuts' \cup {0}
    <3>1. CASE c \in cuts
      BY <2>1, <3>1 DEF CutsInv
    <3>2. CASE c = Len(text) + n /\ n = MaxLen - 1
      <4>1. c - (MaxLen - 1) = Len(text)
        BY <1>0, <3>2
      <4> QED
        BY <2>1, <4>1 DEF CutsInv
    <3> QED
      BY <2>1, <3>1, <3>2
  <2>4. Len(text') \in cuts'
    BY <1>1, <2>1
  <2> QED
    BY <2>1, <2>2, <2>3, <2>4 DEF CutsInv
<1> QED
  BY <1>2, <1>3, <1>5, <1>6

LEMMA ReadLineInv == IInv /\ ReadLine => IInv'
<1> SUFFICES ASSUME IInv, ReadLine PROVE IInv'
  OBVIOUS
<1> USE SocketAssumption DEF peerVars, answerVars
<1>1. PICK n \in Int :
        /\ n \in RecvResults(want) /\ n > 0 /\ Readn(n)
        /\ IF n < want
           THEN buff' = Store(n) /\ UNCHANGED <<pc, text, cuts>>
           ELSE buff' = [Store(n) EXCEPT ![pos'- 1] = NUL] /\ ReturnMessage(pos')
  BY DEF ReadLine, RecvResults, IInv, Types
<1>2. pc = "line" /\ UNCHANGED <<peerVars, error>>
  BY DEF ReadLine
<1>3. CASE n < want
  BY <1>1, <1>2, <1>3, ReadnGoesOn
<1>4. CASE ~(n < want)
  <2>1. /\ n <= want /\ consumed' <= arrived /\ want' \in Nat
        /\ pos' \in Int /\ left' \in Int /\ pos' > 0 /\ left' >= 0 /\ pos' + left' = MaxLen - 1
        /\ Len(text) + pos' = consumed'
        /\ Store(n) \in [Cells -> Nat] /\ Store(n)[-1] = Canary /\ Store(n)[MaxLen] = Canary
        /\ \A i \in 0..(pos' - 1) : Store(n)[i] = Len(text) + 1 + i
        /\ \A i \in 0..(pos' - 1) : i < pos' - 1 => Len(text) + 1 + i \notin newlines
    BY <1>1, <1>2, ReadnStores
  <2>2. PICK p \in Int, l \in Int : p = pos' /\ l = left'
    BY <2>1
  <2>3. /\ p > 0 /\ l >= 0 /\ p + l = MaxLen - 1 /\ Len(text) + p = consumed'
        /\ \A i \in 0..(p - 1) : Store(n)[i] = Len(text) + 1 + i
        /\ \A i \in 0..(p - 1) : i < p - 1 => Len(text) + 1 + i \notin newlines
    BY ONLY <2>1, <2>2
  <2>4. Len(text) \in Nat /\ p <= MaxLen - 1
    BY <2>3 DEF IInv, Types
  <2>5. Len(text) + p \in newlines
    <3>1. n = want
      BY <1>1, <1>4, <2>1 DEF IInv, Types
    <3>2. consumed + want \in newlines
      BY <1>2 DEF IInv, ReadnInv
    <3> QED
      BY <1>1, <2>3, <3>1, <3>2 DEF Readn
  <2>6. buff' = [Store(n) EXCEPT ![p - 1] = NUL] /\ ReturnMessage(p)
    BY <1>1, <1>4, <2>2
  <2>7. p - 1 \in Cells /\ p - 1 # -1 /\ p - 1 # MaxLen
    BY <2>3, <2>4 DEF Cells
  <2>8. buff' \in [Cells -> Nat] /\ buff'[-1] = Canary /\ buff'[MaxLen] = Canary
    BY <2>1, <2>6, <2>7 DEF NUL, Cells
  <2>9. ASSUME NEW i \in 0..(p - 1) PROVE buff'[i] = Returned(Len(text) + 1 + i)
    <3>1. i \in Cells
      BY <2>3, <2>4 DEF Cells
    <3>2. CASE i = p - 1
      <4>1. Len(text) + 1 + i = Len(text) + p
        BY <2>4, <3>2
      <4> QED
        BY <2>1, <2>5, <2>6, <2>7, <3>2, <4>1 DEF Returned
    <3>3. CASE i # p - 1
      <4>1. i < p - 1
        BY <3>3
      <4>2. buff'[i] = Store(n)[i]
        BY <2>1, <2>6, <3>1, <3>3
      <4> QED
        BY <2>3, <4>1, <4>2 DEF Returned
    <3> QED
      BY <3>2, <3>3
  <2>10. \A i \in 0..(p - 2) : i \in 0..(p - 1) /\ i < p - 1
    OBVIOUS
  <2>11. \A i \in 0..(p - 2) : Len(text) + 1 + i \notin newlines
    BY <2>3, <2>10
  <2>12. consumed' = Len(text) + p /\ consumed' <= arrived /\ pos' \in Int /\ left' \in Int /\ want' \in Nat
    BY <2>1, <2>3
  <2> QED
    BY ONLY <1>2, <2>3, <2>4, <2>5, <2>6, <2>8, <2>9, <2>11, <2>12, IInv, ReturnKeeps
<1> QED
  BY <1>3, <1>4

LEMMA ReadPartInv == IInv /\ ReadPart => IInv'
<1> SUFFICES ASSUME IInv, ReadPart PROVE IInv'
  OBVIOUS
<1> USE SocketAssumption DEF peerVars, answerVars
<1>1. PICK n \in Int :
        /\ n \in RecvResults(want) /\ n > 0 /\ Readn(n)
        /\ \/ n < want /\ buff' = Store(n) /\ UNCHANGED <<pc, text, cuts>>
           \/ n = want /\ left' > 0 /\ buff' = Store(n) /\ pc' = "peek" /\ UNCHANGED <<text, cuts>>
           \/ n = want /\ left' <= 0 /\ buff' = [Store(n) EXCEPT ![MaxLen - 1] = NUL]
              /\ ReturnMessage(MaxLen - 1)
  BY DEF ReadPart, RecvResults, IInv, Types
<1>2. pc = "part" /\ UNCHANGED <<peerVars, error>>
  BY DEF ReadPart
<1>3. CASE n < want /\ buff' = Store(n) /\ UNCHANGED <<pc, text, cuts>>
  BY <1>1, <1>2, <1>3, ReadnGoesOn
<1>4. ASSUME n = want
      PROVE  /\ consumed' \in Nat /\ consumed' <= arrived /\ want' \in Nat
             /\ pos' \in Int /\ left' \in Int /\ pos' > 0 /\ left' >= 0 /\ pos' + left' = MaxLen - 1
             /\ Len(text) + pos' = consumed'
             /\ Store(n) \in [Cells -> Nat] /\ Store(n)[-1] = Canary /\ Store(n)[MaxLen] = Canary
             /\ \A i \in 0..(pos' - 1) :
                   Store(n)[i] = Len(text) + 1 + i /\ Len(text) + 1 + i \notin newlines
  <2>1. /\ consumed' \in Nat /\ consumed' <= arrived /\ want' \in Nat
        /\ pos' \in Int /\ left' \in Int /\ pos' > 0 /\ left' >= 0 /\ pos' + left' = MaxLen - 1
        /\ Len(text) + pos' = consumed'
        /\ Store(n) \in [Cells -> Nat] /\ Store(n)[-1] = Canary /\ Store(n)[MaxLen] = Canary
        /\ \A i \in 0..(pos' - 1) : Store(n)[i] = Len(text) + 1 + i
        /\ \A i \in 0..(pos' - 1) : i < pos' - 1 => Len(text) + 1 + i \notin newlines
    BY <1>1, <1>2, ReadnStores
  <2>2. consumed' \notin newlines
    BY <1>1, <1>2, <1>4 DEF IInv, ReadnInv, Readn
  <2>3. PICK p \in Int : p = pos' /\ p > 0 /\ Len(text) + p = consumed'
    BY <2>1
  <2>4. Len(text) \in Nat
    BY DEF IInv, Types
  <2>5. ASSUME NEW i \in 0..(p - 1) PROVE Len(text) + 1 + i \notin newlines
    <3>1. CASE i = p - 1
      <4>1. Len(text) + 1 + i = Len(text) + p
        BY <2>4, <3>1
      <4> QED
        BY <2>2, <2>3, <4>1
    <3>2. CASE i # p - 1
      <4>1. i < p - 1
        BY <3>2
      <4> QED
        BY <2>1, <2>3, <4>1
    <3> QED
      BY <3>1, <3>2
  <2> QED
    BY ONLY <2>1, <2>3, <2>5
<1>5. CASE n = want /\ left' > 0 /\ buff' = Store(n) /\ pc' = "peek" /\ UNCHANGED <<text, cuts>>
  <2> USE <1>4, <1>5
  <2>1. Types' /\ AbortInv' /\ WritesInBounds'
    BY <1>2 DEF IInv, Types, AbortInv, WritesInBounds
  <2>2. LineInv'
    <3>1. pos' >= 0
      BY <1>4
    <3> QED
      BY <1>2, <3>1 DEF LineInv
  <2>3. ReadnInv'
    BY DEF ReadnInv
  <2>4. TextInv'
    <3>1. Len(text) <= consumed'
      BY DEF IInv, Types
    <3> QED
      BY <1>2, <3>1 DEF IInv, TextInv, InReceive, Returned
  <2>5. CutsInv'
    BY <1>2 DEF IInv, CutsInv
  <2> QED
    BY <2>1, <2>2, <2>3, <2>4, <2>5 DEF IInv
<1>6. CASE n = want /\ left' <= 0 /\ buff' = [Store(n) EXCEPT ![MaxLen - 1] = NUL]
              /\ ReturnMessage(MaxLen - 1)
  <2>1. pos' = MaxLen - 1
    <3>1. PICK p \in Int, l \in Int : p = pos' /\ l = left' /\ l >= 0 /\ l <= 0 /\ p + l = MaxLen - 1
      BY <1>4, <1>6
    <3>2. l = 0 /\ MaxLen - 1 \in Int
      BY <3>1
    <3>3. p + l = p
      BY <3>2
    <3> QED
      BY <3>1, <3>3
  <2>2. MaxLen - 1 \in Cells /\ MaxLen - 1 # -1 /\ MaxLen - 1 # MaxLen /\ MaxLen - 1 \in Int
        /\ 0 < MaxLen - 1 /\ MaxLen - 1 <= MaxLen - 1
    BY DEF Cells
  <2>3. buff' \in [Cells -> Nat] /\ buff'[-1] = Canary /\ buff'[MaxLen] = Canary
    BY <1>4, <1>6, <2>2 DEF NUL, Cells
  <2>4. \A i \in 0..(MaxLen - 1 - 1) :
           buff'[i] = Store(n)[i] /\ i \in 0..(pos' - 1)
    BY <1>4, <1>6, <2>1 DEF Cells
  <2>5. \A i \in 0..(MaxLen - 1 - 1) : buff'[i] = Returned(Len(text) + 1 + i)
    BY <1>4, <1>6, <2>4 DEF Returned
  <2>6. \A i \in 0..(MaxLen - 1 - 2) : i \in 0..(MaxLen - 1 - 1)
    OBVIOUS
  <2>7. \A i \in 0..(MaxLen - 1 - 2) : Len(text) + 1 + i \notin newlines
    BY <1>4, <1>6, <2>4, <2>6
  <2>8. consumed' = Len(text) + (MaxLen - 1)
    BY <1>4, <1>6, <2>1
  <2>9. consumed' <= arrived /\ pos' \in Int /\ left' \in Int /\ want' \in Nat
    BY <1>4, <1>6
  <2>10. ReturnMessage(MaxLen - 1)
    BY <1>6
  <2> QED
    BY ONLY <1>2, <2>2, <2>3, <2>5, <2>7, <2>8, <2>9, <2>10, IInv, ReturnKeeps
<1> QED
  BY <1>1, <1>3, <1>5, <1>6

LEMMA SendInv == IInv /\ (SendBegin \/ Sendn \/ SendFails \/ Done) => IInv'
<1> SUFFICES ASSUME IInv, SendBegin \/ Sendn \/ SendFails \/ UNCHANGED vars PROVE IInv'
  BY DEF Done
<1>1. /\ UNCHANGED <<peerVars, consumed, lineVars, text, cuts>>
      /\ pc' = pc \/ (pc \in {"idle", "send"} /\ pc' \in {"idle", "send", "killed"})
      /\ error' = error \/ (error' = FALSE /\ pc = "send")
  BY DEF SendBegin, Sendn, SendFails, vars
<1>2. Types' /\ AbortInv' /\ WritesInBounds'
  <2>1. pc' \in {"idle", "peek", "line", "part", "send", "closed", "killed"}
    BY <1>1 DEF IInv, Types
  <2>2. error' \in BOOLEAN /\ (error' => error)
    <3>1. error \in BOOLEAN
      BY DEF IInv, Types
    <3>2. CASE error' = error
      BY ONLY <3>1, <3>2, Zenon
    <3>3. CASE error' = FALSE
      BY ONLY <3>3, Zenon
    <3> QED
      BY ONLY <1>1, <3>2, <3>3, Zenon
  <2> QED
    BY <1>1, <2>1, <2>2 DEF IInv, Types, AbortInv, WritesInBounds, peerVars, lineVars
<1>3. LineInv'
  BY <1>1 DEF IInv, LineInv, InReceive, Broken, peerVars, lineVars
<1>4. ReadnInv' /\ TextInv' /\ CutsInv'
  BY <1>1 DEF IInv, ReadnInv, TextInv, CutsInv, InReceive, Returned, peerVars, lineVars
<1> QED
  BY <1>2, <1>3, <1>4 DEF IInv

LEMMA Inductive == IInv /\ [Next]_vars => IInv'
<1> SUFFICES ASSUME IInv, [Next]_vars PROVE IInv'
  OBVIOUS
<1>1. CASE Next
  BY <1>1, PeerInv, IsClosedInv, PeekInv, ReadLineInv, ReadPartInv, SendInv DEF Next, IoThread
<1>2. CASE UNCHANGED vars
  BY <1>2 DEF vars, peerVars, lineVars, IInv, Types, AbortInv, LineInv, ReadnInv, TextInv, CutsInv,
              WritesInBounds, InReceive, Broken, Returned
<1> QED
  BY <1>1, <1>2

\* For every length of the buffer and every stream: what receive() has returned
\* are the bytes taken from the socket, a message ends at its first newline or
\* fills the buffer, and readline writes inside its array only.
THEOREM ReadlineSafe == Spec => [](StreamPreserved /\ MessagesAreLines /\ WritesInBounds)
<1>1. IInv => StreamPreserved /\ MessagesAreLines /\ WritesInBounds
  BY DEF IInv, TextInv, CutsInv, StreamPreserved, MessagesAreLines
<1> QED
  BY InitInv, Inductive, <1>1, PTL DEF Spec

\* What receive() returns ends at its first newline or fills the buffer.
COROLLARY MessagesEndAtNewlines == Spec => []MessagesAreLines
BY ReadlineSafe, PTL

\* The zero byte and the bytes of readline stay inside the array of receive().
COROLLARY ReadsStayInBuffer == Spec => []WritesInBounds
BY ReadlineSafe, PTL

----------------------------------------------------------------------------
\* The answers: while the peer is there, what send() has taken and what sendn
\* has still to send are together the messages handed to it.
OutInv ==
    /\ answered \in Nat /\ out \in Seq(Nat) /\ delivered \in Seq(Nat)
    /\ cuts \subseteq 1..Len(text)
    /\ answered <= Len(text) /\ Len(delivered) <= answered
    /\ \A i \in 1..Len(delivered) : delivered[i] = text[i]
    /\ ~rst =>
          /\ Len(delivered) + Len(out) = answered
          /\ pc # "send" => out = <<>>
          /\ \A i \in 1..Len(out) : out[i] = text[Len(delivered) + i]

\* A message is added behind the others and ends where the text now ends.
LEMMA MessageIsAdded ==
    ASSUME IInv, IInv', NEW n \in Nat, 0 < n, n <= MaxLen, ReturnMessage(n),
           cuts \subseteq 1..Len(text)
    PROVE  Len(text') >= Len(text) /\ cuts' \subseteq 1..Len(text')
<1>1. text' = text \o [i \in 1..n |-> buff'[i - 1]] /\ cuts' = cuts \cup {Len(text) + n}
  BY DEF ReturnMessage
<1>2. text \in Seq(Nat) /\ buff' \in [Cells -> Nat] /\ MaxLen \in Nat
  BY SocketAssumption DEF IInv, Types
<1>3. PICK b \in [Cells -> Nat] : b = buff'
  BY <1>2
<1>4. n <= MaxLen + 1
  BY <1>2
<1>5. text' = text \o [i \in 1..n |-> b[i - 1]]
  BY <1>1, <1>3
<1>6. Len(text \o [i \in 1..n |-> b[i - 1]]) = Len(text) + n
  BY ONLY <1>2, <1>4, MessageAppends
<1>7. PICK l \in Nat : l = Len(text)
  BY <1>2
<1>8. Len(text') = l + n
  BY <1>5, <1>6, <1>7
<1>9. 1..l \subseteq 1..(l + n) /\ l + n \in 1..(l + n) /\ l + n >= l
  OBVIOUS
<1>10. cuts' \subseteq 1..(l + n)
  BY <1>1, <1>7, <1>9
<1> QED
  BY <1>7, <1>8, <1>9, <1>10

\* The text only grows, and the messages end inside it.
LEMMA TextGrows ==
    ASSUME IInv, IInv', [Next]_vars, cuts \subseteq 1..Len(text)
    PROVE  /\ Len(text') >= Len(text) /\ cuts' \subseteq 1..Len(text')
           /\ \A i \in 1..Len(text) : text'[i] = text[i]
<1>1. Len(text') >= Len(text) /\ cuts' \subseteq 1..Len(text')
  <2>1. CASE UNCHANGED <<text, cuts>>
    <3>1. Len(text) \in Nat
      BY DEF IInv, Types
    <3> QED
      BY <2>1, <3>1
  <2>2. ASSUME ReadLine \/ ReadPart, ~UNCHANGED <<text, cuts>>
        PROVE  \E n \in Nat : 0 < n /\ n <= MaxLen /\ ReturnMessage(n)
    <3>1. CASE ReadLine
      <4>1. PICK n \in RecvResults(want) : n > 0 /\ Readn(n) /\ ReturnMessage(pos')
        BY <2>2, <3>1 DEF ReadLine
      <4>2. pc = "line" /\ arrived > consumed
        BY <3>1 DEF ReadLine, IInv, Types, ReadnInv
      <4>3. n \in 1..want
        BY <4>1, <4>2 DEF RecvResults
      <4>4. pos \in Int /\ left \in Int /\ pos >= 0 /\ pos + left = MaxLen - 1 /\ want <= left /\ want \in Nat
        BY <4>2 DEF IInv, Types, LineInv, ReadnInv, InReceive, Broken
      <4>5. PICK p \in Int : p = pos'
        BY DEF IInv, Types
      <4>6. p = pos + n
        BY <4>1, <4>5 DEF Readn
      <4>7. p \in Nat /\ 0 < p /\ p <= MaxLen
        BY <4>3, <4>4, <4>6, SocketAssumption
      <4> QED
        BY <4>1, <4>5, <4>7
    <3>2. CASE ReadPart
      <4>1. ReturnMessage(MaxLen - 1)
        BY <2>2, <3>2 DEF ReadPart
      <4> QED
        BY <4>1, SocketAssumption
    <3> QED
      BY <2>2, <3>1, <3>2
  <2>3. UNCHANGED <<text, cuts>> \/ ReadLine \/ ReadPart
    BY DEF Next, vars, Peer, IoThread, Done, Arrive, End, Abort, Read, IsClosed, ReadlinePeek, SendBegin,
           Sendn, SendFails
  <2> QED
    BY <2>1, <2>2, <2>3, MessageIsAdded
<1>2. ASSUME NEW i \in 1..Len(text) PROVE text'[i] = text[i]
  <2>1. PICK l \in Nat, m \in Nat, a \in Nat : l = Len(text) /\ m = Len(text') /\ a = arrived
    BY DEF IInv, Types
  <2>2. i \in 1..l /\ l <= m /\ l <= a
    BY <1>1, <2>1 DEF IInv, Types, TextInv
  <2>3. i \in 1..m
    BY <2>1, <2>2
  <2>4. text[i] = Returned(i) /\ text'[i] = Returned(i)'
    BY <2>1, <2>3 DEF IInv, TextInv
  <2>5. newlines' = newlines \/ newlines' = newlines \cup {arrived + 1}
    BY DEF Next, vars, Peer, IoThread, Done, Arrive, End, Abort, Read, IsClosed, ReadlinePeek, ReadLine,
           ReadPart, SendBegin, Sendn, SendFails, peerVars
  <2>6. i # arrived + 1
    BY <2>1, <2>2
  <2> QED
    BY <2>4, <2>5, <2>6 DEF Returned
<1> QED
  BY <1>1, <1>2

\* Steps outside send leave the answers alone.
LEMMA OutSame ==
    ASSUME IInv, IInv', OutInv, [Next]_vars, UNCHANGED <<answered, out, delivered>>,
           rst' = rst \/ rst' = TRUE, pc = "send" => pc' = "send" \/ rst'
    PROVE  OutInv'
<1>1. /\ Len(text') >= Len(text) /\ cuts' \subseteq 1..Len(text')
      /\ \A i \in 1..Len(text) : text'[i] = text[i]
  BY TextGrows DEF OutInv
<1>2. PICK l \in Nat, m \in Nat : l = Len(text) /\ m = Len(text')
  BY DEF IInv, Types
<1>3. PICK d \in Nat, o \in Nat : d = Len(delivered) /\ o = Len(out)
  BY DEF OutInv
<1>4. l <= m /\ answered \in Nat /\ answered <= l /\ answered <= m /\ d <= answered
  BY <1>1, <1>2, <1>3 DEF OutInv
<1>5. \A i \in 1..d : text'[i] = text[i]
  BY <1>1, <1>2, <1>4
<1>6. ASSUME ~rst, NEW i \in 1..o PROVE text'[d + i] = text[d + i]
  <2>1. d + o = answered
    BY <1>3, <1>6 DEF OutInv
  <2>2. d + i \in 1..l
    BY <1>4, <2>1
  <2> QED
    BY <1>1, <1>2, <2>2
<1>7. answered' = answered /\ out' = out /\ delivered' = delivered
  OBVIOUS
<1>8. answered' \in Nat /\ answered' <= Len(text') /\ Len(delivered') <= answered'
  BY <1>2, <1>3, <1>4, <1>7
<1>9. \A i \in 1..Len(delivered') : delivered'[i] = text'[i]
  BY <1>3, <1>5, <1>7 DEF OutInv
<1>10. ~rst' => /\ Len(delivered') + Len(out') = answered'
                /\ pc' # "send" => out' = <<>>
                /\ \A i \in 1..Len(out') : out'[i] = text'[Len(delivered') + i]
  BY <1>3, <1>6, <1>7 DEF OutInv
<1> QED
  BY <1>1, <1>7, <1>8, <1>9, <1>10 DEF OutInv

\* A piece of a sequence.
LEMMA Piece ==
    ASSUME NEW s \in Seq(Nat), NEW k \in Nat, NEW n \in Nat, k + n <= Len(s)
    PROVE  LET p == SubSeq(s, k + 1, k + n) IN
           /\ p \in Seq(Nat) /\ Len(p) = n
           /\ \A i \in 1..n : p[i] = s[k + i]
<1>1. /\ k + 1 \in Int /\ k + n \in Int /\ (k + n) - (k + 1) + 1 = n
      /\ \A i \in (k + 1)..(k + n) : i \in 1..Len(s)
  OBVIOUS
<1>2. \A i \in (k + 1)..(k + n) : s[i] \in Nat
  BY <1>1
<1>3. /\ SubSeq(s, k + 1, k + n) \in Seq(Nat)
      /\ Len(SubSeq(s, k + 1, k + n)) = IF k + 1 <= k + n THEN (k + n) - (k + 1) + 1 ELSE 0
      /\ \A i \in 1..((k + n) - (k + 1) + 1) : SubSeq(s, k + 1, k + n)[i] = s[(k + 1) + i - 1]
  BY <1>1, <1>2, SubSeqProperties
<1>4. \A i \in 1..n : (k + 1) + i - 1 = k + i
  OBVIOUS
<1> QED
  BY <1>1, <1>3, <1>4

LEMMA Appended ==
    ASSUME NEW s \in Seq(Nat), NEW u \in Seq(Nat)
    PROVE  /\ s \o u \in Seq(Nat) /\ Len(s \o u) = Len(s) + Len(u)
           /\ \A i \in 1..Len(s) : (s \o u)[i] = s[i]
           /\ \A i \in 1..Len(u) : (s \o u)[Len(s) + i] = u[i]
OBVIOUS

LEMMA OutNext == IInv /\ IInv' /\ OutInv /\ [Next]_vars => OutInv'
<1> SUFFICES ASSUME IInv, IInv', OutInv, [Next]_vars PROVE OutInv'
  OBVIOUS
<1>1. CASE \/ Peer \/ IsClosed \/ ReadlinePeek \/ ReadLine \/ ReadPart \/ UNCHANGED vars
  <2>1. UNCHANGED <<answered, out, delivered>>
    BY <1>1 DEF Peer, Arrive, End, Abort, Read, IsClosed, ReadlinePeek, ReadLine, ReadPart, vars, answerVars
  <2>2. rst' = rst \/ rst' = TRUE
    BY <1>1 DEF Peer, Arrive, End, Abort, Read, IsClosed, ReadlinePeek, ReadLine, ReadPart, vars, peerVars
  <2>3. pc = "send" => pc' = "send"
    BY <1>1 DEF Peer, Arrive, End, Abort, Read, IsClosed, ReadlinePeek, ReadLine, ReadPart, vars
  <2> QED
    BY <2>1, <2>2, <2>3, OutSame
<1>2. CASE SendBegin
  <2>1. PICK c \in cuts : c > answered /\ out' = SubSeq(text, answered + 1, c) /\ answered' = c
    BY <1>2 DEF SendBegin
  <2>2. /\ pc = "idle" /\ pc' = "send" /\ text' = text /\ cuts' = cuts /\ rst' = rst
        /\ delivered' = delivered
    BY <1>2 DEF SendBegin, peerVars
  <2>3. PICK l \in Nat, d \in Nat, a \in Nat : l = Len(text) /\ d = Len(delivered) /\ a = answered
    BY DEF IInv, Types, OutInv
  <2>4. c \in 1..l /\ c > a /\ d <= a /\ text \in Seq(Nat)
    BY <2>1, <2>3 DEF OutInv, IInv, Types
  <2>5. c - a \in Nat /\ a + 1 \in 1..(l + 1) /\ c <= l /\ d <= c /\ c - (a + 1) + 1 = c - a
        /\ a + (c - a) = c
    BY <2>4
  <2>6. /\ out' \in Seq(Nat) /\ Len(out') = c - a
        /\ \A i \in 1..(c - a) : out'[i] = text[a + i]
    <3>1. PICK n \in Nat : n = c - a
      BY <2>5
    <3>2. a + n = c
      BY <2>4, <3>1
    <3>3. out' = SubSeq(text, a + 1, a + n) /\ a + n <= Len(text)
      BY <2>1, <2>3, <2>4, <3>2
    <3> QED
      BY <2>4, <3>1, <3>3, Piece
  <2>7. ~rst => d = a
    <3>1. ~rst => out = <<>> /\ d + Len(out) = a
      BY <2>2, <2>3 DEF OutInv
    <3> QED
      BY <3>1
  <2>8. /\ answered' \in Nat /\ delivered' \in Seq(Nat) /\ cuts' \subseteq 1..Len(text')
        /\ answered' <= Len(text') /\ Len(delivered') <= answered'
        /\ \A i \in 1..Len(delivered') : delivered'[i] = text'[i]
    <3>1. answered' \in Nat /\ answered' <= Len(text') /\ Len(delivered') <= answered'
      BY <2>1, <2>2, <2>3, <2>4, <2>5
    <3> QED
      BY <2>2, <3>1 DEF OutInv
  <2>9. ~rst' => Len(delivered') + Len(out') = answered'
    BY <2>1, <2>2, <2>3, <2>5, <2>6, <2>7
  <2>10. ~rst' => \A i \in 1..Len(out') : out'[i] = text'[Len(delivered') + i]
    BY <2>2, <2>3, <2>6, <2>7
  <2> QED
    BY <2>2, <2>6, <2>8, <2>9, <2>10 DEF OutInv
<1>3. CASE Sendn
  <2>1. PICK n \in 1..Len(out) :
          /\ delivered' = delivered \o SubSeq(out, 1, n) /\ out' = SubSeq(out, n + 1, Len(out))
          /\ pc' = IF n = Len(out) THEN "idle" ELSE "send"
    BY <1>3 DEF Sendn
  <2>2. /\ pc = "send" /\ ~rst /\ text' = text /\ cuts' = cuts /\ rst' = rst /\ answered' = answered
    BY <1>3 DEF Sendn, peerVars
  <2>3. PICK l \in Nat, d \in Nat, o \in Nat, a \in Nat :
          l = Len(text) /\ d = Len(delivered) /\ o = Len(out) /\ a = answered
    BY DEF IInv, Types, OutInv
  <2>4. /\ n \in 1..o /\ d + o = a /\ a <= l
        /\ out \in Seq(Nat) /\ delivered \in Seq(Nat) /\ text \in Seq(Nat)
        /\ \A i \in 1..o : out[i] = text[d + i]
        /\ \A i \in 1..d : delivered[i] = text[i]
    BY <2>1, <2>2, <2>3 DEF OutInv, IInv, Types
  <2>5. d + n \in Nat /\ d + n <= a /\ o - n \in Nat /\ (d + n) + (o - n) = a /\ n <= o
        /\ n + 1 \in 1..(o + 1)
    BY <2>4
  <2>6. /\ delivered' \in Seq(Nat) /\ Len(delivered') = d + n
        /\ \A i \in 1..(d + n) : delivered'[i] = text[i]
    <3>1. SubSeq(out, 1, n) \in Seq(Nat) /\ Len(SubSeq(out, 1, n)) = n
          /\ \A i \in 1..n : SubSeq(out, 1, n)[i] = out[i]
      <4>1. 0 + 1 = 1 /\ 0 + n = n /\ n <= Len(out) /\ n \in Nat /\ \A i \in 1..n : 0 + i = i
        BY <2>3, <2>4
      <4>2. /\ SubSeq(out, 0 + 1, 0 + n) \in Seq(Nat) /\ Len(SubSeq(out, 0 + 1, 0 + n)) = n
            /\ \A i \in 1..n : SubSeq(out, 0 + 1, 0 + n)[i] = out[0 + i]
        BY <2>4, <4>1, Piece
      <4> QED
        BY <4>1, <4>2
    <3>2. /\ delivered' \in Seq(Nat) /\ Len(delivered') = d + n
          /\ \A i \in 1..d : delivered'[i] = delivered[i]
          /\ \A i \in 1..n : delivered'[d + i] = out[i]
      <4>1. PICK u \in Seq(Nat) :
              u = SubSeq(out, 1, n) /\ Len(u) = n /\ \A i \in 1..n : u[i] = out[i]
        BY <3>1
      <4>2. /\ delivered \o u \in Seq(Nat) /\ Len(delivered \o u) = d + n
            /\ \A i \in 1..d : (delivered \o u)[i] = delivered[i]
            /\ \A i \in 1..n : (delivered \o u)[d + i] = u[i]
        <5>1. delivered \in Seq(Nat) /\ u \in Seq(Nat) /\ Len(delivered) = d
          BY ONLY <2>3, <2>4, <4>1
        <5>2. /\ delivered \o u \in Seq(Nat) /\ Len(delivered \o u) = Len(delivered) + Len(u)
              /\ \A i \in 1..Len(delivered) : (delivered \o u)[i] = delivered[i]
              /\ \A i \in 1..Len(u) : (delivered \o u)[Len(delivered) + i] = u[i]
          BY ONLY <5>1, Appended
        <5> QED
          BY ONLY <4>1, <5>1, <5>2
      <4> QED
        BY <2>1, <4>1, <4>2
    <3>3. ASSUME NEW i \in 1..(d + n) PROVE delivered'[i] = text[i]
      <4>1. CASE i \in 1..d
        BY <2>4, <3>2, <4>1
      <4>2. CASE i \notin 1..d
        <5>1. PICK j \in 1..n : i = d + j
          <6>1. i - d \in 1..n /\ i = d + (i - d)
            BY <4>2
          <6> QED
            BY <6>1
        <5>2. j \in 1..o
          BY <2>4
        <5> QED
          BY <2>4, <3>2, <5>1, <5>2
      <4> QED
        BY <4>1, <4>2
    <3> QED
      BY <3>2, <3>3
  <2>7. /\ out' \in Seq(Nat) /\ Len(out') = o - n
        /\ \A i \in 1..(o - n) : out'[i] = text[(d + n) + i]
    <3>1. /\ SubSeq(out, n + 1, o) \in Seq(Nat) /\ Len(SubSeq(out, n + 1, o)) = o - n
          /\ \A i \in 1..(o - n) : SubSeq(out, n + 1, o)[i] = out[n + i]
      <4>1. n \in Nat /\ o - n \in Nat /\ n + (o - n) = o /\ n + (o - n) <= Len(out)
        BY <2>3, <2>4
      <4> QED
        BY <2>4, <4>1, Piece
    <3>2. ASSUME NEW i \in 1..(o - n) PROVE out[n + i] = text[(d + n) + i]
      <4>1. n + i \in 1..o /\ d + (n + i) = (d + n) + i
        BY <2>4
      <4> QED
        BY <2>4, <4>1
    <3> QED
      BY <2>1, <2>3, <3>1, <3>2
  <2>8. pc' # "send" => out' = <<>>
    <3>1. pc' # "send" => o - n = 0
      BY <2>1, <2>3, <2>4
    <3> QED
      BY <2>7, <3>1
  <2> QED
    BY <2>2, <2>3, <2>4, <2>5, <2>6, <2>7, <2>8 DEF OutInv
<1>4. CASE SendFails
  BY <1>4 DEF SendFails, OutInv, peerVars
<1> QED
  BY <1>1, <1>2, <1>3, <1>4 DEF Next, IoThread, Done

\* What send() takes are the messages in order, byte for byte, over short writes
\* of any length; an abort cuts them off for good.
THEOREM AnswersAreInOrder == Spec => []AnswersInOrder
<1>1. Init => OutInv
  BY DEF Init, OutInv
<1>2. IInv /\ OutInv => AnswersInOrder
  <2> SUFFICES ASSUME IInv, OutInv PROVE AnswersInOrder
    OBVIOUS
  <2>1. PICK l \in Nat, d \in Nat : l = Len(text) /\ d = Len(delivered)
    BY DEF IInv, Types, OutInv
  <2>2. d <= l /\ delivered \in Seq(Nat) /\ text \in Seq(Nat)
        /\ \A i \in 1..d : delivered[i] = text[i]
    BY <2>1 DEF IInv, Types, OutInv
  <2>3. SubSeq(text, 1, d) \in Seq(Nat) /\ Len(SubSeq(text, 1, d)) = d
        /\ \A i \in 1..d : SubSeq(text, 1, d)[i] = text[i]
    BY <2>1, <2>2
  <2>4. delivered = SubSeq(text, 1, d)
    BY <2>1, <2>2, <2>3, SeqEqual
  <2> QED
    BY <2>1, <2>2, <2>4 DEF AnswersInOrder
<1> QED
  BY InitInv, Inductive, OutNext, <1>1, <1>2, PTL DEF Spec
----------------------------------------------------------------------------
\* The contract: peeking, removing in pieces and short writes do not show.

\* readline returns all it has taken, and only at a newline or with a full array.
LEMMA MessageIsTaken ==
    ASSUME IInv, ReadLine \/ ReadPart, ~UNCHANGED <<text, cuts>>
    PROVE  \E n \in 1..(MaxLen - 1) :
              ReturnMessage(n) /\ (Len(text) + n \in newlines \/ n = MaxLen - 1)
<1> USE SocketAssumption
<1>1. CASE ReadLine
  <2>1. PICK n \in Int :
          /\ n \in RecvResults(want) /\ n > 0 /\ Readn(n)
          /\ ~(n < want) /\ ReturnMessage(pos')
    BY <1>1 DEF ReadLine, RecvResults, IInv, Types
  <2>2. pc = "line"
    BY <1>1 DEF ReadLine
  <2>3. /\ n <= want /\ pos' \in Int /\ left' \in Int
        /\ pos' > 0 /\ left' >= 0 /\ pos' + left' = MaxLen - 1
        /\ Len(text) + pos' = consumed'
    BY <2>1, <2>2, ReadnStores
  <2>4. PICK p \in Int, l \in Int : p = pos' /\ l = left'
    BY <2>3
  <2>5. p \in 1..(MaxLen - 1)
    <3>1. p > 0 /\ l >= 0 /\ p + l = MaxLen - 1
      BY ONLY <2>3, <2>4
    <3> QED
      BY <3>1
  <2>6. Len(text) + p \in newlines
    <3>1. consumed + want \in newlines
      BY <2>2 DEF IInv, ReadnInv
    <3>2. n = want
      BY <2>1, <2>3 DEF IInv, Types
    <3>3. consumed' = consumed + n
      BY <2>1 DEF Readn
    <3> QED
      BY ONLY <2>3, <2>4, <3>1, <3>2, <3>3
  <2>7. ReturnMessage(p)
    BY <2>1, <2>4
  <2> QED
    BY <2>5, <2>6, <2>7
<1>2. CASE ReadPart
  <2>1. ReturnMessage(MaxLen - 1)
    BY <1>2 DEF ReadPart
  <2> QED
    BY <2>1
<1> QED
  BY <1>1, <1>2

\* A message that is returned is the next piece of the stream.
LEMMA TakeRefines ==
    ASSUME IInv, IInv', OutInv, UNCHANGED <<peerVars, answerVars>>,
           NEW n \in 1..(MaxLen - 1), ReturnMessage(n),
           Len(text) + n \in newlines \/ n = MaxLen - 1
    PROVE  Contract!Take(n)
<1> USE SocketAssumption
<1>1. PICK t \in Nat, a \in Nat, c \in Nat, b \in [Cells -> Nat] :
        t = Len(text) /\ a = arrived /\ c = consumed' /\ b = buff'
  BY DEF IInv, Types
<1>2. text' = text \o [i \in 1..n |-> b[i - 1]] /\ cuts' = cuts \cup {t + n}
  BY <1>1 DEF ReturnMessage
<1>3. /\ Len(text') = t + n
      /\ \A i \in 1..n : text'[t + i] = b[i - 1]
  <2>1. text \in Seq(Nat) /\ n \in Nat /\ n <= MaxLen + 1 /\ MaxLen \in Nat
    BY DEF IInv, Types
  <2>2. LET m == [i \in 1..n |-> b[i - 1]] IN
        /\ Len(text \o m) = Len(text) + n
        /\ \A i \in 1..n : (text \o m)[Len(text) + i] = b[i - 1]
    BY ONLY <2>1, MessageAppends, b \in [Cells -> Nat]
  <2> QED
    BY <1>1, <1>2, <2>2
<1>4. t + n <= a
  <2>1. Len(text') <= consumed' /\ consumed' <= arrived'
    BY DEF IInv, TextInv, Types
  <2>2. arrived' = arrived
    BY DEF peerVars
  <2> QED
    BY <1>1, <1>3, <2>1, <2>2
<1>5. newlines' = newlines
  BY DEF peerVars
<1>6. ASSUME NEW i \in 1..n
      PROVE  b[i - 1] = IF t + i \in newlines THEN NUL ELSE t + i
  <2>1. t + i \in 1..Len(text')
    BY <1>3
  <2>2. text'[t + i] = IF t + i \in newlines' THEN NUL ELSE t + i
    BY <2>1 DEF IInv, TextInv, Returned
  <2> QED
    BY <1>3, <1>5, <2>2
<1>7. ASSUME NEW i \in 1..(n - 1) PROVE t + i \notin newlines
  <2>1. t + i \in 1..Len(text')
    BY <1>3
  <2>2. t + i \in newlines => t + i \in cuts'
    BY <1>5, <2>1 DEF IInv, CutsInv
  <2>3. t + i \notin 1..t /\ t + i # t + n
    OBVIOUS
  <2>4. cuts \subseteq 1..t
    BY <1>1 DEF OutInv
  <2> QED
    BY <1>2, <2>2, <2>3, <2>4
<1>8. [i \in 1..n |-> b[i - 1]] = [i \in 1..n |-> IF t + i \in newlines THEN NUL ELSE t + i]
  BY <1>6
<1>9. text' = text \o [i \in 1..n |-> IF t + i \in newlines THEN NUL ELSE t + i]
  BY <1>2, <1>8
<1>10. UNCHANGED <<arrived, newlines, fin, rst, delivered>>
  BY DEF peerVars, answerVars
<1> QED
  BY <1>1, <1>2, <1>4, <1>7, <1>9, <1>10 DEF Contract!Take

\* A write extends what has been sent back along the text.
LEMMA SendRefines ==
    ASSUME IInv, OutInv, OutInv', IInv', Sendn
    PROVE  \E n \in (Len(delivered) + 1)..Len(text) : Contract!Send(n)
<1>1. PICK k \in 1..Len(out) : delivered' = delivered \o SubSeq(out, 1, k)
  BY DEF Sendn
<1>2. ~rst /\ UNCHANGED <<arrived, newlines, fin, rst, text, cuts, answered>>
  BY DEF Sendn, peerVars
<1>3. PICK l \in Nat, d \in Nat, e \in Nat, a \in Nat, o \in Nat :
        /\ l = Len(text) /\ d = Len(delivered) /\ e = Len(delivered') /\ a = answered
        /\ o = Len(out)
  <2>1. Len(text) \in Nat
    BY DEF IInv, Types
  <2>2. Len(delivered) \in Nat /\ Len(out) \in Nat /\ answered \in Nat
    BY DEF OutInv
  <2>3. Len(delivered') \in Nat
    BY DEF OutInv
  <2> QED
    BY ONLY <2>1, <2>2, <2>3
<1>4. e = d + k
  <2>1. 0 + 1 = 1 /\ 0 + k = k /\ k <= Len(out) /\ k \in Nat /\ out \in Seq(Nat)
    BY <1>3 DEF OutInv
  <2>2. SubSeq(out, 1, k) \in Seq(Nat) /\ Len(SubSeq(out, 1, k)) = k
    <3>1. SubSeq(out, 0 + 1, 0 + k) \in Seq(Nat) /\ Len(SubSeq(out, 0 + 1, 0 + k)) = k
      BY <2>1, Piece
    <3> QED
      BY ONLY <2>1, <3>1
  <2>3. Len(delivered \o SubSeq(out, 1, k)) = Len(delivered) + Len(SubSeq(out, 1, k))
    BY <2>2, Appended DEF OutInv
  <2> QED
    BY <1>1, <1>3, <2>2, <2>3
<1>5. e <= l
  <2>1. Len(delivered') <= answered' /\ answered <= Len(text)
    BY DEF OutInv
  <2>2. e <= a /\ a <= l
    BY <1>2, <1>3, <2>1
  <2> QED
    BY <2>2
<1>6. delivered' = SubSeq(text, 1, e)
  <2>1. delivered' \in Seq(Nat) /\ text \in Seq(Nat) /\ \A i \in 1..e : delivered'[i] = text[i]
    BY <1>2, <1>3 DEF IInv, Types, OutInv
  <2>2. /\ SubSeq(text, 1, e) \in Seq(Nat) /\ Len(SubSeq(text, 1, e)) = e
        /\ \A i \in 1..e : SubSeq(text, 1, e)[i] = text[i]
    BY <1>3, <1>5, <2>1
  <2> QED
    BY <1>3, <2>1, <2>2, SeqEqual
<1>7. e \in (d + 1)..l
  <2>1. k \in 1..o
    BY <1>3
  <2> QED
    BY <1>4, <1>5, <2>1
<1>8. Contract!Send(e)
  BY <1>2, <1>6 DEF Contract!Send
<1> QED
  BY <1>3, <1>7, <1>8

LEMMA LineStepRefines ==
    ASSUME IInv, IInv', OutInv, OutInv', [Next]_vars
    PROVE  [Contract!Next]_Contract!vars
<1>1. CASE Arrive
  BY <1>1 DEF Arrive, Contract!Next, Contract!Arrive, answerVars
<1>2. CASE End
  BY <1>2 DEF End, Contract!Next, Contract!End, answerVars
<1>3. CASE Abort
  BY <1>3 DEF Abort, Contract!Next, Contract!Abort, answerVars
<1>4. CASE (ReadLine \/ ReadPart) /\ ~UNCHANGED <<text, cuts>>
  <2>1. PICK n \in 1..(MaxLen - 1) :
          ReturnMessage(n) /\ (Len(text) + n \in newlines \/ n = MaxLen - 1)
    BY <1>4, MessageIsTaken
  <2>2. UNCHANGED <<peerVars, answerVars>>
    BY <1>4 DEF ReadLine, ReadPart
  <2>3. Contract!Take(n)
    BY <2>1, <2>2, TakeRefines
  <2> QED
    BY <2>3 DEF Contract!Next
<1>5. CASE Sendn
  BY <1>5, SendRefines DEF Contract!Next
<1>6. CASE \/ Read \/ IsClosed \/ ReadlinePeek \/ SendBegin \/ SendFails \/ UNCHANGED vars
           \/ (ReadLine \/ ReadPart) /\ UNCHANGED <<text, cuts>>
  BY <1>6 DEF Read, IsClosed, ReadlinePeek, SendBegin, SendFails, ReadLine, ReadPart, vars, peerVars,
              answerVars, Contract!vars
<1> QED
  BY <1>1, <1>2, <1>3, <1>4, <1>5, <1>6 DEF Next, Peer, IoThread, Done

\* For every length of the buffer and every stream SocketIO is a line stream: each
\* message is the next line, or the next full array of a longer one, taken in one
\* step; the answers go out in the order of the messages; nothing is sent after an
\* abort.
THEOREM SocketIsLineStream == Spec => ImplementsLineStream
<1>1. Init => OutInv /\ Contract!Init
  BY DEF Init, OutInv, Contract!Init
<1> QED
  BY InitInv, Inductive, OutNext, LineStepRefines, <1>1, PTL DEF Spec, ImplementsLineStream, Contract!Spec
=============================================================================
