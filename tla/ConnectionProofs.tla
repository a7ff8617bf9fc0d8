-------------------------- MODULE ConnectionProofs --------------------------
(***************************************************************************)
(* Proofs about Connection: its types, that messages leave in the order of  *)
(* their Sends, that no socket is leaked, and when a connection holds one.  *)
(* The proofs are about Spec, and so hold of FairSpec.                      *)
(***************************************************************************)
EXTENDS Connection, SequenceTheorems, TLAPS

\* What LoopTick has seen stays true until Install: there is no socket, there
\* are attempts left, and Close did not come before, or has been noted.
Reconnecting ==
    /\ lpc \in {"dial", "install"} => conn = None
    /\ lpc = "dial" => fails < MaxAttempts
    /\ done /\ ~crossed => lpc \notin {"dial", "install"}

Inv == TypeOK /\ Reconnecting

LEMMA InvInit == Init => Inv
<1>. SUFFICES ASSUME Init PROVE Inv
  OBVIOUS
<1>1. conn \in Sockets
  BY ConnectionAssumption DEF Init
<1>2. None \notin Sockets \cup Nat /\ MaxAttempts \in Nat /\ MaxSends \in Nat /\ MaxFaults \in Nat
      /\ MaxStale \in Nat /\ WriterBuffer \in Nat
  BY ConnectionAssumption
<1>3. /\ role \in {"peer", "accepted"} /\ lpc \in {"wait", "end"}
      /\ sock \in [Sockets -> {"up", "broken", "closed"}]
  BY DEF Init
<1>4. queue \in Seq(Nat) /\ Len(queue) = 0 /\ written \in Seq(Nat)
  <2>1. queue = <<>> /\ written = <<>>
    BY DEF Init
  <2>2. QED
    BY <2>1
<1>5. Reconnecting
  <2>1. lpc \notin {"dial", "install"}
    BY <1>3
  <2>2. QED
    BY <2>1 DEF Reconnecting
<1>6. TypeOK
  <2>1. done = FALSE /\ crossed = FALSE /\ remoteUp = TRUE /\ cpc = "open"
    BY DEF Init
  <2>2. done \in BOOLEAN /\ crossed \in BOOLEAN /\ remoteUp \in BOOLEAN /\ (done <=> cpc # "open")
    BY <2>1
  <2>3. /\ calls \in 0 .. MaxSends /\ blocked \in Nat /\ accepted \in Nat /\ blocked + accepted <= calls
        /\ fails \in 0 .. MaxAttempts /\ stale \in 0 .. MaxStale /\ faults \in 0 .. MaxFaults
    <3>1. /\ calls = 0 /\ blocked = 0 /\ accepted = 0
          /\ fails = 0 /\ stale = 0 /\ faults = 0
      BY DEF Init
    <3>2. QED
      BY <1>2, <3>1
  <2>4. /\ pending = None /\ wpc = "top" /\ wsock = None /\ rpc = "top" /\ rsock = None
        /\ dialled = None
    BY DEF Init
  <2>5. QED
    BY <1>1, <1>2, <1>3, <1>4, <2>1, <2>2, <2>3, <2>4 DEF TypeOK
<1>7. QED
  BY <1>5, <1>6 DEF Inv

LEMMA DropConnType ==
    ASSUME Inv, DropConn
    PROVE  sock' \in [Sockets -> {"up", "broken", "closed"}] /\ conn' = None
BY DEF Inv, TypeOK, DropConn

LEMMA InvSend == Inv /\ (CallSend \/ Enqueue \/ SendClosed) => Inv'
<1>. SUFFICES ASSUME Inv, CallSend \/ Enqueue \/ SendClosed PROVE Inv'
  OBVIOUS
<1>. USE ConnectionAssumption DEF writerVars, readerVars, loopVars, closeVars, sendVars, faultVars
<1>1. CASE CallSend
  BY <1>1 DEF CallSend, Inv, TypeOK, Reconnecting
<1>2. CASE Enqueue
  <2>1. accepted' \in Nat /\ queue' = Append(queue, accepted') /\ queue \in Seq(Nat)
    BY <1>2 DEF Enqueue, Inv, TypeOK
  <2>2. queue' \in Seq(Nat) /\ Len(queue') = Len(queue) + 1
    BY <2>1
  <2>3. Len(queue') <= WriterBuffer
    BY <1>2, <2>1, <2>2 DEF Enqueue
  <2>4. blocked' \in Nat /\ blocked' + accepted' = blocked + accepted
    BY <1>2 DEF Enqueue, Inv, TypeOK
  <2>5. QED
    BY <1>2, <2>1, <2>2, <2>3, <2>4 DEF Enqueue, Inv, TypeOK, Reconnecting
<1>3. CASE SendClosed
  BY <1>3 DEF SendClosed, Inv, TypeOK, Reconnecting
<1>4. QED
  BY <1>1, <1>2, <1>3

LEMMA InvWriter == Inv /\ WriterLoop => Inv'
<1>. SUFFICES ASSUME Inv, WriterLoop PROVE Inv'
  OBVIOUS
<1>. USE ConnectionAssumption DEF writerVars, readerVars, loopVars, closeVars, sendVars, faultVars
<1>1. CASE WriterTop
  BY <1>1 DEF WriterTop, Inv, TypeOK, Reconnecting
<1>2. CASE WriterTake
  <2>1. CASE wpc' = "end" /\ UNCHANGED <<queue, pending>>
    BY <1>2, <2>1 DEF WriterTake, Inv, TypeOK, Reconnecting
  <2>2. CASE queue # <<>> /\ pending' = Head(queue) /\ queue' = Tail(queue) /\ wpc' = "get"
    <3>1. queue \in Seq(Nat) /\ Len(queue) <= WriterBuffer
      BY DEF Inv, TypeOK
    <3>2. pending' \in Nat /\ queue' \in Seq(Nat) /\ Len(queue') <= WriterBuffer
      BY <2>2, <3>1
    <3>3. QED
      BY <1>2, <2>2, <3>2 DEF WriterTake, Inv, TypeOK, Reconnecting
  <2>3. QED
    BY <1>2, <2>1, <2>2 DEF WriterTake
<1>3. CASE WriterGet
  BY <1>3 DEF WriterGet, Inv, TypeOK, Reconnecting
<1>4. CASE WriterFlushes
  <2>1. written' \in Seq(Nat)
    BY <1>4 DEF WriterFlushes, Inv, TypeOK
  <2>2. QED
    BY <1>4, <2>1 DEF WriterFlushes, Inv, TypeOK, Reconnecting
<1>5. CASE WriterFails
  BY <1>5, DropConnType DEF WriterFails, Inv, TypeOK, Reconnecting
<1>6. QED
  BY <1>1, <1>2, <1>3, <1>4, <1>5 DEF WriterLoop

LEMMA InvReader == Inv /\ ReaderLoop => Inv'
<1>. SUFFICES ASSUME Inv, ReaderLoop PROVE Inv'
  OBVIOUS
<1>. USE ConnectionAssumption DEF writerVars, readerVars, loopVars, closeVars, sendVars, faultVars
<1>1. CASE ReaderTop
  BY <1>1 DEF ReaderTop, Inv, TypeOK, Reconnecting
<1>2. CASE ReaderGet
  BY <1>2 DEF ReaderGet, Inv, TypeOK, Reconnecting
<1>3. CASE ReaderLine
  BY <1>3 DEF ReaderLine, Inv, TypeOK, Reconnecting
<1>4. CASE ReaderFails
  BY <1>4 DEF ReaderFails, Inv, TypeOK, Reconnecting
<1>5. CASE ReaderDrops
  BY <1>5, DropConnType DEF ReaderDrops, Inv, TypeOK, Reconnecting
<1>6. QED
  BY <1>1, <1>2, <1>3, <1>4, <1>5 DEF ReaderLoop

LEMMA InvReconnect == Inv /\ ReconnectLoop => Inv'
<1>. SUFFICES ASSUME Inv, ReconnectLoop PROVE Inv'
  OBVIOUS
<1>. USE ConnectionAssumption DEF writerVars, readerVars, loopVars, closeVars, sendVars, faultVars
<1>1. CASE LoopEnds
  BY <1>1 DEF LoopEnds, Inv, TypeOK, Reconnecting
<1>2. CASE LoopTick
  BY <1>2 DEF LoopTick, Inv, TypeOK, Reconnecting
<1>3. CASE Dial
  <2>1. NewSocket \in Sockets
    BY <1>3 DEF Dial, NewSocket
  <2>2. QED
    BY <1>3, <2>1 DEF Dial, Inv, TypeOK, Reconnecting
<1>4. CASE DialFails
  BY <1>4 DEF DialFails, Inv, TypeOK, Reconnecting
<1>5. CASE Install
  <2>1. /\ sock \in [Sockets -> {"up", "broken", "closed"}] /\ dialled \in Sockets /\ conn = None
        /\ stale \in 0 .. MaxStale /\ MaxStale \in Nat /\ MaxAttempts \in Nat
    BY <1>5 DEF Install, Inv, TypeOK, Reconnecting
  <2>2. /\ conn' = dialled /\ sock' = sock /\ fails' = 0 /\ dialled' = None /\ lpc' = "wait"
        /\ UNCHANGED <<queue, writerVars, readerVars, closeVars, sendVars, faultVars>>
    BY <1>5, <2>1 DEF Install
  <2>3. stale' \in 0 .. MaxStale
    <3>1. stale' = stale + 1 \/ stale' = stale
      BY <1>5 DEF Install
    <3>2. stale' <= MaxStale
      BY <1>5 DEF Install
    <3>3. QED
      BY <2>1, <3>1, <3>2
  <2>4. QED
    BY <2>1, <2>2, <2>3 DEF Inv, TypeOK, Reconnecting
<1>6. QED
  BY <1>1, <1>2, <1>3, <1>4, <1>5 DEF ReconnectLoop

LEMMA InvClose == Inv /\ (Close \/ CloseDrops) => Inv'
<1>. SUFFICES ASSUME Inv, Close \/ CloseDrops PROVE Inv'
  OBVIOUS
<1>. USE ConnectionAssumption DEF writerVars, readerVars, loopVars, closeVars, sendVars, faultVars
<1>1. CASE Close
  <2>1. /\ done' = TRUE /\ cpc' = "closing" /\ crossed' = (lpc \in {"dial", "install"})
        /\ UNCHANGED <<role, conn, sock, queue, writerVars, readerVars, loopVars, sendVars, faultVars>>
    BY <1>1 DEF Close
  <2>2. done' \in BOOLEAN /\ crossed' \in BOOLEAN /\ (done' <=> cpc' # "open")
    BY <2>1
  <2>3. Reconnecting'
    BY <2>1 DEF Inv, Reconnecting
  <2>4. TypeOK'
    BY <2>1, <2>2 DEF Inv, TypeOK
  <2>5. QED
    BY <2>3, <2>4 DEF Inv
<1>2. CASE CloseDrops
  BY <1>2, DropConnType DEF CloseDrops, Inv, TypeOK, Reconnecting
<1>3. QED
  BY <1>1, <1>2

LEMMA InvFault == Inv /\ ((\E s \in Sockets : Break(s)) \/ RemoteStops \/ RemoteStarts) => Inv'
<1>. SUFFICES ASSUME Inv, (\E s \in Sockets : Break(s)) \/ RemoteStops \/ RemoteStarts PROVE Inv'
  OBVIOUS
<1>. USE ConnectionAssumption DEF writerVars, readerVars, loopVars, closeVars, sendVars, faultVars
<1>1. ASSUME NEW s \in Sockets, Break(s) PROVE Inv'
  BY <1>1 DEF Break, Inv, TypeOK, Reconnecting
<1>2. CASE RemoteStops
  <2>1. sock' \in [Sockets -> {"up", "broken", "closed"}]
    BY <1>2 DEF RemoteStops, Inv, TypeOK
  <2>2. /\ remoteUp' = FALSE /\ faults < MaxFaults /\ faults' = faults + 1
        /\ UNCHANGED <<conn, queue, writerVars, readerVars, loopVars, closeVars, sendVars>>
    BY <1>2 DEF RemoteStops
  <2>3. remoteUp' \in BOOLEAN /\ faults' \in 0 .. MaxFaults
    <3>1. faults \in 0 .. MaxFaults /\ MaxFaults \in Nat
      BY DEF Inv, TypeOK
    <3>2. remoteUp' \in BOOLEAN
      BY <2>2
    <3>3. faults' \in 0 .. MaxFaults
      BY <2>2, <3>1
    <3>4. QED
      BY <3>2, <3>3
  <2>4. TypeOK'
    BY <2>1, <2>2, <2>3 DEF Inv, TypeOK
  <2>5. Reconnecting'
    BY <2>2 DEF Inv, Reconnecting
  <2>6. QED
    BY <2>4, <2>5 DEF Inv
<1>3. CASE RemoteStarts
  BY <1>3 DEF RemoteStarts, Inv, TypeOK, Reconnecting
<1>4. QED
  BY <1>1, <1>2, <1>3

LEMMA InvNext == Inv /\ [Next]_vars => Inv'
<1>1. Inv /\ UNCHANGED vars => Inv'
  BY DEF vars, writerVars, readerVars, loopVars, closeVars, sendVars, faultVars, Inv, TypeOK, Reconnecting
<1>2. QED
  BY <1>1, InvSend, InvWriter, InvReader, InvReconnect, InvClose, InvFault DEF Next

\* TypeOK for every number of sockets, senders, attempts and faults.
THEOREM TypeCorrect == Spec => []TypeOK
<1>1. Inv => TypeOK
  BY DEF Inv
<1>2. QED
  BY <1>1, InvInit, InvNext, PTL DEF Spec

----------------------------------------------------------------------------
(* Sockets. *)

LEMMA LeaksNext == Inv /\ NoSocketLeaks /\ [Next]_vars => NoSocketLeaks'
<1>. SUFFICES ASSUME Inv, NoSocketLeaks, [Next]_vars PROVE NoSocketLeaks'
  OBVIOUS
<1>. USE ConnectionAssumption DEF writerVars, readerVars, loopVars, closeVars, sendVars, faultVars
<1>t. /\ sock \in [Sockets -> {"up", "broken", "closed"}] /\ conn \in Sockets \cup {None}
      /\ lpc = "install" <=> dialled # None
  BY DEF Inv, TypeOK
\* Steps that close sockets and install none.
<1>c. ASSUME UNCHANGED dialled, DropConn PROVE NoSocketLeaks'
  BY <1>c, <1>t DEF DropConn, NoSocketLeaks
<1>u. ASSUME UNCHANGED <<dialled, conn, sock>> PROVE NoSocketLeaks'
  BY <1>u DEF NoSocketLeaks
<1>1. CASE CallSend \/ Enqueue \/ SendClosed
  BY <1>1, <1>u DEF CallSend, Enqueue, SendClosed
<1>2. CASE WriterLoop
  <2>1. CASE WriterFails
    BY <2>1, <1>c DEF WriterFails
  <2>2. CASE WriterTop \/ WriterTake \/ WriterGet \/ WriterFlushes
    BY <2>2, <1>u DEF WriterTop, WriterTake, WriterGet, WriterFlushes
  <2>3. QED
    BY <1>2, <2>1, <2>2 DEF WriterLoop
<1>3. CASE ReaderLoop
  <2>1. CASE ReaderDrops
    BY <2>1, <1>c DEF ReaderDrops
  <2>2. CASE ReaderTop \/ ReaderGet \/ ReaderLine \/ ReaderFails
    BY <2>2, <1>u DEF ReaderTop, ReaderGet, ReaderLine, ReaderFails
  <2>3. QED
    BY <1>3, <2>1, <2>2 DEF ReaderLoop
<1>4. CASE ReconnectLoop
  <2>1. CASE LoopEnds \/ LoopTick \/ DialFails
    BY <2>1, <1>u DEF LoopEnds, LoopTick, DialFails
  <2>2. CASE Dial
    <3>1. dialled = None /\ UNCHANGED conn
      BY <2>2, <1>t DEF Dial
    <3>2. sock' = [sock EXCEPT ![NewSocket] = "up"] /\ dialled' = NewSocket
      BY <2>2 DEF Dial
    <3>3. None \notin Sockets
      BY ConnectionAssumption
    <3>4. QED
      BY <3>1, <3>2, <3>3, <1>t DEF NoSocketLeaks
  <2>3. CASE Install
    <3>1. conn = None
      BY <2>3 DEF Install, Inv, Reconnecting
    <3>2. conn' = dialled /\ UNCHANGED sock
      BY <2>3, <3>1 DEF Install
    <3>3. None \notin Sockets
      BY ConnectionAssumption
    <3>4. QED
      BY <3>1, <3>2, <3>3 DEF NoSocketLeaks
  <2>4. QED
    BY <1>4, <2>1, <2>2, <2>3 DEF ReconnectLoop
<1>5. CASE Close
  BY <1>5, <1>u DEF Close
<1>6. CASE CloseDrops
  BY <1>6, <1>c DEF CloseDrops
<1>7. ASSUME NEW s \in Sockets, Break(s) PROVE NoSocketLeaks'
  BY <1>7, <1>t DEF Break, NoSocketLeaks
<1>8. CASE RemoteStops
  BY <1>8, <1>t DEF RemoteStops, NoSocketLeaks
<1>9. CASE RemoteStarts
  BY <1>9, <1>u DEF RemoteStarts
<1>10. CASE UNCHANGED vars
  BY <1>10, <1>u DEF vars
<1>11. QED
  BY <1>1, <1>2, <1>3, <1>4, <1>5, <1>6, <1>7, <1>8, <1>9, <1>10 DEF Next

\* NoSocketLeaks: whatever breaks, and however often it reconnects, a
\* connection has one socket open, or a second one in Reconnect.
THEOREM LeaksNoSocket == Spec => []NoSocketLeaks
<1>1. Init => NoSocketLeaks
  BY Zenon DEF Init, NoSocketLeaks
<1>2. QED
  BY <1>1, InvInit, InvNext, LeaksNext, PTL DEF Spec

\* The socket of a closed connection.
ClosedInv == ClosedHoldsNone /\ (cpc = "closed" => done)

LEMMA ClosedNext == Inv /\ ClosedInv /\ [Next]_vars => ClosedInv'
<1>. SUFFICES ASSUME Inv, ClosedInv, [Next]_vars PROVE ClosedInv'
  OBVIOUS
<1>. USE DEF writerVars, readerVars, loopVars, closeVars, sendVars, faultVars
<1>u. ASSUME UNCHANGED closeVars, conn' = conn \/ conn' = None PROVE ClosedInv'
  BY <1>u DEF ClosedInv, ClosedHoldsNone
<1>1. CASE CallSend \/ Enqueue \/ SendClosed
  BY <1>1, <1>u DEF CallSend, Enqueue, SendClosed
<1>2. CASE WriterLoop
  BY <1>2, <1>u DEF WriterLoop, WriterTop, WriterTake, WriterGet, WriterFlushes, WriterFails, DropConn
<1>3. CASE ReaderLoop
  BY <1>3, <1>u DEF ReaderLoop, ReaderTop, ReaderGet, ReaderLine, ReaderFails, ReaderDrops, DropConn
<1>4. CASE LoopEnds \/ LoopTick \/ Dial \/ DialFails
  BY <1>4, <1>u DEF LoopEnds, LoopTick, Dial, DialFails
<1>5. CASE Install
  <2>1. UNCHANGED closeVars /\ lpc = "install"
    BY <1>5 DEF Install
  <2>2. done => crossed
    BY <2>1 DEF Inv, Reconnecting
  <2>3. QED
    BY <2>1, <2>2 DEF ClosedInv, ClosedHoldsNone
<1>6. CASE Close
  <2>1. cpc' = "closing"
    BY <1>6 DEF Close
  <2>2. QED
    BY <2>1 DEF ClosedInv, ClosedHoldsNone
<1>7. CASE CloseDrops
  <2>1. conn' = None /\ done' = done /\ cpc = "closing"
    BY <1>7 DEF CloseDrops, DropConn
  <2>2. done
    BY <2>1 DEF Inv, TypeOK
  <2>3. QED
    BY <2>1, <2>2 DEF ClosedInv, ClosedHoldsNone
<1>8. CASE (\E s \in Sockets : Break(s)) \/ RemoteStops \/ RemoteStarts
  BY <1>8, <1>u DEF Break, RemoteStops, RemoteStarts
<1>9. CASE UNCHANGED vars
  BY <1>9, <1>u DEF vars
<1>10. QED
  BY <1>1, <1>2, <1>3, <1>4, <1>5, <1>6, <1>7, <1>8, <1>9 DEF Next, ReconnectLoop

\* ClosedHoldsNone: what Close leaves open is what Reconnect was about to
\* install.
THEOREM ClosedIsEmpty == Spec => []ClosedHoldsNone
<1>1. Init => ClosedInv
  BY Zenon DEF Init, ClosedInv, ClosedHoldsNone
<1>2. ClosedInv => ClosedHoldsNone
  BY DEF ClosedInv
<1>3. QED
  BY <1>1, <1>2, InvInit, InvNext, ClosedNext, PTL DEF Spec

----------------------------------------------------------------------------
(* The order of the messages. *)

LEMMA OneToNext ==
    ASSUME NEW n \in Nat
    PROVE  /\ [i \in 1 .. n |-> i] \in Seq(Nat)
           /\ Append([i \in 1 .. n |-> i], n + 1) = [i \in 1 .. n + 1 |-> i]
<1>. DEFINE s == [i \in 1 .. n |-> i]
            t == [i \in 1 .. n + 1 |-> i]
<1>1. s \in Seq(Nat) /\ Len(s) = n /\ t \in Seq(Nat) /\ Len(t) = n + 1
  OBVIOUS
<1>2. /\ Append(s, n + 1) \in Seq(Nat) /\ Len(Append(s, n + 1)) = n + 1
      /\ \A i \in 1 .. n : Append(s, n + 1)[i] = s[i]
      /\ Append(s, n + 1)[n + 1] = n + 1
  BY <1>1, AppendProperties
<1>3. \A i \in 1 .. n + 1 : Append(s, n + 1)[i] = t[i]
  BY <1>2
<1>4. Append(s, n + 1) = t
  <2>. HIDE DEF s, t
  <2>. QED
    BY <1>1, <1>2, <1>3, SeqEqual
<1>5. QED
  BY <1>1, <1>4

LEMMA HeadAndTail ==
    ASSUME NEW q \in Seq(Nat), q # <<>>
    PROVE  <<Head(q)>> \o Tail(q) = q
<1>1. /\ Head(q) \in Nat /\ Tail(q) \in Seq(Nat) /\ Len(Tail(q)) = Len(q) - 1
      /\ \A i \in 1 .. Len(Tail(q)) : Tail(q)[i] = q[i + 1]
  BY HeadTailProperties
<1>2. <<Head(q)>> \in Seq(Nat) /\ Len(<<Head(q)>>) = 1 /\ <<Head(q)>>[1] = q[1]
  BY <1>1
<1>3. Len(q) \in Nat \ {0}
  OBVIOUS
<1>4. /\ <<Head(q)>> \o Tail(q) \in Seq(Nat)
      /\ Len(<<Head(q)>> \o Tail(q)) = Len(q)
      /\ \A i \in 1 .. Len(q) : (<<Head(q)>> \o Tail(q))[i] = q[i]
  BY <1>1, <1>2, <1>3, ConcatProperties
<1>5. QED
  BY <1>4, SeqEqual

LEMMA OrderNext == Inv /\ WritesKeepOrder /\ [Next]_vars => WritesKeepOrder'
<1>. SUFFICES ASSUME Inv, WritesKeepOrder, [Next]_vars PROVE WritesKeepOrder'
  OBVIOUS
<1>. USE DEF writerVars, readerVars, loopVars, closeVars, sendVars, faultVars
<1>t. /\ written \in Seq(Nat) /\ queue \in Seq(Nat) /\ accepted \in Nat
      /\ pending \in Nat \cup {None} /\ None \notin Nat
  BY ConnectionAssumption DEF Inv, TypeOK
<1>p. Pending \in Seq(Nat)
  BY <1>t DEF Pending
<1>u. ASSUME UNCHANGED <<written, pending, queue, accepted>> PROVE WritesKeepOrder'
  BY <1>u DEF WritesKeepOrder, Pending
<1>1. CASE Enqueue
  <2>. DEFINE before == written \o Pending
  <2>1. /\ accepted' = accepted + 1 /\ queue' = Append(queue, accepted')
        /\ written' = written /\ Pending' = Pending
    BY <1>1 DEF Enqueue, Pending
  <2>2. before \in Seq(Nat) /\ before \o queue \in Seq(Nat)
    BY <1>t, <1>p, ConcatProperties
  <2>3. accepted' \in Nat /\ <<accepted'>> \in Seq(Nat)
    BY <2>1, <1>t
  <2>4. before \o Append(queue, accepted') = Append(before \o queue, accepted')
    <3>. HIDE DEF before
    <3>1. Append(queue, accepted') = queue \o <<accepted'>>
      BY <1>t, <2>3, AppendIsConcat
    <3>2. (before \o queue) \o <<accepted'>> = before \o (queue \o <<accepted'>>)
      BY <1>t, <2>2, <2>3, ConcatAssociative
    <3>3. Append(before \o queue, accepted') = (before \o queue) \o <<accepted'>>
      BY <2>2, <2>3, AppendIsConcat
    <3>4. QED
      BY <3>1, <3>2, <3>3
  <2>5. before \o queue = [n \in 1 .. accepted |-> n]
    BY DEF WritesKeepOrder
  <2>6. (written \o Pending \o queue)' = Append([n \in 1 .. accepted |-> n], accepted + 1)
    BY <2>1, <2>4, <2>5
  <2>7. QED
    BY <2>1, <2>6, <1>t, OneToNext DEF WritesKeepOrder
<1>2. CASE WriterTake
  <2>1. CASE UNCHANGED <<queue, pending>>
    BY <1>2, <2>1, <1>u DEF WriterTake
  <2>2. CASE queue # <<>> /\ pending' = Head(queue) /\ queue' = Tail(queue)
    <3>1. Pending = <<>> /\ UNCHANGED <<written, accepted>>
      BY <1>2 DEF WriterTake, Inv, TypeOK, Pending
    <3>2. Head(queue) \in Nat /\ <<Head(queue)>> \in Seq(Nat) /\ Tail(queue) \in Seq(Nat)
      BY <2>2, <1>t, HeadTailProperties
    <3>3. Pending' = <<Head(queue)>>
      BY <2>2, <3>2, <1>t DEF Pending
    <3>4. (written \o <<Head(queue)>>) \o Tail(queue) = written \o (<<Head(queue)>> \o Tail(queue))
      BY <3>2, <1>t, ConcatAssociative
    <3>5. <<Head(queue)>> \o Tail(queue) = queue
      BY <2>2, <1>t, HeadAndTail
    <3>6. written \o Pending \o queue = written \o queue
      BY <3>1, <1>t, ConcatEmptySeq
    <3>7. QED
      BY <2>2, <3>1, <3>3, <3>4, <3>5, <3>6 DEF WritesKeepOrder
  <2>3. QED
    BY <1>2, <2>1, <2>2 DEF WriterTake
<1>3. CASE WriterFlushes
  <2>1. pending # None /\ written' = Append(written, pending) /\ pending' = None
        /\ UNCHANGED <<queue, accepted>>
    BY <1>3 DEF WriterFlushes, Inv, TypeOK
  <2>2. Pending = <<pending>> /\ Pending' = <<>> /\ pending \in Nat
    BY <2>1, <1>t DEF Pending
  <2>3. written' = written \o <<pending>> /\ written' \in Seq(Nat)
    BY <2>1, <2>2, <1>t, AppendIsConcat, AppendProperties
  <2>4. written' \o <<>> = written'
    BY <2>3, ConcatEmptySeq
  <2>5. QED
    BY <2>1, <2>2, <2>3, <2>4 DEF WritesKeepOrder
<1>4. CASE CallSend \/ SendClosed
  BY <1>4, <1>u DEF CallSend, SendClosed
<1>5. CASE WriterTop \/ WriterGet \/ WriterFails
  BY <1>5, <1>u DEF WriterTop, WriterGet, WriterFails
<1>6. CASE ReaderLoop
  BY <1>6, <1>u DEF ReaderLoop, ReaderTop, ReaderGet, ReaderLine, ReaderFails, ReaderDrops
<1>7. CASE ReconnectLoop
  BY <1>7, <1>u DEF ReconnectLoop, LoopEnds, LoopTick, Dial, DialFails, Install
<1>8. CASE Close \/ CloseDrops
  BY <1>8, <1>u DEF Close, CloseDrops
<1>9. CASE (\E s \in Sockets : Break(s)) \/ RemoteStops \/ RemoteStarts
  BY <1>9, <1>u DEF Break, RemoteStops, RemoteStarts
<1>10. CASE UNCHANGED vars
  BY <1>10, <1>u DEF vars
<1>11. QED
  BY <1>1, <1>2, <1>3, <1>4, <1>5, <1>6, <1>7, <1>8, <1>9, <1>10 DEF Next, WriterLoop

\* WritesKeepOrder for every capacity of writerCh and any number of senders.
THEOREM WritesInOrder == Spec => []WritesKeepOrder
<1>1. Init => WritesKeepOrder
  <2>. SUFFICES ASSUME Init PROVE WritesKeepOrder
    OBVIOUS
  <2>1. written = <<>> /\ queue = <<>> /\ pending = None /\ accepted = 0
    BY DEF Init
  <2>2. Pending = <<>>
    BY <2>1 DEF Pending
  <2>3. written \o Pending \o queue = <<>>
    BY <2>1, <2>2
  <2>4. [n \in 1 .. accepted |-> n] = <<>>
    BY <2>1
  <2>5. QED
    BY <2>3, <2>4 DEF WritesKeepOrder
<1>2. QED
  BY <1>1, InvInit, InvNext, OrderNext, PTL DEF Spec

=============================================================================
