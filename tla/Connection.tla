----------------------------- MODULE Connection -----------------------------
(***************************************************************************)
(* A tcp.Connection: Send, writerLoop, readerLoop, Close, and Reconnect     *)
(* with the loop of ConnectionManager.startReconnectLoop.  Either it is a   *)
(* peer, which the router dialled, reconnects, and closes at the next       *)
(* ApplyClusterUpdate; or it was accepted, and nobody reconnects or closes  *)
(* it.  The loops share the socket under a mutex but hold its reader or     *)
(* writer outside it, so a loop may find an error on one socket and drop    *)
(* another.                                                                 *)
(*                                                                          *)
(* A message is the number of its Send among those accepted, senders being  *)
(* alike.  The lines a loop reads off the socket are the subject of         *)
(* RequestPath.                                                             *)
(***************************************************************************)
EXTENDS Naturals, Sequences

CONSTANTS
    Sockets,       \* net.Conns; one that is closed and held by no loop is used again
    None,          \* nil
    WriterBuffer,  \* DefaultWriterBufferSize
    MaxAttempts,
    MaxSends,      \* bound: calls of Send, by the goroutines that retry requests
    MaxFaults,     \* bound: sockets broken and stops of the shard
    MaxStale       \* bound: reconnects that overtake a loop with an error in hand

ASSUME ConnectionAssumption ==
    /\ Sockets # {} /\ None \notin Sockets \cup Nat
    /\ WriterBuffer \in Nat \ {0}
    /\ MaxAttempts \in Nat /\ MaxSends \in Nat /\ MaxFaults \in Nat /\ MaxStale \in Nat

VARIABLES
    role,      \* peer or accepted
    done,      \* the channel done is closed
    conn,      \* the current socket
    sock,      \* up, broken (the peer or the network is gone) or closed by Close()
    calls,     \* calls of Send that were made
    blocked,   \* calls of Send that are in its select
    accepted,  \* calls of Send that returned nil
    queue,     \* writerCh
    pending,   \* writerLoop: the message it took
    wpc,       \* writerLoop: where it is
    wsock,     \* writerLoop: the socket whose writer it got
    rpc,       \* readerLoop: where it is
    rsock,     \* readerLoop: the socket whose reader it got
    lpc,       \* startReconnectLoop: where it is
    dialled,   \* startReconnectLoop: the socket Reconnect dialled
    fails,     \* startReconnectLoop: failed attempts in a row
    cpc,       \* Close: not called, called, returned
    remoteUp,  \* the shard accepts connections
    faults, stale,
    written,   \* history: the messages flushed, in order
    crossed    \* history: Close came while Reconnect was under way

writerVars == <<pending, wpc, wsock, written>>
readerVars == <<rpc, rsock>>
loopVars   == <<lpc, dialled, fails, stale>>
closeVars  == <<role, done, cpc, crossed>>
sendVars   == <<calls, blocked, accepted>>
faultVars  == <<remoteUp, faults>>
vars == <<conn, sock, queue, writerVars, readerVars, loopVars, closeVars, sendVars, faultVars>>

Up(s) == s # None /\ sock[s] = "up"

\* A socket of the system: which one makes no difference.
NewSocket == CHOOSE s \in Sockets : sock[s] = "closed" /\ s \notin {wsock, rsock}

\* NewConnection on a socket that was just dialled, with its reconnect loop, or
\* accepted.
Init ==
    /\ role \in {"peer", "accepted"}
    /\ lpc = IF role = "peer" THEN "wait" ELSE "end"
    /\ conn = CHOOSE s \in Sockets : TRUE
    /\ sock = [s \in Sockets |-> IF s = conn THEN "up" ELSE "closed"]
    /\ queue = <<>> /\ pending = None /\ wpc = "top" /\ wsock = None
    /\ rpc = "top" /\ rsock = None
    /\ dialled = None /\ fails = 0 /\ stale = 0
    /\ done = FALSE /\ cpc = "open" /\ crossed = FALSE
    /\ calls = 0 /\ blocked = 0 /\ accepted = 0 /\ written = <<>>
    /\ remoteUp = TRUE /\ faults = 0

\* Mutant: the socket is forgotten and not closed.
ForgetConn == sock' = sock /\ conn' = None

\* dropConn closes the socket of the moment.
DropConn ==
    /\ sock' = IF conn = None THEN sock ELSE [sock EXCEPT ![conn] = "closed"]
    /\ conn' = None

----------------------------------------------------------------------------
(* Send. *)

CallSend ==
    /\ calls < MaxSends
    /\ calls' = calls + 1
    /\ blocked' = blocked + 1
    /\ UNCHANGED <<conn, sock, queue, accepted, writerVars, readerVars, loopVars, closeVars, faultVars>>

\* writerCh has room; the select may take this branch after Close too.
Enqueue ==
    /\ blocked > 0 /\ Len(queue) < WriterBuffer
    /\ blocked' = blocked - 1
    /\ accepted' = accepted + 1
    /\ queue' = Append(queue, accepted')
    /\ UNCHANGED <<conn, sock, calls, writerVars, readerVars, loopVars, closeVars, faultVars>>

\* Mutant: Send without a select.
SendUnselected == FALSE /\ UNCHANGED vars

\* The select finds done closed: io.ErrClosedPipe.
SendClosed ==
    /\ blocked > 0 /\ done
    /\ blocked' = blocked - 1
    /\ UNCHANGED <<conn, sock, queue, calls, accepted, writerVars, readerVars, loopVars, closeVars, faultVars>>

----------------------------------------------------------------------------
(* writerLoop. *)

\* The top of the loop: isClosed, and whether a message is left from before.
WriterTop ==
    /\ wpc = "top"
    /\ wpc' = IF done THEN "end" ELSE IF pending = None THEN "take" ELSE "get"
    /\ UNCHANGED <<conn, sock, queue, pending, wsock, written, readerVars, loopVars, closeVars, sendVars, faultVars>>

\* The select of the writer: done, or a message.
WriterTake ==
    /\ wpc = "take"
    /\ \/ /\ done
          /\ wpc' = "end"
          /\ UNCHANGED <<queue, pending>>
       \/ /\ queue # <<>>
          /\ pending' = Head(queue)
          /\ queue' = Tail(queue)
          /\ wpc' = "get"
    /\ UNCHANGED <<conn, sock, wsock, written, readerVars, loopVars, closeVars, sendVars, faultVars>>

\* getWriter; without a socket the loop sleeps and starts over.
WriterGet ==
    /\ wpc = "get"
    /\ wsock' = conn
    /\ wpc' = IF conn = None THEN "top" ELSE "write"
    /\ UNCHANGED <<conn, sock, queue, pending, written, readerVars, loopVars, closeVars, sendVars, faultVars>>

\* Encode and Flush succeed: on a socket whose peer is gone they may.
WriterFlushes ==
    /\ wpc = "write" /\ sock[wsock] # "closed"
    /\ written' = Append(written, pending)
    /\ pending' = None
    /\ wsock' = None /\ wpc' = "top"
    /\ UNCHANGED <<conn, sock, queue, readerVars, loopVars, closeVars, sendVars, faultVars>>

\* Mutant: the message whose write failed is forgotten.
WriterFailsAndForgets ==
    /\ wpc = "write" /\ sock[wsock] # "up"
    /\ DropConn
    /\ pending' = None
    /\ wsock' = None /\ wpc' = "top"
    /\ UNCHANGED <<queue, written, readerVars, loopVars, closeVars, sendVars, faultVars>>

\* Either fails: the current connection is dropped, the message is kept.
WriterFails ==
    /\ wpc = "write" /\ sock[wsock] # "up"
    /\ DropConn
    /\ wsock' = None /\ wpc' = "top"
    /\ UNCHANGED <<queue, pending, written, readerVars, loopVars, closeVars, sendVars, faultVars>>

WriterLoop == WriterTop \/ WriterTake \/ WriterGet \/ WriterFlushes \/ WriterFails

----------------------------------------------------------------------------
(* readerLoop. *)

\* Mutant: the loop runs whatever becomes of done.
ReaderTopUnasked ==
    /\ rpc = "top"
    /\ rpc' = "get"
    /\ UNCHANGED <<conn, sock, queue, rsock, writerVars, loopVars, closeVars, sendVars, faultVars>>

ReaderTop ==
    /\ rpc = "top"
    /\ rpc' = IF done THEN "end" ELSE "get"
    /\ UNCHANGED <<conn, sock, queue, rsock, writerVars, loopVars, closeVars, sendVars, faultVars>>

ReaderGet ==
    /\ rpc = "get"
    /\ rsock' = conn
    /\ rpc' = IF conn = None THEN "top" ELSE "read"
    /\ UNCHANGED <<conn, sock, queue, writerVars, loopVars, closeVars, sendVars, faultVars>>

\* A line, and the select that hands it on or finds the connection closed.
ReaderLine ==
    /\ rpc = "read" /\ sock[rsock] = "up"
    /\ rsock' = None
    /\ rpc' \in {"top"} \cup IF done THEN {"end"} ELSE {}
    /\ UNCHANGED <<conn, sock, queue, writerVars, loopVars, closeVars, sendVars, faultVars>>

\* The read fails.
ReaderFails ==
    /\ rpc = "read" /\ sock[rsock] # "up"
    /\ rsock' = None
    /\ rpc' = IF done THEN "end" ELSE "drop"
    /\ UNCHANGED <<conn, sock, queue, writerVars, loopVars, closeVars, sendVars, faultVars>>

\* Mutant: the socket stays the current one.
ReaderKeepsConn ==
    /\ rpc = "drop"
    /\ rpc' = "top"
    /\ UNCHANGED <<conn, sock, queue, rsock, writerVars, loopVars, closeVars, sendVars, faultVars>>

\* The connection was not closed when the read failed: its socket is dropped.
ReaderDrops ==
    /\ rpc = "drop"
    /\ DropConn
    /\ rpc' = "top"
    /\ UNCHANGED <<queue, rsock, writerVars, loopVars, closeVars, sendVars, faultVars>>

ReaderLoop == ReaderTop \/ ReaderGet \/ ReaderLine \/ ReaderFails \/ ReaderDrops

----------------------------------------------------------------------------
(* startReconnectLoop, Reconnect and Close. *)

\* done is closed, or the attempts are used up.
LoopEnds ==
    /\ lpc = "wait" /\ (done \/ fails >= MaxAttempts)
    /\ lpc' = "end"
    /\ UNCHANGED <<conn, sock, queue, dialled, fails, stale, writerVars, readerVars, closeVars, sendVars, faultVars>>

\* Mutant: Reconnect does not ask isClosed.
LoopTickUnasked ==
    /\ lpc = "wait" /\ fails < MaxAttempts /\ conn = None
    /\ lpc' = "dial"
    /\ UNCHANGED <<conn, sock, queue, dialled, fails, stale, writerVars, readerVars, closeVars, sendVars, faultVars>>

\* Mutant: one attempt too many.
LoopTickOnceMore ==
    /\ lpc = "wait" /\ fails <= MaxAttempts /\ conn = None
    /\ IF done
         THEN fails' = fails + 1 /\ UNCHANGED lpc
         ELSE lpc' = "dial" /\ UNCHANGED fails
    /\ UNCHANGED <<conn, sock, queue, dialled, stale, writerVars, readerVars, closeVars, sendVars, faultVars>>

\* A tick finds no socket: Reconnect is called and asks isClosed.
LoopTick ==
    /\ lpc = "wait" /\ fails < MaxAttempts /\ conn = None
    /\ IF done
         THEN fails' = fails + 1 /\ UNCHANGED lpc
         ELSE lpc' = "dial" /\ UNCHANGED fails
    /\ UNCHANGED <<conn, sock, queue, dialled, stale, writerVars, readerVars, closeVars, sendVars, faultVars>>

\* net.Dial reaches the shard.
Dial ==
    /\ lpc = "dial" /\ remoteUp
    /\ \E s \in Sockets : sock[s] = "closed" /\ s \notin {wsock, rsock}
    /\ sock' = [sock EXCEPT ![NewSocket] = "up"]
    /\ dialled' = NewSocket
    /\ lpc' = "install"
    /\ UNCHANGED <<conn, queue, fails, stale, writerVars, readerVars, closeVars, sendVars, faultVars>>

DialFails ==
    /\ lpc = "dial" /\ ~remoteUp
    /\ fails' = fails + 1
    /\ lpc' = "wait"
    /\ UNCHANGED <<conn, sock, queue, dialled, stale, writerVars, readerVars, closeVars, sendVars, faultVars>>

\* A loop has found an error, or will, on a socket that is not the current one
\* any more, and its drop is still to come.
ErrorInHand ==
    \/ wpc = "write" /\ sock[wsock] # "up"
    \/ rpc = "read" /\ sock[rsock] # "up"
    \/ rpc = "drop"

\* The end of Reconnect: the socket is taken unless there is one, whatever
\* became of done since it was asked.
Install ==
    /\ lpc = "install"
    /\ IF conn = None
         THEN conn' = dialled /\ UNCHANGED sock
         ELSE sock' = [sock EXCEPT ![dialled] = "closed"] /\ UNCHANGED conn
    /\ stale' = IF ErrorInHand THEN stale + 1 ELSE stale
    /\ stale' <= MaxStale
    /\ fails' = 0 /\ dialled' = None /\ lpc' = "wait"
    /\ UNCHANGED <<queue, writerVars, readerVars, closeVars, sendVars, faultVars>>

ReconnectLoop == LoopEnds \/ LoopTick \/ Dial \/ DialFails \/ Install

Close ==
    /\ cpc = "open" /\ role = "peer"
    /\ done' = TRUE /\ cpc' = "closing"
    /\ crossed' = (lpc \in {"dial", "install"})
    /\ UNCHANGED <<role, conn, sock, queue, writerVars, readerVars, loopVars, sendVars, faultVars>>

CloseDrops ==
    /\ cpc = "closing"
    /\ DropConn
    /\ cpc' = "closed"
    /\ UNCHANGED <<role, done, crossed, queue, writerVars, readerVars, loopVars, sendVars, faultVars>>

----------------------------------------------------------------------------
(* The shard and the network. *)

Break(s) ==
    /\ faults < MaxFaults /\ sock[s] = "up"
    /\ sock' = [sock EXCEPT ![s] = "broken"]
    /\ faults' = faults + 1
    /\ UNCHANGED <<conn, queue, remoteUp, writerVars, readerVars, loopVars, closeVars, sendVars>>

RemoteStops ==
    /\ faults < MaxFaults /\ remoteUp
    /\ remoteUp' = FALSE
    /\ sock' = [s \in Sockets |-> IF sock[s] = "up" THEN "broken" ELSE sock[s]]
    /\ faults' = faults + 1
    /\ UNCHANGED <<conn, queue, writerVars, readerVars, loopVars, closeVars, sendVars>>

RemoteStarts ==
    /\ ~remoteUp
    /\ remoteUp' = TRUE
    /\ UNCHANGED <<conn, sock, queue, faults, writerVars, readerVars, loopVars, closeVars, sendVars>>

----------------------------------------------------------------------------

Next ==
    \/ CallSend \/ Enqueue \/ SendClosed
    \/ WriterLoop \/ ReaderLoop \/ ReconnectLoop
    \/ Close \/ CloseDrops
    \/ \E s \in Sockets : Break(s)
    \/ RemoteStops \/ RemoteStarts

Spec == Init /\ [][Next]_vars

\* The goroutines run; of the reader's this includes that TCP tells a blocked read
\* some time that its socket is broken.  Nobody has to send, to close, to break or
\* to come back.
Fairness ==
    /\ WF_vars(WriterLoop) /\ WF_vars(ReaderLoop) /\ WF_vars(ReconnectLoop)
    /\ WF_vars(CloseDrops)
    /\ WF_vars(Enqueue \/ SendClosed)

FairSpec == Spec /\ Fairness

----------------------------------------------------------------------------
(* Properties. *)

TypeOK ==
    /\ role \in {"peer", "accepted"} /\ done \in BOOLEAN /\ crossed \in BOOLEAN /\ remoteUp \in BOOLEAN
    /\ conn \in Sockets \cup {None} /\ dialled \in Sockets \cup {None}
    /\ sock \in [Sockets -> {"up", "broken", "closed"}]
    /\ calls \in 0 .. MaxSends /\ blocked \in Nat /\ accepted \in Nat /\ blocked + accepted <= calls
    /\ queue \in Seq(Nat) /\ Len(queue) <= WriterBuffer
    /\ pending \in Nat \cup {None}
    /\ wpc \in {"top", "take", "get", "write", "end"}
    /\ wsock \in Sockets \cup {None} /\ (wpc = "write" <=> wsock # None)
    /\ (wpc \in {"get", "write"} => pending # None) /\ (wpc = "take" => pending = None)
    /\ rpc \in {"top", "get", "read", "drop", "end"}
    /\ rsock \in Sockets \cup {None} /\ (rpc = "read" <=> rsock # None)
    /\ lpc \in {"wait", "dial", "install", "end"} /\ (lpc = "install" <=> dialled # None)
    /\ fails \in 0 .. MaxAttempts /\ stale \in 0 .. MaxStale /\ faults \in 0 .. MaxFaults
    /\ cpc \in {"open", "closing", "closed"} /\ (done <=> cpc # "open")
    /\ written \in Seq(Nat)

Pending == IF pending = None THEN <<>> ELSE <<pending>>

\* Through any number of failed writes, drops and reconnects, the messages Send
\* accepted are flushed in the order it accepted them, none twice and none
\* skipped; the others wait in writerLoop and writerCh.
WritesKeepOrder == written \o Pending \o queue = [n \in 1 .. accepted |-> n]

\* A drop closes what it forgets: a socket that is not closed is the current
\* one or is being installed, so that reconnecting for ever does not use up
\* the descriptors (dropConn, Reconnect).
NoSocketLeaks == \A s \in Sockets : sock[s] # "closed" => s \in {conn, dialled}

\* A connection that was closed keeps no socket, unless Reconnect was between
\* isClosed and its end when Close came.
ClosedHoldsNone == cpc = "closed" /\ ~crossed => conn = None

GaveUp == lpc = "end" /\ ~done

\* A Send that blocks on a full writerCh returns, if not because the writer
\* makes room then because the connection is closed, and what Send accepted is
\* flushed unless it is closed; but when the reconnect loop has given up,
\* retrying stays in Send past its deadline until a cluster command replaces
\* the connection.
SendsComplete ==
    blocked > 0 \/ Len(written) < accepted ~>
        \/ blocked = 0 /\ (Len(written) = accepted \/ done)
        \/ GaveUp

\* A socket whose peer is gone is dropped, and a drop by one loop of the socket
\* of another's error does not cut the shard off: again and again the
\* connection is up, or it has no socket and its shard is down or nobody
\* reconnects it any more (readerLoop, writerLoop, startReconnectLoop).  A
\* socket that Reconnect installed on a closed connection stays.
Reconnects ==
    []<>(Up(conn) \/ crossed \/ (conn = None /\ (~remoteUp \/ done \/ lpc = "end")))

\* After Close the three goroutines end, but the reader of a socket that
\* Reconnect installed on the closed connection.
LoopsEnd ==
    done ~> (wpc = "end" /\ lpc = "end" /\ (rpc = "end" \/ crossed))

============================================================================
