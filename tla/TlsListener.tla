---------------------------- MODULE TlsListener ----------------------------
(***************************************************************************)
(* The TLS listener of opensovd-server.  accept() takes connections from   *)
(* the TCP listener and spawns a task for each handshake; the tasks put    *)
(* what they complete into a bounded channel, from which accept() returns  *)
(* connections to axum one at a time.  A semaphore limits the tasks: a     *)
(* connection that finds no slot is dropped.                               *)
(*                                                                         *)
(* The TCP backlog, the clients and axum's accept loop are external.  A    *)
(* client may stall for ever in its handshake.  axum stops calling accept  *)
(* at a shutdown and drops the listener, and the channel with it.          *)
(***************************************************************************)
EXTENDS Naturals, Sequences, FiniteSets

CONSTANTS Conns,      \* connections that clients open
          MaxPending  \* MAX_PENDING_HANDSHAKES: the semaphore's permits and the
                      \* places in the channel

ASSUME MaxPendingAssumption == MaxPending \in Nat \ {0}

VARIABLES conn,      \* where each connection is
          permits,   \* free slots of the semaphore
          done,      \* the channel: completed handshakes in order
          listener   \* what accept() or its caller does

tlsVars == <<conn, permits, done, listener>>

\* "backlog": known to the kernel only; "handshake", "sending": has a task and a
\* slot; "queued": in the channel; "served": given to axum; "dropped": found no
\* slot; "failed": its handshake failed or timed out; "lost": the listener was
\* dropped before it was served.
ConnState == {"unopened", "backlog", "handshake", "sending", "queued",
              "served", "dropped", "failed", "lost"}

InFlight == {c \in Conns : conn[c] \in {"handshake", "sending"}}

TlsInit ==
    /\ conn = [c \in Conns |-> "unopened"]
    /\ permits = MaxPending
    /\ done = <<>>
    /\ listener = "selecting"

(***************************************************************************)
(* Clients.                                                                *)
(***************************************************************************)

ClientConnects(c) ==
    /\ conn[c] = "unopened"
    /\ listener # "closed"
    /\ conn' = [conn EXCEPT ![c] = "backlog"]
    /\ UNCHANGED <<permits, done, listener>>

(***************************************************************************)
(* accept().  The two branches of its select! are SpawnHandshake, DropConn *)
(* or AcceptError on one side and ReturnConn on the other.                 *)
(***************************************************************************)

SpawnHandshake(c) ==
    /\ listener = "selecting"
    /\ conn[c] = "backlog"
    /\ permits > 0
    /\ permits' = permits - 1
    /\ conn' = [conn EXCEPT ![c] = "handshake"]
    /\ UNCHANGED <<done, listener>>

DropConn(c) ==
    /\ listener = "selecting"
    /\ conn[c] = "backlog"
    /\ permits = 0
    /\ conn' = [conn EXCEPT ![c] = "dropped"]
    /\ UNCHANGED <<permits, done, listener>>

\* Faulty variant of AcceptError: the listener gives up.
AcceptErrorEndsLoop ==
    /\ listener = "selecting"
    /\ listener' = "stopped"
    /\ UNCHANGED <<conn, permits, done>>

AcceptError ==
    /\ listener = "selecting"
    /\ listener' = "sleeping"
    /\ UNCHANGED <<conn, permits, done>>

WakeUp ==
    /\ listener = "sleeping"
    /\ listener' = "selecting"
    /\ UNCHANGED <<conn, permits, done>>

\* Faulty variant of ReturnConn: new connections go before completed ones, as in
\* a biased select!.
ReturnConnLast ==
    /\ listener = "selecting"
    /\ done # <<>>
    /\ \A c \in Conns : conn[c] # "backlog"
    /\ conn' = [conn EXCEPT ![Head(done)] = "served"]
    /\ done' = Tail(done)
    /\ listener' = "returned"
    /\ UNCHANGED permits

ReturnConn ==
    /\ listener = "selecting"
    /\ done # <<>>
    /\ conn' = [conn EXCEPT ![Head(done)] = "served"]
    /\ done' = Tail(done)
    /\ listener' = "returned"
    /\ UNCHANGED permits

\* axum spawns the connection and calls accept() again.
CallAccept ==
    /\ listener = "returned"
    /\ listener' = "selecting"
    /\ UNCHANGED <<conn, permits, done>>

\* The graceful shutdown: the accept() in progress is dropped wherever it waits,
\* then the listener, with its backlog and its channel.
CloseListener ==
    /\ listener # "closed"
    /\ listener' = "closed"
    /\ conn' = [c \in Conns |-> IF conn[c] \in {"backlog", "queued"} THEN "lost"
                                ELSE conn[c]]
    /\ done' = <<>>
    /\ UNCHANGED permits

(***************************************************************************)
(* The task of a handshake.  It frees its slot when it ends.               *)
(***************************************************************************)

CompleteHandshake(c) ==
    /\ conn[c] = "handshake"
    /\ conn' = [conn EXCEPT ![c] = "sending"]
    /\ UNCHANGED <<permits, done, listener>>

EndTask(c, state) ==
    /\ conn' = [conn EXCEPT ![c] = state]
    /\ permits' = permits + 1
    /\ UNCHANGED listener

\* Faulty variants of FailOrTimeOut: the permit is forgotten; the timer runs only
\* while there is no free slot.
FailForgetsPermit(c) ==
    /\ conn[c] = "handshake"
    /\ conn' = [conn EXCEPT ![c] = "failed"]
    /\ UNCHANGED <<permits, done, listener>>

FailOnlyWhenFull(c) ==
    permits = 0 /\ conn[c] = "handshake" /\ EndTask(c, "failed") /\ UNCHANGED done

\* The client or rustls gives up, or the timer fires.
FailOrTimeOut(c) == conn[c] = "handshake" /\ EndTask(c, "failed") /\ UNCHANGED done

SendConn(c) ==
    /\ conn[c] = "sending"
    /\ listener # "closed"
    /\ Len(done) < MaxPending
    /\ done' = Append(done, c)
    /\ EndTask(c, "queued")

\* The receiver is gone: send() fails and the stream is dropped.
SendFails(c) ==
    /\ conn[c] = "sending"
    /\ listener = "closed"
    /\ EndTask(c, "lost")
    /\ UNCHANGED done

TcpBranch(c) == SpawnHandshake(c) \/ DropConn(c)

TlsNext ==
    \/ \E c \in Conns : \/ ClientConnects(c) \/ TcpBranch(c)
                        \/ CompleteHandshake(c) \/ FailOrTimeOut(c)
                        \/ SendConn(c) \/ SendFails(c)
    \/ AcceptError \/ WakeUp \/ ReturnConn \/ CallAccept \/ CloseListener

\* select! picks a ready branch at random, so neither branch is passed over for
\* ever (SF).  The timer fires, send() goes on when there is room, axum comes
\* back for the next connection.  Nobody completes a handshake by obligation,
\* and nothing says that accept errors stop.
TlsFairness ==
    /\ SF_tlsVars(ReturnConn)
    /\ WF_tlsVars(WakeUp)
    /\ WF_tlsVars(CallAccept)
    /\ \A c \in Conns : /\ WF_tlsVars(FailOrTimeOut(c))
                        /\ SF_tlsVars(SendConn(c))
                        /\ WF_tlsVars(SendFails(c))

TlsSafety == TlsInit /\ [][TlsNext]_tlsVars
TlsSpec   == TlsSafety /\ TlsFairness

\* Accept errors are transient: the TCP branch delivers connections in the end.
TransientErrors == \A c \in Conns : SF_tlsVars(TcpBranch(c))

-----------------------------------------------------------------------------

\* Type invariant.
TlsTypeOK ==
    /\ conn \in [Conns -> ConnState]
    /\ permits \in 0 .. MaxPending
    /\ done \in Seq(Conns)
    /\ Len(done) <= MaxPending
    /\ listener \in {"selecting", "sleeping", "returned", "closed"}

\* No slot leaks and none is given twice, whichever of completion, failure,
\* timeout and a closed listener ends a task.
SlotsConserved == permits + Cardinality(InFlight) = MaxPending

\* A client that stalls in its handshake gives its slot back.
SlotsComeBack == \A c \in Conns : conn[c] = "handshake" ~> c \notin InFlight

\* A completed handshake reaches axum or the listener closes, also if new
\* connections keep coming or the TCP listener keeps failing.
CompletedAreServed ==
    \A c \in Conns : conn[c] = "sending" ~> conn[c] \in {"served", "lost"}

\* Where accept errors are transient, stalling clients and completed handshakes do
\* not keep others in the backlog.
BacklogIsEmptied ==
    TransientErrors => \A c \in Conns : conn[c] = "backlog" ~> conn[c] # "backlog"

\* The channel and the fates of the connections agree: the channel holds every
\* connection that waits for axum, once, and a connection is lost only with the
\* listener, which leaves none behind.
NoneIsForgotten ==
    /\ \A c \in Conns : conn[c] = "queued" <=> \E i \in 1 .. Len(done) : done[i] = c
    /\ \A i, j \in 1 .. Len(done) : done[i] = done[j] => i = j
    /\ \A c \in Conns : /\ conn[c] = "lost" => listener = "closed"
                        /\ conn[c] \in {"backlog", "queued"} => listener # "closed"

\* A connection is turned away only while every slot is held by the task of another
\* one, and what became of a connection is never revoked.
TurnedAwayWhenFull ==
    [][\A c \in Conns :
          /\ conn[c] # "dropped" /\ conn'[c] = "dropped" =>
                Cardinality(InFlight) = MaxPending
          /\ conn[c] \in {"served", "dropped", "failed", "lost"} => conn'[c] = conn[c]]_tlsVars

=============================================================================
