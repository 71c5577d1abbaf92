----------------------------- MODULE TCPFanout -----------------------------
(***************************************************************************)
(* shared/streamproto TCPServer, fed by the Broadcaster: one goroutine     *)
(* accepts clients up to MaxClients, one goroutine per client subscribes   *)
(* to the feed and writes its frames to the connection under a write       *)
(* deadline.  A client is a subscription of module Broadcaster.            *)
(***************************************************************************)
EXTENDS Broadcaster

CONSTANT Limits  \* values of TCPServerConfig.MaxClients; 0 is no limit

ASSUME TCPFanoutAssumption == Limits \subseteq Nat

VARIABLES
    conn,        \* the state of each client's connection, as the server sees it
    stuck,       \* clients that read nothing more; their socket buffer is full
    clients,     \* TCPServer.clients
    cancelled,   \* ctx has been cancelled
    listening,   \* the accept loop runs
    maxClients   \* TCPServerConfig.MaxClients

tvars == <<conn, stuck, clients, cancelled, listening, maxClients>>
vars  == <<bvars, tvars>>

\* In the order a connection goes through them: waiting to be accepted,
\* counted, subscribed, inside WriteFrame, serve has returned, unsubscribed,
\* closed and counted off; or refused.
ConnStates == {"none", "backlog", "counted", "serving", "writing", "leaving",
               "unsubbed", "gone", "refused"}
\* The goroutines of the server: clients counted and not yet counted off.
Active == {c \in Subs : conn[c] \in {"counted", "serving", "writing", "leaving", "unsubbed"}}

TInit == /\ conn = [c \in Subs |-> "none"]
         /\ stuck = {}
         /\ clients = 0
         /\ cancelled = FALSE
         /\ listening = TRUE
         /\ maxClients \in Limits

Init == BInit /\ TInit

To(c, state) == conn' = [conn EXCEPT ![c] = state]
-----------------------------------------------------------------------------
(* The outside: clients, the network, the owner of ctx. *)

Dial(c) == /\ conn[c] = "none"
           /\ To(c, "backlog")
           /\ UNCHANGED <<bvars, stuck, clients, cancelled, listening, maxClients>>

GetStuck(c) == /\ c \notin stuck /\ conn[c] \in {"counted", "serving", "writing"}
               /\ stuck' = stuck \cup {c}
               /\ UNCHANGED <<bvars, conn, clients, cancelled, listening, maxClients>>

Cancel == /\ ~cancelled
          /\ cancelled' = TRUE
          /\ UNCHANGED <<bvars, conn, stuck, clients, listening, maxClients>>

-----------------------------------------------------------------------------
(* Run *)

\* Mutant: the limit is off by one.
AcceptOneMore(c) ==
    /\ listening /\ conn[c] = "backlog"
    /\ IF maxClients > 0 /\ clients > maxClients
       THEN To(c, "refused") /\ clients' = clients
       ELSE To(c, "counted") /\ clients' = clients + 1
    /\ UNCHANGED <<bvars, stuck, cancelled, listening, maxClients>>

\* Accept, the check against MaxClients, Add(1) and the start of the client's
\* goroutine.  Only this goroutine adds to clients, so the check stands.
Accept(c) ==
    /\ listening
    /\ conn[c] = "backlog"
    /\ IF maxClients > 0 /\ clients >= maxClients
       THEN To(c, "refused") /\ clients' = clients
       ELSE To(c, "counted") /\ clients' = clients + 1
    /\ UNCHANGED <<bvars, stuck, cancelled, listening, maxClients>>

\* Accept fails: after the cancellation has closed the listener, or by itself.
\* Run returns either way; the clients' goroutines stay.
StopListening ==
    /\ listening
    /\ listening' = FALSE
    /\ UNCHANGED <<bvars, conn, stuck, clients, cancelled, maxClients>>

\* The client's goroutine ends: the connection is closed and counted off.
CountOff(c) ==
    /\ conn[c] = "unsubbed"
    /\ To(c, "gone")
    /\ clients' = clients - 1
    /\ UNCHANGED <<bvars, stuck, cancelled, listening, maxClients>>

-----------------------------------------------------------------------------
(* serve *)

ServeSubscribe(c) ==
    /\ conn[c] = "counted"
    /\ Subscribe(c)
    /\ To(c, "serving")
    /\ UNCHANGED <<stuck, clients, cancelled, listening, maxClients>>

\* The select takes a frame, and WriteFrame starts under a deadline.
TakeFrame(c) ==
    /\ conn[c] = "serving"
    /\ Receive(c)
    /\ To(c, "writing")
    /\ UNCHANGED <<stuck, clients, cancelled, listening, maxClients>>

\* The select takes the cancellation; with a frame waiting it may take either.
TakeCancel(c) ==
    /\ conn[c] = "serving"
    /\ cancelled
    /\ To(c, "leaving")
    /\ UNCHANGED <<bvars, stuck, clients, cancelled, listening, maxClients>>

WriteOk(c) ==
    /\ conn[c] = "writing"
    /\ c \notin stuck
    /\ To(c, "serving")
    /\ UNCHANGED <<bvars, stuck, clients, cancelled, listening, maxClients>>

\* Mutant: no write deadline.
WriteFailNoDeadline(c) ==
    /\ conn[c] = "writing" /\ c \notin stuck
    /\ To(c, "leaving")
    /\ UNCHANGED <<bvars, stuck, clients, cancelled, listening, maxClients>>

\* The write fails: the connection is broken, or the deadline has passed.
WriteFail(c) ==
    /\ conn[c] = "writing"
    /\ To(c, "leaving")
    /\ UNCHANGED <<bvars, stuck, clients, cancelled, listening, maxClients>>

\* The deferred unsub(): delete under the mutex, then close.
Unsubscribe(c) ==
    /\ conn[c] = "leaving"
    /\ \/ Remove(c) /\ conn' = conn
       \/ Close(c) /\ To(c, "unsubbed")
    /\ UNCHANGED <<stuck, clients, cancelled, listening, maxClients>>

Serve(c) == \/ ServeSubscribe(c) \/ TakeFrame(c) \/ TakeCancel(c) \/ WriteOk(c)
            \/ WriteFail(c) \/ Unsubscribe(c) \/ CountOff(c)

Feed == /\ \E p \in Publishers : GetFrame(p) \/ Publish(p)
        /\ UNCHANGED tvars

Next == \/ Feed
        \/ \E c \in Subs : Dial(c) \/ GetStuck(c) \/ Accept(c) \/ Serve(c)
        \/ Cancel \/ StopListening

Spec == Init /\ [][Next]_vars

\* The goroutines of the process run.  Only the accept loop and the clients'
\* goroutines wait for a mutex held by Publish, which always ends.  A stuck
\* write ends with the deadline (WriteFail is then Serve's only step).
FairSpec ==
    /\ Spec
    /\ \A p \in Publishers : WF_vars(Publish(p) /\ UNCHANGED tvars)
    /\ \A c \in Subs : /\ WF_vars(Accept(c))
                       /\ SF_vars(ServeSubscribe(c)) /\ SF_vars(Unsubscribe(c))
                       /\ WF_vars(TakeFrame(c) \/ TakeCancel(c))
                       /\ WF_vars(WriteOk(c) \/ WriteFail(c)) /\ WF_vars(CountOff(c))
    /\ WF_vars(cancelled /\ StopListening)

-----------------------------------------------------------------------------
\* Every client's connection is in one state of handleClient, and the server's counter
\* of clients is a natural number: it is decremented only for a client it counted
\* (tcpserver.go:71-83).
TypeOK == /\ BTypeOK
          /\ conn \in [Subs -> ConnStates]
          /\ stuck \subseteq Subs
          /\ clients \in Nat
          /\ cancelled \in BOOLEAN /\ listening \in BOOLEAN /\ maxClients \in Limits

\* The server never serves more than MaxClients at a time, and its counter is
\* the number of clients' goroutines (tcpserver.go:71-83).
ClientsBounded == /\ clients = Cardinality(Active)
                  /\ maxClients > 0 => Cardinality(Active) <= maxClients

\* A client that has gone leaves nothing behind: only clients being served
\* hold a subscription, and each unsubscribed exactly once.
NoLeakedSubscription ==
    /\ subs \subseteq {c \in Subs : conn[c] \in {"serving", "writing", "leaving"}}
    /\ \A c \in Subs : conn[c] = "gone" => life[c] = "closed"

\* What the viewers of the TCP output are served: a subscription exactly as long as a handler
\* is there to cancel it, never anything staler than the latest frame once no Publish is
\* under way, and no frame twice or out of order (tcpserver.go:49-112, broadcaster.go:27-57).
SubscribersServed == TypeOK /\ NoLeakedSubscription /\ CaughtUp /\ SolePublisherInOrder

\* After the cancellation the accept loop and every client's goroutine end, one inside a
\* write to a client that reads no more included: the deadline takes it out
\* (tcpserver.go:54-57, 100-103).
ShutDown == cancelled ~> (~listening /\ Active = {})

\* "one stalled reader cannot hold up the others" (tcpserver.go:30-32): a
\* client that reads is up to date in the end, whatever the others do.
ReaderServed ==
    \A c \in Subs : <>[](conn[c] = "serving" /\ ~cancelled => last[c] = latest)
=============================================================================
