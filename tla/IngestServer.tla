---------------------------- MODULE IngestServer ----------------------------
(***************************************************************************)
(* tcp-camera-backend/internal/server: the accept loop, the watchdog that  *)
(* closes the connections when the context is cancelled, and one goroutine *)
(* per camera connection that publishes its frames and, when it ends, one  *)
(* OFFLINE for each camera it has seen.  Publisher.fanOut runs under a     *)
(* mutex, so what was published is one sequence.                           *)
(***************************************************************************)
EXTENDS Naturals, Sequences, FiniteSets

CONSTANTS
    Conns,        \* connections that cameras may open
    Cameras,      \* camera ids they put in their frame headers
    None,         \* no connection
    MaxFrames,    \* bound: frames of a connection that are told apart
    MaxFailures   \* maxConsecutiveAcceptFailures

ASSUME IngestAssumption == /\ None \notin Conns
                           /\ MaxFrames \in Nat
                           /\ MaxFailures \in Nat \ {0}

VARIABLES
    peer,         \* each camera's end: "none", "sending", "silent", "gone"
    handler,      \* the goroutine of a connection, see HandlerStates
    closed,       \* connections the server has closed
    seen,         \* seenCameraIDs of each connection
    frames,       \* frames each connection has published
    published,    \* what went through Publisher.fanOut, in order
    conns,        \* Server.conns
    loop,         \* where ListenAndServe is, see LoopStates
    accepted,     \* the connection just accepted and not yet in conns
    failures,     \* consecutive failures of Accept
    listener,     \* "open" or "closed"
    watchdog,     \* "waiting", "closing" (the connections), "done"
    cancelled     \* ctx has been cancelled

svars == <<peer, handler, closed, seen, frames, published, conns, loop,
           accepted, failures, listener, watchdog, cancelled>>
loopVars == <<loop, accepted, failures>>

\* "offline": the deferred loop over seenCameraIDs; "closing": the deferred
\* conn.Close and the removal from conns are left; "done": wg.Done.
HandlerStates == {"none", "reading", "offline", "closing", "done"}
\* "stopping" and "givingUp" are the two wg.Waits, "returned" a nil result
\* and "failed" an error.
LoopStates == {"accept", "register", "backoff", "stopping", "givingUp", "returned", "failed"}

FrameOf(c, cam)   == [kind |-> "frame", conn |-> c, camera |-> cam]
OfflineOf(c, cam) == [kind |-> "offline", conn |-> c, camera |-> cam]

SInit == /\ peer = [c \in Conns |-> "none"]
         /\ handler = [c \in Conns |-> "none"]
         /\ closed = {}
         /\ seen = [c \in Conns |-> {}]
         /\ frames = [c \in Conns |-> 0]
         /\ published = <<>>
         /\ conns = {}
         /\ loop = "accept"
         /\ accepted = None
         /\ failures = 0
         /\ listener = "open"
         /\ watchdog = "waiting"
         /\ cancelled = FALSE

-----------------------------------------------------------------------------
(* The cameras and the owner of ctx *)

Dial(c) == /\ peer[c] = "none" /\ listener = "open"
           /\ peer' = [peer EXCEPT ![c] = "sending"]
           /\ UNCHANGED <<handler, closed, seen, frames, published, conns, loopVars,
                          listener, watchdog, cancelled>>

\* A camera stops sending without closing, or closes or breaks the connection.
Quiet(c, how) ==
    /\ <<peer[c], how>> \in {<<"sending", "silent">>, <<"sending", "gone">>, <<"silent", "gone">>}
    /\ peer' = [peer EXCEPT ![c] = how]
    /\ UNCHANGED <<handler, closed, seen, frames, published, conns, loopVars,
                   listener, watchdog, cancelled>>

Cancel == /\ ~cancelled
          /\ cancelled' = TRUE
          /\ UNCHANGED <<peer, handler, closed, seen, frames, published, conns, loopVars,
                         listener, watchdog>>

-----------------------------------------------------------------------------
(* The watchdog of ListenAndServe *)

CloseListener ==
    /\ watchdog = "waiting" /\ cancelled
    /\ listener' = "closed"
    /\ watchdog' = "closing"
    /\ UNCHANGED <<peer, handler, closed, seen, frames, published, conns, loopVars, cancelled>>

CloseConns ==
    /\ watchdog = "closing"
    /\ closed' = closed \cup conns
    /\ watchdog' = "done"
    /\ UNCHANGED <<peer, handler, seen, frames, published, conns, loopVars, listener, cancelled>>

-----------------------------------------------------------------------------
(* The accept loop *)

\* Accept succeeds; the failure run is over.
Accept(c) ==
    /\ loop = "accept" /\ listener = "open"
    /\ peer[c] # "none" /\ handler[c] = "none"
    /\ loop' = "register"
    /\ accepted' = c
    /\ failures' = 0
    /\ UNCHANGED <<peer, handler, closed, seen, frames, published, conns,
                   listener, watchdog, cancelled>>

\* The connection goes into conns and gets its goroutine, cancelled or not.
Register ==
    /\ loop = "register"
    /\ conns' = conns \cup {accepted}
    /\ handler' = [handler EXCEPT ![accepted] = "reading"]
    /\ accepted' = None
    /\ loop' = "accept"
    /\ UNCHANGED <<peer, closed, seen, frames, published, failures, listener, watchdog, cancelled>>

\* Accept fails: because the listener is closed, or for want of descriptors.
AcceptFails ==
    /\ loop = "accept"
    /\ IF cancelled
       THEN loop' = "stopping" /\ failures' = failures
       ELSE /\ failures' = failures + 1
            /\ loop' = IF failures + 1 >= MaxFailures THEN "givingUp" ELSE "backoff"
    /\ UNCHANGED <<peer, handler, closed, seen, frames, published, conns, accepted,
                   listener, watchdog, cancelled>>

\* The backoff is over, or is abandoned for the cancellation.
EndBackoff ==
    /\ loop = "backoff"
    /\ \/ loop' = "accept"
       \/ cancelled /\ loop' = "stopping"
    /\ UNCHANGED <<peer, handler, closed, seen, frames, published, conns, accepted,
                   failures, listener, watchdog, cancelled>>

\* Mutant: giving up does not wait for the goroutines.
ReturnAtOnce ==
    /\ \/ loop = "stopping" /\ \A c \in Conns : handler[c] \in {"none", "done"}
          /\ loop' = "returned"
       \/ loop = "givingUp" /\ loop' = "failed"
    /\ listener' = "closed"
    /\ UNCHANGED <<peer, handler, closed, seen, frames, published, conns, accepted,
                   failures, watchdog, cancelled>>

\* wg.Wait, the return, and the deferred listener.Close.
Return ==
    /\ \A c \in Conns : handler[c] \in {"none", "done"}
    /\ \/ loop = "stopping" /\ loop' = "returned"
       \/ loop = "givingUp" /\ loop' = "failed"
    /\ listener' = "closed"
    /\ UNCHANGED <<peer, handler, closed, seen, frames, published, conns, accepted,
                   failures, watchdog, cancelled>>

-----------------------------------------------------------------------------
(* handleConnection *)

\* A whole JPEG frame is read and published.
PublishFrame(c, cam) ==
    /\ handler[c] = "reading" /\ c \notin closed
    /\ peer[c] = "sending"
    /\ frames[c] < MaxFrames
    /\ frames' = [frames EXCEPT ![c] = @ + 1]
    /\ seen' = [seen EXCEPT ![c] = @ \cup {cam}]
    /\ published' = Append(published, FrameOf(c, cam))
    /\ UNCHANGED <<peer, handler, closed, conns, loopVars, listener, watchdog, cancelled>>

\* Mutant: the camera counts as seen before its payload is looked at.
SeenBeforeCheck(c, cam) ==
    /\ handler[c] = "reading" /\ c \notin closed /\ peer[c] = "sending"
    /\ seen' = [seen EXCEPT ![c] = @ \cup {cam}]
    /\ UNCHANGED <<peer, handler, closed, frames, published, conns, loopVars,
                   listener, watchdog, cancelled>>

\* A payload that is not JPEG is dropped before its camera counts as seen.
DropNonJPEG(c, cam) ==
    /\ handler[c] = "reading" /\ c \notin closed
    /\ peer[c] = "sending"
    /\ UNCHANGED svars

\* Mutant: no read deadline.
ReadFailsWithoutDeadline(c) ==
    /\ handler[c] = "reading" /\ (c \in closed \/ peer[c] = "gone")
    /\ handler' = [handler EXCEPT ![c] = "offline"]
    /\ UNCHANGED <<peer, closed, seen, frames, published, conns, loopVars,
                   listener, watchdog, cancelled>>

\* readFrame fails: end of stream, a bad header or size, the read deadline on
\* a silent camera, or the watchdog's close.
ReadFails(c) ==
    /\ handler[c] = "reading"
    /\ handler' = [handler EXCEPT ![c] = "offline"]
    /\ UNCHANGED <<peer, closed, seen, frames, published, conns, loopVars,
                   listener, watchdog, cancelled>>

\* The deferred PublishOffline, for the cameras in any order.
PublishOffline(c, cam) ==
    /\ handler[c] = "offline"
    /\ cam \in seen[c]
    /\ seen' = [seen EXCEPT ![c] = @ \ {cam}]
    /\ published' = Append(published, OfflineOf(c, cam))
    /\ UNCHANGED <<peer, handler, closed, frames, conns, loopVars, listener, watchdog, cancelled>>

CloseConn(c) ==
    /\ handler[c] = "offline"
    /\ seen[c] = {}
    /\ handler' = [handler EXCEPT ![c] = "closing"]
    /\ closed' = closed \cup {c}
    /\ UNCHANGED <<peer, seen, frames, published, conns, loopVars, listener, watchdog, cancelled>>

\* Mutant: the connection stays in conns.
DeregisterForgets(c) ==
    /\ handler[c] = "closing"
    /\ handler' = [handler EXCEPT ![c] = "done"]
    /\ UNCHANGED <<peer, closed, seen, frames, published, conns, loopVars,
                   listener, watchdog, cancelled>>

\* The connection leaves conns under mu, and wg.Done.
Deregister(c) ==
    /\ handler[c] = "closing"
    /\ handler' = [handler EXCEPT ![c] = "done"]
    /\ conns' = conns \ {c}
    /\ UNCHANGED <<peer, closed, seen, frames, published, loopVars, listener, watchdog, cancelled>>

Loop == Register \/ AcceptFails \/ EndBackoff \/ Return \/ \E c \in Conns : Accept(c)
Finish(c) == CloseConn(c) \/ Deregister(c) \/ \E cam \in Cameras : PublishOffline(c, cam)

SNext == \/ Cancel \/ CloseListener \/ CloseConns \/ Loop
         \/ \E c \in Conns :
              \/ Dial(c) \/ ReadFails(c) \/ Finish(c)
              \/ \E how \in {"silent", "gone"} : Quiet(c, how)
              \/ \E cam \in Cameras : PublishFrame(c, cam) \/ DropNonJPEG(c, cam)

SSpec == SInit /\ [][SNext]_svars

\* A read on a connection that is closed, gone, or silent past the deadline
\* fails; a camera that keeps sending is read for ever.
MustFail(c) == c \in closed \/ peer[c] \in {"silent", "gone"}

FairSSpec ==
    /\ SSpec
    /\ WF_svars(CloseListener) /\ WF_svars(CloseConns)
    /\ WF_svars(Register) /\ WF_svars(Return) /\ WF_svars(EndBackoff)
    /\ WF_svars(listener = "closed" /\ AcceptFails)
    /\ \A c \in Conns : WF_svars(Finish(c)) /\ WF_svars(MustFail(c) /\ ReadFails(c))

-----------------------------------------------------------------------------
\* Each connection's handler is at one of its steps, the connection map and the
\* accept loop hold only connections that were accepted, and failures counts the
\* accept errors in a row (the ingest server's accept loop and handlers).
STypeOK ==
    /\ peer \in [Conns -> {"none", "sending", "silent", "gone"}]
    /\ handler \in [Conns -> HandlerStates]
    /\ closed \subseteq Conns /\ conns \subseteq Conns
    /\ seen \in [Conns -> SUBSET Cameras]
    /\ frames \in [Conns -> Nat]
    /\ published \in Seq([kind : {"frame", "offline"}, conn : Conns, camera : Cameras])
    /\ loop \in LoopStates /\ accepted \in Conns \cup {None} /\ failures \in 0..MaxFailures
    /\ listener \in {"open", "closed"}
    /\ watchdog \in {"waiting", "closing", "done"} /\ cancelled \in BOOLEAN

\* What the connection last said about the camera: "offline", "frame", "nothing".
LastWord(c, cam) ==
    LET about == {i \in 1..Len(published) :
                     published[i].conn = c /\ published[i].camera = cam}
    IN  IF about = {} THEN "nothing"
        ELSE published[CHOOSE i \in about : \A j \in about : j <= i].kind

Offlines(c, cam) == Cardinality({i \in 1..Len(published) : published[i] = OfflineOf(c, cam)})

\* A connection that has ended has said OFFLINE exactly once, and last, of
\* every camera it published, and of no other (server.go:157-165): no consumer
\* is left with the picture of a camera whose connection is over, and none is
\* told of a camera that never sent a JPEG.
OfflineClosesEveryCamera ==
    \A c \in Conns, cam \in Cameras :
        /\ Offlines(c, cam) <= 1
        /\ Offlines(c, cam) = 1 => LastWord(c, cam) = "offline" /\ handler[c] # "reading"
                                   /\ FrameOf(c, cam) \in {published[i] : i \in 1..Len(published)}
        /\ handler[c] \in {"closing", "done"} => LastWord(c, cam) # "frame"

\* Once ListenAndServe has returned no goroutine of it publishes any more
\* (wg.Wait, server.go:104-121), so the caller may take the publisher away.
SilentAfterReturn ==
    [][(loop \in {"returned", "failed"}) => UNCHANGED <<published, handler>>]_svars

\* conns holds the connections that are being handled, so that the watchdog
\* closes every one of them.
ConnsAreHandled == conns = {c \in Conns : handler[c] \in {"reading", "offline", "closing"}}

\* The accept loop, the handlers and the watchdog agree on which connections there are, also
\* when a connection is accepted while the server is being cancelled (server.go:74-197).
ServerIsSound == STypeOK /\ ConnsAreHandled

\* After a cancellation ListenAndServe returns, or waits for a camera that
\* keeps sending on a connection the watchdog did not close.
OnlySendersDelayReturn ==
    (cancelled /\ loop # "failed") ~>
        \/ loop \in {"returned", "failed"}
        \/ \E c \in Conns : handler[c] = "reading" /\ ~MustFail(c)

\* The return is not late, and it is the end: ListenAndServe waits for every handler, and
\* no longer than for them (server.go:74-197).
EndsForGood == SilentAfterReturn /\ OnlySendersDelayReturn

\* "returns once ctx is cancelled or the server stops with an error"
\* (app/run.go:15-16): after a cancellation ListenAndServe returns.
ReturnsOnceCancelled == cancelled ~> loop \in {"returned", "failed"}

\* "giving up after a while turns a silent spin into a process exit an
\* operator can see" (server.go:26-27): the failure run ends in the error.
GivingUpExits == loop = "givingUp" ~> loop = "failed"

\* KindOffline "announces that a camera has stopped sending"
\* (frameipc.go:34): when the last word published on a camera is OFFLINE, no
\* connection on which it has sent frames is still sending.
OfflineMeansStopped ==
    \A cam \in Cameras :
        LET about == {i \in 1..Len(published) : published[i].camera = cam}
        IN  about # {} /\ published[CHOOSE i \in about : \A j \in about : j <= i].kind = "offline"
            => \A c \in Conns : ~(handler[c] = "reading" /\ cam \in seen[c] /\ peer[c] = "sending")
=============================================================================
