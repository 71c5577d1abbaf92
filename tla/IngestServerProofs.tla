-------------------------- MODULE IngestServerProofs --------------------------
(***************************************************************************)
(* Theorems about module IngestServer, for any connections and cameras,    *)
(* any number of frames and any order of the accept loop, the handlers,    *)
(* the watchdog and the cancellation.  Three parts follow on what the      *)
(* server is connected to: the consumers of its frames (module IPCFanout), *)
(* the process it forms with their publisher (module Backend), and the     *)
(* streams that frames come and go on (module WireFraming).                *)
(***************************************************************************)
EXTENDS Backend, WireFraming, FiniteSetTheorems, TLAPS

Words == [kind : {"frame", "offline"}, conn : Conns, camera : Cameras]

(***************************************************************************)
(* The accept loop and the handlers.                                       *)
(***************************************************************************)
Accepting == /\ loop \in {"accept", "register", "backoff"} => failures < MaxFailures
             /\ loop = "register" => accepted \in Conns /\ handler[accepted] = "none"
             /\ loop \in {"returned", "failed"} => \A c \in Conns : handler[c] \in {"none", "done"}

ServerInv == STypeOK /\ ConnsAreHandled /\ Accepting

\* What a connection publishes is a word about one of the cameras.
LEMMA Published ==
    ASSUME NEW s \in Seq(Words), NEW c \in Conns, NEW cam \in Cameras
    PROVE  Append(s, FrameOf(c, cam)) \in Seq(Words) /\ Append(s, OfflineOf(c, cam)) \in Seq(Words)
  <1>1. FrameOf(c, cam) \in Words /\ OfflineOf(c, cam) \in Words
    BY DEF FrameOf, OfflineOf, Words
  <1> HIDE DEF Words
  <1> QED BY <1>1

\* A handler moves on: conns follows, and the accept loop has not returned.
LEMMA HandlerMoves ==
    ASSUME ServerInv, NEW c \in Conns, NEW to \in {"offline", "closing", "done"},
           handler[c] \notin {"none", "done"},
           handler' = [handler EXCEPT ![c] = to],
           conns' = IF to = "done" THEN conns \ {c} ELSE conns,
           UNCHANGED loopVars
    PROVE  ConnsAreHandled' /\ Accepting' /\ handler' \in [Conns -> HandlerStates]
  <1>1. handler \in [Conns -> HandlerStates] /\ c \in conns
    BY DEF ServerInv, STypeOK, ConnsAreHandled, HandlerStates
  <1>2. handler' \in [Conns -> HandlerStates] /\ handler'[c] = to
        /\ \A d \in Conns \ {c} : handler'[d] = handler[d]
    BY <1>1 DEF HandlerStates
  <1>3. ConnsAreHandled'
    BY <1>1, <1>2 DEF ServerInv, ConnsAreHandled
  <1>4. Accepting'
    BY <1>1, <1>2 DEF ServerInv, Accepting, loopVars
  <1> QED BY <1>2, <1>3, <1>4

\* A connection accepted while the server is being cancelled is handled and is
\* in conns like any other, and none is forgotten.
LEMMA ServerStep == ASSUME ServerInv, [SNext]_svars PROVE ServerInv'
  <1>t. STypeOK /\ ConnsAreHandled /\ Accepting /\ handler \in [Conns -> HandlerStates]
    BY DEF ServerInv, STypeOK
  <1>p. published \in Seq(Words)
    BY DEF ServerInv, STypeOK, Words
  <1> USE DEF loopVars
  <1>1. CASE Cancel \/ CloseListener
    BY <1>1, <1>t DEF Cancel, CloseListener, ServerInv, STypeOK, ConnsAreHandled, Accepting
  <1>2. CASE CloseConns
    BY <1>2, <1>t DEF CloseConns, ServerInv, STypeOK, ConnsAreHandled, Accepting
  <1>3. ASSUME NEW c \in Conns, Accept(c) PROVE ServerInv'
    <2>1. failures' = 0 /\ failures' \in 0..MaxFailures /\ failures' < MaxFailures
      BY <1>3, IngestAssumption DEF Accept
    <2> QED BY <1>3, <2>1, <1>t DEF Accept, ServerInv, STypeOK, ConnsAreHandled, Accepting, LoopStates
  <1>4. CASE Register
    <2>1. /\ loop = "register" /\ loop' = "accept" /\ accepted' = None
          /\ accepted \in Conns /\ handler[accepted] = "none"
          /\ conns' = conns \cup {accepted}
          /\ handler' = [handler EXCEPT ![accepted] = "reading"]
      BY <1>4, <1>t DEF Register, Accepting
    <2>2. handler' \in [Conns -> HandlerStates] /\ handler'[accepted] = "reading"
          /\ \A d \in Conns \ {accepted} : handler'[d] = handler[d]
      BY <2>1, <1>t DEF HandlerStates
    <2>3. ConnsAreHandled'
      BY <2>1, <2>2, <1>t DEF ConnsAreHandled
    <2>4. Accepting'
      BY <1>4, <2>1, <2>2, <1>t DEF Register, Accepting
    <2>5. STypeOK'
      BY <1>4, <2>1, <2>2, <1>t DEF Register, STypeOK, LoopStates
    <2> QED BY <2>3, <2>4, <2>5 DEF ServerInv
  <1>5. CASE AcceptFails
    <2>1. failures \in 0..MaxFailures /\ failures < MaxFailures /\ loop = "accept"
      BY <1>5, <1>t DEF AcceptFails, STypeOK, Accepting
    <2>2. failures' \in 0..MaxFailures /\ (loop' = "backoff" => failures' < MaxFailures)
      BY <1>5, <2>1, IngestAssumption DEF AcceptFails
    <2>3. loop' \in {"stopping", "givingUp", "backoff"}
      BY <1>5 DEF AcceptFails
    <2>4. STypeOK'
      BY <1>5, <2>2, <2>3, <1>t DEF AcceptFails, STypeOK, LoopStates
    <2>5. ConnsAreHandled' /\ Accepting'
      BY <1>5, <2>2, <2>3, <1>t DEF AcceptFails, ConnsAreHandled, Accepting
    <2> QED BY <2>4, <2>5 DEF ServerInv
  <1>6. CASE EndBackoff
    BY <1>6, <1>t DEF EndBackoff, ServerInv, STypeOK, ConnsAreHandled, Accepting, LoopStates
  <1>7. CASE Return
    BY <1>7, <1>t DEF Return, ServerInv, STypeOK, ConnsAreHandled, Accepting, LoopStates
  <1>8. ASSUME NEW c \in Conns, Dial(c) \/ \E how \in {"silent", "gone"} : Quiet(c, how) PROVE ServerInv'
    <2>1. peer' \in [Conns -> {"none", "sending", "silent", "gone"}]
      BY <1>8, <1>t DEF Dial, Quiet, STypeOK
    <2>2. UNCHANGED <<handler, closed, seen, frames, published, conns, loopVars, watchdog, cancelled, listener>>
      BY <1>8 DEF Dial, Quiet
    <2> QED BY <2>1, <2>2, <1>t DEF ServerInv, STypeOK, ConnsAreHandled, Accepting
  <1>9. ASSUME NEW c \in Conns, NEW cam \in Cameras, PublishFrame(c, cam) PROVE ServerInv'
    <2>1. frames' \in [Conns -> Nat] /\ seen' \in [Conns -> SUBSET Cameras]
      BY <1>9, <1>t DEF PublishFrame, STypeOK
    <2>2. published' \in Seq(Words)
      BY <1>9, <1>p, Published DEF PublishFrame
    <2> QED BY <1>9, <2>1, <2>2, <1>t DEF PublishFrame, ServerInv, STypeOK, ConnsAreHandled, Accepting, Words
  <1>10. ASSUME NEW c \in Conns, NEW cam \in Cameras, PublishOffline(c, cam) PROVE ServerInv'
    <2>1. seen' \in [Conns -> SUBSET Cameras]
      BY <1>10, <1>t DEF PublishOffline, STypeOK
    <2>2. published' \in Seq(Words)
      BY <1>10, <1>p, Published DEF PublishOffline
    <2> QED BY <1>10, <2>1, <2>2, <1>t DEF PublishOffline, ServerInv, STypeOK, ConnsAreHandled, Accepting, Words
  <1>11. ASSUME NEW c \in Conns, ReadFails(c) PROVE ServerInv'
    <2>1. ConnsAreHandled' /\ Accepting' /\ handler' \in [Conns -> HandlerStates]
      BY <1>11, HandlerMoves DEF ReadFails
    <2> QED BY <1>11, <2>1, <1>t DEF ReadFails, ServerInv, STypeOK
  <1>12. ASSUME NEW c \in Conns, CloseConn(c) PROVE ServerInv'
    <2>1. ConnsAreHandled' /\ Accepting' /\ handler' \in [Conns -> HandlerStates]
      BY <1>12, HandlerMoves DEF CloseConn
    <2> QED BY <1>12, <2>1, <1>t DEF CloseConn, ServerInv, STypeOK
  <1>13. ASSUME NEW c \in Conns, Deregister(c) PROVE ServerInv'
    <2>1. ConnsAreHandled' /\ Accepting' /\ handler' \in [Conns -> HandlerStates]
      BY <1>13, HandlerMoves DEF Deregister
    <2> QED BY <1>13, <2>1, <1>t DEF Deregister, ServerInv, STypeOK
  <1>14. ASSUME UNCHANGED svars PROVE ServerInv'
    BY <1>14, <1>t DEF svars, ServerInv, STypeOK, ConnsAreHandled, Accepting
  <1>15. ASSUME NEW c \in Conns, NEW cam \in Cameras, DropNonJPEG(c, cam) PROVE ServerInv'
    BY <1>14, <1>15 DEF DropNonJPEG
  <1> QED BY <1>1, <1>2, <1>3, <1>4, <1>5, <1>6, <1>7, <1>8, <1>9, <1>10, <1>11, <1>12, <1>13, <1>14, <1>15
          DEF SNext, Loop, Finish

LEMMA ServerInit == SInit => ServerInv
  <1> SUFFICES ASSUME SInit PROVE ServerInv
    OBVIOUS
  <1>1. published \in Seq([kind : {"frame", "offline"}, conn : Conns, camera : Cameras])
    BY DEF SInit
  <1>2. failures \in 0..MaxFailures /\ failures < MaxFailures
    BY IngestAssumption DEF SInit
  <1>3. STypeOK
    BY <1>1, <1>2 DEF SInit, STypeOK, HandlerStates, LoopStates
  <1>4. ConnsAreHandled /\ Accepting
    BY <1>2 DEF SInit, ConnsAreHandled, Accepting
  <1> QED BY <1>3, <1>4 DEF ServerInv

LEMMA ServerHolds == SSpec => []ServerInv
  BY ServerInit, ServerStep, PTL DEF SSpec

\* The accept loop, the handlers and the watchdog agree on which connections
\* there are (server.go:74-197).
THEOREM ServerStaysSound == SSpec => []ServerIsSound
  <1>1. ServerInv => ServerIsSound
    BY DEF ServerInv, ServerIsSound
  <1> QED BY <1>1, ServerHolds, PTL

\* Once ListenAndServe has returned none of its goroutines publishes or moves
\* any more (server.go:104-121).
THEOREM ReturnIsSilent == SSpec => SilentAfterReturn
  <1>1. ServerInv /\ [SNext]_svars
          => [(loop \in {"returned", "failed"}) => UNCHANGED <<published, handler>>]_svars
    <2> SUFFICES ASSUME ServerInv, SNext, loop \in {"returned", "failed"}
                 PROVE  UNCHANGED <<published, handler>>
      OBVIOUS
    <2>1. \A c \in Conns : handler[c] \in {"none", "done"}
      BY DEF ServerInv, Accepting
    <2> QED BY <2>1 DEF SNext, Loop, Finish, Cancel, CloseListener, CloseConns, Accept, Register,
                        AcceptFails, EndBackoff, Return, Dial, ReadFails, Quiet, PublishFrame,
                        DropNonJPEG, PublishOffline, CloseConn, Deregister, svars
  <1>2. SSpec => [][SNext]_svars
    BY DEF SSpec
  <1> QED BY <1>1, <1>2, ServerHolds, PTL DEF SilentAfterReturn

(***************************************************************************)
(* What a connection said of a camera: its frames and its OFFLINE, by      *)
(* their places in what was published.                                     *)
(***************************************************************************)
FramesOf(c, cam) == {i \in 1..Len(published) : published[i] = FrameOf(c, cam)}
OfflinesOf(c, cam) == {i \in 1..Len(published) : published[i] = OfflineOf(c, cam)}

\* At most one OFFLINE, after every frame and only where there was one; and a
\* camera is in seenCameraIDs from its first frame to its OFFLINE.
Closes(c, cam) ==
    /\ \A i, j \in OfflinesOf(c, cam) : i = j
    /\ \A i \in OfflinesOf(c, cam), j \in FramesOf(c, cam) : j < i
    /\ OfflinesOf(c, cam) # {} => /\ handler[c] \notin {"none", "reading"}
                                  /\ cam \notin seen[c] /\ FramesOf(c, cam) # {}
    /\ cam \in seen[c] => FramesOf(c, cam) # {}
    /\ FramesOf(c, cam) # {} => cam \in seen[c] \/ OfflinesOf(c, cam) # {}
    /\ handler[c] \in {"none", "closing", "done"} => cam \notin seen[c]

WordsInv == \A c \in Conns, cam \in Cameras : Closes(c, cam)

\* One more word is published, at the end.
LEMMA OneMoreWord ==
    ASSUME published \in Seq(Words), NEW m, published' = Append(published, m)
    PROVE  /\ Len(published) \in Nat
           /\ \A c, cam : /\ FramesOf(c, cam) \subseteq 1..Len(published)
                          /\ OfflinesOf(c, cam) \subseteq 1..Len(published)
           /\ \A c, cam :
                 /\ FramesOf(c, cam)' = FramesOf(c, cam)
                       \cup (IF m = FrameOf(c, cam) THEN {Len(published) + 1} ELSE {})
                 /\ OfflinesOf(c, cam)' = OfflinesOf(c, cam)
                       \cup (IF m = OfflineOf(c, cam) THEN {Len(published) + 1} ELSE {})
  <1>1. Len(published) \in Nat /\ Len(published') = Len(published) + 1
        /\ published'[Len(published) + 1] = m
        /\ \A i \in 1..Len(published) : published'[i] = published[i]
    <2> HIDE DEF Words
    <2> QED OBVIOUS
  <1>2. 1..Len(published') = (1..Len(published)) \cup {Len(published) + 1}
    BY <1>1
  <1>3. ASSUME NEW c, NEW cam
        PROVE  /\ FramesOf(c, cam)' = FramesOf(c, cam)
                       \cup (IF m = FrameOf(c, cam) THEN {Len(published) + 1} ELSE {})
               /\ OfflinesOf(c, cam)' = OfflinesOf(c, cam)
                       \cup (IF m = OfflineOf(c, cam) THEN {Len(published) + 1} ELSE {})
    BY <1>1, <1>2 DEF FramesOf, OfflinesOf, FrameOf, OfflineOf
  <1>4. \A c, cam : /\ FramesOf(c, cam) \subseteq 1..Len(published)
                    /\ OfflinesOf(c, cam) \subseteq 1..Len(published)
    BY DEF FramesOf, OfflinesOf
  <1> QED BY <1>1, <1>3, <1>4

\* A handler that moves on and says nothing has nothing left to say when it
\* closes its connection.
LEMMA NothingSaid ==
    ASSUME WordsInv, UNCHANGED <<published, seen>>, NEW c \in Conns, NEW to \in HandlerStates,
           handler \in [Conns -> HandlerStates], handler' = [handler EXCEPT ![c] = to],
           to # "none", to = "reading" => handler[c] = "none",
           to \in {"closing", "done"} => seen[c] = {}
    PROVE  WordsInv'
  <1>1. handler'[c] = to /\ \A d \in Conns \ {c} : handler'[d] = handler[d]
    OBVIOUS
  <1>2. \A d, cam : FramesOf(d, cam)' = FramesOf(d, cam) /\ OfflinesOf(d, cam)' = OfflinesOf(d, cam)
    BY DEF FramesOf, OfflinesOf
  <1>3. ASSUME NEW d \in Conns, NEW cam \in Cameras PROVE Closes(d, cam)'
    <2>1. Closes(d, cam)
      BY DEF WordsInv
    <2>2. CASE d = c
      BY <1>1, <1>2, <2>1, <2>2 DEF Closes
    <2>3. CASE d # c
      BY <1>1, <1>2, <2>1, <2>3 DEF Closes
    <2> QED BY <2>2, <2>3
  <1> QED BY <1>3 DEF WordsInv

\* The handlers keep what they have to say, whatever else happens.
LEMMA WordsStep == ASSUME ServerInv, WordsInv, [SNext]_svars PROVE WordsInv'
  <1>t. /\ handler \in [Conns -> HandlerStates] /\ seen \in [Conns -> SUBSET Cameras]
        /\ published \in Seq(Words)
    BY DEF ServerInv, STypeOK, Words
  <1> USE DEF loopVars
  <1>1. ASSUME UNCHANGED <<published, seen, handler>> PROVE WordsInv'
    <2>1. \A d, cam : FramesOf(d, cam)' = FramesOf(d, cam) /\ OfflinesOf(d, cam)' = OfflinesOf(d, cam)
      BY <1>1 DEF FramesOf, OfflinesOf
    <2> QED BY <1>1, <2>1 DEF WordsInv, Closes
  <1>2. CASE Cancel \/ CloseListener \/ CloseConns \/ AcceptFails \/ EndBackoff \/ Return \/ UNCHANGED svars
    BY <1>1, <1>2 DEF Cancel, CloseListener, CloseConns, AcceptFails, EndBackoff, Return, svars
  <1>3. ASSUME NEW c \in Conns, \/ Accept(c) \/ Dial(c) \/ \E how \in {"silent", "gone"} : Quiet(c, how)
                                \/ \E cam \in Cameras : DropNonJPEG(c, cam)
        PROVE  WordsInv'
    BY <1>1, <1>3 DEF Accept, Dial, Quiet, DropNonJPEG, svars
  <1>4. CASE Register
    <2>1. /\ accepted \in Conns /\ handler[accepted] = "none" /\ UNCHANGED <<published, seen>>
          /\ handler' = [handler EXCEPT ![accepted] = "reading"]
      BY <1>4 DEF Register, ServerInv, Accepting
    <2> QED BY <2>1, <1>t, NothingSaid DEF HandlerStates
  <1>5. ASSUME NEW c \in Conns, ReadFails(c) PROVE WordsInv'
    <2>1. UNCHANGED <<published, seen>> /\ handler' = [handler EXCEPT ![c] = "offline"]
      BY <1>5 DEF ReadFails
    <2> QED BY <2>1, <1>t, NothingSaid DEF HandlerStates
  <1>6. ASSUME NEW c \in Conns, CloseConn(c) PROVE WordsInv'
    <2>1. UNCHANGED <<published, seen>> /\ handler' = [handler EXCEPT ![c] = "closing"] /\ seen[c] = {}
      BY <1>6 DEF CloseConn
    <2> QED BY <2>1, <1>t, NothingSaid DEF HandlerStates
  <1>7. ASSUME NEW c \in Conns, Deregister(c) PROVE WordsInv'
    <2>1. UNCHANGED <<published, seen>> /\ handler' = [handler EXCEPT ![c] = "done"] /\ handler[c] = "closing"
      BY <1>7 DEF Deregister
    <2>2. seen[c] = {}
      BY <2>1, <1>t DEF WordsInv, Closes
    <2> QED BY <2>1, <2>2, <1>t, NothingSaid DEF HandlerStates
  <1>8. ASSUME NEW c \in Conns, NEW cam \in Cameras, PublishFrame(c, cam) PROVE WordsInv'
    <2> DEFINE n == Len(published) + 1
    <2>1. /\ handler[c] = "reading" /\ handler' = handler
          /\ seen' = [seen EXCEPT ![c] = @ \cup {cam}]
          /\ published' = Append(published, FrameOf(c, cam))
      BY <1>8 DEF PublishFrame
    <2>2. /\ \A d, k : FramesOf(d, k)' = FramesOf(d, k)
                          \cup (IF FrameOf(c, cam) = FrameOf(d, k) THEN {n} ELSE {})
          /\ \A d, k : OfflinesOf(d, k)' = OfflinesOf(d, k)
                          \cup (IF FrameOf(c, cam) = OfflineOf(d, k) THEN {n} ELSE {})
      BY <2>1, <1>t, OneMoreWord
    <2>3. /\ \A d, k : FrameOf(c, cam) # OfflineOf(d, k)
          /\ \A d, k : FrameOf(c, cam) = FrameOf(d, k) <=> c = d /\ cam = k
      BY DEF FrameOf, OfflineOf
    <2>4. ASSUME NEW d \in Conns, NEW k \in Cameras PROVE Closes(d, k)'
      <3>1. Closes(d, k) /\ OfflinesOf(d, k)' = OfflinesOf(d, k)
        BY <2>2, <2>3 DEF WordsInv
      <3>2. CASE d = c /\ k = cam
        <4>1. OfflinesOf(d, k) = {}
          BY <3>1, <3>2, <2>1 DEF Closes
        <4>2. FramesOf(d, k)' # {} /\ k \in seen'[d]
          BY <2>1, <2>2, <2>3, <3>2, <1>t
        <4> QED BY <3>1, <3>2, <4>1, <4>2, <2>1 DEF Closes
      <3>3. CASE ~(d = c /\ k = cam)
        <4>1. FramesOf(d, k)' = FramesOf(d, k) /\ (k \in seen'[d] <=> k \in seen[d])
          BY <2>1, <2>2, <2>3, <3>3, <1>t
        <4> QED BY <3>1, <4>1, <2>1 DEF Closes
      <3> QED BY <3>2, <3>3
    <2> QED BY <2>4 DEF WordsInv
  <1>9. ASSUME NEW c \in Conns, NEW cam \in Cameras, PublishOffline(c, cam) PROVE WordsInv'
    <2> DEFINE n == Len(published) + 1
    <2>1. /\ handler[c] = "offline" /\ handler' = handler /\ cam \in seen[c]
          /\ seen' = [seen EXCEPT ![c] = @ \ {cam}]
          /\ published' = Append(published, OfflineOf(c, cam))
      BY <1>9 DEF PublishOffline
    <2>2. /\ Len(published) \in Nat
          /\ \A d, k : FramesOf(d, k) \subseteq 1..Len(published)
          /\ \A d, k : FramesOf(d, k)' = FramesOf(d, k)
                          \cup (IF OfflineOf(c, cam) = FrameOf(d, k) THEN {n} ELSE {})
          /\ \A d, k : OfflinesOf(d, k)' = OfflinesOf(d, k)
                          \cup (IF OfflineOf(c, cam) = OfflineOf(d, k) THEN {n} ELSE {})
      BY <2>1, <1>t, OneMoreWord
    <2>3. /\ \A d, k : OfflineOf(c, cam) # FrameOf(d, k)
          /\ \A d, k : OfflineOf(c, cam) = OfflineOf(d, k) <=> c = d /\ cam = k
      BY DEF FrameOf, OfflineOf
    <2>4. ASSUME NEW d \in Conns, NEW k \in Cameras PROVE Closes(d, k)'
      <3>1. Closes(d, k) /\ FramesOf(d, k)' = FramesOf(d, k)
        BY <2>2, <2>3 DEF WordsInv
      <3>2. CASE d = c /\ k = cam
        <4>1. OfflinesOf(d, k) = {} /\ FramesOf(d, k) # {}
          BY <3>1, <3>2, <2>1 DEF Closes
        <4>2. OfflinesOf(d, k)' = {n} /\ k \notin seen'[d]
          BY <2>1, <2>2, <2>3, <3>2, <4>1, <1>t
        <4>3. \A j \in FramesOf(d, k) : j < n
          BY <2>2
        <4> QED BY <3>1, <3>2, <4>1, <4>2, <4>3, <2>1 DEF Closes
      <3>3. CASE ~(d = c /\ k = cam)
        <4>1. OfflinesOf(d, k)' = OfflinesOf(d, k) /\ (k \in seen'[d] <=> k \in seen[d])
          BY <2>1, <2>2, <2>3, <3>3, <1>t
        <4> QED BY <3>1, <4>1, <2>1 DEF Closes
      <3> QED BY <3>2, <3>3
    <2> QED BY <2>4 DEF WordsInv
  <1> QED BY <1>2, <1>3, <1>4, <1>5, <1>6, <1>7, <1>8, <1>9 DEF SNext, Loop, Finish

LEMMA WordsInit == SInit => WordsInv
  <1> SUFFICES ASSUME SInit PROVE WordsInv
    OBVIOUS
  <1>1. Len(published) = 0
    BY DEF SInit
  <1>2. \A c, cam : FramesOf(c, cam) = {} /\ OfflinesOf(c, cam) = {}
    BY <1>1 DEF FramesOf, OfflinesOf
  <1> QED BY <1>2 DEF SInit, WordsInv, Closes

\* What a connection says about a camera is a frame or an OFFLINE of it.
LEMMA WordsAbout ==
    ASSUME STypeOK, NEW c \in Conns, NEW cam \in Cameras, NEW j \in 1..Len(published),
           published[j].conn = c, published[j].camera = cam
    PROVE  j \in FramesOf(c, cam) \cup OfflinesOf(c, cam)
  <1>1. published \in Seq(Words)
    BY DEF STypeOK, Words
  <1>2. published[j] \in Words
    <2> HIDE DEF Words
    <2> QED BY <1>1
  <1>3. published[j] = FrameOf(c, cam) \/ published[j] = OfflineOf(c, cam)
    BY <1>2 DEF Words, FrameOf, OfflineOf
  <1> QED BY <1>3 DEF FramesOf, OfflinesOf

\* Where there is an OFFLINE it is the connection's last word on the camera.
LEMMA OfflineIsLast ==
    ASSUME ServerInv, WordsInv, NEW c \in Conns, NEW cam \in Cameras, OfflinesOf(c, cam) # {}
    PROVE  LastWord(c, cam) = "offline"
  <1> DEFINE about == {i \in 1..Len(published) : published[i].conn = c /\ published[i].camera = cam}
  <1>1. PICK i \in OfflinesOf(c, cam) : TRUE
    OBVIOUS
  <1>2. Closes(c, cam) /\ published \in Seq(Words)
    BY DEF WordsInv, ServerInv, STypeOK, Words
  <1>3. i \in about /\ published[i].kind = "offline" /\ i \in Nat
    BY <1>1 DEF OfflinesOf, OfflineOf
  <1>4. \A j \in about : j \in FramesOf(c, cam) \cup OfflinesOf(c, cam) /\ j \in Nat
    BY WordsAbout DEF ServerInv
  <1>5. \A j \in about : j <= i
    BY <1>1, <1>2, <1>3, <1>4 DEF Closes
  <1> DEFINE last == CHOOSE k \in about : \A j \in about : j <= k
  <1>6. last \in about /\ \A j \in about : j <= last
    BY <1>3, <1>5
  <1>7. last = i
    BY <1>3, <1>4, <1>5, <1>6
  <1> QED BY <1>3, <1>7 DEF LastWord

\* A connection that has ended has said OFFLINE once, and last, of every camera
\* it published, and of no other (server.go:157-165).
THEOREM OfflineClosesAll == SSpec => []OfflineClosesEveryCamera
  <1>1. ServerInv /\ WordsInv => OfflineClosesEveryCamera
    <2> SUFFICES ASSUME ServerInv, WordsInv, NEW c \in Conns, NEW cam \in Cameras
                 PROVE  /\ Offlines(c, cam) <= 1
                        /\ Offlines(c, cam) = 1 =>
                              /\ LastWord(c, cam) = "offline" /\ handler[c] # "reading"
                              /\ FrameOf(c, cam) \in {published[i] : i \in 1..Len(published)}
                        /\ handler[c] \in {"closing", "done"} => LastWord(c, cam) # "frame"
      BY DEF OfflineClosesEveryCamera
    <2>1. Closes(c, cam) /\ published \in Seq(Words)
      BY DEF WordsInv, ServerInv, STypeOK, Words
    <2>2. Offlines(c, cam) = Cardinality(OfflinesOf(c, cam))
      BY DEF Offlines, OfflinesOf
    <2>3. CASE OfflinesOf(c, cam) = {}
      <3>1. Offlines(c, cam) = 0
        BY <2>2, <2>3, FS_EmptySet
      <3>2. handler[c] \in {"closing", "done"} => FramesOf(c, cam) = {}
        BY <2>1, <2>3 DEF Closes
      <3>3. handler[c] \in {"closing", "done"} => LastWord(c, cam) = "nothing"
        <4> SUFFICES ASSUME handler[c] \in {"closing", "done"}
                     PROVE  {i \in 1..Len(published) :
                               published[i].conn = c /\ published[i].camera = cam} = {}
          BY DEF LastWord
        <4> QED BY <2>3, <3>2, WordsAbout DEF ServerInv
      <3> QED BY <3>1, <3>3
    <2>4. CASE OfflinesOf(c, cam) # {}
      <3>1. PICK i \in OfflinesOf(c, cam) : OfflinesOf(c, cam) = {i}
        BY <2>1, <2>4 DEF Closes
      <3>2. Offlines(c, cam) = 1
        BY <2>2, <3>1, FS_Singleton
      <3>3. LastWord(c, cam) = "offline" /\ handler[c] # "reading" /\ FramesOf(c, cam) # {}
        BY <2>1, <2>4, OfflineIsLast DEF Closes
      <3> QED BY <3>2, <3>3 DEF FramesOf
    <2> QED BY <2>3, <2>4
  <1> QED BY <1>1, WordsInit, WordsStep, ServerInit, ServerStep, PTL DEF SSpec

-----------------------------------------------------------------------------
(***************************************************************************)
(* The other half of the backend: what was published goes to the consumers *)
(* (module IPCFanout), for any number of connections, cameras and messages *)
(* and queues of any size.                                                 *)
(***************************************************************************)

\* part is what msgs has from the message after from on.
Agrees(msgs, part, from) == \A i \in 1..Len(part) : msgs[from + i] = part[i]

\* The cameras that are sending after the messages after from, up to to.
Shown(msgs, from, to) ==
    {cam \in CameraIds : \E i \in (from + 1)..to :
        /\ msgs[i].camera = cam /\ msgs[i].kind = "frame"
        /\ \A k \in (from + 1)..to : k > i => msgs[k].camera # cam}

\* What the Handler does to the cameras shown.
Hears(v, m) == IF m.kind = "frame" THEN v \cup {m.camera} ELSE v \ {m.camera}

\* A message more at the end, on both sides, or on one, or one less at the beginning.
LEMMA AgreesAppend ==
    ASSUME NEW M, NEW msgs \in Seq(M), NEW part \in Seq(M), NEW m \in M, NEW n \in Nat,
           Agrees(msgs, part, n)
    PROVE  /\ Len(msgs) = n + Len(part) => Agrees(Append(msgs, m), Append(part, m), n)
           /\ Len(msgs) >= n + Len(part) => Agrees(Append(msgs, m), part, n)
           /\ m = msgs[n + Len(part) + 1] => Agrees(msgs, Append(part, m), n)
  <1> DEFINE r == Append(part, m)
             s == Append(msgs, m)
  <1>1. /\ Len(part) \in Nat /\ Len(r) = Len(part) + 1 /\ r[Len(part) + 1] = m
        /\ \A i \in 1..Len(part) : r[i] = part[i]
    OBVIOUS
  <1>2. /\ Len(msgs) \in Nat /\ s[Len(msgs) + 1] = m /\ \A i \in 1..Len(msgs) : s[i] = msgs[i]
    OBVIOUS
  <1> HIDE DEF r, s
  <1>3. \A i \in 1..Len(r) : i \in 1..Len(part) \/ i = Len(part) + 1
    BY <1>1
  <1>4. ASSUME Len(msgs) >= n + Len(part) PROVE Agrees(s, part, n)
    <2>1. \A i \in 1..Len(part) : n + i \in 1..Len(msgs)
      BY <1>1, <1>2, <1>4
    <2> QED BY <1>2, <2>1 DEF Agrees
  <1>5. ASSUME Len(msgs) = n + Len(part) PROVE Agrees(s, r, n)
    <2>1. Agrees(s, part, n)
      BY <1>1, <1>2, <1>4, <1>5
    <2>2. s[n + (Len(part) + 1)] = m
      BY <1>1, <1>2, <1>5
    <2> QED BY <1>1, <1>3, <2>1, <2>2 DEF Agrees
  <1>6. ASSUME m = msgs[n + Len(part) + 1] PROVE Agrees(msgs, r, n)
    <2>1. msgs[n + (Len(part) + 1)] = m
      BY <1>1, <1>6
    <2> QED BY <1>1, <1>3, <2>1 DEF Agrees
  <1> QED BY <1>4, <1>5, <1>6 DEF r, s

\* The first message of a part is the next one.
LEMMA AgreesTail ==
    ASSUME NEW M, NEW part \in Seq(M), part # <<>>, NEW msgs, NEW n \in Nat, Agrees(msgs, part, n)
    PROVE  /\ Head(part) = msgs[n + 1] /\ Head(part) \in M
           /\ Agrees(msgs, Tail(part), n + 1)
           /\ Tail(part) \in Seq(M) /\ Len(part) \in Nat \ {0} /\ Len(Tail(part)) = Len(part) - 1
  <1> DEFINE r == Tail(part)
  <1>1. /\ Len(part) \in Nat \ {0} /\ Len(r) = Len(part) - 1 /\ r \in Seq(M)
        /\ Head(part) = part[1] /\ Head(part) \in M
        /\ \A i \in 1..Len(r) : i + 1 \in 1..Len(part) /\ r[i] = part[i + 1]
    OBVIOUS
  <1> HIDE DEF r
  <1>2. 1 \in 1..Len(part)
    BY <1>1
  <1>3. \A i \in 1..Len(r) : (n + 1) + i = n + (i + 1)
    OBVIOUS
  <1>4. Agrees(msgs, r, n + 1)
    BY <1>1, <1>3 DEF Agrees
  <1>5. Head(part) = msgs[n + 1]
    BY <1>1, <1>2 DEF Agrees
  <1> QED BY <1>1, <1>4, <1>5 DEF r

\* Two parts that follow one another are one.
LEMMA AgreesConcat ==
    ASSUME NEW M, NEW p \in Seq(M), NEW q \in Seq(M), NEW msgs, NEW n \in Nat,
           Agrees(msgs, p, n), Agrees(msgs, q, n + Len(p))
    PROVE  p \o q \in Seq(M) /\ Len(p \o q) = Len(p) + Len(q) /\ Agrees(msgs, p \o q, n)
  <1> DEFINE r == p \o q
  <1>1. /\ Len(p) \in Nat /\ Len(q) \in Nat /\ Len(r) = Len(p) + Len(q) /\ r \in Seq(M)
        /\ \A i \in 1..Len(r) : r[i] = IF i <= Len(p) THEN p[i] ELSE q[i - Len(p)]
    OBVIOUS
  <1> HIDE DEF r
  <1>2. ASSUME NEW i \in 1..Len(r) PROVE msgs[n + i] = r[i]
    <2>1. CASE i <= Len(p)
      <3>1. i \in 1..Len(p) /\ r[i] = p[i]
        BY <1>1, <2>1
      <3> QED BY <3>1 DEF Agrees
    <2>2. CASE ~(i <= Len(p))
      <3>1. i - Len(p) \in 1..Len(q) /\ r[i] = q[i - Len(p)] /\ (n + Len(p)) + (i - Len(p)) = n + i
        BY <1>1, <2>2
      <3>2. msgs[(n + Len(p)) + (i - Len(p))] = q[i - Len(p)]
        BY <3>1 DEF Agrees
      <3> QED BY <3>1, <3>2
    <2> QED BY <2>1, <2>2
  <1> QED BY <1>1, <1>2 DEF Agrees, r

\* What one message more does to the cameras shown.
LEMMA ShownNext ==
    ASSUME NEW msgs \in Seq(IPCMessages), NEW b \in Nat, NEW n \in Nat, b <= n, n + 1 <= Len(msgs)
    PROVE  Shown(msgs, b, n + 1) = Hears(Shown(msgs, b, n), msgs[n + 1])
  <1> DEFINE S == (b + 1)..n
             T == (b + 1)..(n + 1)
  <1>1. T = S \cup {n + 1} /\ n + 1 \notin S /\ (\A i \in S : ~(i > n + 1) /\ n + 1 > i) /\ ~(n + 1 > n + 1)
    OBVIOUS
  <1>2. msgs[n + 1].camera \in CameraIds
    <2>1. n + 1 \in 1..Len(msgs) /\ msgs[n + 1] \in IPCMessages
      OBVIOUS
    <2> QED BY <2>1 DEF IPCMessages
  <1>3. /\ Shown(msgs, b, n) = {cam \in CameraIds : \E i \in S :
               msgs[i].camera = cam /\ msgs[i].kind = "frame" /\ \A k \in S : k > i => msgs[k].camera # cam}
        /\ Shown(msgs, b, n + 1) = {cam \in CameraIds : \E i \in T :
               msgs[i].camera = cam /\ msgs[i].kind = "frame" /\ \A k \in T : k > i => msgs[k].camera # cam}
    BY DEF Shown
  <1> HIDE DEF S, T
  <1>4. ASSUME NEW cam \in CameraIds, cam # msgs[n + 1].camera
        PROVE  cam \in Shown(msgs, b, n + 1) <=> cam \in Shown(msgs, b, n)
    BY <1>1, <1>3, <1>4
  <1>5. msgs[n + 1].camera \in Shown(msgs, b, n + 1) <=> msgs[n + 1].kind = "frame"
    BY <1>1, <1>2, <1>3
  <1>6. Shown(msgs, b, n) \subseteq CameraIds /\ Shown(msgs, b, n + 1) \subseteq CameraIds
    BY <1>3
  <1> QED BY <1>2, <1>4, <1>5, <1>6 DEF Hears

\* A message that comes later changes nothing.
LEMMA ShownLater ==
    ASSUME NEW msgs \in Seq(IPCMessages), NEW m \in IPCMessages, NEW b \in Nat, NEW n \in Nat,
           n <= Len(msgs)
    PROVE  Shown(Append(msgs, m), b, n) = Shown(msgs, b, n)
  <1> DEFINE s == Append(msgs, m)
  <1>1. \A i \in (b + 1)..n : s[i] = msgs[i]
    <2>1. \A i \in 1..Len(msgs) : s[i] = msgs[i]
      OBVIOUS
    <2>2. \A i \in (b + 1)..n : i \in 1..Len(msgs)
      OBVIOUS
    <2> QED BY <2>1, <2>2
  <1> HIDE DEF s
  <1>2. Shown(s, b, n) = Shown(msgs, b, n)
    BY <1>1 DEF Shown
  <1> QED BY <1>2 DEF s

\* What a list of messages, all that came after n, does to the cameras shown then.
LEMMA AfterRest ==
    ASSUME NEW msgs \in Seq(IPCMessages), NEW part \in Seq(IPCMessages), NEW b \in Nat, NEW n \in Nat,
           b <= n, Len(msgs) = n + Len(part), Agrees(msgs, part, n)
    PROVE  After(Shown(msgs, b, n), part) = Shown(msgs, b, Len(msgs))
  <1> DEFINE to == Len(msgs)
             S == (b + 1)..n
             P == 1..Len(part)
             T == (b + 1)..to
  <1>1. Len(part) \in Nat /\ to \in Nat /\ DOMAIN part = P /\ to = n + Len(part)
    OBVIOUS
  <1>2. \A i \in P : n + i \in T /\ n + i \notin S /\ msgs[n + i] = part[i]
    BY <1>1 DEF Agrees
  <1>3. \A i \in T : i \in S \/ (i - n \in P /\ n + (i - n) = i)
    BY <1>1
  <1>4. S \subseteq T
    BY <1>1
  <1>5. \A i \in S, k \in P : n + k > i /\ ~(i > n + k)
    BY <1>1
  <1>6. \A i, k \in P : n + k > n + i <=> k > i
    BY <1>1
  <1>7. /\ Shown(msgs, b, n) = {cam \in CameraIds : \E i \in S :
               msgs[i].camera = cam /\ msgs[i].kind = "frame" /\ \A k \in S : k > i => msgs[k].camera # cam}
        /\ Shown(msgs, b, to) = {cam \in CameraIds : \E i \in T :
               msgs[i].camera = cam /\ msgs[i].kind = "frame" /\ \A k \in T : k > i => msgs[k].camera # cam}
    BY DEF Shown
  <1>8. After(Shown(msgs, b, n), part) =
          {cam \in Shown(msgs, b, n) : \A i \in P : part[i].camera # cam}
            \cup {cam \in CameraIds : \E i \in P :
                    part[i].camera = cam /\ part[i].kind = "frame"
                      /\ \A k \in P : k > i => part[k].camera # cam}
    BY <1>1 DEF After
  <1> HIDE DEF to, S, P, T
  <1>9. ASSUME NEW cam \in Shown(msgs, b, n), \A i \in P : part[i].camera # cam
        PROVE  cam \in Shown(msgs, b, to)
    <2>1. PICK i \in S : msgs[i].camera = cam /\ msgs[i].kind = "frame"
                           /\ \A k \in S : k > i => msgs[k].camera # cam
      BY <1>7
    <2>2. ASSUME NEW k \in T, k > i PROVE msgs[k].camera # cam
      <3>1. CASE k \in S
        BY <2>1, <2>2, <3>1
      <3>2. CASE k - n \in P /\ n + (k - n) = k
        BY <1>2, <1>9, <3>2
      <3> QED BY <1>3, <3>1, <3>2
    <2> QED BY <1>4, <1>7, <2>1, <2>2
  <1>10. ASSUME NEW cam \in CameraIds, NEW i \in P, part[i].camera = cam, part[i].kind = "frame",
                \A k \in P : k > i => part[k].camera # cam
         PROVE  cam \in Shown(msgs, b, to)
    <2>1. n + i \in T /\ msgs[n + i] = part[i]
      BY <1>2
    <2>2. ASSUME NEW k \in T, k > n + i PROVE msgs[k].camera # cam
      <3>1. k \notin S
        BY <1>5, <2>2
      <3>2. k - n \in P /\ n + (k - n) = k
        BY <1>3, <3>1
      <3>3. k - n > i
        BY <1>6, <2>2, <3>2
      <3>4. msgs[n + (k - n)] = part[k - n] /\ part[k - n].camera # cam
        BY <1>2, <1>10, <3>2, <3>3
      <3> QED BY <3>2, <3>4
    <2> QED BY <1>7, <1>10, <2>1, <2>2
  <1>11. ASSUME NEW cam \in Shown(msgs, b, to)
         PROVE  cam \in After(Shown(msgs, b, n), part)
    <2>1. PICK i \in T : msgs[i].camera = cam /\ msgs[i].kind = "frame"
                           /\ \A k \in T : k > i => msgs[k].camera # cam
      BY <1>7
    <2>2. cam \in CameraIds
      BY <1>7
    <2>3. CASE i \in S
      <3>1. cam \in Shown(msgs, b, n)
        BY <1>4, <1>7, <2>1, <2>2, <2>3
      <3>2. \A k \in P : part[k].camera # cam
        BY <1>2, <1>5, <2>1, <2>3
      <3> QED BY <1>8, <3>1, <3>2
    <2>4. CASE i - n \in P /\ n + (i - n) = i
      <3>1. part[i - n] = msgs[i]
        BY <1>2, <2>4
      <3>2. ASSUME NEW k \in P, k > i - n PROVE part[k].camera # cam
        <4>1. n + k > n + (i - n) /\ n + k \in T /\ msgs[n + k] = part[k]
          BY <1>2, <1>6, <2>4, <3>2
        <4> QED BY <2>1, <2>4, <4>1
      <3> QED BY <1>8, <2>1, <2>2, <2>4, <3>1, <3>2
    <2> QED BY <1>3, <2>3, <2>4
  <1>12. Shown(msgs, b, n) \subseteq CameraIds
    BY <1>7
  <1>13. After(Shown(msgs, b, n), part) = Shown(msgs, b, to)
    BY <1>8, <1>9, <1>10, <1>11
  <1> QED BY <1>13 DEF to

\* And what all that came after b does.
LEMMA AfterAll ==
    ASSUME NEW msgs \in Seq(IPCMessages), NEW b \in Nat, b <= Len(msgs)
    PROVE  After({}, SubSeq(msgs, b + 1, Len(msgs))) = Shown(msgs, b, Len(msgs))
  <1> DEFINE part == SubSeq(msgs, b + 1, Len(msgs))
  <1>1. /\ part \in Seq(IPCMessages) /\ Len(part) = Len(msgs) - b
        /\ \A i \in 1..Len(part) : part[i] = msgs[b + i]
    OBVIOUS
  <1> HIDE DEF part
  <1>2. Len(msgs) = b + Len(part) /\ Agrees(msgs, part, b)
    BY <1>1 DEF Agrees
  <1>3. (b + 1)..b = {}
    OBVIOUS
  <1>4. Shown(msgs, b, b) = {}
    BY <1>3 DEF Shown
  <1>5. After(Shown(msgs, b, b), part) = Shown(msgs, b, Len(msgs))
    BY <1>1, <1>2, AfterRest
  <1> QED BY <1>4, <1>5 DEF part

(***************************************************************************)
(* A session on its way: of the messages since b, t have been dispatched   *)
(* and make up the view v; the socket q, the writer's hand (h messages, of *)
(* which w) and the channel c hold the others, in their order.             *)
(***************************************************************************)
Streaming(msgs, b, t, q, h, w, c, v) ==
    /\ Len(msgs) = b + t + Len(q) + h + Len(c)
    /\ Agrees(msgs, q, b + t) /\ Agrees(msgs, c, b + t + Len(q) + h)
    /\ h = 1 => w = msgs[b + t + Len(q) + 1]
    /\ v = Shown(msgs, b, b + t)

\* fanOut, the select of serveConsumer, frameipc.Write and the Handler pass a message on.
LEMMA StreamingSteps ==
    ASSUME NEW msgs \in Seq(IPCMessages), NEW b \in Nat, NEW t \in Nat, NEW q \in Seq(IPCMessages),
           NEW h \in {0, 1}, NEW w, NEW c \in Seq(IPCMessages), NEW v,
           Streaming(msgs, b, t, q, h, w, c, v)
    PROVE  /\ \A m \in IPCMessages : Streaming(Append(msgs, m), b, t, q, h, w, Append(c, m), v)
           /\ c # <<>> /\ h = 0 => Streaming(msgs, b, t, q, 1, Head(c), Tail(c), v)
           /\ h = 1 /\ w \in IPCMessages =>
                \A x : Streaming(msgs, b, t, Append(q, w), 0, x, c, v)
           /\ q # <<>> =>
                Streaming(msgs, b, t + 1, Tail(q), h, w, c, Hears(v, Head(q)))
  <1> DEFINE n == b + t
             k == n + Len(q)
  <1>0. Len(q) \in Nat /\ Len(c) \in Nat /\ n \in Nat /\ k \in Nat /\ b <= n /\ h \in Nat
    OBVIOUS
  <1>1. /\ Len(msgs) = k + h + Len(c) /\ Agrees(msgs, q, n) /\ Agrees(msgs, c, k + h)
        /\ h = 1 => w = msgs[k + 1]
        /\ v = Shown(msgs, b, n)
    BY DEF Streaming
  <1> HIDE DEF n, k
  <1>2. ASSUME NEW m \in IPCMessages
        PROVE  Streaming(Append(msgs, m), b, t, q, h, w, Append(c, m), v)
    <2>1. Len(Append(msgs, m)) = k + h + Len(Append(c, m))
      BY <1>0, <1>1
    <2>2. k = n + Len(q)
      BY DEF k
    <2>3. Len(msgs) >= n + Len(q) /\ Len(msgs) = (k + h) + Len(c) /\ k + h \in Nat
      BY <1>0, <1>1, <2>2
    <2>4. Agrees(Append(msgs, m), q, n)
      BY <1>0, <1>1, <2>3, AgreesAppend
    <2>5. Agrees(Append(msgs, m), Append(c, m), k + h)
      BY <1>1, <2>3, AgreesAppend
    <2>6. h = 1 => w = Append(msgs, m)[k + 1]
      <3>1. h = 1 => k + 1 \in 1..Len(msgs)
        BY <1>0, <1>1
      <3> QED BY <1>1, <3>1
    <2>7. n <= Len(msgs)
      BY <1>0, <2>3
    <2>8. v = Shown(Append(msgs, m), b, n)
      BY <1>0, <1>1, <2>7, ShownLater
    <2> QED BY <2>1, <2>4, <2>5, <2>6, <2>8 DEF Streaming, n, k
  <1>3. ASSUME c # <<>>, h = 0 PROVE Streaming(msgs, b, t, q, 1, Head(c), Tail(c), v)
    <2>1. Agrees(msgs, c, k)
      BY <1>0, <1>1, <1>3
    <2>2. /\ Head(c) = msgs[k + 1] /\ Agrees(msgs, Tail(c), k + 1) /\ Len(c) \in Nat \ {0}
          /\ Len(Tail(c)) = Len(c) - 1
      BY <1>0, <1>3, <2>1, AgreesTail
    <2>3. Len(msgs) = k + 1 + Len(Tail(c))
      BY <1>0, <1>1, <1>3, <2>2
    <2> QED BY <1>1, <2>2, <2>3 DEF Streaming, n, k
  <1>4. ASSUME h = 1, w \in IPCMessages, NEW x PROVE Streaming(msgs, b, t, Append(q, w), 0, x, c, v)
    <2>1. w = msgs[n + Len(q) + 1]
      BY <1>1, <1>4 DEF k
    <2>2. Agrees(msgs, Append(q, w), n)
      BY <1>0, <1>1, <1>4, <2>1, AgreesAppend
    <2>3. Len(Append(q, w)) = Len(q) + 1
      BY <1>4
    <2>4. n + Len(Append(q, w)) + 0 = k + h
      BY <1>0, <1>4, <2>3 DEF k
    <2>5. Len(msgs) = n + Len(Append(q, w)) + 0 + Len(c) /\ Agrees(msgs, c, n + Len(Append(q, w)) + 0)
      BY <1>1, <2>4
    <2> QED BY <1>1, <2>2, <2>5 DEF Streaming, n
  <1>5. ASSUME q # <<>>
        PROVE  Streaming(msgs, b, t + 1, Tail(q), h, w, c, Hears(v, Head(q)))
    <2>1. /\ Head(q) = msgs[n + 1] /\ Agrees(msgs, Tail(q), n + 1)
          /\ Len(Tail(q)) = Len(q) - 1 /\ Len(q) \in Nat \ {0}
      BY <1>0, <1>1, <1>5, AgreesTail
    <2>2. b + (t + 1) = n + 1 /\ (n + 1) + Len(Tail(q)) = k
      BY <1>0, <2>1 DEF n, k
    <2>3. n + 1 <= Len(msgs)
      BY <1>0, <1>1, <2>1, <2>2
    <2>4. Shown(msgs, b, n + 1) = Hears(v, Head(q))
      <3>1. Shown(msgs, b, n + 1) = Hears(Shown(msgs, b, n), msgs[n + 1])
        BY <1>0, <2>3, ShownNext, Zenon
      <3>2. Head(q) = msgs[n + 1] /\ v = Shown(msgs, b, n)
        BY <1>1, <2>1
      <3> QED BY <3>1, <3>2
    <2> QED BY <1>1, <2>1, <2>2, <2>4 DEF Streaming
  <1> QED BY <1>2, <1>3, <1>4, <1>5

Hands(s) == IF server[s] = "writing" THEN 1 ELSE 0

QueuesTyped == ch \in [Sessions -> Seq(IPCMessages)] /\ sock \in [Sessions -> Seq(IPCMessages)]

Linked ==
    /\ client = "reading" => session \in Sessions /\ open \subseteq {session}
    /\ client # "reading" => open = {}
    /\ client \in {"dialing", "waiting"} => session = NoSession
    /\ \A s \in Sessions :
          /\ s \in consumers => server[s] \in {"serving", "writing", "closing", "leaving"}
          /\ server[s] \in {"none", "backlog", "accepted"} => ch[s] = <<>> /\ sock[s] = <<>>
          /\ server[s] = "writing" => writing[s] \in IPCMessages
    /\ client = "reading" => server[session] # "none"
    /\ client = "reading" /\ server[session] \in {"backlog", "accepted"} => told = 0

InStep == client = "reading" /\ session \in consumers /\ session \in open /\ session \notin lossy =>
    Streaming(fanned, base[session], told, sock[session], Hands(session), writing[session],
              ch[session], view)

ViewInv == ITypeOK /\ QueuesTyped /\ Linked /\ NothingShownUnconnected /\ InStep

LEMMA ViewInit == ASSUME IInit PROVE ViewInv
  <1>1. NoMessage \notin IPCMessages
    BY DEF NoMessage, IPCMessages
  <1> QED BY IPCAssumption DEF IInit, ViewInv, ITypeOK, QueuesTyped, Linked, InStep,
              NothingShownUnconnected, ServerStates

\* The queues keep to their bounds, and every variable to its values.
LEMMA ViewTyped == ASSUME ViewInv, [INext]_ivars
                   PROVE  ITypeOK' /\ QueuesTyped'
  <1>t. ITypeOK /\ QueuesTyped /\ Linked
    BY DEF ViewInv
  <1> USE DEF ITypeOK, QueuesTyped, serverVars, clientVars
  <1>1. ASSUME NEW msg \in IPCMessages, FanOut(msg) PROVE ITypeOK' /\ QueuesTyped'
    <2>1. \A s \in Sessions : /\ Append(ch[s], msg) \in Seq(IPCMessages)
                              /\ Len(Append(ch[s], msg)) = Len(ch[s]) + 1 /\ Len(ch[s]) \in Nat
      BY <1>t
    <2>2. fanned' \in Seq(IPCMessages)
      BY <1>t, <1>1 DEF FanOut
    <2>3. ch' \in [Sessions -> Seq(IPCMessages)]
      BY <1>t, <1>1, <2>1 DEF FanOut
    <2>4. \A s \in Sessions : Len(ch'[s]) <= ChanCap
      BY <1>t, <1>1, <2>1, IPCAssumption DEF FanOut
    <2> QED BY <1>t, <1>1, <2>2, <2>3, <2>4 DEF FanOut
  <1>2. CASE CancelBackend
    BY <1>2, <1>t DEF CancelBackend
  <1>3. CASE Sweep
    BY <1>3, <1>t DEF Sweep
  <1>4. CASE Exit
    BY <1>4, <1>t, IPCAssumption DEF Exit, ServerStates
  <1>5. CASE Restart
    BY <1>5, <1>t, IPCAssumption DEF Restart
  <1>6. ASSUME NEW s \in Sessions, AcceptConsumer(s) \/ TakeCancel(s) \/ Leave(s)
        PROVE  ITypeOK' /\ QueuesTyped'
    BY <1>6, <1>t DEF AcceptConsumer, TakeCancel, Leave, ServerStates
  <1>7. ASSUME NEW s \in Sessions, RegisterConsumer(s) PROVE ITypeOK' /\ QueuesTyped'
    BY <1>7, <1>t DEF RegisterConsumer, ServerStates
  <1>8. ASSUME NEW s \in Sessions, Take(s) PROVE ITypeOK' /\ QueuesTyped'
    <2> DEFINE c == ch[s]
    <2>1. c \in Seq(IPCMessages) /\ c # <<>> /\ Len(c) <= ChanCap
      BY <1>8, <1>t DEF Take
    <2>2. /\ ch' = [ch EXCEPT ![s] = Tail(c)] /\ writing' = [writing EXCEPT ![s] = Head(c)]
      BY <1>8, <1>t DEF Take
    <2> HIDE DEF c
    <2>3. /\ Head(c) \in IPCMessages /\ Tail(c) \in Seq(IPCMessages) /\ Len(Tail(c)) <= ChanCap
      BY <2>1, IPCAssumption
    <2>4. writing' \in [Sessions -> IPCMessages \cup {NoMessage}]
      BY <1>t, <2>2, <2>3
    <2>5. ch' \in [Sessions -> Seq(IPCMessages)] /\ \A t \in Sessions : Len(ch'[t]) <= ChanCap
      BY <1>t, <2>2, <2>3
    <2> QED BY <1>8, <1>t, <2>4, <2>5 DEF Take, ServerStates
  <1>9. ASSUME NEW s \in Sessions, Write(s) PROVE ITypeOK' /\ QueuesTyped'
    <2> DEFINE q == sock[s]
               w == writing[s]
    <2>1. q \in Seq(IPCMessages) /\ Len(q) <= SockCap /\ w \in IPCMessages
      BY <1>9, <1>t DEF Write, Linked
    <2>2. (s \in open /\ Len(q) < SockCap /\ sock' = [sock EXCEPT ![s] = Append(q, w)]) \/ sock' = sock
      BY <1>9, <1>t DEF Write
    <2> HIDE DEF q, w
    <2>3. /\ Append(q, w) \in Seq(IPCMessages) /\ Len(Append(q, w)) = Len(q) + 1 /\ Len(q) \in Nat
      BY <2>1
    <2>6. Len(q) < SockCap => Len(Append(q, w)) <= SockCap
      BY <2>3, IPCAssumption
    <2>4. sock' \in [Sessions -> Seq(IPCMessages)] /\ \A t \in Sessions : Len(sock'[t]) <= SockCap
      <3>1. CASE sock' = sock
        BY <1>t, <3>1
      <3>2. CASE Len(q) < SockCap /\ sock' = [sock EXCEPT ![s] = Append(q, w)]
        BY <1>t, <2>3, <2>6, <3>2
      <3> QED BY <2>2, <3>1, <3>2
    <2>5. server' \in [Sessions -> ServerStates]
          /\ writing' \in [Sessions -> IPCMessages \cup {NoMessage}]
      BY <1>9, <1>t DEF Write, ServerStates
    <2> QED BY <1>9, <1>t, <2>4, <2>5 DEF Write
  <1>10. ASSUME NEW s \in Sessions, DialBackend(s) PROVE ITypeOK' /\ QueuesTyped'
    BY <1>10, <1>t DEF DialBackend, ServerStates
  <1>11. CASE DialFails \/ ReadEnds \/ Disconnect \/ Redial
    BY <1>11, <1>t DEF DialFails, ReadEnds, Disconnect, Redial
  <1>12. CASE Dispatch
    <2> DEFINE q == sock[session]
    <2>1. session \in Sessions /\ q \in Seq(IPCMessages) /\ q # <<>> /\ Len(q) <= SockCap
      BY <1>12, <1>t DEF Dispatch, Linked
    <2>2. sock' = [sock EXCEPT ![session] = Tail(q)]
      BY <1>12, <1>t DEF Dispatch
    <2>3. view' \subseteq view \cup {Head(q).camera} /\ told' = told + 1
      BY <1>12 DEF Dispatch
    <2> HIDE DEF q
    <2>4. /\ Head(q) \in IPCMessages /\ Tail(q) \in Seq(IPCMessages) /\ Len(Tail(q)) <= SockCap
      BY <2>1, IPCAssumption
    <2>5. view' \subseteq CameraIds
      BY <1>t, <2>3, <2>4 DEF IPCMessages
    <2>6. sock' \in [Sessions -> Seq(IPCMessages)] /\ \A t \in Sessions : Len(sock'[t]) <= SockCap
      BY <1>t, <2>1, <2>2, <2>4
    <2> QED BY <1>12, <1>t, <2>3, <2>5, <2>6 DEF Dispatch
  <1>13. CASE UNCHANGED ivars
    BY <1>13, <1>t DEF ivars
  <1> QED BY <1>1, <1>2, <1>3, <1>4, <1>5, <1>6, <1>7, <1>8, <1>9, <1>10, <1>11, <1>12, <1>13
          DEF INext, Serve, Consume

\* Only the session the client reads is open, what has not been registered carries nothing,
\* and nothing is shown before the first message of a session.
LEMMA ViewLinked == ASSUME ViewInv, [INext]_ivars
                    PROVE  Linked' /\ NothingShownUnconnected'
  <1>t. /\ ITypeOK /\ QueuesTyped /\ Linked /\ NothingShownUnconnected
        /\ server \in [Sessions -> ServerStates] /\ told \in Nat
        /\ ch \in [Sessions -> Seq(IPCMessages)] /\ sock \in [Sessions -> Seq(IPCMessages)]
        /\ writing \in [Sessions -> IPCMessages \cup {NoMessage}]
        /\ consumers \subseteq Sessions
    BY DEF ViewInv, ITypeOK, QueuesTyped
  <1> USE DEF serverVars, clientVars, Linked, NothingShownUnconnected
  <1>1. ASSUME NEW msg \in IPCMessages, FanOut(msg) PROVE Linked' /\ NothingShownUnconnected'
    <2>1. \A s \in Sessions : s \notin consumers => ch'[s] = ch[s]
      BY <1>t, <1>1 DEF FanOut
    <2> QED BY <1>t, <1>1, <2>1 DEF FanOut
  <1>2. CASE CancelBackend
    BY <1>2, <1>t DEF CancelBackend
  <1>3. CASE Sweep
    BY <1>3, <1>t DEF Sweep
  <1>4. CASE Exit
    BY <1>4, <1>t DEF Exit
  <1>5. CASE Restart
    BY <1>5, <1>t DEF Restart
  <1>6. ASSUME NEW s \in Sessions, AcceptConsumer(s) \/ TakeCancel(s) \/ Leave(s)
        PROVE  Linked' /\ NothingShownUnconnected'
    BY <1>6, <1>t DEF AcceptConsumer, TakeCancel, Leave
  <1>7. ASSUME NEW s \in Sessions, RegisterConsumer(s) PROVE Linked' /\ NothingShownUnconnected'
    BY <1>7, <1>t DEF RegisterConsumer
  <1>8. ASSUME NEW s \in Sessions, Take(s) PROVE Linked' /\ NothingShownUnconnected'
    <2> DEFINE c == ch[s]
    <2>1. c \in Seq(IPCMessages) /\ c # <<>>
      BY <1>8, <1>t DEF Take
    <2>2. /\ ch' = [ch EXCEPT ![s] = Tail(c)] /\ writing' = [writing EXCEPT ![s] = Head(c)]
          /\ server' = [server EXCEPT ![s] = "writing"] /\ server[s] = "serving"
          /\ UNCHANGED <<consumers, sock, open, client, session, view, told>>
      BY <1>8, <1>t DEF Take
    <2> HIDE DEF c
    <2>3. Head(c) \in IPCMessages
      BY <2>1
    <2> QED BY <1>t, <2>2, <2>3
  <1>9. ASSUME NEW s \in Sessions, Write(s) PROVE Linked' /\ NothingShownUnconnected'
    BY <1>9, <1>t DEF Write
  <1>10. ASSUME NEW s \in Sessions, DialBackend(s) PROVE Linked' /\ NothingShownUnconnected'
    BY <1>10, <1>t DEF DialBackend
  <1>11. CASE DialFails \/ Disconnect \/ Redial
    BY <1>11, <1>t DEF DialFails, Disconnect, Redial
  <1>12. CASE ReadEnds
    BY <1>12, <1>t DEF ReadEnds
  <1>13. CASE Dispatch
    <2>1. session \in Sessions /\ sock[session] # <<>> /\ told' = told + 1 /\ told' # 0
          /\ client = "reading" /\ UNCHANGED <<consumers, ch, server, writing, open, client, session>>
      BY <1>13, <1>t DEF Dispatch
    <2>2. \A s \in Sessions : s # session => sock'[s] = sock[s]
      BY <1>13, <1>t DEF Dispatch
    <2>3. server[session] \notin {"none", "backlog", "accepted"}
      BY <1>t, <2>1
    <2> QED BY <1>t, <2>1, <2>2, <2>3
  <1>14. CASE UNCHANGED ivars
    BY <1>14, <1>t DEF ivars
  <1> QED BY <1>1, <1>2, <1>3, <1>4, <1>5, <1>6, <1>7, <1>8, <1>9, <1>10, <1>11, <1>12, <1>13, <1>14
          DEF INext, Serve, Consume

\* The session that is being read has all of what was published since it was registered, and
\* each step takes it on.
Live == client = "reading" /\ session \in consumers /\ session \in open /\ session \notin lossy

LEMMA LiveSteps ==
    ASSUME ViewInv, Live
    PROVE  /\ session \in Sessions
           /\ Streaming(fanned, base[session], told, sock[session], Hands(session),
                        writing[session], ch[session], view)
           /\ \A m \in IPCMessages :
                Streaming(Append(fanned, m), base[session], told, sock[session], Hands(session),
                          writing[session], Append(ch[session], m), view)
           /\ ch[session] # <<>> /\ Hands(session) = 0 =>
                Streaming(fanned, base[session], told, sock[session], 1, Head(ch[session]),
                          Tail(ch[session]), view)
           /\ Hands(session) = 1 /\ writing[session] \in IPCMessages =>
                \A x : Streaming(fanned, base[session], told, Append(sock[session], writing[session]), 0, x,
                                 ch[session], view)
           /\ sock[session] # <<>> =>
                Streaming(fanned, base[session], told + 1, Tail(sock[session]), Hands(session),
                          writing[session], ch[session],
                          Hears(view, Head(sock[session])))
  <1>1. /\ session \in Sessions /\ fanned \in Seq(IPCMessages) /\ told \in Nat /\ base[session] \in Nat
        /\ sock[session] \in Seq(IPCMessages) /\ ch[session] \in Seq(IPCMessages)
    BY DEF ViewInv, ITypeOK, QueuesTyped, Linked, Live
  <1>2. Hands(session) \in {0, 1}
    BY DEF Hands
  <1>3. Streaming(fanned, base[session], told, sock[session], Hands(session), writing[session],
                  ch[session], view)
    BY DEF ViewInv, InStep, Live
  <1> DEFINE b == base[session]
             q == sock[session]
             c == ch[session]
             h == Hands(session)
             w == writing[session]
  <1>4. /\ b \in Nat /\ q \in Seq(IPCMessages) /\ c \in Seq(IPCMessages) /\ h \in {0, 1}
        /\ Streaming(fanned, b, told, q, h, w, c, view)
    BY <1>1, <1>2, <1>3
  <1> HIDE DEF b, q, c, h, w
  <1>m. fanned \in Seq(IPCMessages) /\ told \in Nat
    BY <1>1
  <1>5. \A m \in IPCMessages : Streaming(Append(fanned, m), b, told, q, h, w, Append(c, m), view)
    BY <1>m, <1>4, StreamingSteps, ZenonT(30)
  <1>6. c # <<>> /\ h = 0 => Streaming(fanned, b, told, q, 1, Head(c), Tail(c), view)
    BY <1>m, <1>4, StreamingSteps, ZenonT(30)
  <1>7. h = 1 /\ w \in IPCMessages => \A x : Streaming(fanned, b, told, Append(q, w), 0, x, c, view)
    BY <1>m, <1>4, StreamingSteps, ZenonT(30)
  <1>8. q # <<>> =>
          Streaming(fanned, b, told + 1, Tail(q), h, w, c,
                    Hears(view, Head(q)))
    BY <1>m, <1>4, StreamingSteps, ZenonT(30)
  <1> QED BY <1>1, <1>4, <1>5, <1>6, <1>7, <1>8, Zenon DEF b, q, c, h, w

\* Whatever the backend and the client do, the session they share carries the rest of what was
\* published since it was registered.
LEMMA ViewInStep == ASSUME ViewInv, [INext]_ivars PROVE InStep'
  <1>t. /\ Linked /\ NothingShownUnconnected
        /\ server \in [Sessions -> ServerStates] /\ told \in Nat /\ base \in [Sessions -> Nat]
        /\ ch \in [Sessions -> Seq(IPCMessages)] /\ sock \in [Sessions -> Seq(IPCMessages)]
        /\ writing \in [Sessions -> IPCMessages \cup {NoMessage}]
        /\ consumers \subseteq Sessions /\ fanned \in Seq(IPCMessages)
    BY DEF ViewInv, ITypeOK, QueuesTyped
  <1>n. Live => Streaming(fanned, base[session], told, sock[session], Hands(session),
                          writing[session], ch[session], view)
    BY LiveSteps
  <1> SUFFICES ASSUME Live'
               PROVE  Streaming(fanned, base[session], told, sock[session], Hands(session),
                                writing[session], ch[session], view)'
    BY DEF InStep, Live
  <1> DEFINE Goal == Streaming(fanned, base[session], told, sock[session], Hands(session),
                               writing[session], ch[session], view)'
  <1> USE DEF serverVars, clientVars
  <1>1. ASSUME NEW msg \in IPCMessages, FanOut(msg) PROVE Goal
    <2>1. /\ fanned' = Append(fanned, msg) /\ lossy' = lossy \cup {s \in consumers : Len(ch[s]) >= ChanCap}
          /\ ch' = [s \in Sessions |-> IF s \in consumers /\ Len(ch[s]) < ChanCap
                                       THEN Append(ch[s], msg) ELSE ch[s]]
          /\ UNCHANGED <<consumers, server, writing, base, sock, open, client, session, view, told>>
      BY <1>1 DEF FanOut
    <2>2. session \in consumers /\ session \in Sessions /\ Live /\ ~(Len(ch[session]) >= ChanCap)
      BY <1>t, <2>1 DEF Live
    <2>3. Len(ch[session]) \in Nat /\ ChanCap \in Nat
      BY <1>t, <2>2, IPCAssumption
    <2>4. Len(ch[session]) < ChanCap
      BY <2>2, <2>3
    <2>5. ch'[session] = Append(ch[session], msg)
      BY <2>1, <2>2, <2>4
    <2>6. Streaming(Append(fanned, msg), base[session], told, sock[session], Hands(session),
                    writing[session], Append(ch[session], msg), view)
      BY <2>2, LiveSteps
    <2> QED BY <2>1, <2>5, <2>6 DEF Hands
  <1>2. CASE CancelBackend \/ Restart \/ UNCHANGED ivars
    BY <1>2, <1>n DEF CancelBackend, Restart, ivars, Live, Hands
  <1>3. CASE Sweep
    BY <1>3, <1>n DEF Sweep, Live, Hands
  <1>4. CASE Exit
    BY <1>4 DEF Exit, Live
  <1>5. ASSUME NEW s \in Sessions, AcceptConsumer(s) PROVE Goal
    <2>1. /\ server[s] = "backlog" /\ server' = [server EXCEPT ![s] = "accepted"]
          /\ UNCHANGED <<fanned, consumers, ch, writing, base, lossy, sock, open, client, session, view, told>>
      BY <1>5 DEF AcceptConsumer
    <2>2. session \in Sessions /\ session # s /\ Live
      BY <1>t, <2>1 DEF Live, Linked
    <2>3. Hands(session)' = Hands(session)
      BY <1>t, <2>1, <2>2 DEF Hands
    <2> QED BY <1>n, <2>1, <2>2, <2>3
  <1>6. ASSUME NEW s \in Sessions, RegisterConsumer(s) PROVE Goal
    <2>1. /\ server[s] = "accepted" /\ server' = [server EXCEPT ![s] = "serving"]
          /\ consumers' = consumers \cup {s} /\ base' = [base EXCEPT ![s] = Len(fanned)]
          /\ UNCHANGED <<fanned, ch, writing, lossy, sock, open, client, session, view, told>>
      BY <1>6 DEF RegisterConsumer
    <2>2. CASE session # s
      <3>1. session \in Sessions /\ Live
        BY <1>t, <2>1, <2>2 DEF Live
      <3>2. Hands(session)' = Hands(session) /\ base'[session] = base[session]
        BY <1>t, <2>1, <2>2, <3>1 DEF Hands
      <3> QED BY <1>n, <2>1, <3>1, <3>2
    <2>3. CASE session = s
      <3>1. /\ told = 0 /\ view = {} /\ ch[s] = <<>> /\ sock[s] = <<>> /\ base'[s] = Len(fanned)
            /\ Hands(s)' = 0
        BY <1>t, <2>1, <2>3 DEF Live, Linked, NothingShownUnconnected, Hands
      <3>2. Len(fanned) \in Nat
        BY <1>t
      <3>3. Streaming(fanned, Len(fanned), 0, <<>>, 0, writing[s], <<>>, {})
        <4>1. (Len(fanned) + 1)..(Len(fanned) + 0) = {} /\ Len(<<>>) = 0
              /\ Len(fanned) = Len(fanned) + 0 + 0 + 0 + 0
          BY <3>2
        <4>2. Shown(fanned, Len(fanned), Len(fanned) + 0) = {}
          BY <4>1 DEF Shown
        <4> QED BY <4>1, <4>2 DEF Streaming, Agrees
      <3> QED BY <2>1, <2>3, <3>1, <3>3
    <2> QED BY <2>2, <2>3
  <1>7. ASSUME NEW s \in Sessions, Take(s) PROVE Goal
    <2>1. /\ server[s] = "serving" /\ ch[s] # <<>> /\ server' = [server EXCEPT ![s] = "writing"]
          /\ writing' = [writing EXCEPT ![s] = Head(ch[s])] /\ ch' = [ch EXCEPT ![s] = Tail(ch[s])]
          /\ UNCHANGED <<fanned, consumers, base, lossy, sock, open, client, session, view, told>>
      BY <1>7 DEF Take
    <2>2. session \in Sessions /\ Live
      BY <1>t, <2>1 DEF Live
    <2>3. CASE session # s
      <3>1. Hands(session)' = Hands(session) /\ ch'[session] = ch[session]
            /\ writing'[session] = writing[session]
        BY <1>t, <2>1, <2>2, <2>3 DEF Hands
      <3> QED BY <1>n, <2>1, <2>2, <3>1
    <2>4. CASE session = s
      <3>1. Hands(session)' = 1 /\ ch'[session] = Tail(ch[session]) /\ Hands(session) = 0
            /\ writing'[session] = Head(ch[session])
        BY <1>t, <2>1, <2>2, <2>4 DEF Hands
      <3>2. Streaming(fanned, base[session], told, sock[session], 1, Head(ch[session]),
                      Tail(ch[session]), view)
        BY <2>1, <2>2, <2>4, <3>1, LiveSteps
      <3> QED BY <2>1, <3>1, <3>2
    <2> QED BY <2>3, <2>4
  <1>8. ASSUME NEW s \in Sessions, TakeCancel(s) PROVE Goal
    <2>1. /\ server[s] = "serving" /\ server' = [server EXCEPT ![s] = "closing"]
          /\ UNCHANGED <<fanned, consumers, ch, writing, base, lossy, sock, open, client, session, view, told>>
      BY <1>8 DEF TakeCancel
    <2>2. Hands(session)' = Hands(session) /\ Live
      BY <1>t, <2>1 DEF Live, Hands
    <2> QED BY <1>n, <2>1, <2>2
  <1>9. ASSUME NEW s \in Sessions, Write(s) PROVE Goal
    <2>1. /\ server[s] = "writing" /\ writing' = [writing EXCEPT ![s] = NoMessage]
          /\ UNCHANGED <<fanned, consumers, ch, base, lossy, open, client, session, view, told>>
      BY <1>9 DEF Write
    <2>2. session \in Sessions /\ Live
      BY <1>t, <2>1 DEF Live
    <2>3. CASE session # s
      <3>1. Hands(session)' = Hands(session) /\ sock'[session] = sock[session]
            /\ writing'[session] = writing[session]
        BY <1>9, <1>t, <2>1, <2>2, <2>3 DEF Hands, Write
      <3> QED BY <1>n, <2>1, <2>2, <3>1
    <2>4. CASE session = s
      <3>1. s \in open /\ sock' = [sock EXCEPT ![s] = Append(sock[s], writing[s])]
            /\ server' = [server EXCEPT ![s] = "serving"]
        BY <1>9, <2>2, <2>4 DEF Write, Live
      <3>2. /\ sock'[session] = Append(sock[session], writing[session])
            /\ Hands(session)' = 0 /\ Hands(session) = 1 /\ writing[session] \in IPCMessages
        BY <1>t, <2>1, <2>4, <3>1 DEF Hands, Linked
      <3>3. \A x : Streaming(fanned, base[session], told, Append(sock[session], writing[session]), 0, x,
                             ch[session], view)
        BY <2>2, <3>2, LiveSteps
      <3> QED BY <2>1, <3>2, <3>3
    <2> QED BY <2>3, <2>4
  <1>10. ASSUME NEW s \in Sessions, Leave(s) PROVE Goal
    <2>1. /\ \/ server[s] = "closing" /\ server' = [server EXCEPT ![s] = "leaving"]
                /\ open' = open \ {s} /\ consumers' = consumers
             \/ server[s] = "leaving" /\ server' = [server EXCEPT ![s] = "done"]
                /\ consumers' = consumers \ {s} /\ open' = open
          /\ UNCHANGED <<fanned, ch, writing, base, lossy, sock, client, session, view, told>>
      BY <1>10 DEF Leave
    <2>2. session # s /\ Live
      BY <2>1 DEF Live
    <2>3. Hands(session)' = Hands(session)
      BY <1>t, <2>1, <2>2 DEF Hands, Live
    <2> QED BY <1>n, <2>1, <2>2, <2>3
  <1>11. ASSUME NEW s \in Sessions, DialBackend(s) PROVE Goal
    BY <1>11, <1>t DEF DialBackend, Live, Linked
  <1>12. CASE DialFails \/ ReadEnds \/ Disconnect \/ Redial
    BY <1>12 DEF DialFails, ReadEnds, Disconnect, Redial, Live
  <1>13. CASE Dispatch
    <2>1. /\ sock[session] # <<>> /\ sock' = [sock EXCEPT ![session] = Tail(sock[session])]
          /\ view' = Hears(view, Head(sock[session]))
          /\ told' = told + 1
          /\ UNCHANGED <<fanned, consumers, ch, server, writing, base, lossy, open, client, session>>
      BY <1>13 DEF Dispatch, Hears
    <2>2. session \in Sessions /\ Live
      BY <1>t, <2>1 DEF Live
    <2>3. sock'[session] = Tail(sock[session]) /\ Hands(session)' = Hands(session)
      BY <1>t, <2>1, <2>2 DEF Hands
    <2>4. Streaming(fanned, base[session], told + 1, Tail(sock[session]), Hands(session),
                    writing[session], ch[session],
                    Hears(view, Head(sock[session])))
      BY <2>1, <2>2, LiveSteps
    <2> QED BY <2>1, <2>3, <2>4, Zenon
  <1> QED BY <1>1, <1>2, <1>3, <1>4, <1>5, <1>6, <1>7, <1>8, <1>9, <1>10, <1>11, <1>12, <1>13
          DEF INext, Serve, Consume

\* What is on its way makes the view what the cameras are: nothing has been lost, doubled or
\* reordered.
LEMMA LiveShows ==
    ASSUME ViewInv, Live
    PROVE  /\ After(view, InFlight(session)) = Shown(fanned, base[session], Len(fanned))
           /\ After({}, SubSeq(fanned, base[session] + 1, Len(fanned)))
                = Shown(fanned, base[session], Len(fanned))
           /\ base[session] <= Len(fanned)
  <1> DEFINE b == base[session]
             n == b + told
             q == sock[session]
             c == ch[session]
             w == writing[session]
             h == Hands(session)
             hand == InHand(session)
  <1>1. /\ session \in Sessions /\ fanned \in Seq(IPCMessages) /\ told \in Nat /\ b \in Nat
        /\ q \in Seq(IPCMessages) /\ c \in Seq(IPCMessages)
    BY DEF ViewInv, ITypeOK, QueuesTyped, Linked, Live
  <1>2. /\ hand = IF h = 1 THEN <<w>> ELSE <<>>
        /\ h \in {0, 1} /\ (h = 1 => w \in IPCMessages)
    BY <1>1 DEF Hands, InHand, ViewInv, Linked
  <1>3. Streaming(fanned, b, told, q, h, w, c, view)
    BY LiveSteps
  <1>4. InFlight(session) = q \o hand \o c
    BY DEF InFlight
  <1>n. n \in Nat /\ b <= n /\ n = b + told /\ b \in Nat
    BY <1>1
  <1> HIDE DEF b, q, c, w, h, hand, n
  <1>5. /\ Len(fanned) = n + Len(q) + h + Len(c) /\ Agrees(fanned, q, n)
        /\ Agrees(fanned, c, n + Len(q) + h) /\ (h = 1 => w = fanned[n + Len(q) + 1])
        /\ view = Shown(fanned, b, n)
    BY <1>3, <1>n DEF Streaming
  <1>6. hand \in Seq(IPCMessages) /\ Len(hand) = h /\ Agrees(fanned, hand, n + Len(q))
    <2>1. CASE h = 1
      <3>1. hand = <<w>> /\ w \in IPCMessages /\ w = fanned[n + Len(q) + 1]
        BY <1>2, <1>5, <2>1
      <3>2. hand \in Seq(IPCMessages) /\ Len(hand) = 1 /\ hand[1] = w /\ \A i \in 1..1 : i = 1
        BY <3>1
      <3> QED BY <2>1, <3>1, <3>2 DEF Agrees
    <2>2. CASE h = 0
      BY <1>2, <2>2 DEF Agrees
    <2> QED BY <1>2, <2>1, <2>2
  <1>7. /\ q \o hand \in Seq(IPCMessages) /\ Len(q \o hand) = Len(q) + h
        /\ Agrees(fanned, q \o hand, n)
    BY <1>1, <1>5, <1>6, <1>n, AgreesConcat
  <1>8. Len(q) \in Nat /\ h \in Nat /\ n + (Len(q) + h) = n + Len(q) + h /\ Len(c) \in Nat
    BY <1>1, <1>2, <1>n
  <1>9. Agrees(fanned, c, n + Len(q \o hand))
    BY <1>5, <1>7, <1>8
  <1> DEFINE front == q \o hand
             rest == front \o c
  <1>10. front \in Seq(IPCMessages) /\ Agrees(fanned, front, n) /\ Agrees(fanned, c, n + Len(front))
         /\ Len(front) = Len(q) + h
    BY <1>7, <1>9
  <1> HIDE DEF front
  <1>11. /\ rest \in Seq(IPCMessages) /\ Len(rest) = Len(front) + Len(c)
         /\ Agrees(fanned, rest, n)
    BY <1>1, <1>10, <1>n, AgreesConcat
  <1> HIDE DEF rest
  <1>12. Len(fanned) = n + Len(rest) /\ b <= Len(fanned)
    BY <1>5, <1>8, <1>10, <1>11, <1>n
  <1>13. After(Shown(fanned, b, n), rest) = Shown(fanned, b, Len(fanned))
    BY <1>1, <1>11, <1>12, <1>n, AfterRest DEF b
  <1>14. After({}, SubSeq(fanned, b + 1, Len(fanned))) = Shown(fanned, b, Len(fanned))
    BY <1>1, <1>12, <1>n, AfterAll
  <1>15. InFlight(session) = rest
    BY <1>4 DEF front, rest
  <1> QED BY <1>5, <1>12, <1>13, <1>14, <1>15 DEF b

\* So the view is sound.
LEMMA ViewInvIsEnough == ASSUME ViewInv PROVE ViewIsSound
  <1>1. ASSUME Live
        PROVE  After(view, InFlight(session)) =
                 After({}, SubSeq(fanned, base[session] + 1, Len(fanned)))
    BY <1>1, LiveShows
  <1> QED BY <1>1 DEF ViewInv, ViewIsSound, ViewConverges, Live

\* A consumer's view is on its way to what the cameras do since it was registered, unless its
\* channel has overflowed, and it shows nothing without a connection
\* (publisher.go:43-145, client.go:65-135).
THEOREM ViewStaysSound == ISpec => []ViewIsSound
  <1>1. IInit => ViewInv
    BY ViewInit
  <1>2. ViewInv /\ [INext]_ivars => ViewInv'
    <2> SUFFICES ASSUME ViewInv, [INext]_ivars PROVE ViewInv'
      OBVIOUS
    <2> QED BY ViewTyped, ViewLinked, ViewInStep DEF ViewInv
  <1>3. ViewInv => ViewIsSound
    BY ViewInvIsEnough
  <1> QED BY <1>1, <1>2, <1>3, PTL DEF ISpec

-----------------------------------------------------------------------------
(***************************************************************************)
(* Both together (module Backend): what the consumer shows is what the     *)
(* connections of the cameras do, for any numbers of connections, cameras, *)
(* consumers' sessions and restarts.  A camera has the same id on both     *)
(* sides (streamproto.CameraID).                                           *)
(***************************************************************************)

\* The end of f is p, without the connections.
Tracks(p, f) ==
    /\ Len(p) <= Len(f)
    /\ \A i \in 1..Len(p) : f[Len(f) - Len(p) + i] = [kind |-> p[i].kind, camera |-> p[i].camera]

\* The publisher has fanned out what the handlers of this process have published, consumers
\* are registered with this process, and one that is down has none.
Coupled == /\ Tracks(published, fanned)
           /\ \A s \in consumers : base[s] >= Len(fanned) - Len(published)
           /\ backend = "down" => \A s \in Sessions : server[s] \in {"none", "done"}

\* A word more on both sides.
LEMMA TracksAppend ==
    ASSUME NEW p \in Seq(Words), NEW f \in Seq(IPCMessages), NEW w \in Words, NEW m \in IPCMessages,
           Tracks(p, f), m = [kind |-> w.kind, camera |-> w.camera]
    PROVE  /\ Tracks(Append(p, w), Append(f, m))
           /\ Len(Append(f, m)) - Len(Append(p, w)) = Len(f) - Len(p)
  <1> DEFINE q == Append(p, w)
             g == Append(f, m)
  <1>1. /\ Len(p) \in Nat /\ Len(q) = Len(p) + 1 /\ q[Len(p) + 1] = w
        /\ \A i \in 1..Len(p) : q[i] = p[i]
    <2> HIDE DEF Words
    <2> QED OBVIOUS
  <1>2. /\ Len(f) \in Nat /\ Len(g) = Len(f) + 1 /\ g[Len(f) + 1] = m
        /\ \A i \in 1..Len(f) : g[i] = f[i]
    <2> HIDE DEF IPCMessages
    <2> QED OBVIOUS
  <1>3. /\ Len(p) <= Len(f)
        /\ \A i \in 1..Len(p) : f[Len(f) - Len(p) + i] = [kind |-> p[i].kind, camera |-> p[i].camera]
    BY DEF Tracks
  <1> HIDE DEF q, g
  <1>4. Len(g) - Len(q) = Len(f) - Len(p) /\ Len(q) <= Len(g)
    BY <1>1, <1>2, <1>3
  <1>5. ASSUME NEW i \in 1..Len(q)
        PROVE  g[Len(g) - Len(q) + i] = [kind |-> q[i].kind, camera |-> q[i].camera]
    <2>1. CASE i \in 1..Len(p)
      <3>1. Len(f) - Len(p) + i \in 1..Len(f)
        BY <1>1, <1>2, <1>3, <2>1
      <3>2. g[Len(f) - Len(p) + i] = f[Len(f) - Len(p) + i]
        BY <1>2, <3>1
      <3> QED BY <1>1, <1>3, <1>4, <2>1, <3>2
    <2>2. CASE i = Len(p) + 1
      <3>1. Len(g) - Len(q) + i = Len(f) + 1
        BY <1>1, <1>2, <1>4, <2>2
      <3> QED BY <1>1, <1>2, <2>2, <3>1
    <2> QED BY <1>1, <2>1, <2>2
  <1>6. Tracks(q, g)
    BY <1>4, <1>5 DEF Tracks
  <1> QED BY <1>4, <1>6 DEF q, g

\* A set of places has a last one.
LEMMA LastPlace ==
    ASSUME NEW n \in Nat, NEW J \in SUBSET (1..n), J # {}
    PROVE  \E m \in J : \A j \in J : j <= m
  <1> DEFINE R == OpToRel(<, Nat)
             S == {x \in Nat : n - x \in J}
  <1>1. S \in SUBSET Nat /\ S # {}
    <2>1. PICK j \in J : TRUE
      OBVIOUS
    <2>2. n - j \in Nat /\ n - (n - j) = j
      OBVIOUS
    <2> QED BY <2>2
  <1>2. \E x \in S : \A y \in S : ~ (<<y, x>> \in R)
    <2>1. IsWellFoundedOn(R, Nat)
      BY NatLessThanWellFounded
    <2> HIDE DEF R, S
    <2> QED BY <1>1, <2>1, WFMin
  <1>3. \A x, y \in Nat : ~ (<<y, x>> \in R) => x <= y
    BY DEF OpToRel
  <1>4. PICK x \in S : \A y \in S : x <= y
    <2> HIDE DEF R, S
    <2> QED BY <1>1, <1>2, <1>3
  <1>5. n - x \in J
    BY <1>4
  <1>6. ASSUME NEW j \in J PROVE j <= n - x
    <2>1. n - j \in S /\ x \in Nat /\ j \in Nat
      <3>1. n - j \in Nat /\ n - (n - j) = j
        OBVIOUS
      <3> QED BY <3>1, <1>4
    <2>2. x <= n - j
      BY <2>1, <1>4
    <2> QED BY <2>1, <2>2
  <1> QED BY <1>5, <1>6

\* What the process does is what the publisher does, and, short of a restart, what the server
\* does; and a restart is the only step that takes words back.
LEMMA BackendIsBoth ==
    ASSUME Cameras \subseteq CameraIds, [BackendNext]_backendVars
    PROVE  [INext]_ivars /\ ([SNext]_svars \/ RestartRun)
  <1>1. CASE PublishAndFanOut
    <2>1. PICK c \in Conns, cam \in Cameras :
              \/ PublishFrame(c, cam) /\ FanOut([kind |-> "frame", camera |-> cam])
              \/ PublishOffline(c, cam) /\ FanOut([kind |-> "offline", camera |-> cam])
      BY <1>1 DEF PublishAndFanOut
    <2>2. /\ [kind |-> "frame", camera |-> cam] \in IPCMessages
          /\ [kind |-> "offline", camera |-> cam] \in IPCMessages
      BY DEF IPCMessages
    <2>3. INext
      BY <2>1, <2>2 DEF INext
    <2>4. SNext
      BY <2>1 DEF SNext, Finish
    <2> QED BY <2>3, <2>4
  <1>2. CASE CancelRun
    BY <1>2 DEF CancelRun, SNext, INext
  <1>3. CASE ServerAlone
    BY <1>3 DEF ServerAlone
  <1>4. CASE PublisherAlone
    BY <1>4 DEF PublisherAlone, INext
  <1>5. CASE ExitRun
    BY <1>5 DEF ExitRun, INext
  <1>6. CASE RestartRun
    BY <1>6 DEF RestartRun, INext
  <1>7. CASE UNCHANGED backendVars
    BY <1>7 DEF backendVars
  <1> QED BY <1>1, <1>2, <1>3, <1>4, <1>5, <1>6, <1>7 DEF BackendNext

\* What was published stays in step with what was fanned out.
LEMMA CoupledStep ==
    ASSUME Cameras \subseteq CameraIds, ServerInv, ViewInv, Coupled, [BackendNext]_backendVars
    PROVE  Coupled'
  <1>t. /\ published \in Seq(Words) /\ fanned \in Seq(IPCMessages) /\ Len(fanned) \in Nat
        /\ Len(published) \in Nat /\ base \in [Sessions -> Nat] /\ consumers \subseteq Sessions
        /\ server \in [Sessions -> ServerStates]
        /\ \A s \in consumers : server[s] \in {"serving", "writing", "closing", "leaving"}
    <2>1. published \in Seq(Words) /\ fanned \in Seq(IPCMessages)
      BY DEF ServerInv, STypeOK, ViewInv, ITypeOK, Words
    <2>2. Len(fanned) \in Nat /\ Len(published) \in Nat
      <3> HIDE DEF Words, IPCMessages
      <3> QED BY <2>1
    <2> QED BY <2>1, <2>2 DEF ViewInv, ITypeOK, Linked
  <1>c. /\ Tracks(published, fanned)
        /\ \A s \in consumers : base[s] >= Len(fanned) - Len(published)
        /\ backend = "down" => \A s \in Sessions : server[s] \in {"none", "done"}
    BY DEF Coupled
  <1>s. ASSUME UNCHANGED <<published, fanned, consumers, base, server, backend>> PROVE Coupled'
    BY <1>c, <1>s DEF Coupled
  <1>1. CASE PublishAndFanOut
    <2>1. PICK c \in Conns, cam \in Cameras :
              \/ PublishFrame(c, cam) /\ FanOut([kind |-> "frame", camera |-> cam])
              \/ PublishOffline(c, cam) /\ FanOut([kind |-> "offline", camera |-> cam])
      BY <1>1 DEF PublishAndFanOut
    <2>2. PICK w \in Words, m \in IPCMessages :
              /\ m = [kind |-> w.kind, camera |-> w.camera]
              /\ published' = Append(published, w) /\ fanned' = Append(fanned, m)
              /\ UNCHANGED <<consumers, base, server, backend>>
      <3>1. /\ FrameOf(c, cam) \in Words /\ OfflineOf(c, cam) \in Words
            /\ [kind |-> "frame", camera |-> cam] \in IPCMessages
            /\ [kind |-> "offline", camera |-> cam] \in IPCMessages
        BY DEF FrameOf, OfflineOf, Words, IPCMessages
      <3>2. /\ FrameOf(c, cam).kind = "frame" /\ FrameOf(c, cam).camera = cam
            /\ OfflineOf(c, cam).kind = "offline" /\ OfflineOf(c, cam).camera = cam
        BY DEF FrameOf, OfflineOf
      <3>3. CASE PublishFrame(c, cam) /\ FanOut([kind |-> "frame", camera |-> cam])
        BY <3>1, <3>2, <3>3 DEF PublishFrame, FanOut
      <3>4. CASE PublishOffline(c, cam) /\ FanOut([kind |-> "offline", camera |-> cam])
        BY <3>1, <3>2, <3>4 DEF PublishOffline, FanOut
      <3> QED BY <2>1, <3>3, <3>4
    <2>3. /\ Tracks(published', fanned')
          /\ Len(fanned') - Len(published') = Len(fanned) - Len(published)
      BY <1>t, <1>c, <2>2, TracksAppend, Zenon
    <2> QED BY <1>c, <2>2, <2>3 DEF Coupled
  <1>2. CASE CancelRun
    BY <1>2, <1>c DEF CancelRun, Cancel, CancelBackend, serverVars, Coupled
  <1>3. CASE ServerAlone
    BY <1>3, <1>s DEF ServerAlone, ivars
  <1>4. CASE PublisherAlone
    <2>0. published' = published
      BY <1>4 DEF PublisherAlone, svars
    <2>1. CASE Sweep
      BY <2>0, <2>1, <1>c DEF Sweep, serverVars, Coupled
    <2>2. CASE Dispatch \/ ReadEnds \/ Disconnect \/ Redial \/ DialFails
      BY <2>0, <2>2, <1>s DEF Dispatch, ReadEnds, Disconnect, Redial, DialFails, serverVars
    <2>3. ASSUME NEW s \in Sessions, DialBackend(s) PROVE Coupled'
      BY <2>0, <2>3, <1>c DEF DialBackend, Coupled
    <2>4. ASSUME NEW s \in Sessions, RegisterConsumer(s) PROVE Coupled'
      <3>1. /\ consumers' = consumers \cup {s} /\ base' = [base EXCEPT ![s] = Len(fanned)]
            /\ server[s] = "accepted" /\ UNCHANGED <<fanned, backend>>
            /\ server' = [server EXCEPT ![s] = "serving"]
        BY <2>4 DEF RegisterConsumer
      <3>2. base'[s] = Len(fanned) /\ \A d \in consumers \ {s} : base'[d] = base[d]
        BY <1>t, <3>1
      <3>3. Len(fanned) >= Len(fanned) - Len(published)
        BY <1>t
      <3>4. \A d \in consumers' : base'[d] >= Len(fanned) - Len(published)
        BY <1>c, <3>1, <3>2, <3>3
      <3> QED BY <2>0, <1>c, <3>1, <3>4 DEF Coupled
    <2>5. ASSUME NEW s \in Sessions, AcceptConsumer(s) \/ Take(s) \/ TakeCancel(s) \/ Write(s) \/ Leave(s)
          PROVE  Coupled'
      <3>1. /\ consumers' \subseteq consumers /\ UNCHANGED <<fanned, base, backend>>
            /\ server[s] \notin {"none", "done"}
        BY <2>5 DEF AcceptConsumer, Take, TakeCancel, Write, Leave
      <3> QED BY <2>0, <1>c, <3>1 DEF Coupled
    <2> QED BY <1>4, <2>1, <2>2, <2>3, <2>4, <2>5 DEF PublisherAlone, Consume, Serve
  <1>5. CASE ExitRun
    <2>1. /\ UNCHANGED <<published, fanned>> /\ consumers' = {}
          /\ server' = [s \in Sessions |-> IF server[s] = "none" THEN "none" ELSE "done"]
      BY <1>5 DEF ExitRun, Exit, svars
    <2> QED BY <1>c, <2>1 DEF Coupled
  <1>6. CASE RestartRun
    <2>1. /\ published' = <<>> /\ fanned' = fanned /\ consumers' = consumers /\ backend = "down"
          /\ backend' = "up"
      BY <1>6 DEF RestartRun, Restart, serverVars
    <2>2. consumers = {}
      BY <1>t, <1>c, <2>1
    <2>3. Tracks(<<>>, fanned)
      BY <1>t DEF Tracks
    <2> QED BY <2>1, <2>2, <2>3 DEF Coupled
  <1>7. CASE UNCHANGED backendVars
    BY <1>7, <1>s DEF backendVars, svars, ivars
  <1> QED BY <1>1, <1>2, <1>3, <1>4, <1>5, <1>6, <1>7 DEF BackendNext

BackendInv == ServerInv /\ WordsInv /\ ViewInv /\ Coupled

\* What the handlers have published is at its places in what was fanned out, and what the
\* session has had since it was registered is of these.
LEMMA PlacesAreTheirs ==
    ASSUME BackendInv, Live
    PROVE  /\ published \in Seq(Words) /\ Len(published) \in Nat /\ Len(fanned) \in Nat
           /\ base[session] \in Nat /\ base[session] >= Len(fanned) - Len(published)
           /\ Len(published) <= Len(fanned)
           /\ \A j \in 1..Len(published) :
                 /\ fanned[Len(fanned) - Len(published) + j].kind = published[j].kind
                 /\ fanned[Len(fanned) - Len(published) + j].camera = published[j].camera
  <1>1. published \in Seq(Words) /\ fanned \in Seq(IPCMessages) /\ Tracks(published, fanned)
    BY DEF BackendInv, ServerInv, STypeOK, ViewInv, ITypeOK, Words, Coupled
  <1>2. Len(fanned) \in Nat /\ Len(published) \in Nat
    <2> HIDE DEF Words, IPCMessages
    <2> QED BY <1>1
  <1>3. base[session] \in Nat /\ base[session] >= Len(fanned) - Len(published)
    BY DEF BackendInv, ViewInv, ITypeOK, Coupled, Live, Linked
  <1>4. \A j \in 1..Len(published) :
            fanned[Len(fanned) - Len(published) + j] = [kind |-> published[j].kind, camera |-> published[j].camera]
    BY <1>1 DEF Tracks
  <1>5. ASSUME NEW j \in 1..Len(published)
        PROVE  /\ fanned[Len(fanned) - Len(published) + j].kind = published[j].kind
               /\ fanned[Len(fanned) - Len(published) + j].camera = published[j].camera
    <2> DEFINE f == fanned[Len(fanned) - Len(published) + j]
    <2>1. f = [kind |-> published[j].kind, camera |-> published[j].camera]
      BY <1>4
    <2> HIDE DEF f
    <2>2. f.kind = published[j].kind /\ f.camera = published[j].camera
      BY <2>1
    <2> QED BY <2>2 DEF f
  <1> QED BY <1>1, <1>2, <1>3, <1>5 DEF Tracks

\* Of what the consumer shows, the connection that sent it last has not ended.
LEMMA ShownHasSender ==
    ASSUME BackendInv, Live, NEW cam \in Shown(fanned, base[session], Len(fanned))
    PROVE  \E c \in Conns : cam \in seen[c] /\ SentSince(c, cam, session)
  <1> DEFINE b == base[session]
             before == Len(fanned) - Len(published)
  <1>t. /\ published \in Seq(Words) /\ Len(published) \in Nat /\ Len(fanned) \in Nat
        /\ b \in Nat /\ b >= before /\ Len(published) <= Len(fanned)
        /\ \A j \in 1..Len(published) : /\ fanned[before + j].kind = published[j].kind
                                       /\ fanned[before + j].camera = published[j].camera
    BY PlacesAreTheirs
  <1>1. PICK i \in (b + 1)..Len(fanned) :
            /\ fanned[i].camera = cam /\ fanned[i].kind = "frame"
            /\ \A k \in (b + 1)..Len(fanned) : k > i => fanned[k].camera # cam
    BY DEF Shown
  <1> DEFINE j == i - before
  <1>2. j \in 1..Len(published) /\ before + j = i
    BY <1>t
  <1>3. published[j].kind = "frame" /\ published[j].camera = cam
    BY <1>t, <1>1, <1>2
  <1>4. published[j] \in Words
    <2> HIDE DEF Words, j
    <2> QED BY <1>t, <1>2
  <1>5. PICK c \in Conns : published[j] = FrameOf(c, cam)
    BY <1>3, <1>4 DEF Words, FrameOf
  <1>6. cam \in Cameras
    BY <1>3, <1>4 DEF Words
  <1>7. j \in FramesOf(c, cam) /\ Closes(c, cam)
    BY <1>2, <1>5, <1>6 DEF FramesOf, BackendInv, WordsInv
  <1>8. ASSUME NEW o \in OfflinesOf(c, cam) PROVE FALSE
    <2>1. j < o /\ o \in 1..Len(published) /\ published[o].camera = cam
      BY <1>7 DEF Closes, OfflinesOf, OfflineOf
    <2>2. fanned[before + o].camera = cam
      BY <1>t, <2>1
    <2>3. before + o \in (b + 1)..Len(fanned) /\ before + o > i
      <3> HIDE DEF b
      <3> QED BY <1>t, <1>2, <2>1
    <2> QED BY <1>1, <2>2, <2>3
  <1>9. cam \in seen[c]
    BY <1>7, <1>8 DEF Closes
  <1>10. SentSince(c, cam, session)
    <2>1. i > b
      BY <1>t
    <2>2. Len(fanned) - Len(published) + j > base[session]
      BY <1>2, <2>1
    <2> HIDE DEF j
    <2> QED BY <1>2, <1>5, <2>2 DEF SentSince, Place
  <1> QED BY <1>9, <1>10

\* What the only connection of a camera is still sending is shown.
LEMMA SenderIsShown ==
    ASSUME Cameras \subseteq CameraIds, BackendInv, Live, NEW c \in Conns, NEW cam \in seen[c],
           SentSince(c, cam, session), OnlyOneSends(c, cam)
    PROVE  cam \in Shown(fanned, base[session], Len(fanned))
  <1> DEFINE b == base[session]
             before == Len(fanned) - Len(published)
             J == {j \in 1..Len(published) : published[j].camera = cam}
  <1>t. /\ published \in Seq(Words) /\ Len(published) \in Nat /\ Len(fanned) \in Nat
        /\ b \in Nat /\ b >= before /\ Len(published) <= Len(fanned)
        /\ \A j \in 1..Len(published) : /\ fanned[before + j].kind = published[j].kind
                                       /\ fanned[before + j].camera = published[j].camera
    BY PlacesAreTheirs
  <1>1. cam \in Cameras /\ cam \in CameraIds
    BY DEF BackendInv, ServerInv, STypeOK
  <1>2. PICK i \in 1..Len(published) : published[i] = FrameOf(c, cam) /\ before + i > b
    BY DEF SentSince, Place
  <1>3. i \in J
    BY <1>2 DEF FrameOf
  <1>4. PICK m \in J : \A j \in J : j <= m
    <2>1. J \in SUBSET (1..Len(published)) /\ J # {}
      BY <1>3
    <2> HIDE DEF J
    <2> QED BY <1>t, <2>1, LastPlace
  <1>5. Closes(c, cam)
    BY <1>1 DEF BackendInv, WordsInv
  <1>6. published[m].kind = "frame"
    <2>1. published[m].conn = c /\ published[m].camera = cam /\ m \in 1..Len(published)
      BY DEF OnlyOneSends
    <2>2. m \in FramesOf(c, cam) \cup OfflinesOf(c, cam)
      BY <1>1, <2>1, WordsAbout DEF BackendInv, ServerInv
    <2>3. OfflinesOf(c, cam) = {}
      BY <1>5 DEF Closes
    <2> QED BY <2>2, <2>3 DEF FramesOf, FrameOf
  <1>7. /\ before + m \in (b + 1)..Len(fanned)
        /\ fanned[before + m].kind = "frame" /\ fanned[before + m].camera = cam
    <2>1. i <= m /\ m \in 1..Len(published) /\ published[m].camera = cam
      BY <1>3, <1>4
    <2>2. before + m \in (b + 1)..Len(fanned)
      <3> HIDE DEF b, J
      <3> QED BY <1>t, <1>2, <2>1
    <2> QED BY <1>t, <1>6, <2>1, <2>2
  <1>8. ASSUME NEW k \in (b + 1)..Len(fanned), k > before + m PROVE fanned[k].camera # cam
    <2>1. k - before \in 1..Len(published) /\ before + (k - before) = k /\ k - before > m
      <3>1. m \in 1..Len(published)
        OBVIOUS
      <3> HIDE DEF b, J
      <3> QED BY <1>t, <1>8, <3>1
    <2>2. fanned[k].camera = published[k - before].camera
      BY <1>t, <2>1
    <2>3. k - before \notin J
      <3>1. m \in Nat
        OBVIOUS
      <3> HIDE DEF J
      <3> QED BY <1>4, <2>1, <3>1
    <2> QED BY <2>1, <2>2, <2>3
  <1> QED BY <1>1, <1>7, <1>8 DEF Shown

\* Everything that holds of the publisher and its consumers holds of them in the process.
THEOREM BackendIsPublisher == ASSUME Cameras \subseteq CameraIds PROVE BackendSpec => ISpec
  <1>1. BackendInit => IInit
    BY DEF BackendInit
  <1>2. [BackendNext]_backendVars => [INext]_ivars
    BY BackendIsBoth
  <1> QED BY <1>1, <1>2, PTL DEF BackendSpec, ISpec

\* Between the cameras and the consumers' Handlers: a consumer that has lost nothing comes to
\* show only cameras of which a connection that has not ended has sent it frames, and all of
\* those that have no other connection (server.go:156-196, publisher.go:43-145,
\* client.go:65-135).
THEOREM ShownStaysSending ==
    ASSUME Cameras \subseteq CameraIds PROVE BackendSpec => []ShownIsSending
  <1>1. SInit => ServerInv /\ WordsInv
    BY ServerInit, WordsInit
  <1>2. BackendInit => SInit /\ ViewInv /\ Coupled
    <2> SUFFICES ASSUME BackendInit PROVE SInit /\ ViewInv /\ Coupled
      OBVIOUS
    <2>1. Len(published) = 0 /\ Len(fanned) = 0 /\ consumers = {} /\ backend = "up"
      BY DEF BackendInit, SInit, IInit
    <2>2. Coupled
      BY <2>1 DEF Coupled, Tracks
    <2> QED BY <2>2, ViewInit DEF BackendInit
  <1>3. RestartRun => SInit'
    BY DEF RestartRun, SInit
  <1>4. BackendInv /\ [BackendNext]_backendVars
          => ((ServerInv' /\ WordsInv') \/ RestartRun) /\ ViewInv' /\ Coupled'
    <2> SUFFICES ASSUME BackendInv, [BackendNext]_backendVars
                 PROVE  ((ServerInv' /\ WordsInv') \/ RestartRun) /\ ViewInv' /\ Coupled'
      OBVIOUS
    <2>1. [INext]_ivars /\ ([SNext]_svars \/ RestartRun)
      BY BackendIsBoth
    <2>2. ViewInv'
      BY <2>1, ViewTyped, ViewLinked, ViewInStep DEF BackendInv, ViewInv
    <2>3. Coupled'
      BY CoupledStep DEF BackendInv
    <2>4. [SNext]_svars => ServerInv' /\ WordsInv'
      BY ServerStep, WordsStep DEF BackendInv
    <2> QED BY <2>1, <2>2, <2>3, <2>4
  <1>5. BackendInv => ShownIsSending
    <2> SUFFICES ASSUME BackendInv, Live
                 PROVE  LET shown == After(view, InFlight(session))
                        IN  /\ \A cam \in shown :
                                  \E c \in Conns : cam \in seen[c] /\ SentSince(c, cam, session)
                            /\ \A c \in Conns : \A cam \in seen[c] :
                                  SentSince(c, cam, session) /\ OnlyOneSends(c, cam) => cam \in shown
      BY DEF ShownIsSending, Live
    <2>1. After(view, InFlight(session)) = Shown(fanned, base[session], Len(fanned))
      BY LiveShows DEF BackendInv
    <2> QED BY <2>1, ShownHasSender, SenderIsShown
  <1> QED BY <1>1, <1>2, <1>3, <1>4, <1>5, PTL DEF BackendSpec, BackendInv

-----------------------------------------------------------------------------
(***************************************************************************)
(* What the connections on both sides carry: the frames of the device      *)
(* protocol and the messages of the IPC, and likewise those between the    *)
(* proxies (module WireFraming), for any sizes and numbers of messages.    *)
(***************************************************************************)

Units == {[at |-> "magic", of |-> v] : v \in {"JPGS", "JPGD", "frame", "offline", "MJPG"}}
           \cup {[at |-> "fields", of |-> [camera |-> c, size |-> s]] : c \in {0, 1}, s \in Nat}
           \cup {[at |-> "id", of |-> c] : c \in {0, 1}}
           \cup {[at |-> "data", of |-> x] : x \in Nat \X Nat}
Mails == [variant : {"JPGS", "JPGD", "frame", "offline", "MJPG"}, camera : {0, 1}, data : Seq(Nat \X Nat)]

\* The units of a header, and what is in it.
Parts(m) == IF m.variant = "JPGD" THEN 3 ELSE 2
Heading(m) == [variant |-> m.variant, camera |-> m.camera, size |-> Len(m.data)]

\* The variants of each format.
LEMMA VariantsOf ==
    /\ Variants("device") = {"JPGS", "JPGD"}
    /\ Variants("ipc") = {"frame", "offline"}
    /\ Variants("restream") = {"MJPG"}
  BY Zenon DEF Variants

\* What a writer may send.
LEMMA SendableMails ==
    ASSUME NEW f \in Formats, NEW n \in Nat, NEW m \in Sendable(f, n)
    PROVE  /\ m \in Mails /\ m.variant \in Variants(f)
           /\ m.variant = "JPGS" => m.camera = 0
           /\ f = "device" <=> m.variant \in {"JPGS", "JPGD"}
  <1>1. PICK v \in Variants(f), c \in {0, 1}, size \in 0..(MaxSize + 1) :
            m = [variant |-> v, camera |-> c, data |-> [i \in 1..size |-> <<n, i>>]]
    BY DEF Sendable, Messages, Message, CameraIDs
  <1>2. size \in Nat
    OBVIOUS
  <1>3. [i \in 1..size |-> <<n, i>>] \in Seq(Nat \X Nat)
    BY <1>2
  <1>4. /\ v \in {"JPGS", "JPGD", "frame", "offline", "MJPG"}
        /\ f = "device" <=> v \in {"JPGS", "JPGD"}
    BY VariantsOf DEF Formats
  <1>5. m.variant = "JPGS" => m.camera = 0
    BY DEF Sendable, DefaultCameraID
  <1> QED BY <1>1, <1>3, <1>4, <1>5 DEF Mails

\* Every sequence has a length.
LEMMA LenIsNat == ASSUME NEW M, NEW s \in Seq(M) PROVE Len(s) \in Nat
  OBVIOUS

\* What a concatenation has where.
LEMMA ConcatElements ==
    ASSUME NEW M, NEW p \in Seq(M), NEW q \in Seq(M)
    PROVE  /\ p \o q \in Seq(M) /\ Len(p \o q) = Len(p) + Len(q)
           /\ \A i \in 1..Len(p) : (p \o q)[i] = p[i]
           /\ \A i \in 1..Len(q) : (p \o q)[Len(p) + i] = q[i]
  OBVIOUS

\* The units that a message is written as.
LEMMA EncodeFacts ==
    ASSUME NEW f, NEW m \in Mails
    PROVE  LET e == Encode(f, m)
           IN  /\ e \in Seq(Units) /\ Len(e) = Parts(m) + Len(m.data) /\ Len(m.data) \in Nat
               /\ e[1] = [at |-> "magic", of |-> m.variant]
               /\ e[2] = [at |-> "fields", of |-> [camera |-> IF f = "device" THEN 0 ELSE m.camera,
                                                   size |-> Len(m.data)]]
               /\ m.variant = "JPGD" => e[3] = [at |-> "id", of |-> m.camera]
               /\ \A i \in 1..Len(m.data) : e[Parts(m) + i] = [at |-> "data", of |-> m.data[i]]
  <1> DEFINE d == m.data
             in == IF f = "device" THEN 0 ELSE m.camera
             x == [at |-> "magic", of |-> m.variant]
             y == [at |-> "fields", of |-> [camera |-> in, size |-> Len(d)]]
             z == [at |-> "id", of |-> m.camera]
             a == <<x, y>>
             b == IF m.variant = "JPGD" THEN <<z>> ELSE <<>>
             c == [i \in DOMAIN d |-> [at |-> "data", of |-> d[i]]]
  <1>1. d \in Seq(Nat \X Nat) /\ Len(d) \in Nat /\ DOMAIN d = 1..Len(d) /\ m.camera \in {0, 1}
        /\ m.variant \in {"JPGS", "JPGD", "frame", "offline", "MJPG"}
    BY DEF Mails
  <1>2. x \in Units
    BY <1>1 DEF Units
  <1>3. y \in Units
    <2>1. in \in {0, 1}
      BY <1>1
    <2> HIDE DEF in
    <2>2. y \in {[at |-> "fields", of |-> [camera |-> k, size |-> s]] : k \in {0, 1}, s \in Nat}
      BY <1>1, <2>1
    <2> HIDE DEF y
    <2> QED BY <2>2 DEF Units
  <1>4. z \in Units
    BY <1>1 DEF Units
  <1>5. \A i \in 1..Len(d) : c[i] = [at |-> "data", of |-> d[i]] /\ c[i] \in Units
    <2> SUFFICES ASSUME NEW i \in 1..Len(d) PROVE c[i] = [at |-> "data", of |-> d[i]] /\ c[i] \in Units
      OBVIOUS
    <2>1. d[i] \in Nat \X Nat /\ c[i] = [at |-> "data", of |-> d[i]]
      BY <1>1
    <2> QED BY <2>1 DEF Units
  <1>6. c \in Seq(Units) /\ Len(c) = Len(d)
    <2> HIDE DEF Units
    <2>1. c \in [1..Len(d) -> Units]
      BY <1>1, <1>5
    <2> HIDE DEF c, d
    <2> QED BY <1>1, <2>1
  <1>7. Encode(f, m) = (a \o b) \o c
    BY DEF Encode, DefaultCameraID
  <1> HIDE DEF Units, c, x, y, z
  <1>8. a \in Seq(Units) /\ Len(a) = 2 /\ a[1] = x /\ a[2] = y
    BY <1>2, <1>3
  <1>9. b \in Seq(Units) /\ Len(b) = Parts(m) - 2 /\ Parts(m) \in {2, 3}
        /\ (m.variant = "JPGD" => b[1] = z /\ Len(b) = 1)
    BY <1>4 DEF Parts
  <1> HIDE DEF a, b
  <1> DEFINE h == a \o b
  <1>10. /\ h \in Seq(Units) /\ Len(h) = Parts(m) /\ h[1] = x /\ h[2] = y
         /\ m.variant = "JPGD" => h[3] = z
    <2>1. /\ h \in Seq(Units) /\ Len(h) = Len(a) + Len(b)
          /\ (\A i \in 1..Len(a) : h[i] = a[i]) /\ (\A i \in 1..Len(b) : h[Len(a) + i] = b[i])
      <3>1. a \in Seq(Units) /\ b \in Seq(Units)
        BY <1>8, <1>9
      <3> QED BY <3>1, ConcatElements
    <2> HIDE DEF h
    <2>2. m.variant = "JPGD" => Len(b) = 1 /\ b[1] = z /\ h[2 + 1] = b[1]
      BY <1>8, <1>9, <2>1
    <2> QED BY <1>8, <1>9, <2>1, <2>2
  <1> HIDE DEF h
  <1> DEFINE e == h \o c
  <1>11. e \in Seq(Units) /\ Len(e) = Parts(m) + Len(d)
         /\ (\A i \in 1..Len(h) : e[i] = h[i]) /\ (\A i \in 1..Len(c) : e[Len(h) + i] = c[i])
    <2>1. /\ e \in Seq(Units) /\ Len(e) = Len(h) + Len(c)
          /\ (\A i \in 1..Len(h) : e[i] = h[i]) /\ (\A i \in 1..Len(c) : e[Len(h) + i] = c[i])
      <3>1. h \in Seq(Units) /\ c \in Seq(Units)
        BY <1>6, <1>10
      <3> QED BY <3>1, ConcatElements
    <2> HIDE DEF e
    <2> QED BY <1>6, <1>10, <2>1
  <1> HIDE DEF e
  <1>12. e[1] = x /\ e[2] = y /\ (m.variant = "JPGD" => e[3] = z)
    <2>1. 1 \in 1..Len(h) /\ 2 \in 1..Len(h) /\ (m.variant = "JPGD" => 3 \in 1..Len(h))
      BY <1>9, <1>10 DEF Parts
    <2> QED BY <1>10, <1>11, <2>1
  <1>13. \A i \in 1..Len(d) : e[Parts(m) + i] = [at |-> "data", of |-> d[i]]
    BY <1>5, <1>6, <1>10, <1>11
  <1>14. Encode(f, m) = e
    BY <1>7 DEF e, h
  <1> QED BY <1>1, <1>11, <1>12, <1>13, <1>14 DEF x, y, z

(***************************************************************************)
(* The stream of a connection has the units of all that was sent, message  *)
(* k + 1 from start[k] on; p of it have been used, and b, w and o are what *)
(* follows.                                                                *)
(***************************************************************************)
Laid(stream, start, msgs, f) ==
    /\ start[Len(msgs)] = Len(stream)
    /\ \A k \in Nat : k < Len(msgs) =>
          /\ start[k + 1] = start[k] + Len(Encode(f, msgs[k + 1])) /\ start[k + 1] <= Len(stream)
          /\ Agrees(stream, Encode(f, msgs[k + 1]), start[k])

Flow(stream, p, b, w, o) ==
    /\ Agrees(stream, b, p) /\ Agrees(stream, w, p + Len(b)) /\ Agrees(stream, o, p + Len(b) + Len(w))
    /\ p + Len(b) + Len(w) + Len(o) <= Len(stream)

Full(stream, p, b, w, o) == p + Len(b) + Len(w) + Len(o) = Len(stream)

\* A stream that goes on has what it had.
LEMMA AgreesLonger ==
    ASSUME NEW M, NEW s \in Seq(M), NEW e \in Seq(M), NEW part \in Seq(M), NEW n \in Nat,
           n + Len(part) <= Len(s), Agrees(s, part, n)
    PROVE  Agrees(s \o e, part, n)
  <1> DEFINE t == s \o e
  <1>1. \A i \in 1..Len(s) : t[i] = s[i]
    BY ConcatElements
  <1> HIDE DEF t
  <1>2. \A i \in 1..Len(part) : n + i \in 1..Len(s)
    OBVIOUS
  <1>3. Agrees(t, part, n)
    BY <1>1, <1>2 DEF Agrees
  <1> QED BY <1>3 DEF t

\* The end of a stream is what was put there.
LEMMA AgreesEnd ==
    ASSUME NEW M, NEW s \in Seq(M), NEW e \in Seq(M)
    PROVE  Agrees(s \o e, e, Len(s))
  BY ConcatElements DEF Agrees

\* The writer writes, the reader reads, the connection breaks, what has been read is used, and
\* a message more is begun.
LEMMA FlowSteps ==
    ASSUME NEW M, NEW stream \in Seq(M), NEW p \in Nat, NEW b \in Seq(M), NEW w \in Seq(M),
           NEW o \in Seq(M), Flow(stream, p, b, w, o)
    PROVE  /\ o # <<>> => /\ Flow(stream, p, b, Append(w, Head(o)), Tail(o))
                          /\ Full(stream, p, b, w, o) => Full(stream, p, b, Append(w, Head(o)), Tail(o))
           /\ w # <<>> => /\ Flow(stream, p, Append(b, Head(w)), Tail(w), o)
                          /\ Full(stream, p, b, w, o) => Full(stream, p, Append(b, Head(w)), Tail(w), o)
           /\ \A n \in 0..Len(w) : Flow(stream, p, b, SubSeq(w, 1, n), <<>>)
           /\ Flow(stream, p + Len(b), <<>>, w, o)
           /\ Full(stream, p, b, w, o) => Full(stream, p + Len(b), <<>>, w, o)
           /\ o = <<>> /\ Full(stream, p, b, w, o) =>
                \A e \in Seq(M) : Flow(stream \o e, p, b, w, e) /\ Full(stream \o e, p, b, w, e)
  <1>0. Len(b) \in Nat /\ Len(w) \in Nat /\ Len(o) \in Nat /\ Len(stream) \in Nat
    OBVIOUS
  <1>1. /\ Agrees(stream, b, p) /\ Agrees(stream, w, p + Len(b)) /\ Agrees(stream, o, p + Len(b) + Len(w))
        /\ p + Len(b) + Len(w) + Len(o) <= Len(stream)
    BY DEF Flow
  <1>2. ASSUME o # <<>>
        PROVE  /\ Flow(stream, p, b, Append(w, Head(o)), Tail(o))
               /\ Full(stream, p, b, w, o) => Full(stream, p, b, Append(w, Head(o)), Tail(o))
    <2> DEFINE n == p + Len(b) + Len(w)
    <2>1. n \in Nat /\ Agrees(stream, o, n) /\ n = (p + Len(b)) + Len(w) /\ p + Len(b) \in Nat
      BY <1>0, <1>1
    <2> HIDE DEF n
    <2>2. /\ Head(o) = stream[n + 1] /\ Head(o) \in M /\ Agrees(stream, Tail(o), n + 1)
          /\ Tail(o) \in Seq(M) /\ Len(o) \in Nat \ {0} /\ Len(Tail(o)) = Len(o) - 1
      BY <1>2, <2>1, AgreesTail
    <2> DEFINE u == Head(o)
               r == Tail(o)
               v == Append(w, u)
    <2>3. u \in M /\ u = stream[(p + Len(b)) + Len(w) + 1]
      BY <2>1, <2>2
    <2>4. Len(v) = Len(w) + 1
      BY <2>3
    <2>5. Agrees(stream, v, p + Len(b))
      BY <1>1, <2>1, <2>3, AgreesAppend
    <2>6. p + Len(b) + Len(v) = n + 1 /\ p + Len(b) + Len(v) + Len(r) = p + Len(b) + Len(w) + Len(o)
      BY <1>0, <2>1, <2>2, <2>4
    <2>7. Agrees(stream, r, p + Len(b) + Len(v))
      BY <2>2, <2>6
    <2> HIDE DEF v, r
    <2>8. Flow(stream, p, b, v, r) /\ (Full(stream, p, b, w, o) => Full(stream, p, b, v, r))
      BY <1>1, <2>5, <2>6, <2>7 DEF Flow, Full
    <2> QED BY <2>8 DEF v, r
  <1>3. ASSUME w # <<>>
        PROVE  /\ Flow(stream, p, Append(b, Head(w)), Tail(w), o)
               /\ Full(stream, p, b, w, o) => Full(stream, p, Append(b, Head(w)), Tail(w), o)
    <2> DEFINE n == p + Len(b)
    <2>1. n \in Nat /\ Agrees(stream, w, n) /\ n = p + Len(b)
      BY <1>0, <1>1
    <2> HIDE DEF n
    <2>2. /\ Head(w) = stream[n + 1] /\ Head(w) \in M /\ Agrees(stream, Tail(w), n + 1)
          /\ Tail(w) \in Seq(M) /\ Len(w) \in Nat \ {0} /\ Len(Tail(w)) = Len(w) - 1
      BY <1>3, <2>1, AgreesTail
    <2> DEFINE u == Head(w)
               r == Tail(w)
               v == Append(b, u)
    <2>3. u \in M /\ u = stream[p + Len(b) + 1]
      BY <2>1, <2>2
    <2>4. Len(v) = Len(b) + 1
      BY <2>3
    <2>5. Agrees(stream, v, p)
      BY <1>1, <2>3, AgreesAppend
    <2>6. p + Len(v) = n + 1 /\ p + Len(v) + Len(r) = p + Len(b) + Len(w)
      BY <1>0, <2>1, <2>2, <2>4
    <2>7. Agrees(stream, r, p + Len(v))
      BY <2>2, <2>6
    <2> HIDE DEF v, r
    <2>8. Flow(stream, p, v, r, o) /\ (Full(stream, p, b, w, o) => Full(stream, p, v, r, o))
      BY <1>1, <2>5, <2>6, <2>7 DEF Flow, Full
    <2> QED BY <2>8 DEF v, r
  <1>4. ASSUME NEW n \in 0..Len(w) PROVE Flow(stream, p, b, SubSeq(w, 1, n), <<>>)
    <2> DEFINE v == SubSeq(w, 1, n)
    <2>1. n \in Nat /\ n <= Len(w) /\ v \in Seq(M) /\ Len(v) = n /\ \A i \in 1..n : v[i] = w[i]
      BY <1>0
    <2> HIDE DEF v
    <2>2. Agrees(stream, v, p + Len(b))
      <3>1. \A i \in 1..n : i \in 1..Len(w)
        BY <1>0, <2>1
      <3> QED BY <1>1, <2>1, <3>1 DEF Agrees
    <2>3. Agrees(stream, <<>>, p + Len(b) + Len(v)) /\ Len(<<>>) = 0
      BY DEF Agrees
    <2>4. p + Len(b) + Len(v) + 0 <= Len(stream)
      BY <1>0, <1>1, <2>1
    <2>5. Flow(stream, p, b, v, <<>>)
      BY <1>1, <2>2, <2>3, <2>4 DEF Flow
    <2> QED BY <2>5 DEF v
  <1>5. /\ Flow(stream, p + Len(b), <<>>, w, o)
        /\ Full(stream, p, b, w, o) => Full(stream, p + Len(b), <<>>, w, o)
    <2>1. Len(<<>>) = 0 /\ p + Len(b) + 0 = p + Len(b) /\ Agrees(stream, <<>>, p + Len(b))
      BY <1>0 DEF Agrees
    <2> QED BY <1>1, <2>1 DEF Flow, Full
  <1>6. ASSUME o = <<>>, Full(stream, p, b, w, o), NEW e \in Seq(M)
        PROVE  Flow(stream \o e, p, b, w, e) /\ Full(stream \o e, p, b, w, e)
    <2> DEFINE t == stream \o e
    <2>1. Len(t) = Len(stream) + Len(e) /\ Len(e) \in Nat
      OBVIOUS
    <2>2. p + Len(b) \in Nat /\ p + Len(b) <= Len(stream) /\ (p + Len(b)) + Len(w) = Len(stream)
      BY <1>0, <1>6 DEF Full
    <2>3. Agrees(t, b, p)
      BY <1>1, <2>2, AgreesLonger
    <2>4. (p + Len(b)) + Len(w) <= Len(stream)
      BY <1>0, <2>2
    <2>5. Agrees(t, w, p + Len(b))
      BY <1>1, <2>2, <2>4, AgreesLonger
    <2>6. Agrees(t, e, p + Len(b) + Len(w))
      BY <2>2, AgreesEnd
    <2>7. p + Len(b) + Len(w) + Len(e) = Len(t)
      BY <2>1, <2>2
    <2> HIDE DEF t
    <2>8. Flow(t, p, b, w, e) /\ Full(t, p, b, w, e)
      BY <2>3, <2>5, <2>6, <2>7, <1>0, <2>1 DEF Flow, Full
    <2> QED BY <2>8 DEF t
  <1> QED BY <1>2, <1>3, <1>4, <1>5, <1>6

\* Where a message more goes.
LEMMA LaidAppend ==
    ASSUME NEW f, NEW stream \in Seq(Units), NEW start \in [Nat -> Nat], NEW msgs \in Seq(Mails),
           NEW m \in Mails, Laid(stream, start, msgs, f)
    PROVE  \E next \in [Nat -> Nat] :
              /\ Laid(stream \o Encode(f, m), next, Append(msgs, m), f)
              /\ \A k \in 0..Len(msgs) : next[k] = start[k]
  <1> DEFINE e == Encode(f, m)
             n == Len(msgs)
             all == Append(msgs, m)
             next == [start EXCEPT ![n + 1] = Len(stream) + Len(e)]
             t == stream \o e
  <1>1. e \in Seq(Units)
    BY EncodeFacts
  <1>2. n \in Nat /\ Len(all) = n + 1 /\ all[n + 1] = m /\ \A k \in Nat : k < n => all[k + 1] = msgs[k + 1]
    <2>1. n \in Nat /\ Len(all) = n + 1 /\ all[n + 1] = m /\ \A i \in 1..n : all[i] = msgs[i]
      OBVIOUS
    <2> HIDE DEF all, n
    <2>2. \A k \in Nat : k < n => k + 1 \in 1..n
      BY <2>1
    <2> QED BY <2>1, <2>2
  <1> HIDE DEF e, all
  <1>3. /\ Len(t) = Len(stream) + Len(e) /\ Len(e) \in Nat /\ Len(stream) \in Nat
        /\ Agrees(t, e, Len(stream))
    <2>1. t \in Seq(Units) /\ Len(t) = Len(stream) + Len(e)
      BY <1>1, ConcatElements, Zenon
    <2>2. Len(e) \in Nat /\ Len(stream) \in Nat
      BY <1>1, LenIsNat, Zenon
    <2>3. Agrees(t, e, Len(stream))
      BY <1>1, AgreesEnd, Zenon
    <2> QED BY <2>1, <2>2, <2>3
  <1>4. \A k \in Nat : k < n => msgs[k + 1] \in Mails
    <2>1. \A k \in Nat : k < n => k + 1 \in 1..n
      BY <1>2
    <2> QED BY <2>1
  <1> HIDE DEF t
  <1>5. /\ next \in [Nat -> Nat] /\ next[n + 1] = Len(t) /\ \A k \in 0..n : next[k] = start[k]
    <2> HIDE DEF n
    <2>1. n + 1 \in Nat /\ Len(stream) + Len(e) \in Nat /\ \A k \in 0..n : k \in Nat /\ k # n + 1
      BY <1>2, <1>3
    <2> QED BY <1>3, <2>1
  <1> HIDE DEF next, n
  <1>6. ASSUME NEW k \in Nat, k < n
        PROVE  /\ next[k + 1] = next[k] + Len(Encode(f, all[k + 1])) /\ next[k + 1] <= Len(t)
               /\ Agrees(t, Encode(f, all[k + 1]), next[k])
    <2>1. /\ start[k + 1] = start[k] + Len(Encode(f, msgs[k + 1])) /\ start[k + 1] <= Len(stream)
          /\ Agrees(stream, Encode(f, msgs[k + 1]), start[k])
      BY <1>6 DEF Laid, n
    <2>2. k \in 0..n /\ k + 1 \in 0..n
      <3>1. n \in Nat
        BY <1>2
      <3> QED BY <1>6, <3>1
    <2>3. next[k] = start[k] /\ next[k + 1] = start[k + 1] /\ all[k + 1] = msgs[k + 1]
      BY <1>2, <1>5, <1>6, <2>2
    <2> DEFINE c == Encode(f, msgs[k + 1])
    <2>4. c \in Seq(Units)
      BY <1>4, <1>6, EncodeFacts
    <2> HIDE DEF c
    <2>5. start[k] \in Nat /\ start[k + 1] \in Nat
      OBVIOUS
    <2>6. Agrees(stream, c, start[k]) /\ start[k] + Len(c) <= Len(stream)
      BY <2>1 DEF c
    <2>7. Agrees(t, c, start[k])
      BY <1>1, <2>4, <2>5, <2>6, AgreesLonger DEF t
    <2>8. start[k + 1] <= Len(t)
      BY <1>3, <2>1, <2>5
    <2> QED BY <2>1, <2>3, <2>7, <2>8 DEF c
  <1>7. /\ next[n + 1] = next[n] + Len(Encode(f, all[n + 1])) /\ next[n + 1] <= Len(t)
        /\ Agrees(t, Encode(f, all[n + 1]), next[n])
    <2>1. start[n] = Len(stream)
      BY DEF Laid, n
    <2>2. next[n] = Len(stream) /\ all[n + 1] = m
      <3>1. n \in 0..n
        BY <1>2
      <3> QED BY <1>2, <1>5, <2>1, <3>1
    <2> QED BY <1>3, <1>5, <2>2 DEF e
  <1>8. \A k \in Nat : k < n + 1 => k < n \/ k = n
    BY <1>2
  <1>9. Laid(t, next, all, f)
    BY <1>2, <1>5, <1>6, <1>7, <1>8 DEF Laid
  <1> QED BY <1>5, <1>9 DEF t, e, all, n

(***************************************************************************)
(* The connection: what was received is the beginning of what was sent,    *)
(* and the reader is at the part of a message that comes next.             *)
(***************************************************************************)
WireTyped ==
    /\ format \in Formats /\ cut \in BOOLEAN /\ stopped \in BOOLEAN
    /\ phase \in {"header", "id", "payload", "failed"}
    /\ sent \in Seq(Mails) /\ Len(sent) <= MaxMessages /\ received \in Seq(Mails)
    /\ \A i \in 1..Len(sent) : sent[i] \in Sendable(format, i)
    /\ outbox \in Seq(Units) /\ wire \in Seq(Units) /\ buf \in Seq(Units)
    /\ cut => outbox = <<>>

Received == Len(received) <= Len(sent) /\ \A i \in 1..Len(received) : received[i] = sent[i]

\* The message that is being read.
Due == sent[Len(received) + 1]

Decoding ==
    /\ phase = "header" => Len(buf) <= 2
    /\ phase = "id" => /\ Len(buf) <= 1 /\ Len(received) < Len(sent) /\ Due.variant = "JPGD"
                       /\ head = [variant |-> "JPGD", camera |-> 0, size |-> Len(Due.data)]
    /\ phase = "payload" => /\ Len(received) < Len(sent) /\ head = Heading(Due)
                            /\ Len(buf) <= Len(Due.data) /\ Len(Due.data) > 0
                            /\ format = "ipc" \/ Len(Due.data) <= MaxSize

\* How much of the stream has been used.
Used(start) == IF phase = "header" THEN start[Len(received)]
               ELSE IF phase = "id" THEN start[Len(received)] + 2
               ELSE start[Len(received)] + Parts(Due)

Framed == phase # "failed" =>
    \E stream \in Seq(Units), start \in [Nat -> Nat] :
        /\ Laid(stream, start, sent, format)
        /\ Flow(stream, Used(start), buf, wire, outbox)
        /\ ~cut => Full(stream, Used(start), buf, wire, outbox)

WireInv == WireTyped /\ Received /\ Decoding /\ Framed /\ NoFalseAlarm

LEMMA WireInit == ASSUME Init PROVE WireInv
  <1>1. Laid(<<>>, [k \in Nat |-> 0], <<>>, format)
    BY DEF Laid
  <1>2. Flow(<<>>, 0, <<>>, <<>>, <<>>) /\ Full(<<>>, 0, <<>>, <<>>, <<>>)
    BY DEF Flow, Full, Agrees
  <1>3. [k \in Nat |-> 0] \in [Nat -> Nat] /\ [k \in Nat |-> 0][0] = 0 /\ <<>> \in Seq(Units) /\ Len(<<>>) = 0
    OBVIOUS
  <1>4. phase = "header" /\ received = <<>> /\ sent = <<>> /\ buf = <<>> /\ wire = <<>> /\ outbox = <<>>
    BY DEF Init
  <1>5. Used([k \in Nat |-> 0]) = 0
    BY <1>3, <1>4 DEF Used
  <1>6. Framed
    BY <1>1, <1>2, <1>3, <1>4, <1>5 DEF Framed
  <1>7. WireTyped /\ Received /\ Decoding /\ NoFalseAlarm
    <2>1. Received /\ Decoding /\ NoFalseAlarm
      BY <1>4 DEF Received, Decoding, NoFalseAlarm
    <2>2. sent \in Seq(Mails) /\ received \in Seq(Mails) /\ Len(sent) = 0
      BY <1>4
    <2>3. outbox \in Seq(Units) /\ wire \in Seq(Units) /\ buf \in Seq(Units)
      BY <1>3, <1>4
    <2>4. \A i \in 1..Len(sent) : sent[i] \in Sendable(format, i)
      BY <2>2
    <2>5. Len(sent) <= MaxMessages
      BY <2>2, FramingAssumption
    <2> QED BY <1>4, <2>1, <2>2, <2>3, <2>4, <2>5 DEF Init, WireTyped
  <1> QED BY <1>6, <1>7 DEF WireInv

\* The message that is due, when there is one.
LEMMA DueFacts ==
    ASSUME WireInv, Len(received) < Len(sent)
    PROVE  /\ Due \in Mails /\ Due.variant \in Variants(format)
           /\ Due.variant = "JPGS" => Due.camera = 0
           /\ format = "device" <=> Due.variant \in {"JPGS", "JPGD"}
           /\ Len(received) \in Nat /\ Len(received) + 1 \in 1..Len(sent) /\ Len(Due.data) \in Nat
           /\ Parts(Due) \in {2, 3}
  <1>1. Len(received) \in Nat /\ Len(received) + 1 \in 1..Len(sent)
    BY DEF WireInv, WireTyped
  <1>2. Due \in Sendable(format, Len(received) + 1) /\ format \in Formats
    BY <1>1 DEF WireInv, WireTyped, Due
  <1>3. Len(received) + 1 \in Nat
    BY <1>1
  <1> HIDE DEF Due
  <1>4. /\ Due \in Mails /\ Due.variant \in Variants(format)
        /\ Due.variant = "JPGS" => Due.camera = 0
        /\ format = "device" <=> Due.variant \in {"JPGS", "JPGD"}
    BY <1>2, <1>3, SendableMails
  <1>5. Len(Due.data) \in Nat
    BY <1>4 DEF Mails
  <1> QED BY <1>1, <1>4, <1>5 DEF Parts

\* What is to be used is a part of the stream.
LEMMA UsedType ==
    ASSUME WireInv, phase # "failed", NEW start \in [Nat -> Nat]
    PROVE  Used(start) \in Nat
  <1>1. Len(received) \in Nat /\ start[Len(received)] \in Nat
    BY DEF WireInv, WireTyped
  <1>2. CASE phase \in {"header", "id"}
    BY <1>1, <1>2 DEF Used
  <1>3. CASE phase = "payload"
    <2>1. Parts(Due) \in {2, 3}
      BY <1>3, DueFacts DEF WireInv, Decoding
    <2>2. Used(start) = start[Len(received)] + Parts(Due)
      BY <1>3 DEF Used
    <2>3. \A a \in Nat, b \in {2, 3} : a + b \in Nat
      OBVIOUS
    <2> QED BY <1>1, <2>1, <2>2, <2>3
  <1> QED BY <1>2, <1>3 DEF WireInv, WireTyped

\* A message has been read: the stream goes on with the next.
LEMMA Receive ==
    ASSUME WireInv, Len(received) < Len(sent), phase # "failed",
           NEW stream \in Seq(Units), NEW start \in [Nat -> Nat], Laid(stream, start, sent, format),
           Flow(stream, start[Len(received)] + Parts(Due) + Len(Due.data), <<>>, wire, outbox),
           ~cut => Full(stream, start[Len(received)] + Parts(Due) + Len(Due.data), <<>>, wire, outbox),
           received' = Append(received, Due), phase' = "header", buf' = <<>>,
           UNCHANGED <<format, sent, outbox, cut, wire, stopped>>
    PROVE  WireInv'
  <1> DEFINE k == Len(received)
  <1>1. Due \in Mails /\ k \in Nat /\ k + 1 \in 1..Len(sent) /\ Len(Due.data) \in Nat /\ Due = sent[k + 1]
    BY DueFacts DEF Due
  <1>2. received \in Seq(Mails)
    BY DEF WireInv, WireTyped
  <1> DEFINE due == Due
  <1>3. due = sent[k + 1] /\ due \in Mails /\ received' = Append(received, due)
    BY <1>1
  <1>4. Len(Encode(format, due)) = Parts(due) + Len(due.data)
    BY <1>1, EncodeFacts
  <1> HIDE DEF due
  <1>5. /\ received' \in Seq(Mails) /\ Len(received') = k + 1 /\ received'[k + 1] = due
        /\ \A i \in 1..k : received'[i] = received[i]
    BY <1>2, <1>3
  <1>6. start[k + 1] = start[k] + Len(Encode(format, due))
    BY <1>1, <1>3 DEF Laid
  <1>7. start[k + 1] = start[k] + Parts(due) + Len(due.data)
    <2>1. start[k] \in Nat /\ Parts(due) \in Nat /\ Len(due.data) \in Nat
      BY <1>1 DEF Parts, due
    <2>2. \A a, b, c \in Nat : a + (b + c) = a + b + c
      OBVIOUS
    <2>3. start[k] + (Parts(due) + Len(due.data)) = start[k] + Parts(due) + Len(due.data)
      BY <2>1, <2>2
    <2>4. start[k + 1] = start[k] + (Parts(due) + Len(due.data))
      BY <1>4, <1>6, Zenon
    <2> QED BY <2>3, <2>4, Zenon
  <1>8. Used(start)' = start[k + 1]
    BY <1>5 DEF Used
  <1>9. /\ Flow(stream, start[k + 1], <<>>, wire, outbox)
        /\ ~cut => Full(stream, start[k + 1], <<>>, wire, outbox)
    BY <1>7 DEF due
  <1>10. Framed'
    BY <1>8, <1>9 DEF Framed
  <1>11. Received'
    <2>1. \A i \in 1..(k + 1) : i \in 1..k \/ i = k + 1
      <3>1. k \in Nat
        BY <1>1
      <3> HIDE DEF k
      <3> QED BY <3>1
    <2>2. \A i \in 1..k : received[i] = sent[i]
      BY DEF WireInv, Received
    <2>3. k + 1 <= Len(sent)
      BY <1>1
    <2> QED BY <1>3, <1>5, <2>1, <2>2, <2>3 DEF Received
  <1>12. WireTyped'
    BY <1>5 DEF WireInv, WireTyped
  <1>13. Decoding' /\ NoFalseAlarm'
    BY DEF Decoding, NoFalseAlarm
  <1> QED BY <1>10, <1>11, <1>12, <1>13 DEF WireInv

\* The header is whole, and its size decides.
LEMMA SizeChecked ==
    ASSUME WireInv, Len(received) < Len(sent), phase # "failed",
           NEW stream \in Seq(Units), NEW start \in [Nat -> Nat], Laid(stream, start, sent, format),
           Flow(stream, start[Len(received)] + Parts(Due), <<>>, wire, outbox),
           ~cut => Full(stream, start[Len(received)] + Parts(Due), <<>>, wire, outbox),
           SizeCheck(Heading(Due)), buf' = <<>>,
           UNCHANGED <<format, sent, outbox, cut, wire, stopped>>
    PROVE  WireInv'
  <1>1. /\ Due \in Mails /\ Len(received) + 1 \in 1..Len(sent) /\ Len(Due.data) \in Nat
        /\ Due = sent[Len(received) + 1]
    BY DueFacts DEF Due
  <1>2. Heading(Due).size = Len(Due.data)
    BY DEF Heading
  <1>t. WireTyped /\ Received /\ NoFalseAlarm /\ <<>> \in Seq(Units)
    BY DEF WireInv
  <1>3. CASE format # "ipc" /\ (Len(Due.data) = 0 \/ Len(Due.data) > MaxSize) /\ Fail
    <2>1. phase' = "failed" /\ UNCHANGED <<head, received>>
      BY <1>3 DEF Fail
    <2>2. ~Valid(sent[Len(received) + 1]) /\ Len(received) + 1 \in DOMAIN sent
      <3>1. ~Valid(Due)
        BY <1>3 DEF Valid, Refused
      <3>2. DOMAIN sent = 1..Len(sent)
        BY <1>t DEF WireTyped
      <3> QED BY <1>1, <3>1, <3>2
    <2>3. \E i \in DOMAIN sent : ~Valid(sent[i])
      BY <2>2
    <2>4. NoFalseAlarm'
      BY <2>3 DEF NoFalseAlarm, Valid, Refused
    <2>5. Framed' /\ Decoding' /\ Received'
      BY <1>t, <2>1 DEF Framed, Decoding, Received
    <2>6. WireTyped'
      BY <1>t, <2>1 DEF WireTyped
    <2> QED BY <2>4, <2>5, <2>6 DEF WireInv
  <1>4. CASE format = "ipc" /\ Len(Due.data) = 0 /\ Deliver(Heading(Due), <<>>)
    <2>1. Due.data = <<>> /\ Due = [variant |-> Due.variant, camera |-> Due.camera, data |-> <<>>]
      <3>1. Due = [variant |-> Due.variant, camera |-> Due.camera, data |-> Due.data]
            /\ Due.data \in Seq(Nat \X Nat)
        BY <1>1 DEF Mails
      <3>2. Due.data = <<>>
        BY <1>4, <3>1
      <3> QED BY <3>1, <3>2
    <2>2. received' = Append(received, Due) /\ phase' = "header"
      <3>1. received' = Append(received, [variant |-> Due.variant, camera |-> Due.camera, data |-> <<>>])
        BY <1>4 DEF Deliver, Heading
      <3> QED BY <1>4, <2>1, <3>1 DEF Deliver
    <2> DEFINE p == start[Len(received)] + Parts(Due)
    <2>3. p + Len(Due.data) = p
      <3>1. Len(received) \in Nat /\ Parts(Due) \in {2, 3}
        BY DueFacts
      <3>2. start[Len(received)] \in Nat
        BY <3>1
      <3>3. \A a \in Nat, b \in {2, 3} : a + b + 0 = a + b
        OBVIOUS
      <3> QED BY <1>4, <3>1, <3>2, <3>3
    <2>4. Flow(stream, p + Len(Due.data), <<>>, wire, outbox)
          /\ (~cut => Full(stream, p + Len(Due.data), <<>>, wire, outbox))
      <3>1. Flow(stream, p, <<>>, wire, outbox) /\ (~cut => Full(stream, p, <<>>, wire, outbox))
        OBVIOUS
      <3> HIDE DEF p
      <3> QED BY <2>3, <3>1, Zenon
    <2> QED BY <2>2, <2>4, Receive
  <1>5. CASE /\ Len(Due.data) > 0 /\ (format = "ipc" \/ Len(Due.data) <= MaxSize)
             /\ phase' = "payload" /\ head' = Heading(Due) /\ UNCHANGED received
    <2>1. UNCHANGED <<received, sent>> /\ Due' = Due
      BY <1>5 DEF Due
    <2>2. Decoding'
      <3>1. phase' = "payload" /\ Len(buf') = 0 /\ Len(received') < Len(sent') /\ format' = format
        BY <1>5, <2>1
      <3>2. head' = Heading(Due') /\ Len(Due'.data) > 0 /\ Len(Due'.data) \in Nat
            /\ (format' = "ipc" \/ Len(Due'.data) <= MaxSize)
        BY <1>1, <1>5, <2>1
      <3>3. Len(buf') <= Len(Due'.data)
        BY <3>1, <3>2
      <3>4. phase' # "header" /\ phase' # "id"
        BY <3>1
      <3> QED BY <3>1, <3>2, <3>3, <3>4 DEF Decoding, Heading
    <2>3. Used(start)' = start[Len(received)] + Parts(Due)
      BY <1>5, <2>1 DEF Used, Parts
    <2>4. Framed'
      BY <2>1, <2>3 DEF Framed
    <2>5. WireTyped'
      BY <1>5, <1>t, <2>1 DEF WireTyped
    <2>6. Received' /\ NoFalseAlarm'
      BY <1>5, <1>t, <2>1 DEF Received, NoFalseAlarm
    <2> QED BY <2>2, <2>4, <2>5, <2>6 DEF WireInv
  <1> QED BY <1>2, <1>3, <1>4, <1>5 DEF SizeCheck

\* What the reader waits for.
LEMMA WantIs ==
    /\ phase = "header" => Want = 2
    /\ phase = "id" => Want = 1
    /\ phase = "payload" => Want = head.size
    /\ phase = "failed" => Want = 0
  BY Zenon DEF Want

\* The units that the reader has and awaits are those of the message that is due.
LEMMA BufIsDue ==
    ASSUME WireInv, NEW k \in Nat, k = Len(received), k <= Len(sent),
           NEW stream \in Seq(Units), NEW start \in [Nat -> Nat], Laid(stream, start, sent, format),
           NEW n \in Nat, Flow(stream, start[k] + n, buf, wire, outbox), Len(buf) > 0
    PROVE  /\ k < Len(sent)
           /\ \A i \in 1..Len(buf) : n + i <= Parts(Due) + Len(Due.data) =>
                 buf[i] = Encode(format, Due)[n + i]
  <1>1. k < Len(sent)
    <2>1. start[Len(sent)] = Len(stream) /\ Len(sent) \in Nat
      BY DEF Laid, WireInv, WireTyped
    <2> DEFINE x == start[k]
               b == Len(buf)
               w == Len(wire)
               o == Len(outbox)
               all == Len(stream)
    <2>2. x + n + b + w + o <= all
      BY DEF Flow
    <2>6. b \in Nat /\ w \in Nat /\ o \in Nat /\ x \in Nat /\ all \in Nat /\ b > 0
      <3>1. buf \in Seq(Units) /\ wire \in Seq(Units) /\ outbox \in Seq(Units)
        BY DEF WireInv, WireTyped
      <3>2. b \in Nat /\ w \in Nat /\ o \in Nat /\ all \in Nat
        BY <3>1, LenIsNat, Zenon DEF b, w, o, all
      <3>3. x \in Nat
        OBVIOUS
      <3> QED BY <3>2, <3>3
    <2> HIDE DEF x, b, w, o, all
    <2>7. x # all
      BY <2>2, <2>6
    <2>3. Len(sent) = k => start[k] = Len(stream)
      BY <2>1
    <2>5. Len(sent) # k
      BY <2>3, <2>7 DEF x, all
    <2> QED BY <2>1, <2>5
  <1>2. Due \in Mails /\ Due = sent[k + 1]
    BY <1>1, DueFacts DEF Due
  <1>3. Agrees(stream, Encode(format, Due), start[k])
    BY <1>1, <1>2 DEF Laid
  <1> DEFINE e == Encode(format, Due)
  <1>4. e \in Seq(Units) /\ Len(e) = Parts(Due) + Len(Due.data)
    BY <1>2, EncodeFacts
  <1> HIDE DEF e
  <1>5. ASSUME NEW i \in 1..Len(buf), n + i <= Parts(Due) + Len(Due.data) PROVE buf[i] = e[n + i]
    <2>1. Len(e) \in Nat /\ i \in Nat /\ i > 0
      <3>1. Len(buf) \in Nat
        BY DEF WireInv, WireTyped
      <3>2. i \in Nat /\ i > 0
        BY <3>1
      <3>3. Len(e) \in Nat
        BY <1>4, LenIsNat, Zenon
      <3> QED BY <3>2, <3>3
    <2>2. n + i \in 1..Len(e)
      BY <1>4, <1>5, <2>1
    <2>3. stream[start[k] + (n + i)] = e[n + i]
      BY <1>3, <2>2 DEF Agrees, e
    <2>4. stream[(start[k] + n) + i] = buf[i]
      BY DEF Flow, Agrees
    <2>5. start[k] \in Nat /\ start[k] + (n + i) = (start[k] + n) + i
      OBVIOUS
    <2> QED BY <2>3, <2>4, <2>5
  <1> QED BY <1>1, <1>5 DEF e

\* Where the reader is in the stream.
LEMMA Position ==
    ASSUME WireInv, phase # "failed"
    PROVE  \E stream \in Seq(Units), start \in [Nat -> Nat] :
              /\ Laid(stream, start, sent, format) /\ Used(start) \in Nat
              /\ Flow(stream, Used(start), buf, wire, outbox)
              /\ ~cut => Full(stream, Used(start), buf, wire, outbox)
  BY UsedType DEF WireInv, Framed

\* Where the message goes that the writer begins.
LEMMA LaidNext ==
    ASSUME NEW stream \in Seq(Units), NEW start \in [Nat -> Nat], NEW m \in Mails,
           sent \in Seq(Mails), Laid(stream, start, sent, format)
    PROVE  \E next \in [Nat -> Nat] :
              /\ Laid(stream \o Encode(format, m), next, Append(sent, m), format)
              /\ \A k \in 0..Len(sent) : next[k] = start[k]
  BY LaidAppend

\* The writer begins a message.
LEMMA BeginKeeps == ASSUME WireInv, BeginWrite PROVE WireInv'
  <1>t. WireTyped /\ Received /\ Decoding /\ NoFalseAlarm /\ Len(sent) \in Nat /\ Len(received) \in Nat
    BY DEF WireInv, WireTyped
  <1>1. PICK m \in Sendable(format, Len(sent) + 1) :
            /\ ~cut /\ outbox = <<>> /\ Len(sent) < MaxMessages
            /\ sent' = Append(sent, m) /\ outbox' = Encode(format, m)
            /\ UNCHANGED <<format, wire, cut, phase, buf, head, stopped, received>>
    BY DEF BeginWrite, readerVars
  <1> DEFINE n == Len(sent)
             e == Encode(format, m)
  <1>2. m \in Mails /\ e \in Seq(Units)
    <2>1. n + 1 \in Nat /\ format \in Formats
      BY <1>t DEF WireTyped
    <2>2. m \in Mails
      BY <2>1, SendableMails
    <2> QED BY <2>2, EncodeFacts
  <1>3. /\ sent' \in Seq(Mails) /\ Len(sent') = n + 1 /\ sent'[n + 1] = m
        /\ \A i \in 1..n : sent'[i] = sent[i]
    BY <1>1, <1>2, <1>t DEF WireTyped
  <1> HIDE DEF e
  <1>4. \A i \in 1..(n + 1) : i \in 1..n \/ i = n + 1
    BY <1>t
  <1>5. WireTyped'
    <2>1. \A i \in 1..n : sent[i] \in Sendable(format, i)
      BY <1>t DEF WireTyped
    <2>2. \A i \in 1..(n + 1) : sent'[i] \in Sendable(format, i)
      BY <1>3, <1>4, <2>1
    <2>3. \A i \in 1..Len(sent') : sent'[i] \in Sendable(format', i)
      BY <1>1, <1>3, <2>2
    <2>4. outbox' \in Seq(Units)
      BY <1>1, <1>2 DEF e
    <2>5. Len(sent') <= MaxMessages
      BY <1>1, <1>3, <1>t, FramingAssumption
    <2> QED BY <1>1, <1>3, <1>t, <2>3, <2>4, <2>5
            DEF WireTyped
  <1>6. Received'
    <2>1. Len(received) <= n + 1 /\ \A i \in 1..Len(received) : i \in 1..n
      BY <1>t DEF Received
    <2> QED BY <1>1, <1>3, <1>t, <2>1 DEF Received
  <1>7. Len(received) < n => Due' = Due
    <2>1. Len(received) < n => Len(received) + 1 \in 1..n
      BY <1>t
    <2> QED BY <1>1, <1>3, <2>1 DEF Due
  <1>8. Decoding'
    <2>1. Len(received) < n => Len(received) < n + 1
      BY <1>t
    <2> QED BY <1>1, <1>3, <1>7, <1>t, <2>1 DEF Decoding, Heading
  <1>9. NoFalseAlarm'
    <2>1. DOMAIN sent = 1..n /\ DOMAIN sent' = 1..(n + 1) /\ \A i \in 1..n : i \in 1..(n + 1)
      BY <1>3, <1>t DEF WireTyped
    <2>2. \A i \in DOMAIN sent : i \in DOMAIN sent' /\ sent'[i] = sent[i]
      BY <1>3, <2>1
    <2> QED BY <1>1, <1>t, <2>2 DEF NoFalseAlarm, Valid, Refused
  <1>10. ASSUME phase # "failed"
         PROVE  \E s \in Seq(Units), next \in [Nat -> Nat] :
                   /\ Laid(s, next, sent', format)
                   /\ Flow(s, Used(next)', buf, wire, outbox') /\ Full(s, Used(next)', buf, wire, outbox')
    <2>1. PICK stream \in Seq(Units), start \in [Nat -> Nat] :
              /\ Laid(stream, start, sent, format) /\ Used(start) \in Nat
              /\ Flow(stream, Used(start), buf, wire, outbox)
              /\ Full(stream, Used(start), buf, wire, outbox)
      BY <1>1, <1>10, Position
    <2>2. buf \in Seq(Units) /\ wire \in Seq(Units) /\ outbox \in Seq(Units) /\ sent \in Seq(Mails)
      BY <1>t DEF WireTyped
    <2> DEFINE p == Used(start)
               s == stream \o e
    <2>3. p \in Nat /\ Flow(stream, p, buf, wire, outbox) /\ Full(stream, p, buf, wire, outbox)
      BY <2>1
    <2> HIDE DEF p
    <2>4. Flow(s, p, buf, wire, e) /\ Full(s, p, buf, wire, e) /\ s \in Seq(Units)
      <3>1. Flow(s, p, buf, wire, e) /\ Full(s, p, buf, wire, e)
        BY <1>1, <1>2, <2>2, <2>3, FlowSteps, Zenon
      <3>2. s \in Seq(Units)
        BY <1>2
      <3> QED BY <3>1, <3>2
    <2>5. PICK next \in [Nat -> Nat] : /\ Laid(s, next, sent', format)
                                      /\ \A k \in 0..n : next[k] = start[k]
      <3>1. /\ stream \in Seq(Units) /\ start \in [Nat -> Nat] /\ sent \in Seq(Mails) /\ m \in Mails
            /\ Laid(stream, start, sent, format)
        BY <1>2, <2>1, <2>2
      <3>2. \E next \in [Nat -> Nat] :
               /\ Laid(stream \o Encode(format, m), next, Append(sent, m), format)
               /\ \A k \in 0..Len(sent) : next[k] = start[k]
        BY <3>1, LaidNext, Zenon
      <3> QED BY <1>1, <3>2, Zenon DEF e
    <2>6. next[Len(received)] = start[Len(received)]
      <3>1. Len(received) \in 0..n
        BY <1>t DEF Received
      <3> QED BY <2>5, <3>1
    <2>7. Used(next)' = p
      <3>1. phase = "payload" => Due' = Due
        BY <1>7, <1>t DEF Decoding
      <3> QED BY <1>1, <2>6, <3>1, <1>10, <1>t DEF Used, p, Parts, WireTyped
    <2> HIDE DEF s
    <2> QED BY <1>1, <2>4, <2>5, <2>7 DEF e
  <1>11. Framed'
    BY <1>1, <1>10 DEF Framed
  <1> QED BY <1>5, <1>6, <1>8, <1>9, <1>11 DEF WireInv

\* The writer writes on, the connection breaks, or the reader has read a unit more: nothing
\* moves but the stream.
LEMMA FlowKeeps ==
    ASSUME WireInv, outbox' \in Seq(Units), wire' \in Seq(Units), buf' \in Seq(Units),
           cut' \in BOOLEAN, cut => cut', cut' => outbox' = <<>>,
           UNCHANGED <<format, sent, phase, head, stopped, received>>,
           phase = "failed" \/ Len(buf') <= Want,
           \A stream \in Seq(Units), p \in Nat :
              Flow(stream, p, buf, wire, outbox) =>
                /\ Flow(stream, p, buf', wire', outbox')
                /\ ~cut' /\ Full(stream, p, buf, wire, outbox) => Full(stream, p, buf', wire', outbox')
    PROVE  WireInv'
  <1>t. WireTyped /\ Received /\ Decoding /\ NoFalseAlarm
    BY DEF WireInv
  <1>1. WireTyped'
    BY <1>t DEF WireTyped
  <1>2. Received'
    BY <1>t DEF Received
  <1>3. Due' = Due
    BY DEF Due
  <1>4. Decoding'
    <2>1. CASE phase = "header"
      BY <1>t, <2>1, WantIs DEF Decoding
    <2>2. CASE phase = "id"
      BY <1>t, <1>3, <2>2, WantIs DEF Decoding
    <2>3. CASE phase = "payload"
      <3>1. Want = Len(Due.data)
        BY <1>t, <2>3, WantIs DEF Decoding, Heading
      <3> QED BY <1>t, <1>3, <2>3, <3>1 DEF Decoding, Heading
    <2>4. CASE phase = "failed"
      BY <2>4 DEF Decoding
    <2> QED BY <1>t, <2>1, <2>2, <2>3, <2>4 DEF WireTyped
  <1>5. NoFalseAlarm'
    BY <1>t DEF NoFalseAlarm, Valid, Refused
  <1>6. ASSUME phase # "failed"
        PROVE  \E s \in Seq(Units), next \in [Nat -> Nat] :
                  /\ Laid(s, next, sent', format')
                  /\ Flow(s, Used(next)', buf', wire', outbox')
                  /\ ~cut' => Full(s, Used(next)', buf', wire', outbox')
    <2>1. PICK stream \in Seq(Units), start \in [Nat -> Nat] :
              /\ Laid(stream, start, sent, format) /\ Used(start) \in Nat
              /\ Flow(stream, Used(start), buf, wire, outbox)
              /\ ~cut => Full(stream, Used(start), buf, wire, outbox)
      BY <1>6, Position
    <2>2. Used(start)' = Used(start)
      BY <1>3 DEF Used, Parts
    <2> DEFINE p == Used(start)
    <2>3. p \in Nat /\ Flow(stream, p, buf, wire, outbox)
          /\ (~cut => Full(stream, p, buf, wire, outbox))
      BY <2>1
    <2> HIDE DEF p
    <2>4. Flow(stream, p, buf', wire', outbox') /\ (~cut' => Full(stream, p, buf', wire', outbox'))
      BY <2>3
    <2>5. Laid(stream, start, sent', format')
      BY <2>1
    <2> QED BY <2>2, <2>4, <2>5 DEF p
  <1>7. Framed'
    BY <1>6 DEF Framed
  <1> QED BY <1>1, <1>2, <1>4, <1>5, <1>7 DEF WireInv

\* The reader gives up, or meets the end of a stream that was cut.
LEMMA FailKeeps ==
    ASSUME WireInv, phase' = "failed", cut \/ stopped', stopped => stopped', stopped' \in BOOLEAN,
           UNCHANGED <<format, sent, outbox, cut, wire, buf, received>>
    PROVE  WireInv'
  <1>1. WireTyped'
    BY DEF WireInv, WireTyped
  <1> QED BY <1>1 DEF WireInv, Received, Decoding, Framed, NoFalseAlarm

\* The writer writes a unit, the connection breaks, and the reader reads a unit.
LEMMA StreamKeeps ==
    ASSUME WireInv, WriteUnit \/ Break \/ Read PROVE WireInv'
  <1>t. /\ outbox \in Seq(Units) /\ wire \in Seq(Units) /\ buf \in Seq(Units) /\ cut \in BOOLEAN
        /\ phase \in {"header", "id", "payload", "failed"} /\ (cut => outbox = <<>>)
    BY DEF WireInv, WireTyped
  <1>0. phase = "failed" \/ Len(buf) <= Want
    <2>1. CASE phase = "header"
      BY <2>1, WantIs DEF WireInv, Decoding
    <2>2. CASE phase = "id"
      BY <2>2, WantIs DEF WireInv, Decoding
    <2>3. CASE phase = "payload"
      BY <2>3, WantIs DEF WireInv, Decoding, Heading
    <2> QED BY <1>t, <2>1, <2>2, <2>3
  <1>1. CASE WriteUnit
    <2>1. /\ ~cut /\ outbox # <<>> /\ wire' = Append(wire, Head(outbox)) /\ outbox' = Tail(outbox)
          /\ UNCHANGED <<format, sent, cut, phase, buf, head, stopped, received>>
      BY <1>1 DEF WriteUnit, readerVars
    <2>2. outbox' \in Seq(Units) /\ wire' \in Seq(Units)
      BY <1>t, <2>1
    <2>3. \A stream \in Seq(Units), p \in Nat : Flow(stream, p, buf, wire, outbox) =>
             /\ Flow(stream, p, buf, wire', outbox')
             /\ Full(stream, p, buf, wire, outbox) => Full(stream, p, buf, wire', outbox')
      BY <1>t, <2>1, FlowSteps, Zenon
    <2> QED BY <1>0, <1>t, <2>1, <2>2, <2>3, FlowKeeps
  <1>2. CASE Break
    <2>1. PICK n \in 0..Len(wire) : wire' = SubSeq(wire, 1, n)
      BY <1>2 DEF Break
    <2>2. ~cut /\ cut' /\ cut' \in BOOLEAN /\ outbox' = <<>>
          /\ UNCHANGED <<format, sent, phase, buf, head, stopped, received>>
      BY <1>2 DEF Break, readerVars
    <2>3. outbox' \in Seq(Units) /\ wire' \in Seq(Units)
      BY <1>t, <2>1, <2>2
    <2>4. \A stream \in Seq(Units), p \in Nat :
             Flow(stream, p, buf, wire, outbox) => Flow(stream, p, buf, wire', outbox')
      BY <1>t, <2>1, <2>2, FlowSteps, Zenon
    <2> QED BY <1>0, <1>t, <2>2, <2>3, <2>4, FlowKeeps
  <1>3. CASE Read
    <2>1. /\ Len(buf) < Want /\ wire # <<>>
          /\ buf' = Append(buf, Head(wire)) /\ wire' = Tail(wire)
          /\ UNCHANGED <<format, sent, outbox, cut, phase, head, stopped, received>>
      BY <1>3 DEF Read, ReaderStep, writerVars
    <2>2. buf' \in Seq(Units) /\ wire' \in Seq(Units) /\ Len(buf') = Len(buf) + 1
      BY <1>t, <2>1
    <2>3. \A stream \in Seq(Units), p \in Nat : Flow(stream, p, buf, wire, outbox) =>
             /\ Flow(stream, p, buf', wire', outbox)
             /\ Full(stream, p, buf, wire, outbox) => Full(stream, p, buf', wire', outbox)
      BY <1>t, <2>1, FlowSteps, Zenon
    <2>4. phase = "failed" \/ Len(buf') <= Want
      <3>1. CASE phase = "header"
        BY <1>t, <2>1, <2>2, <3>1, WantIs
      <3>2. CASE phase = "id"
        BY <1>t, <2>1, <2>2, <3>2, WantIs
      <3>3. CASE phase = "payload"
        <4>1. head.size \in Nat /\ Want = head.size
          BY <3>3, DueFacts, WantIs DEF WireInv, Decoding, Heading
        <4> QED BY <1>t, <2>1, <2>2, <4>1
      <3> QED BY <1>t, <3>1, <3>2, <3>3
    <2> QED BY <1>t, <2>1, <2>2, <2>3, <2>4, FlowKeeps
  <1> QED BY <1>1, <1>2, <1>3

\* What the reader has, once it is whole.
LEMMA Whole ==
    ASSUME WireInv, phase # "failed", Len(buf) > 0
    PROVE  /\ Len(received) < Len(sent)
           /\ \E stream \in Seq(Units), start \in [Nat -> Nat] :
                 /\ Laid(stream, start, sent, format) /\ Used(start) \in Nat
                 /\ Flow(stream, Used(start) + Len(buf), <<>>, wire, outbox)
                 /\ ~cut => Full(stream, Used(start) + Len(buf), <<>>, wire, outbox)
           /\ phase = "header" =>
                 \A i \in 1..Len(buf) : i <= 2 => buf[i] = Encode(format, Due)[i]
           /\ phase = "id" => buf[1] = Encode(format, Due)[3]
           /\ phase = "payload" => \A i \in 1..Len(buf) :
                 i <= Len(Due.data) => buf[i] = Encode(format, Due)[Parts(Due) + i]
  <1>t. /\ outbox \in Seq(Units) /\ wire \in Seq(Units) /\ buf \in Seq(Units)
        /\ Len(received) \in Nat /\ Len(received) <= Len(sent) /\ Len(buf) \in Nat
        /\ phase \in {"header", "id", "payload", "failed"}
    BY DEF WireInv, WireTyped, Received
  <1>1. PICK stream \in Seq(Units), start \in [Nat -> Nat] :
            /\ Laid(stream, start, sent, format) /\ Used(start) \in Nat
            /\ Flow(stream, Used(start), buf, wire, outbox)
            /\ ~cut => Full(stream, Used(start), buf, wire, outbox)
    BY Position
  <1>2. /\ Flow(stream, Used(start) + Len(buf), <<>>, wire, outbox)
        /\ ~cut => Full(stream, Used(start) + Len(buf), <<>>, wire, outbox)
    BY <1>1, <1>t, FlowSteps, Zenon
  <1> DEFINE k == Len(received)
             n == IF phase = "header" THEN 0 ELSE IF phase = "id" THEN 2 ELSE Parts(Due)
  <1>3. n \in Nat /\ Used(start) = start[k] + n
    <2>1. start[k] \in Nat
      BY <1>t
    <2>2. CASE phase = "header"
      BY <2>1, <2>2 DEF Used
    <2>3. CASE phase = "id"
      BY <2>3 DEF Used
    <2>4. CASE phase = "payload"
      <3>1. Parts(Due) \in {2, 3}
        BY <2>4, DueFacts DEF WireInv, Decoding
      <3> QED BY <2>4, <3>1 DEF Used
    <2> QED BY <1>t, <2>2, <2>3, <2>4
  <1> HIDE DEF n, k
  <1>4. /\ k < Len(sent)
        /\ \A i \in 1..Len(buf) : n + i <= Parts(Due) + Len(Due.data) =>
              buf[i] = Encode(format, Due)[n + i]
    <2>1. Flow(stream, start[k] + n, buf, wire, outbox)
      BY <1>1, <1>3
    <2>2. k \in Nat /\ k = Len(received) /\ k <= Len(sent)
      BY <1>t DEF k
    <2> QED BY <1>1, <1>3, <2>1, <2>2, BufIsDue
  <1>5. Len(Due.data) \in Nat /\ Parts(Due) \in {2, 3}
    BY <1>4, DueFacts DEF k
  <1> DEFINE d == Len(Due.data)
             parts == Parts(Due)
  <1>6. d \in Nat /\ parts \in {2, 3}
    BY <1>5
  <1>7. phase = "header" => \A i \in 1..Len(buf) : i <= 2 => buf[i] = Encode(format, Due)[i]
    <2> SUFFICES ASSUME phase = "header", NEW i \in 1..Len(buf), i <= 2
                 PROVE  buf[i] = Encode(format, Due)[i]
      OBVIOUS
    <2>1. n = 0
      BY DEF n
    <2>2. n + i = i /\ i <= parts + d
      <3> HIDE DEF parts, d
      <3>1. i \in Nat
        BY <1>t
      <3> QED BY <1>6, <2>1, <3>1
    <2> QED BY <1>4, <2>2
  <1>8. phase = "id" => buf[1] = Encode(format, Due)[3]
    <2> SUFFICES ASSUME phase = "id" PROVE buf[1] = Encode(format, Due)[3]
      OBVIOUS
    <2>1. n = 2 /\ parts = 3
      BY DEF n, WireInv, Decoding, Parts
    <2>2. n + 1 = 3 /\ 3 <= parts + d /\ 1 \in 1..Len(buf)
      <3> HIDE DEF parts, d
      <3> QED BY <1>6, <2>1, <1>t
    <2> QED BY <1>4, <2>2
  <1>9. phase = "payload" => \A i \in 1..Len(buf) :
                 i <= d => buf[i] = Encode(format, Due)[parts + i]
    <2> SUFFICES ASSUME phase = "payload", NEW i \in 1..Len(buf), i <= d
                 PROVE  buf[i] = Encode(format, Due)[parts + i]
      OBVIOUS
    <2>1. n = parts
      BY DEF n
    <2>2. n + i <= parts + d
      <3> HIDE DEF parts, d
      <3>1. i \in Nat
        BY <1>t
      <3> QED BY <1>6, <2>1, <3>1
    <2> QED BY <1>4, <2>1, <2>2
  <1> QED BY <1>1, <1>2, <1>4, <1>7, <1>8, <1>9 DEF k

\* The header of the message that is due.
LEMMA HeaderKeeps ==
    ASSUME WireInv, phase # "failed", HeaderRead PROVE WireInv'
  <1>1. /\ phase = "header" /\ Len(buf) = 2 /\ buf' = <<>>
        /\ UNCHANGED <<format, sent, outbox, cut, wire, stopped>>
    BY WantIs DEF HeaderRead, ReadUnits, ReaderStep, writerVars
  <1>2. /\ Len(received) < Len(sent)
        /\ \A i \in 1..2 : buf[i] = Encode(format, Due)[i]
    <2>1. Len(buf) > 0
      BY <1>1
    <2>2. Len(received) < Len(sent)
          /\ \A i \in 1..Len(buf) : i <= 2 => buf[i] = Encode(format, Due)[i]
      BY <1>1, <2>1, Whole
    <2> QED BY <1>1, <2>2
  <1>3. /\ Due \in Mails /\ Due.variant \in Variants(format)
        /\ (Due.variant = "JPGS" => Due.camera = 0)
        /\ (format = "device" <=> Due.variant \in {"JPGS", "JPGD"})
    BY <1>2, DueFacts
  <1> DEFINE c == IF format = "device" THEN 0 ELSE Due.camera
  <1>4. /\ buf[1] = [at |-> "magic", of |-> Due.variant]
        /\ buf[2] = [at |-> "fields", of |-> [camera |-> c, size |-> Len(Due.data)]]
    <2>1. LET e == Encode(format, Due)
          IN  /\ e[1] = [at |-> "magic", of |-> Due.variant]
              /\ e[2] = [at |-> "fields", of |-> [camera |-> IF format = "device" THEN 0 ELSE Due.camera,
                                                  size |-> Len(Due.data)]]
      BY <1>3, EncodeFacts, Zenon
    <2>2. 1 \in 1..2 /\ 2 \in 1..2
      OBVIOUS
    <2> HIDE DEF c
    <2>3. buf[1] = Encode(format, Due)[1] /\ buf[2] = Encode(format, Due)[2]
      BY <1>2, <2>2, Zenon
    <2> QED BY <2>1, <2>3, Zenon DEF c
  <1>5. ~BadMagic
    BY <1>3, <1>4 DEF BadMagic
  <1>6. ParsedHeader = [variant |-> Due.variant, camera |-> c, size |-> Len(Due.data)]
    BY <1>4 DEF ParsedHeader
  <1>7. PICK stream \in Seq(Units), start \in [Nat -> Nat] :
            /\ Laid(stream, start, sent, format)
            /\ Flow(stream, start[Len(received)] + 2, <<>>, wire, outbox)
            /\ ~cut => Full(stream, start[Len(received)] + 2, <<>>, wire, outbox)
    <2>1. Len(buf) > 0 /\ \A start \in [Nat -> Nat] :
             Used(start) + Len(buf) = start[Len(received)] + 2
      BY <1>1 DEF Used
    <2>2. \E stream \in Seq(Units), start \in [Nat -> Nat] :
            /\ Laid(stream, start, sent, format) /\ Used(start) \in Nat
            /\ Flow(stream, Used(start) + Len(buf), <<>>, wire, outbox)
            /\ ~cut => Full(stream, Used(start) + Len(buf), <<>>, wire, outbox)
      BY <2>1, Whole
    <2> QED BY <2>1, <2>2
  <1>8. CASE ParsedHeader.variant = "JPGD" /\ phase' = "id" /\ head' = ParsedHeader
             /\ UNCHANGED received
    <2>1. Due.variant = "JPGD" /\ format = "device" /\ c = 0
      BY <1>3, <1>6, <1>8
    <2>2. head' = [variant |-> "JPGD", camera |-> 0, size |-> Len(Due.data)]
      BY <1>6, <1>8, <2>1
    <2>3. Due' = Due /\ UNCHANGED <<received, sent>>
      BY <1>1, <1>8 DEF Due
    <2>4. Decoding'
      <3>1. phase' = "id" /\ Len(buf') = 0 /\ Len(received') < Len(sent') /\ Due'.variant = "JPGD"
            /\ head' = [variant |-> "JPGD", camera |-> 0, size |-> Len(Due'.data)]
        BY <1>1, <1>2, <1>8, <2>1, <2>2, <2>3
      <3>2. phase' # "header" /\ phase' # "payload" /\ Len(buf') <= 1
        BY <3>1
      <3> QED BY <3>1, <3>2 DEF Decoding
    <2>5. Framed'
      <3>1. Used(start)' = start[Len(received)] + 2
        BY <1>8, <2>3 DEF Used
      <3> QED BY <1>1, <1>7, <2>3, <3>1 DEF Framed
    <2>6. WireTyped' /\ Received' /\ NoFalseAlarm'
      <3>1. <<>> \in Seq(Units)
        OBVIOUS
      <3>2. WireTyped'
        BY <1>1, <1>8, <3>1 DEF WireInv, WireTyped
      <3>3. Received'
        BY <1>1, <1>8 DEF WireInv, Received
      <3>4. NoFalseAlarm'
        BY <1>8 DEF NoFalseAlarm
      <3> QED BY <3>2, <3>3, <3>4
    <2> QED BY <2>4, <2>5, <2>6 DEF WireInv
  <1>9. CASE ParsedHeader.variant # "JPGD" /\ SizeCheck(ParsedHeader)
    <2>1. Due.variant # "JPGD" /\ Parts(Due) = 2
      BY <1>6, <1>9 DEF Parts
    <2>2. c = Due.camera
      BY <1>3, <2>1
    <2>3. ParsedHeader = Heading(Due)
      BY <1>6, <2>2 DEF Heading
    <2>4. SizeCheck(Heading(Due))
      BY <1>9, <2>3, Zenon
    <2>5. /\ Flow(stream, start[Len(received)] + Parts(Due), <<>>, wire, outbox)
          /\ ~cut => Full(stream, start[Len(received)] + Parts(Due), <<>>, wire, outbox)
      BY <1>7, <2>1, Zenon
    <2> QED BY <1>1, <1>2, <1>7, <2>4, <2>5, SizeChecked
  <1> QED BY <1>5, <1>8, <1>9 DEF HeaderRead, Fail

\* The camera of a message that names it in a part of its own.
LEMMA IdKeeps ==
    ASSUME WireInv, phase # "failed", IdRead PROVE WireInv'
  <1>1. /\ phase = "id" /\ Len(buf) = 1 /\ buf' = <<>>
        /\ UNCHANGED <<format, sent, outbox, cut, wire, stopped>>
        /\ SizeCheck([head EXCEPT !.camera = buf[1].of])
    BY WantIs DEF IdRead, ReadUnits, ReaderStep, writerVars
  <1>2. Len(received) < Len(sent) /\ buf[1] = Encode(format, Due)[3]
    BY <1>1, Whole
  <1>3. /\ Due \in Mails /\ Due.variant = "JPGD" /\ Parts(Due) = 3
        /\ head = [variant |-> "JPGD", camera |-> 0, size |-> Len(Due.data)]
    BY <1>1, <1>2, DueFacts DEF WireInv, Decoding, Parts
  <1>4. buf[1] = [at |-> "id", of |-> Due.camera]
    BY <1>2, <1>3, EncodeFacts
  <1>5. [head EXCEPT !.camera = buf[1].of] = Heading(Due)
    BY <1>3, <1>4 DEF Heading
  <1>6. SizeCheck(Heading(Due))
    BY <1>1, <1>5, Zenon
  <1>7. PICK stream \in Seq(Units), start \in [Nat -> Nat] :
            /\ Laid(stream, start, sent, format)
            /\ Flow(stream, start[Len(received)] + 3, <<>>, wire, outbox)
            /\ ~cut => Full(stream, start[Len(received)] + 3, <<>>, wire, outbox)
    <2>1. Len(buf) > 0 /\ \A start \in [Nat -> Nat] :
             Used(start) + Len(buf) = start[Len(received)] + 3
      <3>1. Len(received) \in Nat
        BY DEF WireInv, WireTyped
      <3>2. \A a \in Nat : a + 2 + 1 = a + 3
        OBVIOUS
      <3>3. ASSUME NEW start \in [Nat -> Nat]
            PROVE  Used(start) + Len(buf) = start[Len(received)] + 3
        <4>1. Used(start) = start[Len(received)] + 2
          BY <1>1 DEF Used
        <4>2. start[Len(received)] \in Nat
          BY <3>1
        <4> QED BY <1>1, <3>2, <4>1, <4>2, Zenon
      <3>4. Len(buf) > 0
        BY <1>1
      <3> QED BY <3>3, <3>4, Zenon
    <2>2. \E stream \in Seq(Units), start \in [Nat -> Nat] :
            /\ Laid(stream, start, sent, format) /\ Used(start) \in Nat
            /\ Flow(stream, Used(start) + Len(buf), <<>>, wire, outbox)
            /\ ~cut => Full(stream, Used(start) + Len(buf), <<>>, wire, outbox)
      BY <2>1, Whole
    <2> QED BY <2>1, <2>2
  <1>8. /\ Flow(stream, start[Len(received)] + Parts(Due), <<>>, wire, outbox)
        /\ ~cut => Full(stream, start[Len(received)] + Parts(Due), <<>>, wire, outbox)
    BY <1>3, <1>7, Zenon
  <1> QED BY <1>1, <1>2, <1>6, <1>7, <1>8, SizeChecked

\* The payload of the message that is due.
LEMMA PayloadKeeps ==
    ASSUME WireInv, phase # "failed", PayloadRead PROVE WireInv'
  <1>1. /\ phase = "payload" /\ Len(buf) = head.size /\ buf' = <<>>
        /\ UNCHANGED <<format, sent, outbox, cut, wire, stopped>>
        /\ phase' = "header"
        /\ received' = Append(received, [variant |-> head.variant, camera |-> head.camera,
                                         data |-> [i \in DOMAIN buf |-> buf[i].of]])
    BY WantIs DEF PayloadRead, ReadUnits, ReaderStep, writerVars, Deliver
  <1>2. /\ Len(received) < Len(sent) /\ head = Heading(Due) /\ Len(Due.data) > 0
        /\ Len(Due.data) \in Nat /\ Due \in Mails /\ Parts(Due) \in {2, 3} /\ Len(received) \in Nat
    BY <1>1, DueFacts DEF WireInv, Decoding
  <1> DEFINE d == Len(Due.data)
  <1>3. Len(buf) = d /\ d \in Nat /\ d > 0
    BY <1>1, <1>2 DEF Heading
  <1>4. \A i \in 1..d : buf[i] = [at |-> "data", of |-> Due.data[i]]
    <2>1. \A i \in 1..Len(buf) : i <= d => buf[i] = Encode(format, Due)[Parts(Due) + i]
      BY <1>1, <1>3, Whole
    <2>2. \A i \in 1..d : Encode(format, Due)[Parts(Due) + i] = [at |-> "data", of |-> Due.data[i]]
      BY <1>2, EncodeFacts
    <2> HIDE DEF d
    <2>3. \A i \in 1..d : i \in 1..Len(buf) /\ i <= d
      BY <1>3
    <2> QED BY <2>1, <2>2, <2>3
  <1>5. received' = Append(received, Due)
    <2>1. buf \in Seq(Units) /\ Due.data \in Seq(Nat \X Nat)
      BY <1>2 DEF WireInv, WireTyped, Mails
    <2>2. DOMAIN buf = 1..d /\ DOMAIN Due.data = 1..d
      BY <1>3, <2>1
    <2>3. [i \in DOMAIN buf |-> buf[i].of] = [i \in 1..d |-> Due.data[i]]
      <3>1. ASSUME NEW i \in 1..d PROVE buf[i].of = Due.data[i]
        <4>1. buf[i] = [at |-> "data", of |-> Due.data[i]]
          BY <1>4, Zenon
        <4> QED BY ONLY <4>1
      <3>2. [i \in 1..d |-> buf[i].of] = [i \in 1..d |-> Due.data[i]]
        BY <3>1, Zenon
      <3> QED BY <2>2, <3>2, Zenon
    <2>4. Due.data = [i \in 1..d |-> Due.data[i]]
      BY <2>1
    <2>5. [i \in DOMAIN buf |-> buf[i].of] = Due.data
      BY <2>3, <2>4, Zenon
    <2>6. Due = [variant |-> Due.variant, camera |-> Due.camera, data |-> Due.data]
      BY <1>2 DEF Mails
    <2>7. head.variant = Due.variant /\ head.camera = Due.camera
      BY <1>2 DEF Heading
    <2> QED BY <1>1, <2>5, <2>6, <2>7, Zenon
  <1>6. PICK stream \in Seq(Units), start \in [Nat -> Nat] :
            /\ Laid(stream, start, sent, format)
            /\ Flow(stream, start[Len(received)] + Parts(Due) + d, <<>>, wire, outbox)
            /\ ~cut => Full(stream, start[Len(received)] + Parts(Due) + d, <<>>, wire, outbox)
    <2>1. Len(buf) > 0 /\ \A start \in [Nat -> Nat] :
             Used(start) + Len(buf) = start[Len(received)] + Parts(Due) + d
      BY <1>1, <1>3 DEF Used
    <2>2. \E stream \in Seq(Units), start \in [Nat -> Nat] :
            /\ Laid(stream, start, sent, format) /\ Used(start) \in Nat
            /\ Flow(stream, Used(start) + Len(buf), <<>>, wire, outbox)
            /\ ~cut => Full(stream, Used(start) + Len(buf), <<>>, wire, outbox)
      BY <2>1, Whole
    <2> QED BY <2>1, <2>2
  <1> QED BY <1>1, <1>2, <1>5, <1>6, Receive

\* Every step of the connection.
LEMMA WireStep ==
    ASSUME WireInv, [Next]_vars PROVE WireInv'
  <1>1. CASE BeginWrite
    BY <1>1, BeginKeeps
  <1>2. CASE WriteUnit \/ Break \/ Read
    BY <1>2, StreamKeeps
  <1>3. CASE EndOfStream
    BY <1>3, FailKeeps DEF EndOfStream, Fail, ReaderStep, writerVars, WireInv, WireTyped
  <1>4. CASE Stop
    BY <1>4, FailKeeps DEF Stop, Fail, ReaderStep, writerVars
  <1>5. CASE phase # "failed" /\ HeaderRead
    BY <1>5, HeaderKeeps
  <1>6. CASE phase # "failed" /\ IdRead
    BY <1>6, IdKeeps
  <1>7. CASE phase # "failed" /\ PayloadRead
    BY <1>7, PayloadKeeps
  <1>8. CASE UNCHANGED vars
    <2>1. UNCHANGED <<format, sent, outbox, wire, cut, phase, buf, head, stopped, received>>
      BY <1>8 DEF vars
    <2>2. WireTyped' /\ Received' /\ Decoding' /\ NoFalseAlarm'
      BY <2>1 DEF WireInv, WireTyped, Received, Decoding, Due, Heading, NoFalseAlarm, Valid, Refused
    <2>3. Framed'
      <3>1. \A start : Used(start)' = Used(start)
        BY <2>1 DEF Used, Due, Parts
      <3> QED BY <2>1, <3>1 DEF WireInv, Framed
    <2> QED BY <2>2, <2>3 DEF WireInv
  <1> QED BY <1>1, <1>2, <1>3, <1>4, <1>5, <1>6, <1>7, <1>8 DEF Next, Reader

\* The invariant has in it what the run checks.
LEMMA WireInvIsEnough == ASSUME WireInv PROVE FramingIsSound
  <1>t. WireTyped /\ Received /\ Decoding /\ NoFalseAlarm
    BY DEF WireInv
  <1>1. TypeOK
    <2>1. Len(received) <= MaxMessages
      <3>1. Len(received) \in Nat /\ Len(sent) \in Nat /\ Len(sent) <= MaxMessages /\ Len(received) <= Len(sent)
        BY <1>t DEF WireTyped, Received
      <3>2. MaxMessages \in Nat
        BY FramingAssumption
      <3> QED BY <3>1, <3>2
    <2>2. phase # "failed" => Len(buf) <= Want
      <3>1. CASE phase = "header"
        BY <1>t, <3>1, WantIs DEF Decoding
      <3>2. CASE phase = "id"
        BY <1>t, <3>2, WantIs DEF Decoding
      <3>3. CASE phase = "payload"
        BY <1>t, <3>3, WantIs DEF Decoding, Heading
      <3> QED BY <1>t, <3>1, <3>2, <3>3 DEF WireTyped
    <2>3. phase = "payload" => head.size > 0 /\ (format = "ipc" \/ head.size <= MaxSize)
      BY <1>t DEF Decoding, Heading
    <2> QED BY <1>t, <2>1, <2>2, <2>3 DEF WireTyped, TypeOK
  <1>2. PrefixReceived
    <2>1. received \in Seq(Mails) /\ sent \in Seq(Mails) /\ Len(received) <= Len(sent)
          /\ \A i \in 1..Len(received) : received[i] = sent[i]
      BY <1>t DEF WireTyped, Received
    <2>2. SubSeq(received, 1, Len(received)) = SubSeq(sent, 1, Len(received))
      BY <2>1
    <2> QED BY <2>1, <2>2 DEF PrefixReceived, IsPrefix
  <1> QED BY <1>t, <1>1, <1>2 DEF FramingIsSound

\* Whatever the sizes of the messages and wherever the stream is cut, the reader has the
\* beginning of what was sent, message for message, and fails only for a reason
\* (server.go:199-228, protocol.go:79-98, streamproto.go:97-136, frameipc.go:81-103).
THEOREM FramingStaysSound == Spec => []FramingIsSound
  <1>1. Init => WireInv
    BY WireInit
  <1>2. WireInv /\ [Next]_vars => WireInv'
    BY WireStep
  <1>3. WireInv => FramingIsSound
    BY WireInvIsEnough
  <1> QED BY <1>1, <1>2, <1>3, PTL DEF Spec
=============================================================================
