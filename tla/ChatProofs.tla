------------------------------ MODULE ChatProofs ------------------------------
(***************************************************************************)
(* What Chat promises, for any number of connections, I/O loops, users and *)
(* messages.                                                               *)
(*                                                                         *)
(* NoGhostSession alone is not inductive: that DOWN removes the session of *)
(* its connection depends on the connection being known by the name the    *)
(* session is filed under, which a second LOGIN changes.  SInv therefore   *)
(* says who may own a session and under which name unless it is one of     *)
(* renamed (Owned), what a granted login implies (GrantOK), and what each  *)
(* stage of a handler may rely on (HandlerOK).  OwnStep reduces a step to  *)
(* the one connection it works for: the loop of a connection runs one      *)
(* handler at a time, and no other loop touches its entries.               *)
(*                                                                         *)
(* TInv adds to the types who holds mutex_ and what the fields of a        *)
(* handler are good for.  On SInv and TInv rest                            *)
(*   AInv  what is queued for a connection precedes its removal, because   *)
(*         the target of a broadcast keeps its session while mutex_ is     *)
(*         held: BroadcastTargetsAlive;                                    *)
(*   OInv  what was written precedes what is queued, and both precede what *)
(*         a handler may still send: SenderOrder;                          *)
(*   GInv  NoGap, with the pages of clients that are not logged in.        *)
(***************************************************************************)
EXTENDS Chat, SequenceTheorems, TLAPS

(* Only what the session argument is about: connections, sessions and the  *)
(* handlers' own fields.                                                   *)
Core ==
  /\ conn \in [Conns -> {"connecting", "up", "closing", "barred", "down"}]
  /\ username \in [Conns -> Users \cup {NoUser}]
  /\ sessions \in [Users -> Conns \cup {NoConn}]
  /\ handler \in [Loops -> Handlers]
  /\ granted \in [Conns -> Users \cup {NoUser}]
  /\ sent \in 0..MaxMsgs /\ renamed \subseteq Conns

(* A handler works for a connection of its loop, under the name the        *)
(* connection has, and the stages of a login, a logout and a disconnect    *)
(* find the connection as the earlier ones left it.                        *)
NamedSteps == {"verify", "login_online", "add", "online_users", "logout",
               "down_online", "down_remove"}

HandlerOK(l) ==
  LET h == handler[l] IN
  /\ h.at # "idle" => h.c \in Conns /\ LoopOf[h.c] = l
  /\ h.at = "idle" => h.c = NoConn
  /\ h.at \in NamedSteps => h.u = username[h.c] /\ h.u \in Users
  /\ h.at \in {"verify", "login_online", "add", "online_users"} => conn[h.c] = "up"
  /\ h.at = "beat" => h.u \in Users
  /\ h.at \in {"down_online", "down_remove", "down_end"} => conn[h.c] = "down"
  /\ h.at \in {"logout_reply", "down_end"} /\ h.c \notin renamed =>
       \A u \in Users : sessions[u] # h.c

(* A client that was told it is logged in has a name, though after another *)
(* LOGIN it may not be the name it was told.                               *)
GrantOK(c) ==
  granted[c] # NoUser => username[c] \in Users /\ conn[c] \in {"up", "closing", "barred"}

(* The owner of a session that never took a second name is known by the    *)
(* session's name, and if it is down its DOWN is being handled.            *)
Busy(c, steps) == handler[LoopOf[c]].c = c /\ handler[LoopOf[c]].at \in steps

Carrying == {"down_online", "down_remove"}

Owned(u) ==
  LET c == sessions[u] IN
  c \notin renamed =>
    /\ username[c] = u /\ conn[c] # "connecting"
    /\ conn[c] = "down" => Busy(c, Carrying)

SInv ==
  /\ Core
  /\ \A l \in Loops : HandlerOK(l)
  /\ \A c \in Conns : GrantOK(c)
  /\ \A u \in Users : sessions[u] # NoConn => Owned(u)

USE LoopOfAssumption, NoneAssumption, MsgsAssumption

(* The invariant holds at the start, and implies the property.             *)
LEMMA InitSInv == Init => SInv
  BY DEF Init, SInv, Core, HandlerOK, GrantOK, Owned, Idle, Handlers, Steps, NamedSteps, NoMsg

LEMMA IdleHandler == Idle \in Handlers
  BY DEF Idle, Handlers, Steps, NoMsg

LEMMA SInvImplies == SInv => NoGhostSession
  BY DEF SInv, Core, NoGhostSession, DownHandled, Owned, Busy

(* Handler l has gone on; its connection, name and step are as given, and  *)
(* no other handler moved.                                                 *)
Moved(l, at, c, u) ==
  /\ handler' \in [Loops -> Handlers]
  /\ handler'[l].at = at /\ handler'[l].c = c /\ handler'[l].u = u
  /\ \A k \in Loops \ {l} : handler'[k] = handler[k]

(* Goto, Return and Begin move one handler.                                *)
LEMMA GotoMoves ==
  ASSUME handler \in [Loops -> Handlers], NEW l \in Loops, NEW s \in Steps, Goto(l, s)
  PROVE  Moved(l, s, handler[l].c, handler[l].u)
<1>1. handler[l] \in Handlers
  OBVIOUS
<1>2. [handler[l] EXCEPT !.at = s] \in Handlers
  BY <1>1 DEF Handlers
<1> QED
  BY <1>1, <1>2 DEF Goto, Moved, Handlers

LEMMA ReturnMoves ==
  ASSUME handler \in [Loops -> Handlers], NEW l \in Loops, Return(l)
  PROVE  Moved(l, "idle", NoConn, NoUser)
<1>1. Idle \in Handlers /\ Idle.at = "idle" /\ Idle.c = NoConn /\ Idle.u = NoUser
  BY IdleHandler DEF Idle
<1> QED
  BY <1>1 DEF Return, Moved

LEMMA BeginMoves ==
  ASSUME handler \in [Loops -> Handlers], NEW c \in Conns, NEW h \in Handlers, Begin(c, h)
  PROVE  /\ Moved(LoopOf[c], h.at, h.c, h.u)
         /\ handler[LoopOf[c]].at = "idle"
  BY DEF Begin, Moved, At

(* A step that only moves one handler keeps the invariant if the handler   *)
(* is sound where it has come to and no session depended on where it was.  *)
LEMMA QuietStep ==
  ASSUME SInv, NEW l \in Loops, NEW at, NEW c, NEW u, Moved(l, at, c, u),
         UNCHANGED <<conn, username, sessions, granted, renamed>>,
         sent' \in 0..MaxMsgs,
         HandlerOK(l)',
         handler[l].at \notin Carrying \/ (at \in Carrying /\ c = handler[l].c)
  PROVE  SInv'
<1>1. Core'
  BY DEF SInv, Core, Moved
<1>2. \A k \in Loops : HandlerOK(k)'
  BY DEF SInv, HandlerOK, Moved
<1>3. \A d \in Conns : GrantOK(d)'
  BY DEF SInv, GrantOK
<1>4. \A v \in Users : sessions[v] # NoConn => Owned(v)'
  <2> SUFFICES ASSUME NEW v \in Users, sessions[v] # NoConn PROVE Owned(v)'
    OBVIOUS
  <2>1. Owned(v) /\ sessions[v] \in Conns /\ LoopOf[sessions[v]] \in Loops
    BY DEF SInv, Core
  <2>2. CASE LoopOf[sessions[v]] # l
    BY <2>1, <2>2 DEF Owned, Busy, Moved
  <2>3. CASE LoopOf[sessions[v]] = l
    BY <2>1, <2>3 DEF Owned, Busy, Moved, Carrying
  <2> QED
    BY <2>2, <2>3
<1> QED
  BY <1>1, <1>2, <1>3, <1>4 DEF SInv

(* Facts every step starts from.                                           *)
LEMMA Facts ==
  ASSUME SInv
  PROVE  /\ handler \in [Loops -> Handlers]
         /\ \A l \in Loops : handler[l] \in Handlers /\ HandlerOK(l)
         /\ sessions \in [Users -> Conns \cup {NoConn}]
         /\ sent \in 0..MaxMsgs
  BY DEF SInv, Core

(* The steps that move one handler and nothing a session depends on.       *)
LEMMA QuietActions ==
  ASSUME SInv, NEW l \in Loops,
         \/ VerifyUser(l) \/ LoginIsOnline(l) \/ GetHistory(l) \/ ChatIsOnline(l)
         \/ SaveMessage(l) \/ BroadcastLock(l) \/ BroadcastQueue(l) \/ BroadcastDone(l)
         \/ GetConnection(l) \/ HeartbeatQueue(l)
         \/ \E u \in Users : BroadcastSend(l, u)
  PROVE  SInv'
<1> USE Facts
<1> DEFINE h == handler[l]
<1>0. h \in Handlers /\ HandlerOK(l) /\ h.at \in Steps
  BY DEF Handlers
<1>1. ASSUME NEW s \in Steps, Goto(l, s), h.at \notin Carrying \cup {"idle"},
             UNCHANGED <<conn, username, sessions, granted, sent, renamed>>,
             \/ s \notin NamedSteps \cup {"idle", "beat", "logout_reply", "down_end"}
             \/ h.at = "verify" /\ s = "login_online"
             \/ h.at = "login_online" /\ s = "add"
      PROVE  SInv'
  <2>1. Moved(l, s, h.c, h.u)
    BY <1>1, GotoMoves
  <2>2. HandlerOK(l)'
    BY <1>0, <1>1, <2>1 DEF HandlerOK, Moved, NamedSteps
  <2> QED
    BY <1>1, <2>1, <2>2, QuietStep
<1>2. ASSUME Return(l), h.at \notin Carrying, UNCHANGED <<conn, username, sessions, granted, sent, renamed>>
      PROVE  SInv'
  <2>1. Moved(l, "idle", NoConn, NoUser)
    BY <1>2, ReturnMoves
  <2>2. HandlerOK(l)'
    BY <2>1 DEF HandlerOK, Moved, NamedSteps
  <2> QED
    BY <1>2, <2>1, <2>2, QuietStep
<1>3. ASSUME NEW s \in {"sending", "queue", "beat_send"}, Moved(l, s, h.c, h.u),
             h.at \notin Carrying \cup {"idle"}, UNCHANGED <<conn, username, sessions, granted, sent, renamed>>
      PROVE  SInv'
  <2>1. HandlerOK(l)'
    BY <1>0, <1>3 DEF HandlerOK, Moved, NamedSteps
  <2> QED
    BY <1>3, <2>1, QuietStep
<1>4. CASE VerifyUser(l)
  BY <1>1, <1>4 DEF VerifyUser, At, Carrying, Steps, NamedSteps
<1>5. CASE LoginIsOnline(l)
  BY <1>1, <1>5 DEF LoginIsOnline, At, Carrying, Steps, NamedSteps
<1>6. CASE GetHistory(l)
  BY <1>2, <1>6 DEF GetHistory, At, Carrying
<1>7. CASE ChatIsOnline(l)
  BY <1>1, <1>2, <1>7 DEF ChatIsOnline, At, Carrying, Steps, NamedSteps
<1>8. CASE SaveMessage(l)
  BY <1>1, <1>2, <1>8 DEF SaveMessage, At, Carrying, Steps, NamedSteps
<1>9. CASE BroadcastLock(l)
  <2>1. Moved(l, "sending", h.c, h.u)
    BY <1>0, <1>9 DEF BroadcastLock, Moved, Handlers, Steps
  <2> QED
    BY <1>3, <1>9, <2>1 DEF BroadcastLock, At, Carrying
<1>10. CASE BroadcastQueue(l)
  <2>1. Moved(l, "sending", h.c, h.u)
    BY <1>0, <1>10 DEF BroadcastQueue, Moved, Handlers, Steps
  <2> QED
    BY <1>3, <1>10, <2>1 DEF BroadcastQueue, At, Carrying
<1>11. CASE BroadcastDone(l)
  BY <1>2, <1>11 DEF BroadcastDone, At, Carrying
<1>12. CASE GetConnection(l)
  <2>1. CASE Return(l)
    BY <1>2, <1>12, <2>1 DEF GetConnection, At, Carrying
  <2>2. CASE ~Return(l)
    <3>1. /\ sessions[h.u] \in Conns
          /\ handler' = [handler EXCEPT ![l].at = "beat_send", ![l].d = sessions[h.u]]
      BY <1>0, <1>12, <2>2 DEF GetConnection, At, HandlerOK
    <3>2. Moved(l, "beat_send", h.c, h.u)
      BY <1>0, <3>1 DEF Moved, Handlers, Steps
    <3> QED
      BY <1>3, <1>12, <3>2 DEF GetConnection, At, Carrying
  <2> QED
    BY <2>1, <2>2
<1>13. CASE HeartbeatQueue(l)
  BY <1>2, <1>13 DEF HeartbeatQueue, At, Carrying
<1>14. ASSUME NEW u \in Users, BroadcastSend(l, u)
       PROVE  SInv'
  <2>1. sessions[u] \in Conns \cup {NoConn} /\ h.at = "sending"
    BY <1>14 DEF BroadcastSend, At
  <2>2. CASE sessions[u] # NoConn /\ conn[sessions[u]] = "up" /\ LoopOf[sessions[u]] # l
    <3>1. /\ sessions[u] \in Conns
          /\ handler' = [handler EXCEPT ![l].at = "queue", ![l].d = sessions[u], ![l].left = @ \ {u}]
      BY <1>14, <2>1, <2>2 DEF BroadcastSend
    <3>2. Moved(l, "queue", h.c, h.u)
      BY <1>0, <3>1 DEF Moved, Handlers, Steps
    <3> QED
      BY <1>3, <1>14, <2>1, <3>2 DEF BroadcastSend, Carrying
  <2>3. CASE ~(sessions[u] # NoConn /\ conn[sessions[u]] = "up" /\ LoopOf[sessions[u]] # l)
    <3>1. handler' = [handler EXCEPT ![l].left = @ \ {u}]
      BY <1>14, <2>3 DEF BroadcastSend
    <3>2. Moved(l, "sending", h.c, h.u)
      BY <1>0, <2>1, <3>1 DEF Moved, Handlers
    <3> QED
      BY <1>3, <1>14, <2>1, <3>2 DEF BroadcastSend, Carrying
  <2> QED
    BY <2>2, <2>3
<1> QED
  BY <1>4, <1>5, <1>6, <1>7, <1>8, <1>9, <1>10, <1>11, <1>12, <1>13, <1>14

(* A step of the handler of connection c, or one that starts it: of conn,  *)
(* username and granted it changes only the entry of c, a session it       *)
(* changes is cleared or given to c, and only c may become renamed.        *)
LEMMA OwnStep ==
  ASSUME SInv, NEW c \in Conns, NEW at, NEW d, NEW u,
         Moved(LoopOf[c], at, d, u), Core',
         handler[LoopOf[c]].c \in {c, NoConn},
         \A e \in Conns \ {c} :
           conn'[e] = conn[e] /\ username'[e] = username[e] /\ granted'[e] = granted[e],
         \A v \in Users : sessions'[v] \in {sessions[v], NoConn, c},
         renamed' \in {renamed, renamed \cup {c}},
         HandlerOK(LoopOf[c])', GrantOK(c)',
         \A v \in Users : sessions'[v] = c => Owned(v)'
  PROVE  SInv'
<1>1. \A k \in Loops \ {LoopOf[c]} : HandlerOK(k)'
  <2> SUFFICES ASSUME NEW k \in Loops, k # LoopOf[c] PROVE HandlerOK(k)'
    OBVIOUS
  <2>1. HandlerOK(k) /\ handler'[k] = handler[k]
    BY DEF SInv, Moved
  <2>2. CASE handler[k].at = "idle"
    BY <2>1, <2>2 DEF HandlerOK, NamedSteps
  <2>3. CASE handler[k].at # "idle"
    <3>1. handler[k].c \in Conns \ {c}
      BY <2>1, <2>3 DEF HandlerOK
    <3>2. \A v \in Users : sessions[v] # handler[k].c => sessions'[v] # handler[k].c
      BY <3>1
    <3> QED
      BY <2>1, <3>1, <3>2 DEF HandlerOK
  <2> QED
    BY <2>2, <2>3
<1>2. \A e \in Conns : GrantOK(e)'
  BY DEF SInv, GrantOK
<1>3. ASSUME NEW v \in Users, sessions'[v] # NoConn
      PROVE  Owned(v)'
  <2>1. CASE sessions'[v] = c
    BY <2>1
  <2>2. CASE sessions'[v] # c
    <3>1. /\ sessions'[v] = sessions[v] /\ Owned(v) /\ sessions[v] \in Conns \ {c}
          /\ sessions[v] \in renamed' <=> sessions[v] \in renamed
      BY <1>3, <2>2 DEF SInv, Core
    <3>2. CASE LoopOf[sessions[v]] = LoopOf[c]
      BY <3>1, <3>2 DEF Owned, Busy
    <3>3. CASE LoopOf[sessions[v]] # LoopOf[c]
      BY <3>1, <3>3 DEF Owned, Busy, Moved
    <3> QED
      BY <3>2, <3>3
  <2> QED
    BY <2>1, <2>2
<1> QED
  BY <1>1, <1>2, <1>3 DEF SInv

(* A handler that is started for connection c, the connection's entries    *)
(* unchanged.                                                              *)
LEMMA RequestStep ==
  ASSUME SInv, NEW c \in Conns, NEW h \in Handlers, Request(c, h),
         UNCHANGED <<username, renamed>>, sent' \in 0..MaxMsgs, h.c = c,
         h.at \in {"history", "chat_online", "logout", "beat"},
         h.at \in {"logout", "beat"} => h.u = username[c] /\ h.u \in Users
  PROVE  SInv'
<1>1. /\ Moved(LoopOf[c], h.at, c, h.u) /\ handler[LoopOf[c]].at = "idle"
      /\ LoopOf[c] \in Loops
  BY Facts, BeginMoves DEF Request
<1>2. HandlerOK(LoopOf[c])'
  BY <1>1 DEF HandlerOK, Moved, NamedSteps, Request
<1> QED
  BY <1>1, <1>2, QuietStep DEF Request, Carrying

(* The requests of a client that is logged in, and a heartbeat.            *)
LEMMA RequestActions ==
  ASSUME SInv, NEW c \in Conns,
         StartLogout(c) \/ StartChat(c) \/ StartHeartbeat(c) \/ StartGetHistory(c)
  PROVE  SInv'
<1>1. username[c] \in Users \cup {NoUser} /\ GrantOK(c)
  BY DEF SInv, Core
<1>2. CASE StartLogout(c)
  <2> DEFINE h == [Idle EXCEPT !.at = "logout", !.c = c, !.u = username[c]]
  <2>1. h \in Handlers /\ h.at = "logout" /\ h.c = c /\ h.u = username[c]
    BY <1>1, IdleHandler DEF Idle, Handlers, Steps
  <2>2. username[c] \in Users
    BY <1>1, <1>2 DEF StartLogout, GrantOK
  <2>3. Request(c, h) /\ UNCHANGED <<username, sent, renamed>>
    BY <1>2 DEF StartLogout
  <2> HIDE DEF h
  <2> QED
    BY <2>1, <2>2, <2>3, Facts, RequestStep
<1>3. CASE StartChat(c)
  <2> DEFINE h == [Idle EXCEPT !.at = "chat_online", !.c = c, !.u = username[c],
                               !.m = <<c, sent + 1>>]
  <2>0. <<c, sent + 1>> \in Messages /\ sent' \in 0..MaxMsgs
    BY <1>3, Facts DEF StartChat, Messages
  <2>1. h \in Handlers /\ h.at = "chat_online" /\ h.c = c
    BY <1>1, <2>0, IdleHandler DEF Idle, Handlers, Steps
  <2>2. Request(c, h) /\ UNCHANGED <<username, renamed>>
    BY <1>3 DEF StartChat
  <2> HIDE DEF h
  <2> QED
    BY <2>0, <2>1, <2>2, RequestStep
<1>4. CASE StartHeartbeat(c)
  <2> DEFINE h == [Idle EXCEPT !.at = "beat", !.c = c, !.u = username[c]]
  <2>1. h \in Handlers /\ h.at = "beat" /\ h.c = c /\ h.u = username[c]
    BY <1>1, IdleHandler DEF Idle, Handlers, Steps
  <2>2. username[c] \in Users
    BY <1>1, <1>4 DEF StartHeartbeat
  <2>3. Request(c, h) /\ UNCHANGED <<username, sent, renamed>>
    BY <1>4 DEF StartHeartbeat
  <2> HIDE DEF h
  <2> QED
    BY <2>1, <2>2, <2>3, Facts, RequestStep
<1>5. CASE StartGetHistory(c)
  <2> DEFINE h == [Idle EXCEPT !.at = "history", !.c = c]
  <2>1. h \in Handlers /\ h.at = "history" /\ h.c = c
    BY IdleHandler DEF Idle, Handlers, Steps
  <2>2. Request(c, h) /\ UNCHANGED <<username, sent, renamed>>
    BY <1>5 DEF StartGetHistory
  <2> HIDE DEF h
  <2> QED
    BY <2>1, <2>2, Facts, RequestStep
<1> QED
  BY <1>2, <1>3, <1>4, <1>5

(* A connection whose loop is idle has only sessions of its name.          *)
LEMMA IdleOwner ==
  ASSUME SInv, NEW c \in Conns, handler[LoopOf[c]].at = "idle",
         NEW v \in Users, sessions[v] = c, c \notin renamed
  PROVE  username[c] = v /\ conn[c] \notin {"connecting", "down"}
  BY DEF SInv, Owned, Busy, Carrying

(* The steps that change the state or the name of a connection while its   *)
(* loop is idle.                                                           *)
LEMMA ConnectionUp == ASSUME SInv, NEW c \in Conns, OnConnectionUp(c) PROVE SInv'
<1>1. /\ handler' = handler /\ UNCHANGED <<sessions, granted, sent, renamed>>
      /\ handler[LoopOf[c]].at = "idle" /\ conn[c] = "connecting" /\ LoopOf[c] \in Loops
      /\ conn' = [conn EXCEPT ![c] = "up"] /\ username' = [username EXCEPT ![c] = NoUser]
  BY DEF OnConnectionUp, At
<1>2. Core'
  BY <1>1 DEF SInv, Core
<1>3. granted[c] = NoUser /\ HandlerOK(LoopOf[c])
  BY <1>1 DEF SInv, GrantOK
<1>4. Moved(LoopOf[c], "idle", NoConn, handler[LoopOf[c]].u) /\ handler[LoopOf[c]].c = NoConn
  BY <1>1, <1>3, Facts DEF Moved, HandlerOK
<1>5. HandlerOK(LoopOf[c])' /\ GrantOK(c)'
  BY <1>1, <1>3 DEF HandlerOK, GrantOK, NamedSteps
<1>6. \A v \in Users : sessions'[v] = c => Owned(v)'
  BY <1>1, IdleOwner DEF Owned
<1>7. \A e \in Conns \ {c} : conn'[e] = conn[e] /\ username'[e] = username[e]
  BY <1>1 DEF SInv, Core
<1> QED
  BY <1>1, <1>2, <1>4, <1>5, <1>6, <1>7, OwnStep

(* A close frame bars the connection; its session stays until DOWN.        *)
LEMMA Closing == ASSUME SInv, NEW c \in Conns, CloseFrame(c) PROVE SInv'
<1>1. /\ handler' = handler /\ UNCHANGED <<sessions, granted, sent, username, renamed>>
      /\ handler[LoopOf[c]].at = "idle" /\ LoopOf[c] \in Loops
      /\ conn' = [conn EXCEPT ![c] = "barred"]
  BY DEF CloseFrame, At
<1>2. Core'
  BY <1>1 DEF SInv, Core
<1>3. HandlerOK(LoopOf[c]) /\ GrantOK(c)
  BY <1>1 DEF SInv
<1>4. Moved(LoopOf[c], "idle", NoConn, handler[LoopOf[c]].u) /\ handler[LoopOf[c]].c = NoConn
  BY <1>1, <1>3, Facts DEF Moved, HandlerOK
<1>5. HandlerOK(LoopOf[c])' /\ GrantOK(c)'
  BY <1>1, <1>3 DEF SInv, Core, HandlerOK, GrantOK, NamedSteps
<1>6. \A v \in Users : sessions'[v] = c => Owned(v)'
  BY <1>1, IdleOwner DEF Owned, SInv, Core
<1>7. \A e \in Conns \ {c} : conn'[e] = conn[e]
  BY <1>1 DEF SInv, Core
<1> QED
  BY <1>1, <1>2, <1>4, <1>5, <1>6, <1>7, OwnStep

(* DOWN starts: a session of the connection is now carried by the handler. *)
LEMMA ConnectionDown == ASSUME SInv, NEW c \in Conns, OnConnectionDown(c) PROVE SInv'
<1> DEFINE h == [Idle EXCEPT !.at = IF username[c] = NoUser THEN "down_end" ELSE "down_online",
                             !.c = c, !.u = username[c]]
<1>0. /\ Begin(c, h) /\ UNCHANGED <<sessions, sent, username, renamed>> /\ LoopOf[c] \in Loops
      /\ conn' = [conn EXCEPT ![c] = "down"] /\ granted' = [granted EXCEPT ![c] = NoUser]
      /\ username[c] \in Users \cup {NoUser}
  BY DEF OnConnectionDown, SInv, Core
<1>1. /\ h \in Handlers /\ h.c = c /\ h.u = username[c]
      /\ h.at = IF username[c] = NoUser THEN "down_end" ELSE "down_online"
  BY <1>0, IdleHandler DEF Idle, Handlers, Steps
<1> HIDE DEF h
<1>2. Moved(LoopOf[c], h.at, c, username[c]) /\ handler[LoopOf[c]].at = "idle"
  BY <1>0, <1>1, Facts, BeginMoves
<1>3. Core'
  BY <1>0, <1>2 DEF SInv, Core, Moved
<1>4. \A v \in Users : sessions[v] = c /\ c \notin renamed => username[c] = v
  BY <1>2, IdleOwner
<1>5. handler[LoopOf[c]].c = NoConn
  BY <1>0, <1>2, Facts DEF HandlerOK
<1>6. conn'[c] = "down" /\ granted'[c] = NoUser
  BY <1>0 DEF SInv, Core
<1>7. HandlerOK(LoopOf[c])' /\ GrantOK(c)'
  <2>1. CASE username[c] = NoUser
    BY <1>0, <1>1, <1>2, <1>4, <1>6, <2>1 DEF HandlerOK, GrantOK, NamedSteps, Moved
  <2>2. CASE username[c] # NoUser
    BY <1>0, <1>1, <1>2, <1>4, <1>6, <2>2 DEF HandlerOK, GrantOK, NamedSteps, Moved
  <2> QED
    BY <2>1, <2>2
<1>8. \A v \in Users : sessions'[v] = c => Owned(v)'
  BY <1>0, <1>1, <1>2, <1>4, <1>6 DEF Owned, Busy, Moved, Carrying
<1>9. \A e \in Conns \ {c} : conn'[e] = conn[e] /\ granted'[e] = granted[e]
  BY <1>0 DEF SInv, Core
<1> QED
  BY <1>0, <1>2, <1>3, <1>5, <1>7, <1>8, <1>9, OwnStep

(* LOGIN starts under a new name: the connection has no session under      *)
(* another one, or it is one of renamed from now on.                       *)
LEMMA Login ==
  ASSUME SInv, NEW c \in Conns, NEW u \in Users, StartLogin(c, u)
  PROVE  SInv'
<1> DEFINE h == [Idle EXCEPT !.at = "verify", !.c = c, !.u = u]
<1>0. /\ Begin(c, h) /\ UNCHANGED <<sessions, sent, conn, granted>> /\ LoopOf[c] \in Loops
      /\ username' = [username EXCEPT ![c] = u] /\ conn[c] = "up"
      /\ renamed' = IF \E v \in Users \ {u} : sessions[v] = c THEN renamed \cup {c} ELSE renamed
  BY DEF StartLogin, Request
<1>1. h \in Handlers /\ h.at = "verify" /\ h.c = c /\ h.u = u
  BY IdleHandler DEF Idle, Handlers, Steps
<1> HIDE DEF h
<1>2. Moved(LoopOf[c], "verify", c, u) /\ handler[LoopOf[c]].at = "idle"
  BY <1>0, <1>1, Facts, BeginMoves
<1>3. Core'
  BY <1>0, <1>2 DEF SInv, Core, Moved
<1>4. \A v \in Users : sessions[v] = c /\ c \notin renamed' => v = u
  BY <1>0
<1>5. handler[LoopOf[c]].c = NoConn
  BY <1>0, <1>2, Facts DEF HandlerOK
<1>6. username'[c] = u /\ GrantOK(c)
  BY <1>0 DEF SInv, Core
<1>7. HandlerOK(LoopOf[c])' /\ GrantOK(c)'
  BY <1>0, <1>2, <1>6 DEF HandlerOK, GrantOK, NamedSteps, Moved
<1>8. \A v \in Users : sessions'[v] = c => Owned(v)'
  BY <1>0, <1>4, <1>6 DEF Owned
<1>9. /\ \A e \in Conns \ {c} : username'[e] = username[e]
      /\ renamed' \in {renamed, renamed \cup {c}}
  BY <1>0 DEF SInv, Core
<1> QED
  BY <1>0, <1>2, <1>3, <1>5, <1>7, <1>8, <1>9, OwnStep

(* What a step of a running handler may use of its connection.             *)
LEMMA Running ==
  ASSUME SInv, NEW l \in Loops, handler[l].at # "idle"
  PROVE  /\ handler[l].c \in Conns /\ LoopOf[handler[l].c] = l
         /\ HandlerOK(l) /\ GrantOK(handler[l].c)
         /\ \A v \in Users : sessions[v] = handler[l].c /\ handler[l].c \notin renamed =>
              username[handler[l].c] = v /\ conn[handler[l].c] # "connecting"
  BY Facts DEF HandlerOK, SInv, Owned

(* addSession files the connection under the name it is known by.          *)
LEMMA SessionAdded == ASSUME SInv, NEW l \in Loops, AddSession(l) PROVE SInv'
<1>h. PICK c, u : c = handler[l].c /\ u = handler[l].u
  OBVIOUS
<1> USE <1>h
<1>0. /\ handler[l].at = "add" /\ Goto(l, "online_users") /\ sessions' = [sessions EXCEPT ![u] = c]
      /\ UNCHANGED <<conn, username, granted, sent, renamed>>
  BY DEF AddSession, At
<1>1. /\ c \in Conns /\ LoopOf[c] = l /\ u = username[c] /\ u \in Users
      /\ conn[c] = "up" /\ GrantOK(c)
      /\ \A v \in Users : sessions[v] = c /\ c \notin renamed => username[c] = v
  BY <1>0, Running DEF HandlerOK, NamedSteps
<1>2. Moved(l, "online_users", c, u)
  BY <1>0, Facts, GotoMoves DEF Steps
<1>3. Core'
  BY <1>0, <1>1, <1>2 DEF SInv, Core, Moved
<1>4. \A v \in Users : /\ sessions'[v] \in {sessions[v], c}
                       /\ sessions'[v] = c /\ c \notin renamed => v = u
  BY <1>0, <1>1 DEF SInv, Core
<1>5. HandlerOK(l)' /\ GrantOK(c)'
  BY <1>0, <1>1, <1>2 DEF HandlerOK, GrantOK, NamedSteps, Moved
<1>6. \A v \in Users : sessions'[v] = c => Owned(v)'
  BY <1>0, <1>1, <1>4 DEF Owned
<1> QED
  BY <1>0, <1>1, <1>2, <1>3, <1>4, <1>5, <1>6, OwnStep

(* LOGIN_RESP: the client has been told of the session.                    *)
LEMMA LoginAnswered == ASSUME SInv, NEW l \in Loops, LoginReply(l) PROVE SInv'
<1>h. PICK c, u : c = handler[l].c /\ u = handler[l].u
  OBVIOUS
<1> USE <1>h
<1>0. /\ handler[l].at = "online_users" /\ UNCHANGED <<conn, username, sessions, sent, renamed>>
      /\ Goto(l, "login_history")
  BY DEF LoginReply, At
<1>1. /\ c \in Conns /\ LoopOf[c] = l /\ u = username[c] /\ u \in Users /\ conn[c] = "up"
      /\ \A v \in Users : sessions[v] = c /\ c \notin renamed => username[c] = v
  BY <1>0, Running DEF HandlerOK, NamedSteps
<1>2. granted' = [granted EXCEPT ![c] = u]
  BY <1>1 DEF LoginReply
<1>3. Moved(l, "login_history", c, u)
  BY <1>0, Facts, GotoMoves DEF Steps
<1>4. Core'
  BY <1>0, <1>1, <1>2, <1>3 DEF SInv, Core, Moved
<1>5. granted'[c] = u /\ \A e \in Conns \ {c} : granted'[e] = granted[e]
  BY <1>1, <1>2 DEF SInv, Core
<1>6. HandlerOK(l)' /\ GrantOK(c)'
  BY <1>0, <1>1, <1>3, <1>5 DEF HandlerOK, GrantOK, NamedSteps, Moved
<1>7. \A v \in Users : sessions'[v] = c => Owned(v)'
  BY <1>0, <1>1 DEF Owned
<1> QED
  BY <1>0, <1>1, <1>3, <1>4, <1>5, <1>6, <1>7, OwnStep

(* Removing the session of the handler's own name leaves its connection    *)
(* without one, whoever the session belonged to, unless it was renamed.    *)
LEMMA SessionRemoved ==
  ASSUME SInv, NEW l \in Loops, LogoutRemove(l) \/ OnDisconnectRemove(l)
  PROVE  SInv'
<1>h. PICK c, u : c = handler[l].c /\ u = handler[l].u
  OBVIOUS
<1> USE <1>h
<1>0. /\ handler[l].at \in {"logout", "down_remove"} /\ RemoveSession(u)
      /\ UNCHANGED <<conn, username, granted, sent, renamed>>
  BY DEF LogoutRemove, OnDisconnectRemove, At
<1>1. /\ c \in Conns /\ LoopOf[c] = l /\ u = username[c] /\ u \in Users /\ GrantOK(c)
      /\ handler[l].at = "down_remove" => conn[c] = "down"
      /\ \A v \in Users : sessions[v] = c /\ c \notin renamed => username[c] = v
  BY <1>0, Running DEF HandlerOK, NamedSteps
<1>2. PICK s \in {"logout_reply", "down_end"} :
        Goto(l, s) /\ (s = "down_end" => handler[l].at = "down_remove")
  BY DEF LogoutRemove, OnDisconnectRemove, At
<1>3. Moved(l, s, c, u)
  BY <1>2, Facts, GotoMoves DEF Steps
<1>4. sessions' = [sessions EXCEPT ![u] = NoConn]
  BY <1>0, <1>1 DEF RemoveSession
<1>5. Core'
  BY <1>0, <1>1, <1>3, <1>4 DEF SInv, Core, Moved
<1>6. \A v \in Users : /\ sessions'[v] \in {sessions[v], NoConn}
                       /\ sessions'[v] = c => c \in renamed
  BY <1>1, <1>4 DEF SInv, Core
<1>7. HandlerOK(l)' /\ GrantOK(c)'
  BY <1>0, <1>1, <1>2, <1>3, <1>6 DEF HandlerOK, GrantOK, NamedSteps, Moved
<1>8. \A v \in Users : sessions'[v] = c => Owned(v)'
  BY <1>0, <1>6 DEF Owned
<1> QED
  BY <1>0, <1>1, <1>3, <1>5, <1>6, <1>7, <1>8, OwnStep

(* The name and the grant go, after the session has gone.                  *)
LEMMA LogoutAnswered == ASSUME SInv, NEW l \in Loops, LogoutReply(l) PROVE SInv'
<1>h. PICK c : c = handler[l].c
  OBVIOUS
<1> USE <1>h
<1>0. /\ handler[l].at = "logout_reply" /\ UNCHANGED <<sessions, sent, renamed>> /\ Return(l)
      /\ conn' = [conn EXCEPT ![c] = "closing"] /\ username' = [username EXCEPT ![c] = NoUser]
      /\ granted' = [granted EXCEPT ![c] = NoUser]
  BY DEF LogoutReply, At
<1>1. c \in Conns /\ LoopOf[c] = l /\ \A v \in Users : sessions[v] = c => c \in renamed
  BY <1>0, Running DEF HandlerOK
<1>2. Moved(l, "idle", NoConn, NoUser)
  BY <1>0, Facts, ReturnMoves
<1>3. Core'
  BY <1>0, <1>1, <1>2 DEF SInv, Core, Moved
<1>4. /\ granted'[c] = NoUser
      /\ \A e \in Conns \ {c} :
           conn'[e] = conn[e] /\ username'[e] = username[e] /\ granted'[e] = granted[e]
  BY <1>0, <1>1 DEF SInv, Core
<1>5. HandlerOK(l)' /\ GrantOK(c)'
  BY <1>2, <1>4 DEF HandlerOK, GrantOK, NamedSteps, Moved
<1>6. \A v \in Users : sessions'[v] = c => Owned(v)'
  BY <1>0, <1>1 DEF Owned
<1> QED
  BY <1>0, <1>1, <1>2, <1>3, <1>4, <1>5, <1>6, OwnStep

(* onDisconnect: a name that has no session is not the name of a session   *)
(* of this connection, so nothing is left to remove.                       *)
LEMMA Disconnected == ASSUME SInv, NEW l \in Loops, OnDisconnect(l) PROVE SInv'
<1>h. PICK c, u : c = handler[l].c /\ u = handler[l].u
  OBVIOUS
<1> USE <1>h
<1>0. /\ handler[l].at = "down_online"
      /\ UNCHANGED <<conn, username, sessions, granted, sent, renamed>>
      /\ Goto(l, IF Online(u) THEN "down_remove" ELSE "down_end")
  BY DEF OnDisconnect, At
<1>1. /\ c \in Conns /\ LoopOf[c] = l /\ u = username[c] /\ u \in Users /\ conn[c] = "down"
      /\ \A v \in Users : sessions[v] = c /\ c \notin renamed => username[c] = v
      /\ GrantOK(c)
  BY <1>0, Running DEF HandlerOK, NamedSteps
<1>2. CASE Online(u)
  <2>1. Moved(l, "down_remove", c, u)
    BY <1>0, <1>2, Facts, GotoMoves DEF Steps
  <2>2. HandlerOK(l)'
    BY <1>0, <1>1, <2>1 DEF HandlerOK, NamedSteps, Moved
  <2> QED
    BY <1>0, <2>1, <2>2, Facts, QuietStep DEF Carrying
<1>3. CASE ~Online(u)
  <2>1. Moved(l, "down_end", c, u)
    BY <1>0, <1>3, Facts, GotoMoves DEF Steps
  <2>2. \A v \in Users : sessions[v] = c => c \in renamed
    BY <1>1, <1>3 DEF Online
  <2>3. Core'
    BY <1>0, <2>1 DEF SInv, Core, Moved
  <2>4. HandlerOK(l)' /\ GrantOK(c)'
    BY <1>0, <1>1, <2>1, <2>2 DEF HandlerOK, GrantOK, NamedSteps, Moved
  <2>5. \A v \in Users : sessions'[v] = c => Owned(v)'
    BY <1>0, <2>2 DEF Owned
  <2> QED
    BY <1>0, <1>1, <2>1, <2>3, <2>4, <2>5, OwnStep
<1> QED
  BY <1>2, <1>3

(* The name of a connection that is down goes after its session.           *)
LEMMA DownEnded == ASSUME SInv, NEW l \in Loops, DownEnd(l) PROVE SInv'
<1>h. PICK c : c = handler[l].c
  OBVIOUS
<1> USE <1>h
<1>0. /\ handler[l].at = "down_end" /\ Return(l)
      /\ UNCHANGED <<conn, granted, sessions, sent, renamed>>
      /\ username' = [username EXCEPT ![c] = NoUser]
  BY DEF DownEnd, At
<1>1. /\ c \in Conns /\ LoopOf[c] = l /\ \A v \in Users : sessions[v] = c => c \in renamed
      /\ conn[c] = "down" /\ GrantOK(c)
  BY <1>0, Running DEF HandlerOK
<1>2. Moved(l, "idle", NoConn, NoUser)
  BY <1>0, Facts, ReturnMoves
<1>3. Core'
  BY <1>0, <1>1, <1>2 DEF SInv, Core, Moved
<1>4. \A e \in Conns \ {c} : username'[e] = username[e]
  BY <1>0, <1>1 DEF SInv, Core
<1>5. HandlerOK(l)' /\ GrantOK(c)'
  BY <1>0, <1>1, <1>2 DEF HandlerOK, GrantOK, NamedSteps, Moved
<1>6. \A v \in Users : sessions'[v] = c => Owned(v)'
  BY <1>0, <1>1 DEF Owned
<1> QED
  BY <1>0, <1>1, <1>2, <1>3, <1>4, <1>5, <1>6, OwnStep

(* The base loop, the functors and a step of something else: what SInv is  *)
(* about does not change.                                                  *)
LEMMA Unmoved ==
  ASSUME SInv, UNCHANGED <<conn, username, sessions, handler, sent, granted, renamed>>
  PROVE  SInv'
  BY DEF SInv, Core, HandlerOK, GrantOK, Owned, Busy

(* Every step keeps the session invariant.                                 *)
LEMMA StepSInv == ASSUME SInv, [Next]_vars PROVE SInv'
<1>1. ASSUME NEW c \in Conns, ClientStep(c)
      PROVE  SInv'
  BY <1>1, ConnectionUp, Closing, ConnectionDown, Login, RequestActions DEF ClientStep
<1>2. ASSUME NEW c \in Conns, RemoveConnection(c)
      PROVE  SInv'
  BY <1>2, Unmoved DEF RemoveConnection
<1>3. ASSUME NEW l \in Loops, HandlerStep(l)
      PROVE  SInv'
  BY <1>3, QuietActions, SessionAdded, LoginAnswered, SessionRemoved, LogoutAnswered,
     Disconnected, DownEnded DEF HandlerStep
<1>4. ASSUME NEW l \in Loops, RunFunctor(l)
      PROVE  SInv'
  BY <1>4, Unmoved DEF RunFunctor
<1>5. CASE UNCHANGED vars
  BY <1>5, Unmoved DEF vars
<1> QED
  BY <1>1, <1>2, <1>3, <1>4, <1>5 DEF Next

(* Only a connection that asked for a second name while in session leaves  *)
(* a session behind, for any number of connections, I/O loops and users:   *)
(* whatever the loops' handlers interleave, once the DOWN of any other one *)
(* has been handled no user name leads to it (ChatServer.cpp:35-54,        *)
(* 198-202, ChatService.cpp:59-95,156-160).                                *)
THEOREM NoGhosts == Spec => []NoGhostSession
<1>1. SInv /\ [Next]_vars => SInv'
  BY StepSInv
<1> QED
  BY <1>1, InitSInv, SInvImplies, PTL DEF Spec

-----------------------------------------------------------------------------
(* Types.                                                                  *)

(* What the fields of a handler are good for at each of its steps.         *)
Chatting == {"chat_online", "save", "broadcast", "sending", "queue"}
Holding == {"sending", "queue"}

Work(l, h) ==
  /\ h.at = "idle" => h.c = NoConn
  /\ h.at # "idle" => h.c \in Conns /\ LoopOf[h.c] = l
  /\ h.at \in {"verify", "login_online", "add", "online_users", "beat"} => h.u \in Users
  /\ h.at \in Chatting => h.m \in Messages /\ h.m[1] = h.c
  /\ h.at \in {"queue", "beat_send"} => h.d \in Conns

Tables ==
  /\ conn \in [Conns -> {"connecting", "up", "closing", "barred", "down"}]
  /\ username \in [Conns -> Users \cup {NoUser}]
  /\ sessions \in [Users -> Conns \cup {NoConn}]
  /\ functors \in [Loops -> Seq(Functors)]
  /\ removing \subseteq Conns /\ destroyed \subseteq Conns
  /\ sent \in 0..MaxMsgs
  /\ granted \in [Conns -> Users \cup {NoUser}]
  /\ logins \in 0..MaxLogins /\ renamed \subseteq Conns
  /\ saved \subseteq Rows /\ listed \in [Conns -> SUBSET Rows]
  /\ seen \in [Conns -> SUBSET (Messages \cup {NoMsg})]

Sockets == inbox \in [Conns -> Seq(Messages \X BOOLEAN)] /\ killed \in BOOLEAN

HoldsMutex(l) == mutex = l <=> handler[l].at \in Holding

TInv ==
  /\ Tables /\ Sockets
  /\ mutex \in Loops \cup {NoLoop}
  /\ handler \in [Loops -> Handlers]
  /\ \A l \in Loops : HoldsMutex(l) /\ Work(l, handler[l])

LEMMA TInvImplies == TInv => TypeOK
<1> SUFFICES ASSUME TInv PROVE TypeOK
  OBVIOUS
<1>1. \A l \in Loops : mutex = l <=> handler[l].at \in {"sending", "queue"}
  BY DEF TInv, HoldsMutex, Holding
<1>2. \A l \in Loops : handler[l].c # NoConn => LoopOf[handler[l].c] = l
  BY DEF TInv, Work
<1> QED
  BY <1>1, <1>2 DEF TInv, Tables, Sockets, TypeOK

(* Handler l becomes g, and mutex_ is held by it exactly inside            *)
(* broadcastToAll.                                                         *)
Becomes(l, g) ==
  /\ g \in Handlers /\ Work(l, g)
  /\ handler' = [handler EXCEPT ![l] = g]
  /\ \/ mutex' = mutex /\ (handler[l].at \in Holding <=> g.at \in Holding)
     \/ mutex = NoLoop /\ mutex' = l /\ g.at \in Holding
     \/ handler[l].at \in Holding /\ mutex' = NoLoop /\ g.at \notin Holding

LEMMA BecomesKeeps ==
  ASSUME TInv, NEW l \in Loops, NEW g, Becomes(l, g), Tables', Sockets'
  PROVE  TInv'
<1>1. handler' \in [Loops -> Handlers]
  BY DEF TInv, Becomes
<1>2. handler'[l] = g /\ \A k \in Loops \ {l} : handler'[k] = handler[k]
  BY DEF TInv, Becomes
<1>3. \A k \in Loops : Work(k, handler'[k])
  BY <1>2 DEF TInv, Becomes
<1>4. mutex' \in Loops \cup {NoLoop} /\ \A k \in Loops : HoldsMutex(k)'
  BY <1>2 DEF TInv, Becomes, HoldsMutex
<1> QED
  BY <1>1, <1>3, <1>4 DEF TInv

(* A running handler goes on to another step, or returns.                  *)
LEMMA GoesOn ==
  ASSUME TInv, NEW l \in Loops, NEW s \in Steps, Goto(l, s), mutex' = mutex,
         handler[l].at \notin Holding, s \notin Holding, s # "idle",
         Work(l, [handler[l] EXCEPT !.at = s])
  PROVE  Becomes(l, [handler[l] EXCEPT !.at = s])
<1>1. handler[l] \in Handlers
  BY DEF TInv
<1>2. [handler[l] EXCEPT !.at = s] \in Handlers /\ [handler[l] EXCEPT !.at = s].at = s
  BY <1>1 DEF Handlers
<1> QED
  BY <1>2 DEF Becomes, Goto, TInv

LEMMA ComesBack ==
  ASSUME TInv, NEW l \in Loops, Return(l),
         mutex' = IF handler[l].at \in Holding THEN NoLoop ELSE mutex
  PROVE  Becomes(l, Idle)
<1>1. Idle \in Handlers /\ Idle.at = "idle" /\ Idle.c = NoConn
  BY IdleHandler DEF Idle
<1> QED
  BY <1>1 DEF Becomes, Return, Work, Holding, Chatting

LEMMA Begins ==
  ASSUME TInv, NEW c \in Conns, NEW h \in Handlers, Begin(c, h), mutex' = mutex,
         h.at \notin Holding, Work(LoopOf[c], h)
  PROVE  LoopOf[c] \in Loops /\ Becomes(LoopOf[c], h)
  BY DEF Becomes, Begin, At, Holding

(* What a handler has become after each of its steps.                      *)
LEMMA HandlerBecomes ==
  ASSUME TInv, NEW l \in Loops, HandlerStep(l)
  PROVE  \E g \in Handlers : Becomes(l, g)
<1> DEFINE h == handler[l]
<1>0. h \in Handlers /\ Work(l, h) /\ HoldsMutex(l)
  BY DEF TInv
<1>1. ASSUME NEW s \in {"login_online", "login_history", "add", "online_users", "logout_reply", "save",
                        "broadcast", "down_remove", "down_end"},
             Goto(l, s), mutex' = mutex, h.at \notin Holding, h.at # "idle",
             s \in {"login_online", "add", "online_users"} =>
               h.at \in {"verify", "login_online", "add", "online_users"},
             s \in {"save", "broadcast"} => h.at \in Chatting
      PROVE  \E g \in Handlers : Becomes(l, g)
  <2> DEFINE g == [h EXCEPT !.at = s]
  <2>1. s \in Steps /\ s \notin Holding /\ s # "idle" /\ s \notin {"verify", "beat", "beat_send", "chat_online"}
    BY <1>1 DEF Steps, Holding
  <2>2. g.at = s /\ g.c = h.c /\ g.u = h.u /\ g.m = h.m /\ g.d = h.d /\ g \in Handlers
    BY <1>0, <2>1 DEF Handlers
  <2>3. Work(l, g)
    BY <1>0, <1>1, <2>1, <2>2 DEF Work, Chatting, Holding
  <2>4. Becomes(l, g)
    BY <1>1, <2>1, <2>3, GoesOn
  <2> HIDE DEF g
  <2> QED
    BY <2>2, <2>4
<1>2. ASSUME Return(l), mutex' = IF h.at \in Holding THEN NoLoop ELSE mutex
      PROVE  \E g \in Handlers : Becomes(l, g)
  BY <1>2, ComesBack, IdleHandler
<1>3. CASE VerifyUser(l)
  BY <1>1, <1>3 DEF VerifyUser, At, Holding
<1>4. CASE LoginIsOnline(l)
  BY <1>1, <1>4 DEF LoginIsOnline, At, Holding
<1>5. CASE AddSession(l)
  BY <1>1, <1>5 DEF AddSession, At, Holding
<1>6. CASE LoginReply(l)
  BY <1>1, <1>6 DEF LoginReply, At, Holding
<1>7. CASE GetHistory(l)
  BY <1>2, <1>7 DEF GetHistory, At, Holding
<1>8. CASE LogoutRemove(l)
  BY <1>1, <1>8 DEF LogoutRemove, At, Holding
<1>9. CASE LogoutReply(l)
  BY <1>2, <1>9 DEF LogoutReply, At, Holding
<1>10. CASE ChatIsOnline(l)
  BY <1>1, <1>2, <1>10 DEF ChatIsOnline, At, Holding, Chatting
<1>11. CASE SaveMessage(l)
  BY <1>1, <1>2, <1>11 DEF SaveMessage, At, Holding, Chatting
<1>12. CASE BroadcastLock(l)
  <2> DEFINE g == [h EXCEPT !.at = "sending", !.left = {u \in Users : Online(u)}]
  <2>1. /\ handler' = [handler EXCEPT ![l] = g] /\ mutex = NoLoop /\ mutex' = l
        /\ h.at = "broadcast"
    BY <1>0, <1>12 DEF BroadcastLock, At, Locked, TInv
  <2>2. g.at = "sending" /\ g.c = h.c /\ g.m = h.m /\ g \in Handlers
    BY <1>0 DEF Handlers, Steps
  <2>3. Work(l, g)
    BY <1>0, <2>1, <2>2 DEF Work, Chatting
  <2> HIDE DEF g
  <2> QED
    BY <2>1, <2>2, <2>3 DEF Becomes, Holding
<1>13. ASSUME NEW u \in Users, BroadcastSend(l, u)
       PROVE  \E g \in Handlers : Becomes(l, g)
  <2>1. h.at = "sending" /\ mutex' = mutex /\ sessions[u] \in Conns \cup {NoConn}
    BY <1>13 DEF BroadcastSend, At, TInv, Tables
  <2>2. CASE sessions[u] # NoConn /\ conn[sessions[u]] = "up" /\ LoopOf[sessions[u]] # l
    <3> DEFINE g == [h EXCEPT !.at = "queue", !.d = sessions[u], !.left = @ \ {u}]
    <3>1. handler' = [handler EXCEPT ![l] = g] /\ sessions[u] \in Conns
      BY <1>0, <1>13, <2>1, <2>2 DEF BroadcastSend, TInv
    <3>2. g.at = "queue" /\ g.c = h.c /\ g.m = h.m /\ g.d = sessions[u] /\ g \in Handlers
      BY <1>0, <3>1 DEF Handlers, Steps
    <3>3. Work(l, g)
      BY <1>0, <2>1, <3>1, <3>2 DEF Work, Chatting
    <3> HIDE DEF g
    <3> QED
      BY <2>1, <3>1, <3>2, <3>3 DEF Becomes, Holding
  <2>3. CASE ~(sessions[u] # NoConn /\ conn[sessions[u]] = "up" /\ LoopOf[sessions[u]] # l)
    <3> DEFINE g == [h EXCEPT !.left = @ \ {u}]
    <3>1. handler' = [handler EXCEPT ![l] = g]
      BY <1>0, <1>13, <2>3 DEF BroadcastSend, TInv
    <3>2. g.at = "sending" /\ g.c = h.c /\ g.m = h.m /\ g \in Handlers
      BY <1>0, <2>1 DEF Handlers
    <3>3. Work(l, g)
      BY <1>0, <2>1, <3>2 DEF Work, Chatting
    <3> HIDE DEF g
    <3> QED
      BY <2>1, <3>1, <3>2, <3>3 DEF Becomes, Holding
  <2> QED
    BY <2>2, <2>3
<1>14. CASE BroadcastQueue(l)
  <2> DEFINE g == [h EXCEPT !.at = "sending", !.d = NoConn]
  <2>1. handler' = [handler EXCEPT ![l] = g] /\ mutex' = mutex /\ h.at = "queue"
    BY <1>0, <1>14 DEF BroadcastQueue, At, TInv
  <2>2. g.at = "sending" /\ g.c = h.c /\ g.m = h.m /\ g \in Handlers
    BY <1>0 DEF Handlers, Steps
  <2>3. Work(l, g)
    BY <1>0, <2>1, <2>2 DEF Work, Chatting
  <2> HIDE DEF g
  <2> QED
    BY <2>1, <2>2, <2>3 DEF Becomes, Holding
<1>15. CASE BroadcastDone(l)
  BY <1>2, <1>15 DEF BroadcastDone, At, Holding
<1>16. CASE GetConnection(l)
  <2>1. CASE Return(l)
    BY <1>2, <1>16, <2>1 DEF GetConnection, At, Holding
  <2>2. CASE ~Return(l)
    <3> DEFINE g == [h EXCEPT !.at = "beat_send", !.d = sessions[h.u]]
    <3>1. /\ handler' = [handler EXCEPT ![l] = g] /\ mutex' = mutex /\ h.at = "beat"
          /\ sessions[h.u] # NoConn
      BY <1>0, <1>16, <2>2 DEF GetConnection, At, TInv
    <3>2. sessions[h.u] \in Conns
      BY <1>0, <3>1 DEF Work, TInv, Tables
    <3>3. g.at = "beat_send" /\ g.c = h.c /\ g.d = sessions[h.u] /\ g \in Handlers
      BY <1>0, <3>2 DEF Handlers, Steps
    <3>4. Work(l, g)
      BY <1>0, <3>1, <3>2, <3>3 DEF Work, Chatting
    <3> HIDE DEF g
    <3> QED
      BY <3>1, <3>3, <3>4 DEF Becomes, Holding
  <2> QED
    BY <2>1, <2>2
<1>17. CASE HeartbeatQueue(l)
  BY <1>2, <1>17 DEF HeartbeatQueue, At, Holding
<1>18. CASE OnDisconnect(l)
  BY <1>1, <1>18 DEF OnDisconnect, At, Holding
<1>19. CASE OnDisconnectRemove(l)
  BY <1>1, <1>19 DEF OnDisconnectRemove, At, Holding
<1>20. CASE DownEnd(l)
  BY <1>2, <1>20 DEF DownEnd, At, Holding
<1> QED
  BY <1>3, <1>4, <1>5, <1>6, <1>7, <1>8, <1>9, <1>10, <1>11, <1>12, <1>13, <1>14, <1>15, <1>16,
     <1>17, <1>18, <1>19, <1>20 DEF HandlerStep

(* A functor is queued for the loop of a connection.                       *)
LEMMA Enqueued ==
  ASSUME Tables, NEW d \in Conns, NEW f \in Functors, Enqueue(d, f)
  PROVE  functors' \in [Loops -> Seq(Functors)]
<1>1. LoopOf[d] \in Loops /\ functors[LoopOf[d]] \in Seq(Functors)
  BY DEF Tables
<1>2. Append(functors[LoopOf[d]], f) \in Seq(Functors)
  BY <1>1, AppendProperties
<1> QED
  BY <1>1, <1>2 DEF Enqueue, Tables

(* A frame is written, for the page to show.                               *)
LEMMA Delivered ==
  ASSUME Tables, Sockets, NEW d \in Conns, NEW m \in Messages, NEW intact \in BOOLEAN,
         Deliver(d, m, intact)
  PROVE  /\ inbox' \in [Conns -> Seq(Messages \X BOOLEAN)]
         /\ seen' \in [Conns -> SUBSET (Messages \cup {NoMsg})]
<1>1. <<m, intact>> \in Messages \X BOOLEAN /\ inbox[d] \in Seq(Messages \X BOOLEAN)
  BY DEF Sockets
<1>2. Append(inbox[d], <<m, intact>>) \in Seq(Messages \X BOOLEAN)
  BY <1>1, AppendProperties
<1>3. inbox' = [inbox EXCEPT ![d] = Append(inbox[d], <<m, intact>>)]
  BY DEF Deliver
<1>4. inbox' \in [Conns -> Seq(Messages \X BOOLEAN)]
  BY <1>2, <1>3 DEF Sockets
<1>5. seen' \in [Conns -> SUBSET (Messages \cup {NoMsg})]
  BY DEF Deliver, Tables
<1> QED
  BY <1>4, <1>5

(* What the pages show and list.                                           *)
Pages ==
  /\ seen \in [Conns -> SUBSET (Messages \cup {NoMsg})]
  /\ listed \in [Conns -> SUBSET Rows]

(* A history holds rows of the table.                                      *)
LEMMA RecentRows == \A rows \in RecentMessages : rows \subseteq saved
  BY DEF RecentMessages

LEMMA HistoryShown ==
  ASSUME Tables, NEW c, NEW rows \in SUBSET Rows, Shows(c, {x.m : x \in rows}, rows)
  PROVE  Pages'
<1>1. {x.m : x \in rows} \in SUBSET (Messages \cup {NoMsg})
  BY DEF Rows
<1> QED
  BY <1>1 DEF Tables, Shows, Pages

LEMMA Blanked == ASSUME Tables, NEW c, Blanks(c) PROVE Pages'
  BY DEF Tables, Blanks, Shows, Pages

(* The tables after a step of a handler.                                   *)
LEMMA HandlerTables ==
  ASSUME TInv, NEW l \in Loops, HandlerStep(l)
  PROVE  Tables' /\ Sockets'
<1> DEFINE h == handler[l]
<1>0. h \in Handlers /\ Work(l, h) /\ Tables /\ Sockets
  BY DEF TInv
<1>1. ASSUME UNCHANGED <<inbox, killed>> PROVE Sockets'
  BY <1>0, <1>1 DEF Sockets
<1>2. ASSUME UNCHANGED <<conn, username, sessions, functors, removing, destroyed, sent, granted,
                         logins, renamed, saved, seen, listed>>
      PROVE Tables'
  BY <1>0, <1>2 DEF Tables
<1>3. CASE VerifyUser(l) \/ LoginIsOnline(l) \/ ChatIsOnline(l) \/ BroadcastLock(l) \/ BroadcastDone(l)
           \/ GetConnection(l) \/ OnDisconnect(l)
  BY <1>1, <1>2, <1>3 DEF VerifyUser, LoginIsOnline, ChatIsOnline, BroadcastLock, BroadcastDone,
     GetConnection, OnDisconnect, store, page
<1>4. CASE AddSession(l)
  <2>1. h.u \in Users /\ h.c \in Conns
    BY <1>0, <1>4 DEF AddSession, At, Work
  <2>2. sessions' \in [Users -> Conns \cup {NoConn}]
    BY <1>0, <1>4, <2>1 DEF AddSession, Tables
  <2> QED
    BY <1>0, <1>1, <1>4, <2>2 DEF AddSession, Tables, store, page
<1>5. CASE LoginReply(l)
  <2>1. h.u \in Users /\ h.c \in Conns
    BY <1>0, <1>5 DEF LoginReply, At, Work
  <2>2. granted' \in [Conns -> Users \cup {NoUser}]
    BY <1>0, <1>5, <2>1 DEF LoginReply, Tables
  <2> QED
    BY <1>0, <1>1, <1>5, <2>2 DEF LoginReply, Tables, store, page
<1>6. CASE GetHistory(l)
  <2>1. Pages'
    <3>1. CASE UNCHANGED page
      BY <1>0, <3>1 DEF Tables, Pages, page
    <3>2. ASSUME NEW rows \in RecentMessages, Shows(h.c, {x.m : x \in rows}, rows)
          PROVE  Pages'
      BY <1>0, <3>2, HistoryShown, RecentRows DEF Tables
    <3> QED
      BY <1>0, <1>6, <3>1, <3>2, Blanked DEF GetHistory
  <2> QED
    BY <1>0, <1>1, <1>6, <2>1 DEF GetHistory, Tables, Pages
<1>7. CASE LogoutRemove(l) \/ OnDisconnectRemove(l)
  <2>1. sessions' \in [Users -> Conns \cup {NoConn}]
    BY <1>0, <1>7 DEF LogoutRemove, OnDisconnectRemove, RemoveSession, Tables
  <2> QED
    BY <1>0, <1>1, <1>7, <2>1 DEF LogoutRemove, OnDisconnectRemove, Tables, store, page
<1>8. CASE LogoutReply(l)
  <2>1. /\ conn' \in [Conns -> {"connecting", "up", "closing", "barred", "down"}]
        /\ username' \in [Conns -> Users \cup {NoUser}]
        /\ granted' \in [Conns -> Users \cup {NoUser}]
    BY <1>0, <1>8 DEF LogoutReply, Tables
  <2>2. Pages'
    BY <1>0, <1>8, Blanked DEF LogoutReply
  <2> QED
    BY <1>0, <1>1, <1>8, <2>1, <2>2 DEF LogoutReply, Tables, Pages
<1>9. CASE SaveMessage(l)
  <2>1. h.m \in Messages
    BY <1>0, <1>9 DEF SaveMessage, At, Work, Chatting
  <2>2. saved' \subseteq Rows
    BY <1>0, <1>9, <2>1 DEF SaveMessage, Insert, Rows, Tables
  <2> QED
    BY <1>0, <1>1, <1>9, <2>2 DEF SaveMessage, Tables, page
<1>10. ASSUME NEW u \in Users, BroadcastSend(l, u) PROVE Tables' /\ Sockets'
  <2>1. h.m \in Messages /\ sessions[u] \in Conns \cup {NoConn}
    BY <1>0, <1>10 DEF BroadcastSend, At, Work, Chatting, Tables
  <2>2. UNCHANGED <<inbox, seen>> \/ (sessions[u] # NoConn /\ Deliver(sessions[u], h.m, TRUE))
    BY <1>10 DEF BroadcastSend
  <2>3. /\ inbox' \in [Conns -> Seq(Messages \X BOOLEAN)]
        /\ seen' \in [Conns -> SUBSET (Messages \cup {NoMsg})]
    <3>1. CASE UNCHANGED <<inbox, seen>>
      BY <1>0, <3>1 DEF Tables, Sockets
    <3>2. CASE sessions[u] # NoConn /\ Deliver(sessions[u], h.m, TRUE)
      BY <1>0, <2>1, <3>2, Delivered
    <3> QED
      BY <2>2, <3>1, <3>2
  <2>4. Tables'
    BY <1>0, <1>10, <2>3 DEF BroadcastSend, Tables
  <2>5. killed' = killed
    BY <1>10 DEF BroadcastSend
  <2> QED
    BY <1>0, <2>3, <2>4, <2>5 DEF Sockets
<1>11. CASE BroadcastQueue(l)
  <2> DEFINE f == [op |-> "broadcast", c |-> h.d, m |-> h.m, by |-> l]
  <2>1. h.d \in Conns /\ h.m \in Messages
    BY <1>0, <1>11 DEF BroadcastQueue, At, Work, Chatting
  <2>2. f \in Functors
    BY <2>1 DEF Functors
  <2>3. functors' \in [Loops -> Seq(Functors)]
    BY <1>0, <1>11, <2>1, <2>2, Enqueued DEF BroadcastQueue
  <2> QED
    BY <1>0, <1>1, <1>11, <2>3 DEF BroadcastQueue, Tables, store, page
<1>12. CASE HeartbeatQueue(l)
  <2> DEFINE f == [op |-> "beat", c |-> h.d, m |-> NoMsg, by |-> l]
  <2>1. h.d \in Conns
    BY <1>0, <1>12 DEF HeartbeatQueue, At, Work
  <2>2. f \in Functors
    BY <2>1 DEF Functors
  <2>3. functors' \in [Loops -> Seq(Functors)]
    BY <1>0, <1>12, <2>1, <2>2, Enqueued DEF HeartbeatQueue
  <2> QED
    BY <1>0, <1>1, <1>12, <2>3 DEF HeartbeatQueue, Tables, store, page
<1>13. CASE DownEnd(l)
  <2>1. h.c \in Conns
    BY <1>0, <1>13 DEF DownEnd, At, Work
  <2>2. removing' \subseteq Conns /\ username' \in [Conns -> Users \cup {NoUser}]
    BY <1>0, <1>13, <2>1 DEF DownEnd, Tables
  <2> QED
    BY <1>0, <1>1, <1>13, <2>2 DEF DownEnd, Tables, store, page
<1> QED
  BY <1>3, <1>4, <1>5, <1>6, <1>7, <1>8, <1>9, <1>10, <1>11, <1>12, <1>13 DEF HandlerStep

(* A step of a client that starts no handler, and one that does.           *)
LEMMA StaysTyped ==
  ASSUME TInv, UNCHANGED <<handler, mutex>>, Tables', Sockets'
  PROVE  TInv'
  BY DEF TInv, HoldsMutex

LEMMA ClientTyped ==
  ASSUME TInv, NEW c \in Conns, ClientStep(c)
  PROVE  TInv'
<1>0. Tables /\ Sockets /\ username[c] \in Users \cup {NoUser} /\ LoopOf[c] \in Loops /\ sent \in 0..MaxMsgs
  BY DEF TInv, Tables
<1>1. ASSUME UNCHANGED <<inbox, killed>> PROVE Sockets'
  BY <1>0, <1>1 DEF Sockets
<1>2. CASE OnConnectionUp(c) \/ CloseFrame(c)
  <2>1. /\ UNCHANGED <<sessions, functors, removing, destroyed, sent, granted, logins, renamed,
                       saved, seen, listed>>
        /\ UNCHANGED <<handler, mutex, inbox, killed>>
    BY <1>2 DEF OnConnectionUp, CloseFrame, store, page
  <2>2. /\ conn' \in [Conns -> {"connecting", "up", "closing", "barred", "down"}]
        /\ username' \in [Conns -> Users \cup {NoUser}]
    BY <1>0, <1>2 DEF OnConnectionUp, CloseFrame, Tables
  <2>3. Tables'
    BY <1>0, <2>1, <2>2 DEF Tables
  <2> QED
    BY <1>1, <2>1, <2>3, StaysTyped
<1>3. ASSUME NEW h \in Handlers, Request(c, h), Work(LoopOf[c], h), h.at \notin Holding,
             username' \in [Conns -> Users \cup {NoUser}], sent' \in 0..MaxMsgs,
             logins' \in 0..MaxLogins, renamed' \subseteq Conns
      PROVE  TInv'
  <2>1. /\ UNCHANGED <<conn, sessions, functors, removing, destroyed, granted, saved, seen, listed>>
        /\ UNCHANGED <<mutex, inbox, killed>> /\ Begin(c, h)
    BY <1>3 DEF Request, store, page
  <2>2. Tables'
    BY <1>0, <1>3, <2>1 DEF Tables
  <2>3. Becomes(LoopOf[c], h)
    BY <1>3, <2>1, Begins
  <2> QED
    BY <1>0, <1>1, <2>1, <2>2, <2>3, BecomesKeeps
<1>4. ASSUME NEW u \in Users, StartLogin(c, u) PROVE TInv'
  <2> DEFINE h == [Idle EXCEPT !.at = "verify", !.c = c, !.u = u]
  <2>1. h \in Handlers /\ h.at = "verify" /\ h.c = c /\ h.u = u
    BY IdleHandler DEF Idle, Handlers, Steps
  <2>2. Request(c, h) /\ username' \in [Conns -> Users \cup {NoUser}] /\ sent' = sent
    BY <1>0, <1>4 DEF StartLogin, Tables
  <2>3. logins' \in 0..MaxLogins /\ renamed' \subseteq Conns
    BY <1>0, <1>4 DEF StartLogin, Tables
  <2> HIDE DEF h
  <2> QED
    BY <1>0, <1>3, <2>1, <2>2, <2>3 DEF Work, Chatting, Holding
<1>5. CASE StartLogout(c)
  <2> DEFINE h == [Idle EXCEPT !.at = "logout", !.c = c, !.u = username[c]]
  <2>1. h \in Handlers /\ h.at = "logout" /\ h.c = c
    BY <1>0, IdleHandler DEF Idle, Handlers, Steps
  <2>2. Request(c, h) /\ UNCHANGED <<username, sent, logins, renamed>>
    BY <1>5 DEF StartLogout
  <2> HIDE DEF h
  <2> QED
    BY <1>0, <1>3, <2>1, <2>2 DEF Work, Chatting, Holding, Tables
<1>6. CASE StartChat(c)
  <2> DEFINE h == [Idle EXCEPT !.at = "chat_online", !.c = c, !.u = username[c],
                               !.m = <<c, sent + 1>>]
  <2>0. <<c, sent + 1>> \in Messages /\ sent' \in 0..MaxMsgs /\ <<c, sent + 1>>[1] = c
    BY <1>0, <1>6 DEF StartChat, Messages
  <2>1. h \in Handlers /\ h.at = "chat_online" /\ h.c = c /\ h.m = <<c, sent + 1>>
    BY <1>0, <2>0, IdleHandler DEF Idle, Handlers, Steps
  <2>2. Request(c, h) /\ UNCHANGED <<username, logins, renamed>>
    BY <1>6 DEF StartChat
  <2>3. Work(LoopOf[c], h)
    BY <2>0, <2>1 DEF Work
  <2> HIDE DEF h
  <2> QED
    BY <1>0, <1>3, <2>0, <2>1, <2>2, <2>3 DEF Holding, Tables
<1>7. CASE StartHeartbeat(c)
  <2> DEFINE h == [Idle EXCEPT !.at = "beat", !.c = c, !.u = username[c]]
  <2>1. h \in Handlers /\ h.at = "beat" /\ h.c = c /\ h.u = username[c]
    BY <1>0, IdleHandler DEF Idle, Handlers, Steps
  <2>2. Request(c, h) /\ UNCHANGED <<username, sent, logins, renamed>> /\ username[c] \in Users
    BY <1>0, <1>7 DEF StartHeartbeat
  <2> HIDE DEF h
  <2> QED
    BY <1>0, <1>3, <2>1, <2>2 DEF Work, Chatting, Holding, Tables
<1>8. CASE StartGetHistory(c)
  <2> DEFINE h == [Idle EXCEPT !.at = "history", !.c = c]
  <2>1. h \in Handlers /\ h.at = "history" /\ h.c = c
    BY <1>0, IdleHandler DEF Idle, Handlers, Steps
  <2>2. Request(c, h) /\ UNCHANGED <<username, sent, logins, renamed>>
    BY <1>8 DEF StartGetHistory
  <2> HIDE DEF h
  <2> QED
    BY <1>0, <1>3, <2>1, <2>2 DEF Work, Chatting, Holding, Tables
<1>9. CASE OnConnectionDown(c)
  <2> DEFINE h == [Idle EXCEPT !.at = IF username[c] = NoUser THEN "down_end" ELSE "down_online",
                               !.c = c, !.u = username[c]]
  <2>1. h \in Handlers /\ h.at \in {"down_end", "down_online"} /\ h.c = c
    BY <1>0, IdleHandler DEF Idle, Handlers, Steps
  <2>2. /\ Begin(c, h) /\ UNCHANGED <<username, sessions, mutex, functors, removing, destroyed, sent>>
        /\ UNCHANGED <<killed, logins, renamed, saved>>
    BY <1>9 DEF OnConnectionDown
  <2> HIDE DEF h
  <2>3. /\ conn' \in [Conns -> {"connecting", "up", "closing", "barred", "down"}]
        /\ granted' \in [Conns -> Users \cup {NoUser}]
        /\ Pages'
    BY <1>0, <1>9, Blanked DEF OnConnectionDown, Tables
  <2>4. inbox' \in [Conns -> Seq(Messages \X BOOLEAN)]
    <3>1. <<>> \in Seq(Messages \X BOOLEAN)
      OBVIOUS
    <3> QED
      BY <1>0, <1>9, <3>1 DEF OnConnectionDown, Sockets
  <2>5. Tables'
    BY <1>0, <2>2, <2>3 DEF Tables, Pages
  <2>6. Sockets'
    BY <1>0, <2>2, <2>4 DEF Sockets
  <2>7. Work(LoopOf[c], h) /\ h.at \notin Holding
    BY <1>0, <2>1 DEF Work, Chatting, Holding
  <2>8. Becomes(LoopOf[c], h)
    BY <2>1, <2>2, <2>7, Begins
  <2> QED
    BY <1>0, <2>5, <2>6, <2>8, BecomesKeeps
<1> QED
  BY <1>2, <1>4, <1>5, <1>6, <1>7, <1>8, <1>9 DEF ClientStep

(* Functors, run by an idle loop, and the base loop.                       *)
LEMMA FunctorTyped ==
  ASSUME TInv, NEW l \in Loops, RunFunctor(l)
  PROVE  TInv'
<1>0. Tables /\ Sockets /\ functors[l] \in Seq(Functors) /\ functors[l] # <<>>
  BY DEF TInv, Tables, RunFunctor
<1> DEFINE f == Head(functors[l])
<1>1. f \in Functors /\ Tail(functors[l]) \in Seq(Functors)
  BY <1>0, HeadTailProperties
<1>2. f.c \in Conns /\ (f.op = "broadcast" => f.m \in Messages)
  BY <1>1 DEF Functors
<1>3. functors' \in [Loops -> Seq(Functors)]
  BY <1>0, <1>1 DEF RunFunctor, Tables
<1>4. RunSend(l, f) \/ ConnectDestroyed(f)
  BY DEF RunFunctor
<1> HIDE DEF f
<1>5. /\ inbox' \in [Conns -> Seq(Messages \X BOOLEAN)]
      /\ seen' \in [Conns -> SUBSET (Messages \cup {NoMsg})]
  <2>1. CASE UNCHANGED <<inbox, seen>>
    BY <1>0, <2>1 DEF Tables, Sockets
  <2>2. CASE \E intact \in Contents(f) : f.op = "broadcast" /\ Deliver(f.c, f.m, intact)
    <3>1. PICK intact \in Contents(f) : f.op = "broadcast" /\ Deliver(f.c, f.m, intact)
      BY <2>2
    <3>2. intact \in BOOLEAN
      BY <3>1 DEF Contents
    <3> QED
      BY <1>0, <1>2, <3>1, <3>2, Delivered
  <2> QED
    BY <1>4, <2>1, <2>2 DEF RunSend, ConnectDestroyed
<1>6. killed' \in BOOLEAN
  <2>1. killed' = killed \/ killed' = TRUE
    BY <1>4 DEF RunSend, ConnectDestroyed
  <2> QED
    BY <1>0, <2>1 DEF Sockets
<1>7. destroyed' \subseteq Conns
  BY <1>0, <1>2, <1>4 DEF RunSend, ConnectDestroyed, Tables
<1>8. /\ UNCHANGED <<conn, username, sessions, mutex, handler, removing, sent, granted>>
      /\ UNCHANGED <<logins, renamed, saved, listed>>
  BY DEF RunFunctor
<1>9. Tables'
  BY <1>0, <1>3, <1>5, <1>7, <1>8 DEF Tables
<1>10. Sockets'
  BY <1>5, <1>6 DEF Sockets
<1> QED
  BY <1>8, <1>9, <1>10, StaysTyped

LEMMA RemovalTyped ==
  ASSUME TInv, NEW c \in Conns, RemoveConnection(c)
  PROVE  TInv'
<1>0. Tables /\ Sockets
  BY DEF TInv
<1>1. [op |-> "destroyed", c |-> c, m |-> NoMsg, by |-> NoLoop] \in Functors
  BY DEF Functors
<1>2. functors' \in [Loops -> Seq(Functors)]
  BY <1>0, <1>1, Enqueued DEF RemoveConnection
<1>3. /\ UNCHANGED <<conn, username, sessions, mutex, handler, destroyed, sent, granted>>
      /\ UNCHANGED <<logins, renamed, saved, seen, listed>>
      /\ UNCHANGED <<inbox, killed>> /\ removing' \subseteq removing
  BY DEF RemoveConnection, store, page
<1>4. Tables'
  BY <1>0, <1>2, <1>3 DEF Tables
<1>5. Sockets'
  BY <1>0, <1>3 DEF Sockets
<1> QED
  BY <1>3, <1>4, <1>5, StaysTyped

LEMMA InitTInv == Init => TInv
<1> SUFFICES ASSUME Init PROVE TInv
  OBVIOUS
<1>1. \A S : <<>> \in Seq(S)
  OBVIOUS
<1>2. Tables
  BY <1>1 DEF Init, Tables
<1>3. Sockets
  BY <1>1 DEF Init, Sockets
<1>4. \A l \in Loops : HoldsMutex(l) /\ Work(l, handler[l])
  BY DEF Init, HoldsMutex, Work, Idle, Holding, Chatting
<1> QED
  BY <1>2, <1>3, <1>4, IdleHandler DEF Init, TInv

LEMMA StepTInv == ASSUME TInv, [Next]_vars PROVE TInv'
<1>1. ASSUME NEW l \in Loops, HandlerStep(l) PROVE TInv'
  <2>1. PICK g \in Handlers : Becomes(l, g)
    BY <1>1, HandlerBecomes
  <2>2. Tables' /\ Sockets'
    BY <1>1, HandlerTables
  <2> QED
    BY <2>1, <2>2, BecomesKeeps
<1>2. CASE UNCHANGED vars
  <2>1. Tables'
    BY <1>2 DEF vars, store, page, TInv, Tables
  <2>2. Sockets'
    BY <1>2 DEF vars, TInv, Sockets
  <2> QED
    BY <1>2, <2>1, <2>2, StaysTyped DEF vars
<1> QED
  BY <1>1, <1>2, ClientTyped, RemovalTyped, FunctorTyped DEF Next

(* The state stays well formed, and a loop holds SessionManager::mutex_    *)
(* across steps exactly inside broadcastToAll, for any number of           *)
(* connections, I/O loops and users, and whatever the clients ask for      *)
(* (SessionManager.cpp:58-65, TcpServer.cpp:78-103).                       *)
THEOREM TypeCorrect == Spec => []TypeOK
<1>1. TInv /\ [Next]_vars => TInv'
  BY StepTInv
<1> QED
  BY <1>1, InitTInv, TInvImplies, PTL DEF Spec

-----------------------------------------------------------------------------
(* Steps of a handler outside broadcastToAll queue and write nothing.      *)

Casting == {"broadcast", "sending", "queue"}

Calm(l) ==
  /\ UNCHANGED <<functors, removing, destroyed, sent, inbox, renamed>>
  /\ \A k \in Loops \ {l} : handler'[k] = handler[k]
  /\ handler[l].at \notin Casting /\ handler'[l].at \notin Casting
  /\ handler'[l].c \in {handler[l].c, NoConn}
  /\ handler'[l].at \in Chatting => handler[l].at \in Chatting /\ handler'[l].m = handler[l].m
  /\ sessions' = sessions \/ mutex = NoLoop
  /\ \A c \in Conns : c # handler[l].c => conn'[c] = conn[c]

LEMMA CalmSteps ==
  ASSUME TInv, NEW l \in Loops,
         \/ VerifyUser(l) \/ LoginIsOnline(l) \/ AddSession(l) \/ LoginReply(l) \/ GetHistory(l)
         \/ LogoutRemove(l) \/ LogoutReply(l) \/ ChatIsOnline(l) \/ (SaveMessage(l) /\ Return(l))
         \/ GetConnection(l) \/ OnDisconnect(l) \/ OnDisconnectRemove(l)
  PROVE  Calm(l)
<1>0. handler[l] \in Handlers /\ handler \in [Loops -> Handlers] /\ conn \in [Conns -> {"connecting", "up", "closing", "barred", "down"}]
  BY DEF TInv, Tables
<1>1. UNCHANGED <<functors, removing, destroyed, sent, inbox, renamed>>
  BY DEF VerifyUser, LoginIsOnline, AddSession, LoginReply, GetHistory, LogoutRemove, LogoutReply,
         ChatIsOnline, SaveMessage, GetConnection, OnDisconnect, OnDisconnectRemove
<1>2. /\ sessions' = sessions \/ mutex = NoLoop
      /\ \A c \in Conns : c # handler[l].c => conn'[c] = conn[c]
  BY <1>0 DEF VerifyUser, LoginIsOnline, AddSession, LoginReply, GetHistory, LogoutRemove, LogoutReply,
         ChatIsOnline, SaveMessage, GetConnection, OnDisconnect, OnDisconnectRemove, Locked
<1>3. /\ handler[l].at \notin Casting
      /\ \/ Return(l)
         \/ \E s \in {"login_online", "login_history", "add", "online_users", "logout_reply",
                     "down_remove", "down_end"} : Goto(l, s)
         \/ Goto(l, "save") /\ handler[l].at = "chat_online"
         \/ handler' = [handler EXCEPT ![l].at = "beat_send", ![l].d = sessions[handler[l].u]]
  BY DEF VerifyUser, LoginIsOnline, AddSession, LoginReply, GetHistory, LogoutRemove, LogoutReply,
         ChatIsOnline, SaveMessage, GetConnection, OnDisconnect, OnDisconnectRemove, At, Casting
<1>4. /\ \A k \in Loops \ {l} : handler'[k] = handler[k]
      /\ handler'[l].at \notin Casting
      /\ handler'[l].c \in {handler[l].c, NoConn}
      /\ handler'[l].at \in Chatting => handler[l].at \in Chatting /\ handler'[l].m = handler[l].m
  <2>1. CASE Return(l)
    BY <1>0, <2>1 DEF Return, Idle, Casting, Chatting
  <2>2. ASSUME NEW s \in {"login_online", "login_history", "add", "online_users", "logout_reply",
                          "down_remove", "down_end"}, Goto(l, s)
        PROVE <1>4
    BY <1>0, <2>2 DEF Goto, Handlers, Casting, Chatting
  <2>3. CASE Goto(l, "save") /\ handler[l].at = "chat_online"
    BY <1>0, <2>3 DEF Goto, Handlers, Casting, Chatting
  <2>4. CASE handler' = [handler EXCEPT ![l].at = "beat_send", ![l].d = sessions[handler[l].u]]
    BY <1>0, <2>4 DEF Handlers, Casting, Chatting
  <2> QED
    BY <1>3, <2>1, <2>2, <2>3, <2>4
<1> QED
  BY <1>1, <1>2, <1>3, <1>4 DEF Calm

(* The handler a step of a client starts, if any.                          *)
Started(c) ==
  /\ LoopOf[c] \in Loops /\ handler[LoopOf[c]].at = "idle"
  /\ \A k \in Loops \ {LoopOf[c]} : handler'[k] = handler[k]
  /\ \/ handler' = handler /\ sent' = sent
     \/ /\ handler'[LoopOf[c]].c = c /\ handler'[LoopOf[c]].at \notin Casting
        /\ \/ handler'[LoopOf[c]].at \notin Chatting /\ sent' = sent
           \/ handler'[LoopOf[c]].m = <<c, sent + 1>> /\ sent' = sent + 1

LEMMA ClientHandler ==
  ASSUME TInv, NEW c \in Conns, ClientStep(c)
  PROVE  Started(c)
<1>0. LoopOf[c] \in Loops /\ handler \in [Loops -> Handlers]
  BY DEF TInv
<1>1. CASE OnConnectionUp(c) \/ CloseFrame(c)
  BY <1>0, <1>1 DEF OnConnectionUp, CloseFrame, At, Started
<1>2. ASSUME NEW h, Begin(c, h), h.c = c, h.at \notin Casting,
             \/ h.at \notin Chatting /\ sent' = sent
             \/ h.m = <<c, sent + 1>> /\ sent' = sent + 1
      PROVE  Started(c)
  BY <1>0, <1>2 DEF Begin, At, Started
<1>3. CASE \E u \in Users : StartLogin(c, u)
  <2>1. PICK u \in Users : StartLogin(c, u)
    BY <1>3
  <2> DEFINE h == [Idle EXCEPT !.at = "verify", !.c = c, !.u = u]
  <2>2. h.c = c /\ h.at = "verify"
    BY DEF Idle
  <2>3. Begin(c, h) /\ sent' = sent
    BY <2>1 DEF StartLogin, Request
  <2> HIDE DEF h
  <2> QED
    BY <1>2, <2>2, <2>3 DEF Casting, Chatting
<1>4. CASE StartLogout(c)
  <2> DEFINE h == [Idle EXCEPT !.at = "logout", !.c = c, !.u = username[c]]
  <2>1. h.c = c /\ h.at = "logout"
    BY DEF Idle
  <2>2. Begin(c, h) /\ sent' = sent
    BY <1>4 DEF StartLogout, Request
  <2> HIDE DEF h
  <2> QED
    BY <1>2, <2>1, <2>2 DEF Casting, Chatting
<1>5. CASE StartChat(c)
  <2> DEFINE h == [Idle EXCEPT !.at = "chat_online", !.c = c, !.u = username[c],
                               !.m = <<c, sent + 1>>]
  <2>1. h.c = c /\ h.at = "chat_online" /\ h.m = <<c, sent + 1>>
    BY DEF Idle
  <2>2. Begin(c, h) /\ sent' = sent + 1
    BY <1>5 DEF StartChat, Request
  <2> HIDE DEF h
  <2> QED
    BY <1>2, <2>1, <2>2 DEF Casting
<1>6. CASE StartHeartbeat(c)
  <2> DEFINE h == [Idle EXCEPT !.at = "beat", !.c = c, !.u = username[c]]
  <2>1. h.c = c /\ h.at = "beat"
    BY DEF Idle
  <2>2. Begin(c, h) /\ sent' = sent
    BY <1>6 DEF StartHeartbeat, Request
  <2> HIDE DEF h
  <2> QED
    BY <1>2, <2>1, <2>2 DEF Casting, Chatting
<1>7. CASE StartGetHistory(c)
  <2> DEFINE h == [Idle EXCEPT !.at = "history", !.c = c]
  <2>1. h.c = c /\ h.at = "history"
    BY DEF Idle
  <2>2. Begin(c, h) /\ sent' = sent
    BY <1>7 DEF StartGetHistory, Request
  <2> HIDE DEF h
  <2> QED
    BY <1>2, <2>1, <2>2 DEF Casting, Chatting
<1>8. CASE OnConnectionDown(c)
  <2> DEFINE h == [Idle EXCEPT !.at = IF username[c] = NoUser THEN "down_end" ELSE "down_online",
                               !.c = c, !.u = username[c]]
  <2>1. h.c = c /\ h.at \in {"down_end", "down_online"}
    BY DEF Idle
  <2>2. Begin(c, h) /\ sent' = sent
    BY <1>8 DEF OnConnectionDown
  <2> HIDE DEF h
  <2> QED
    BY <1>2, <2>1, <2>2 DEF Casting, Chatting
<1> QED
  BY <1>1, <1>3, <1>4, <1>5, <1>6, <1>7, <1>8 DEF ClientStep

-----------------------------------------------------------------------------
(* A connection that is going to be destroyed is not broadcast to.         *)

Gone(c) ==
  \/ c \in removing \cup destroyed
  \/ \E i \in 1..Len(functors[LoopOf[c]]) :
       functors[LoopOf[c]][i].op = "destroyed" /\ functors[LoopOf[c]][i].c = c

(* A functor waits in the queue of its connection's loop.                  *)
Placed == \A l \in Loops : \A i \in 1..Len(functors[l]) : LoopOf[functors[l][i].c] = l

(* DOWN is over for a connection whose removal has begun.                  *)
GoneOK == \A c \in Conns : Gone(c) => conn[c] = "down" /\ handler[LoopOf[c]].c # c

(* The connection a broadcast is about to be queued for has a session,     *)
(* which stays as long as mutex_ is held, and was ticked off.              *)
TargetOK ==
  \A l \in Loops : handler[l].at = "queue" =>
    /\ LoopOf[handler[l].d] # l
    /\ \E v \in Users \ handler[l].left : sessions[v] = handler[l].d

AInv == Placed /\ GoneOK /\ TargetOK /\ BroadcastTargetsAlive

LEMMA InitAInv == Init => AInv
  BY DEF Init, AInv, Placed, GoneOK, TargetOK, BroadcastTargetsAlive, Gone, Idle

(* A connection that is gone has no session, unless it was renamed.        *)
LEMMA GoneHasNoSession ==
  ASSUME SInv, GoneOK, NEW c \in Conns, Gone(c), c \notin renamed, NEW v \in Users
  PROVE  sessions[v] # c
<1> SUFFICES ASSUME sessions[v] = c PROVE FALSE
  OBVIOUS
<1>1. conn[c] = "down" /\ handler[LoopOf[c]].c # c
  BY DEF GoneOK
<1>2. Owned(v)
  BY DEF SInv
<1> QED
  BY <1>1, <1>2 DEF Owned, Busy

(* Whoever is about to queue a broadcast holds mutex_, so no session goes. *)
LEMMA TargetKept ==
  ASSUME TInv, TargetOK, NEW l \in Loops,
         \A k \in Loops \ {l} : handler'[k] = handler[k],
         sessions' = sessions \/ mutex = NoLoop,
         handler'[l].at = "queue" =>
           /\ LoopOf[handler'[l].d] # l
           /\ \E v \in Users \ handler'[l].left : sessions'[v] = handler'[l].d
  PROVE  TargetOK'
<1> SUFFICES ASSUME NEW k \in Loops, handler'[k].at = "queue"
             PROVE  /\ LoopOf[handler'[k].d] # k
                    /\ \E v \in Users \ handler'[k].left : sessions'[v] = handler'[k].d
  BY DEF TargetOK
<1>1. CASE k = l
  BY <1>1
<1>2. CASE k # l
  <2>1. handler'[k] = handler[k] /\ handler[k].at = "queue" /\ mutex = k
    BY <1>2 DEF TInv, HoldsMutex, Holding
  <2>2. sessions' = sessions
    BY <2>1
  <2> QED
    BY <2>1, <2>2 DEF TargetOK
<1> QED
  BY <1>1, <1>2

(* A step that queues nothing.                                             *)
LEMMA NothingQueued ==
  ASSUME TInv, AInv, NEW l \in Loops, renamed \subseteq renamed',
         UNCHANGED <<functors, removing, destroyed>>,
         \A k \in Loops \ {l} : handler'[k] = handler[k],
         sessions' = sessions \/ mutex = NoLoop,
         handler'[l].at = "queue" =>
           /\ LoopOf[handler'[l].d] # l
           /\ \E v \in Users \ handler'[l].left : sessions'[v] = handler'[l].d,
         \A c \in Conns : Gone(c) => conn'[c] = "down" /\ handler'[l].c # c
  PROVE  AInv'
<1>1. Placed'
  BY DEF AInv, Placed
<1>2a. BroadcastTargetsAlive'
  <2>1. \A c : c \notin renamed' => c \notin renamed
    OBVIOUS
  <2> QED
    BY <2>1 DEF AInv, BroadcastTargetsAlive
<1>2. \A c \in Conns : Gone(c)' = Gone(c)
  BY DEF Gone
<1>3. GoneOK'
  <2> SUFFICES ASSUME NEW c \in Conns, Gone(c) PROVE conn'[c] = "down" /\ handler'[LoopOf[c]].c # c
    BY <1>2 DEF GoneOK
  <2>1. handler[LoopOf[c]].c # c /\ LoopOf[c] \in Loops
    BY DEF AInv, GoneOK
  <2> QED
    BY <2>1
<1>4. TargetOK'
  BY TargetKept DEF AInv
<1> QED
  BY <1>1, <1>2a, <1>3, <1>4 DEF AInv

LEMMA CalmAlive ==
  ASSUME TInv, AInv, NEW l \in Loops, Calm(l)
  PROVE  AInv'
<1>1. ASSUME NEW c \in Conns, Gone(c) PROVE conn'[c] = "down" /\ handler'[l].c # c
  <2>1. conn[c] = "down" /\ handler[LoopOf[c]].c # c /\ Work(l, handler[l])
    BY <1>1 DEF AInv, GoneOK, TInv
  <2>2. handler[l].c # c
    BY <2>1 DEF Work
  <2> QED
    BY <2>1, <2>2 DEF Calm
<1> QED
  BY <1>1, NothingQueued DEF Calm, Casting

(* A step of a client.                                                     *)
LEMMA ClientAlive ==
  ASSUME TInv, AInv, NEW c \in Conns, ClientStep(c)
  PROVE  AInv'
<1> DEFINE l == LoopOf[c]
<1>0. /\ l \in Loops /\ handler \in [Loops -> Handlers]
      /\ conn \in [Conns -> {"connecting", "up", "closing", "barred", "down"}]
  BY DEF TInv, Tables
<1>1. /\ conn[c] # "down" /\ handler[l].at = "idle"
      /\ UNCHANGED <<functors, removing, destroyed, sessions>> /\ renamed \subseteq renamed'
      /\ \A e \in Conns \ {c} : conn'[e] = conn[e]
  BY <1>0 DEF ClientStep, OnConnectionUp, CloseFrame, OnConnectionDown, StartLogin, StartLogout, StartChat,
     StartHeartbeat, StartGetHistory, Request, Begin, At, Open
<1>3. /\ \A k \in Loops \ {l} : handler'[k] = handler[k]
      /\ handler'[l].c \in {handler[l].c, c} /\ handler'[l].at # "queue"
  BY <1>1, ClientHandler DEF Casting, Started
<1>4. ASSUME NEW e \in Conns, Gone(e) PROVE conn'[e] = "down" /\ handler'[l].c # e
  <2>1. conn[e] = "down" /\ handler[LoopOf[e]].c # e /\ Work(l, handler[l])
    BY <1>0, <1>4 DEF AInv, GoneOK, TInv
  <2>2. e # c /\ handler[l].c # e
    BY <1>1, <2>1 DEF Work
  <2> QED
    BY <1>1, <1>3, <2>1, <2>2
<1> HIDE DEF l
<1> QED
  BY <1>0, <1>1, <1>3, <1>4, NothingQueued

(* What the queue of a loop is after a functor was put behind the others.  *)
LEMMA QueuedLast ==
  ASSUME Tables, NEW d \in Conns, NEW f \in Functors, Enqueue(d, f)
  PROVE  /\ LoopOf[d] \in Loops /\ Len(functors[LoopOf[d]]) \in Nat
         /\ Len(functors'[LoopOf[d]]) = Len(functors[LoopOf[d]]) + 1
         /\ functors'[LoopOf[d]][Len(functors[LoopOf[d]]) + 1] = f
         /\ \A i \in 1..Len(functors[LoopOf[d]]) : functors'[LoopOf[d]][i] = functors[LoopOf[d]][i]
         /\ \A k \in Loops \ {LoopOf[d]} : functors'[k] = functors[k]
<1>1. LoopOf[d] \in Loops /\ functors[LoopOf[d]] \in Seq(Functors)
  BY DEF Tables
<1>2. functors'[LoopOf[d]] = Append(functors[LoopOf[d]], f) /\ \A k \in Loops \ {LoopOf[d]} : functors'[k] = functors[k]
  BY <1>1 DEF Enqueue, Tables
<1> QED
  BY <1>1, <1>2, AppendProperties

(* A functor behind the others: it must not come after the end of its      *)
(* connection, if it is a broadcast to one that was not renamed, and       *)
(* nothing that waits is harmed.                                           *)
LEMMA EnqueueAlive ==
  ASSUME TInv, AInv, NEW d \in Conns, NEW f \in Functors, Enqueue(d, f), f.c = d,
         destroyed' = destroyed, renamed' = renamed,
         f.op = "broadcast" /\ d \notin renamed => ~Gone(d)
  PROVE  /\ Placed' /\ BroadcastTargetsAlive'
         /\ \A c \in Conns : (\E i \in 1..Len(functors'[LoopOf[c]]) :
              functors'[LoopOf[c]][i].op = "destroyed" /\ functors'[LoopOf[c]][i].c = c)
                => Gone(c) \/ (c = d /\ f.op = "destroyed")
<1> DEFINE q == LoopOf[d]
           n == Len(functors[q])
<1>1. /\ q \in Loops /\ n \in Nat /\ Len(functors'[q]) = n + 1 /\ functors'[q][n + 1] = f
      /\ \A i \in 1..n : functors'[q][i] = functors[q][i]
      /\ \A k \in Loops \ {q} : functors'[k] = functors[k]
  BY QueuedLast DEF TInv
<1>2. \A i \in 1..n + 1 : i \in 1..n \/ i = n + 1
  BY <1>1
<1>3. LoopOf[f.c] = q
  OBVIOUS
<1> HIDE DEF q, n
<1>4. Placed'
  <2> SUFFICES ASSUME NEW k \in Loops, NEW i \in 1..Len(functors'[k])
               PROVE  LoopOf[functors'[k][i].c] = k
    BY DEF Placed
  <2>1. CASE k # q
    BY <1>1, <2>1 DEF AInv, Placed
  <2>2. CASE k = q
    BY <1>1, <1>2, <1>3, <2>2 DEF AInv, Placed, n
  <2> QED
    BY <2>1, <2>2
<1>5. BroadcastTargetsAlive'
  <2> SUFFICES ASSUME NEW k \in Loops, NEW i \in 1..Len(functors'[k]), functors'[k][i].op = "broadcast",
                      functors'[k][i].c \notin renamed
               PROVE  /\ functors'[k][i].c \notin destroyed
                      /\ \A j \in 1..i - 1 : ~(functors'[k][j].op = "destroyed"
                                               /\ functors'[k][j].c = functors'[k][i].c)
    BY DEF BroadcastTargetsAlive
  <2>1. CASE k # q
    BY <1>1, <2>1 DEF AInv, BroadcastTargetsAlive
  <2>2. CASE k = q /\ i \in 1..n
    <3>1. functors'[q][i] = functors[q][i] /\ \A j \in 1..i - 1 : j \in 1..n /\ functors'[q][j] = functors[q][j]
      BY <1>1, <2>2
    <3>2. functors[q][i].op = "broadcast" /\ i \in 1..Len(functors[q])
      BY <2>2, <3>1 DEF n
    <3> QED
      BY <1>1, <2>2, <3>1, <3>2 DEF AInv, BroadcastTargetsAlive
  <2>3. CASE k = q /\ i = n + 1
    <3>1. functors'[q][i] = f /\ \A j \in 1..i - 1 : j \in 1..n /\ functors'[q][j] = functors[q][j]
      BY <1>1, <2>3
    <3>2. ~Gone(d)
      BY <2>3, <3>1
    <3>3. d \notin destroyed /\ \A j \in 1..n : ~(functors[q][j].op = "destroyed" /\ functors[q][j].c = d)
      BY <3>2 DEF Gone, q, n
    <3> QED
      BY <2>3, <3>1, <3>3
  <2> QED
    BY <1>1, <1>2, <2>1, <2>2, <2>3
<1>6. ASSUME NEW c \in Conns, NEW i \in 1..Len(functors'[LoopOf[c]]),
             functors'[LoopOf[c]][i].op = "destroyed", functors'[LoopOf[c]][i].c = c
      PROVE  Gone(c) \/ (c = d /\ f.op = "destroyed")
  <2>1. LoopOf[c] \in Loops
    OBVIOUS
  <2>2. CASE LoopOf[c] # q
    BY <1>1, <1>6, <2>1, <2>2 DEF Gone
  <2>3. CASE LoopOf[c] = q /\ i \in 1..n
    BY <1>1, <1>6, <2>3 DEF Gone, n
  <2>4. CASE LoopOf[c] = q /\ i = n + 1
    BY <1>1, <1>6, <2>4
  <2> QED
    BY <1>1, <1>2, <1>6, <2>2, <2>3, <2>4
<1> QED
  BY <1>4, <1>5, <1>6

(* broadcastToAll and saveMessage, up to the queueing.                     *)
LEMMA CastingAlive ==
  ASSUME TInv, AInv, NEW l \in Loops,
         \/ SaveMessage(l) /\ Goto(l, "broadcast")
         \/ BroadcastLock(l) \/ BroadcastDone(l) \/ \E u \in Users : BroadcastSend(l, u)
  PROVE  AInv'
<1>0. /\ handler \in [Loops -> Handlers] /\ handler[l] \in Handlers /\ Work(l, handler[l])
      /\ sessions \in [Users -> Conns \cup {NoConn}]
  BY DEF TInv, Tables
<1>1. UNCHANGED <<functors, removing, destroyed, conn, sessions, renamed>> /\ handler[l].at # "idle"
  BY DEF SaveMessage, BroadcastLock, BroadcastDone, BroadcastSend, At
<1>2. /\ \A k \in Loops \ {l} : handler'[k] = handler[k]
      /\ handler'[l].c \in {handler[l].c, NoConn}
      /\ handler'[l].at = "queue" =>
           /\ LoopOf[handler'[l].d] # l
           /\ \E v \in Users \ handler'[l].left : sessions'[v] = handler'[l].d
  <2>1. CASE SaveMessage(l) /\ Goto(l, "broadcast")
    BY <1>0, <2>1 DEF Goto, Handlers
  <2>2. CASE BroadcastLock(l)
    BY <1>0, <2>2 DEF BroadcastLock, Handlers
  <2>3. CASE BroadcastDone(l)
    BY <1>0, <2>3 DEF BroadcastDone, Return, Idle
  <2>4. ASSUME NEW u \in Users, BroadcastSend(l, u)
        PROVE  /\ \A k \in Loops \ {l} : handler'[k] = handler[k]
               /\ handler'[l].c \in {handler[l].c, NoConn}
               /\ handler'[l].at = "queue" =>
                    /\ LoopOf[handler'[l].d] # l
                    /\ \E v \in Users \ handler'[l].left : sessions'[v] = handler'[l].d
    <3>1. CASE sessions[u] # NoConn /\ conn[sessions[u]] = "up" /\ LoopOf[sessions[u]] # l
      <4>1. handler' = [handler EXCEPT ![l].at = "queue", ![l].d = sessions[u], ![l].left = @ \ {u}]
        BY <2>4, <3>1 DEF BroadcastSend
      <4>2. /\ handler'[l].c = handler[l].c /\ handler'[l].d = sessions[u]
            /\ handler'[l].left = handler[l].left \ {u}
            /\ \A k \in Loops \ {l} : handler'[k] = handler[k]
        BY <1>0, <4>1 DEF Handlers
      <4>3. u \in Users \ handler'[l].left /\ sessions'[u] = handler'[l].d
        BY <1>1, <4>2
      <4> QED
        BY <3>1, <4>2, <4>3
    <3>2. CASE ~(sessions[u] # NoConn /\ conn[sessions[u]] = "up" /\ LoopOf[sessions[u]] # l)
      <4>1. handler' = [handler EXCEPT ![l].left = @ \ {u}] /\ handler[l].at = "sending"
        BY <2>4, <3>2 DEF BroadcastSend, At
      <4> QED
        BY <1>0, <4>1 DEF Handlers
    <3> QED
      BY <3>1, <3>2
  <2> QED
    BY <2>1, <2>2, <2>3, <2>4
<1>3. ASSUME NEW c \in Conns, Gone(c) PROVE conn'[c] = "down" /\ handler'[l].c # c
  <2>1. conn[c] = "down" /\ handler[LoopOf[c]].c # c
    BY <1>3 DEF AInv, GoneOK
  <2>2. handler[l].c # c
    BY <1>0, <2>1 DEF Work
  <2> QED
    BY <1>1, <1>2, <2>1, <2>2
<1> QED
  BY <1>1, <1>2, <1>3, NothingQueued

(* The steps that queue.                                                   *)
LEMMA QueueingAlive ==
  ASSUME SInv, TInv, AInv, NEW l \in Loops, BroadcastQueue(l) \/ HeartbeatQueue(l)
  PROVE  AInv'
<1> DEFINE d == handler[l].d
<1>0. /\ handler \in [Loops -> Handlers] /\ handler[l] \in Handlers /\ Work(l, handler[l])
      /\ UNCHANGED <<conn, sessions, removing, destroyed, renamed>>
      /\ handler[l].at \in {"queue", "beat_send"}
  BY DEF TInv, BroadcastQueue, HeartbeatQueue, At
<1>1. d \in Conns
  BY <1>0 DEF Work
<1>2. /\ \A k \in Loops \ {l} : handler'[k] = handler[k]
      /\ handler'[l].c \in {handler[l].c, NoConn} /\ handler'[l].at # "queue"
  <2>1. CASE BroadcastQueue(l)
    BY <1>0, <2>1 DEF BroadcastQueue, Handlers
  <2>2. CASE HeartbeatQueue(l)
    BY <1>0, <2>2 DEF HeartbeatQueue, Return, Idle
  <2> QED
    BY <2>1, <2>2
<1>3. PICK f \in Functors : /\ Enqueue(d, f) /\ f.c = d /\ f.op # "destroyed"
                            /\ (f.op = "broadcast" => handler[l].at = "queue")
  <2>1. CASE BroadcastQueue(l)
    <3> DEFINE f == [op |-> "broadcast", c |-> d, m |-> handler[l].m, by |-> l]
    <3>1. handler[l].m \in Messages /\ handler[l].at = "queue"
      BY <1>0, <2>1 DEF BroadcastQueue, At, Work, Chatting
    <3>2. f \in Functors /\ f.c = d /\ f.op = "broadcast"
      BY <1>1, <3>1 DEF Functors
    <3>3. Enqueue(d, f)
      BY <2>1 DEF BroadcastQueue
    <3> HIDE DEF f
    <3> QED
      BY <3>1, <3>2, <3>3
  <2>2. CASE HeartbeatQueue(l)
    <3> DEFINE f == [op |-> "beat", c |-> d, m |-> NoMsg, by |-> l]
    <3>1. f \in Functors /\ f.c = d /\ f.op = "beat"
      BY <1>1 DEF Functors
    <3>2. Enqueue(d, f)
      BY <2>2 DEF HeartbeatQueue
    <3> HIDE DEF f
    <3> QED
      BY <3>1, <3>2
  <2> QED
    BY <2>1, <2>2
<1>4. f.op = "broadcast" /\ d \notin renamed => ~Gone(d)
  BY <1>1, <1>3, GoneHasNoSession DEF AInv, TargetOK
<1> HIDE DEF d
<1>5. /\ Placed' /\ BroadcastTargetsAlive'
      /\ \A c \in Conns : (\E i \in 1..Len(functors'[LoopOf[c]]) :
           functors'[LoopOf[c]][i].op = "destroyed" /\ functors'[LoopOf[c]][i].c = c)
             => Gone(c) \/ (c = d /\ f.op = "destroyed")
  BY <1>0, <1>1, <1>3, <1>4, EnqueueAlive
<1>6. ASSUME NEW c \in Conns, Gone(c)' PROVE Gone(c)
  BY <1>0, <1>3, <1>5, <1>6 DEF Gone
<1>7. GoneOK'
  <2> SUFFICES ASSUME NEW c \in Conns, Gone(c)' PROVE conn'[c] = "down" /\ handler'[LoopOf[c]].c # c
    BY DEF GoneOK
  <2>1. conn[c] = "down" /\ handler[LoopOf[c]].c # c /\ LoopOf[c] \in Loops
    BY <1>6 DEF AInv, GoneOK
  <2> QED
    BY <1>0, <1>2, <2>1
<1>8. TargetOK'
  BY <1>0, <1>2, TargetKept DEF AInv
<1> QED
  BY <1>5, <1>7, <1>8 DEF AInv

(* The end of DOWN, and the removal in the base loop.                      *)
LEMMA DownEndAlive ==
  ASSUME SInv, TInv, AInv, NEW l \in Loops, DownEnd(l)
  PROVE  AInv'
<1>0. /\ handler \in [Loops -> Handlers] /\ handler[l].at = "down_end"
      /\ UNCHANGED <<conn, sessions, functors, destroyed, renamed>>
      /\ removing' = removing \cup {handler[l].c}
      /\ Return(l)
  BY DEF TInv, DownEnd, At
<1>1. handler[l].c \in Conns /\ LoopOf[handler[l].c] = l /\ conn[handler[l].c] = "down"
  BY <1>0, Running DEF HandlerOK
<1>2. /\ \A k \in Loops \ {l} : handler'[k] = handler[k]
      /\ handler'[l].c = NoConn /\ handler'[l].at = "idle"
  BY <1>0 DEF Return, Idle
<1>3. Placed' /\ BroadcastTargetsAlive'
  BY <1>0 DEF AInv, Placed, BroadcastTargetsAlive
<1>4. GoneOK'
  <2> SUFFICES ASSUME NEW c \in Conns, Gone(c)' PROVE conn'[c] = "down" /\ handler'[LoopOf[c]].c # c
    BY DEF GoneOK
  <2>1. Gone(c) \/ c = handler[l].c
    BY <1>0 DEF Gone
  <2>2. CASE Gone(c)
    BY <1>0, <1>2, <2>2 DEF AInv, GoneOK
  <2>3. CASE c = handler[l].c
    BY <1>0, <1>1, <1>2, <2>3
  <2> QED
    BY <2>1, <2>2, <2>3
<1>5. TargetOK'
  BY <1>0, <1>2, TargetKept DEF AInv
<1> QED
  BY <1>3, <1>4, <1>5 DEF AInv

LEMMA RemovalAlive ==
  ASSUME TInv, AInv, NEW c \in Conns, RemoveConnection(c)
  PROVE  AInv'
<1> DEFINE f == [op |-> "destroyed", c |-> c, m |-> NoMsg, by |-> NoLoop]
<1>1. f \in Functors /\ f.c = c /\ f.op = "destroyed"
  BY DEF Functors
<1>2. /\ c \in removing /\ removing' \subseteq removing /\ Enqueue(c, f)
      /\ UNCHANGED <<conn, sessions, handler, destroyed, renamed>>
  BY DEF RemoveConnection
<1> HIDE DEF f
<1>3. /\ Placed' /\ BroadcastTargetsAlive'
      /\ \A e \in Conns : (\E i \in 1..Len(functors'[LoopOf[e]]) :
           functors'[LoopOf[e]][i].op = "destroyed" /\ functors'[LoopOf[e]][i].c = e)
             => Gone(e) \/ (e = c /\ f.op = "destroyed")
  BY <1>1, <1>2, EnqueueAlive
<1>4. Gone(c)
  BY <1>2 DEF Gone
<1>5. ASSUME NEW e \in Conns, Gone(e)' PROVE Gone(e)
  BY <1>2, <1>3, <1>4, <1>5 DEF Gone
<1>6. GoneOK' /\ TargetOK'
  BY <1>2, <1>5 DEF AInv, GoneOK, TargetOK
<1> QED
  BY <1>3, <1>6 DEF AInv

(* What the queue of a loop is after its first functor was taken.          *)
Taken(l) == functors[l] # <<>> /\ functors' = [functors EXCEPT ![l] = Tail(@)]

LEMMA TakenFirst ==
  ASSUME Tables, NEW l \in Loops, Taken(l)
  PROVE  /\ Len(functors[l]) \in Nat /\ 1 \in 1..Len(functors[l]) /\ Head(functors[l]) = functors[l][1]
         /\ Head(functors[l]) \in Functors
         /\ Len(functors'[l]) = Len(functors[l]) - 1
         /\ \A i \in 1..Len(functors'[l]) : i + 1 \in 1..Len(functors[l]) /\ functors'[l][i] = functors[l][i + 1]
         /\ \A k \in Loops \ {l} : functors'[k] = functors[k]
<1>1. functors[l] \in Seq(Functors)
  BY DEF Tables
<1>2. functors'[l] = Tail(functors[l]) /\ \A k \in Loops \ {l} : functors'[k] = functors[k]
  BY DEF Tables, Taken
<1>3. /\ Len(functors[l]) \in Nat /\ Len(functors[l]) >= 1 /\ Head(functors[l]) = functors[l][1]
      /\ Head(functors[l]) \in Functors
  BY <1>1, HeadTailProperties, EmptySeq DEF Taken
<1>4. /\ Len(Tail(functors[l])) = Len(functors[l]) - 1
      /\ \A i \in 1..Len(Tail(functors[l])) : Tail(functors[l])[i] = functors[l][i + 1]
  BY <1>1, HeadTailProperties DEF Taken
<1>5. 1 \in 1..Len(functors[l])
  BY <1>3
<1>6. Len(functors'[l]) = Len(functors[l]) - 1
  BY <1>2, <1>4
<1>7. ASSUME NEW i \in 1..Len(functors'[l])
      PROVE  i + 1 \in 1..Len(functors[l]) /\ functors'[l][i] = functors[l][i + 1]
  <2>1. i \in 1..Len(functors[l]) - 1
    BY <1>6
  <2>2. i + 1 \in 1..Len(functors[l])
    BY <1>3, <2>1
  <2> QED
    BY <1>2, <1>4, <2>1, <2>2
<1> QED
  BY <1>2, <1>3, <1>5, <1>6, <1>7

LEMMA FunctorAlive ==
  ASSUME TInv, AInv, NEW l \in Loops, RunFunctor(l)
  PROVE  AInv'
<1> DEFINE f == Head(functors[l])
<1>0. /\ UNCHANGED <<conn, sessions, handler, removing, renamed>>
      /\ Taken(l)
      /\ \/ destroyed' = destroyed
         \/ f.op = "destroyed" /\ destroyed' = destroyed \cup {f.c}
  BY DEF RunFunctor, RunSend, ConnectDestroyed, Taken
<1>1. /\ Len(functors[l]) \in Nat /\ 1 \in 1..Len(functors[l]) /\ f = functors[l][1] /\ f \in Functors
      /\ \A i \in 1..Len(functors'[l]) : i + 1 \in 1..Len(functors[l]) /\ functors'[l][i] = functors[l][i + 1]
      /\ \A k \in Loops \ {l} : functors'[k] = functors[k]
      /\ Len(functors'[l]) = Len(functors[l]) - 1
  BY <1>0, TakenFirst DEF TInv
<1> HIDE DEF f
<1>2. LoopOf[f.c] = l /\ f.c \in Conns
  <2>1. f.c \in Conns
    BY <1>1 DEF Functors
  <2> QED
    BY <1>1, <2>1 DEF AInv, Placed
<1>3. Placed'
  <2> SUFFICES ASSUME NEW k \in Loops, NEW i \in 1..Len(functors'[k]) PROVE LoopOf[functors'[k][i].c] = k
    BY DEF Placed
  <2>1. CASE k # l
    BY <1>1, <2>1 DEF AInv, Placed
  <2>2. CASE k = l
    <3>1. i + 1 \in 1..Len(functors[l]) /\ functors'[l][i] = functors[l][i + 1]
      BY <1>1, <2>2
    <3> QED
      BY <2>2, <3>1 DEF AInv, Placed
  <2> QED
    BY <2>1, <2>2
<1>4. ASSUME NEW c \in Conns, Gone(c)' PROVE Gone(c)
  <2>1. CASE c \in removing' \cup destroyed'
    BY <1>0, <1>1, <1>2, <2>1 DEF Gone
  <2>2. CASE \E i \in 1..Len(functors'[LoopOf[c]]) :
             functors'[LoopOf[c]][i].op = "destroyed" /\ functors'[LoopOf[c]][i].c = c
    <3>1. LoopOf[c] \in Loops
      OBVIOUS
    <3> QED
      BY <1>1, <2>2, <3>1 DEF Gone
  <2> QED
    BY <1>4, <2>1, <2>2 DEF Gone
<1>5. GoneOK' /\ TargetOK'
  BY <1>0, <1>4 DEF AInv, GoneOK, TargetOK
<1>6. BroadcastTargetsAlive'
  <2> SUFFICES ASSUME NEW k \in Loops, NEW i \in 1..Len(functors'[k]), functors'[k][i].op = "broadcast",
                      functors'[k][i].c \notin renamed
               PROVE  /\ functors'[k][i].c \notin destroyed'
                      /\ \A j \in 1..i - 1 : ~(functors'[k][j].op = "destroyed"
                                               /\ functors'[k][j].c = functors'[k][i].c)
    <3>1. renamed' = renamed
      BY <1>0
    <3> QED
      BY <3>1 DEF BroadcastTargetsAlive
  <2>1. CASE k # l
    <3>1. functors'[k] = functors[k] /\ LoopOf[functors[k][i].c] = k
      BY <1>1, <2>1 DEF AInv, Placed
    <3>2. functors[k][i].c # f.c
      BY <1>2, <2>1, <3>1
    <3>3. i \in 1..Len(functors[k]) /\ functors[k][i].op = "broadcast" /\ functors[k][i].c \notin renamed
      BY <3>1
    <3>4. /\ functors[k][i].c \notin destroyed
          /\ \A j \in 1..i - 1 : ~(functors[k][j].op = "destroyed" /\ functors[k][j].c = functors[k][i].c)
      BY <3>3 DEF AInv, BroadcastTargetsAlive
    <3>5. functors[k][i].c \notin destroyed'
      BY <1>0, <3>2, <3>4
    <3> QED
      BY <3>1, <3>4, <3>5
  <2>2. CASE k = l
    <3>1. i + 1 \in 1..Len(functors[l]) /\ functors'[l][i] = functors[l][i + 1]
      BY <1>1, <2>2
    <3>2. /\ functors[l][i + 1].c \notin destroyed
          /\ \A j \in 1..i : ~(functors[l][j].op = "destroyed" /\ functors[l][j].c = functors[l][i + 1].c)
      <4>1. (i + 1) - 1 = i
        BY <2>2, <1>1
      <4> QED
        BY <2>2, <3>1, <4>1 DEF AInv, BroadcastTargetsAlive
    <3>3. 1 \in 1..i /\ \A j \in 1..i - 1 : j + 1 \in 1..i /\ j \in 1..Len(functors'[l])
      BY <1>1, <2>2
    <3>4. functors[l][i + 1].c \notin destroyed'
      BY <1>0, <1>1, <3>2, <3>3
    <3>5. \A j \in 1..i - 1 : functors'[l][j] = functors[l][j + 1]
      BY <1>1, <3>3
    <3> QED
      BY <2>2, <3>1, <3>2, <3>3, <3>4, <3>5
  <2> QED
    BY <2>1, <2>2
<1> QED
  BY <1>3, <1>5, <1>6 DEF AInv

(* The steps of a handler, by what they can do to a broadcast.             *)
LEMMA HandlerKinds ==
  ASSUME TInv, NEW l \in Loops, HandlerStep(l)
  PROVE  \/ Calm(l)
         \/ SaveMessage(l) /\ Goto(l, "broadcast")
         \/ BroadcastLock(l) \/ BroadcastDone(l) \/ (\E u \in Users : BroadcastSend(l, u))
         \/ BroadcastQueue(l) \/ HeartbeatQueue(l) \/ DownEnd(l)
<1>1. CASE SaveMessage(l)
  <2>1. Goto(l, "broadcast") \/ Return(l)
    BY <1>1 DEF SaveMessage
  <2>2. CASE Return(l)
    BY <1>1, <2>2, CalmSteps
  <2> QED
    BY <1>1, <2>1, <2>2
<1>2. CASE VerifyUser(l) \/ LoginIsOnline(l) \/ AddSession(l) \/ LoginReply(l) \/ GetHistory(l)
  BY <1>2, CalmSteps
<1>3. CASE LogoutRemove(l) \/ LogoutReply(l) \/ ChatIsOnline(l)
  BY <1>3, CalmSteps
<1>4. CASE GetConnection(l) \/ OnDisconnect(l) \/ OnDisconnectRemove(l)
  BY <1>4, CalmSteps
<1> QED
  BY <1>1, <1>2, <1>3, <1>4 DEF HandlerStep

LEMMA StepAInv == ASSUME SInv, TInv, AInv, [Next]_vars PROVE AInv'
<1>1. ASSUME NEW l \in Loops, HandlerStep(l) PROVE AInv'
  <2>1. CASE Calm(l)
    BY <2>1, CalmAlive
  <2>2. CASE \/ SaveMessage(l) /\ Goto(l, "broadcast")
             \/ BroadcastLock(l) \/ BroadcastDone(l) \/ (\E u \in Users : BroadcastSend(l, u))
    BY <2>2, CastingAlive
  <2>3. CASE BroadcastQueue(l) \/ HeartbeatQueue(l)
    BY <2>3, QueueingAlive
  <2>4. CASE DownEnd(l)
    BY <2>4, DownEndAlive
  <2> QED
    BY <1>1, <2>1, <2>2, <2>3, <2>4, HandlerKinds, Zenon
<1>2. CASE UNCHANGED vars
  BY <1>2 DEF vars, AInv, Placed, GoneOK, TargetOK, Gone, BroadcastTargetsAlive
<1> QED
  BY <1>1, <1>2, ClientAlive, RemovalAlive, FunctorAlive DEF Next

(* A broadcast that waits in another loop's queue runs before the last     *)
(* reference to its connection is given up, for any number of connections, *)
(* I/O loops and users, unless the connection asked for a second name      *)
(* while in session (SessionManager.cpp:58-65, TcpConnection.cpp:214-221,  *)
(* TcpServer.cpp:109-115).                                                 *)
THEOREM TargetsStayAlive == Spec => []BroadcastTargetsAlive
<1>1. SInv /\ TInv /\ AInv /\ [Next]_vars => (SInv /\ TInv /\ AInv)'
  BY StepSInv, StepTInv, StepAInv
<1>2. AInv => BroadcastTargetsAlive
  BY DEF AInv
<1> QED
  BY <1>1, <1>2, InitSInv, InitTInv, InitAInv, PTL DEF Spec

-----------------------------------------------------------------------------
(* The messages of one sender stay in order, directly written or queued.   *)

(* On its way to c, message m may precede k: only a client that was        *)
(* renamed, and may have two sessions, is sent one twice.                  *)
Before(c, m, k) == m[1] = k[1] => m[2] < k[2] \/ (m = k /\ c \in renamed)

(* Written to the socket of c; waiting in the queue of the loop of c.      *)
Arrived(c, m) == \E i \in 1..Len(inbox[c]) : inbox[c][i][1] = m

IsFor(f, c) == f.op = "broadcast" /\ f.c = c

Coming(c, m) ==
  \E i \in 1..Len(functors[LoopOf[c]]) :
    IsFor(functors[LoopOf[c]][i], c) /\ functors[LoopOf[c]][i].m = m

(* The handler of loop l may still send its message to c.                  *)
Pending(l, c) ==
  LET h == handler[l] IN
  \/ h.at \in {"chat_online", "save", "broadcast"}
  \/ h.at = "queue" /\ h.d = c
  \/ h.at \in Holding /\ \E u \in h.left : sessions[u] = c

InboxOrder ==
  \A c \in Conns : \A i, j \in 1..Len(inbox[c]) :
    i < j => Before(c, inbox[c][i][1], inbox[c][j][1])

QueueOrder ==
  \A c \in Conns : \A i, j \in 1..Len(functors[LoopOf[c]]) :
    i < j /\ IsFor(functors[LoopOf[c]][i], c) /\ IsFor(functors[LoopOf[c]][j], c) =>
      Before(c, functors[LoopOf[c]][i].m, functors[LoopOf[c]][j].m)

(* What was written precedes what is queued, both precede what is still to *)
(* be sent, and what is queued was sent by a client of another loop.       *)
ArrivedFirst ==
  \A c \in Conns : \A m, k \in Messages : Arrived(c, m) /\ Coming(c, k) => Before(c, m, k)

PendingLast ==
  \A l \in Loops : \A c \in Conns : \A m \in Messages :
    Pending(l, c) /\ (Arrived(c, m) \/ Coming(c, m)) => Before(c, m, handler[l].m)

Foreign ==
  \A c \in Conns : \A m \in Messages : Coming(c, m) => LoopOf[m[1]] # LoopOf[c]

Numbered ==
  /\ \A c \in Conns : \A m \in Messages : Arrived(c, m) \/ Coming(c, m) => m[2] <= sent
  /\ \A l \in Loops : handler[l].at \in Chatting => handler[l].m[2] <= sent

OInv == InboxOrder /\ QueueOrder /\ ArrivedFirst /\ PendingLast /\ Foreign /\ Numbered

LEMMA InitOInv == Init => OInv
<1> SUFFICES ASSUME Init PROVE OInv
  OBVIOUS
<1>1. \A c \in Conns : LoopOf[c] \in Loops
  OBVIOUS
<1>2. \A c \in Conns : inbox[c] = <<>> /\ functors[LoopOf[c]] = <<>>
  BY <1>1 DEF Init
<1>3. \A l \in Loops : handler[l].at \notin Chatting
  BY DEF Init, Idle, Chatting
<1>4. \A c \in Conns : \A m : ~Arrived(c, m) /\ ~Coming(c, m)
  BY <1>2 DEF Arrived, Coming
<1> QED
  BY <1>2, <1>3, <1>4 DEF OInv, InboxOrder, QueueOrder, ArrivedFirst, PendingLast, Foreign, Numbered

LEMMA MessageParts ==
  ASSUME NEW m \in Messages PROVE m[1] \in Conns /\ m[2] \in Nat
  BY DEF Messages

(* A step that sends nothing.                                              *)
LEMMA NothingSent ==
  ASSUME TInv, OInv, sent' \in Nat, sent <= sent', InboxOrder', QueueOrder', renamed \subseteq renamed',
         \A c \in Conns : \A m \in Messages :
           (Arrived(c, m)' => Arrived(c, m)) /\ (Coming(c, m)' => Coming(c, m)),
         \A k \in Loops : \A c \in Conns : Pending(k, c)' =>
           \/ Pending(k, c) /\ handler'[k].m = handler[k].m
           \/ \E n \in Nat : n > sent /\ handler'[k].m = <<handler'[k].c, n>>,
         \A k \in Loops : handler'[k].at \in Chatting => handler'[k].m[2] <= sent'
  PROVE  OInv'
<1>0. sent \in Nat
  BY DEF TInv, Tables
<1>a. ASSUME NEW c \in Conns, NEW m, NEW k, Before(c, m, k) PROVE Before(c, m, k)'
  BY <1>a DEF Before
<1>1. ArrivedFirst' /\ Foreign'
  BY <1>a DEF OInv, ArrivedFirst, Foreign
<1>2. Numbered'
  <2> SUFFICES ASSUME NEW c \in Conns, NEW m \in Messages, (Arrived(c, m) \/ Coming(c, m))'
               PROVE  m[2] <= sent'
    BY DEF Numbered
  <2>1. m[2] <= sent
    BY DEF OInv, Numbered
  <2> QED
    BY <1>0, <2>1, MessageParts
<1>3. PendingLast'
  <2> SUFFICES ASSUME NEW k \in Loops, NEW c \in Conns, NEW m \in Messages,
                      Pending(k, c)', (Arrived(c, m) \/ Coming(c, m))'
               PROVE  Before(c, m, handler'[k].m)
    BY <1>a DEF PendingLast, Before
  <2>1. Arrived(c, m) \/ Coming(c, m)
    OBVIOUS
  <2>2. CASE Pending(k, c) /\ handler'[k].m = handler[k].m
    BY <2>1, <2>2 DEF OInv, PendingLast
  <2>3. ASSUME NEW n \in Nat, n > sent, handler'[k].m = <<handler'[k].c, n>>
        PROVE  Before(c, m, handler'[k].m)
    <3>1. m[2] <= sent /\ m[2] \in Nat
      BY <2>1, MessageParts DEF OInv, Numbered
    <3>2. handler'[k].m[2] = n
      BY <2>3
    <3> QED
      BY <1>0, <2>3, <3>1, <3>2 DEF Before
  <2> QED
    BY <2>2, <2>3
<1> QED
  BY <1>1, <1>2, <1>3 DEF OInv

(* A step that leaves the sockets and the queues as they are, or closes a  *)
(* socket.                                                                 *)
LEMMA Untouched ==
  ASSUME OInv, functors' = functors, \A c \in Conns : inbox'[c] \in {inbox[c], <<>>},
         renamed \subseteq renamed'
  PROVE  /\ InboxOrder' /\ QueueOrder'
         /\ \A c \in Conns : \A m \in Messages :
              (Arrived(c, m)' => Arrived(c, m)) /\ (Coming(c, m)' => Coming(c, m))
<1>1. QueueOrder' /\ \A c \in Conns : \A m \in Messages : Coming(c, m)' => Coming(c, m)
  BY DEF OInv, QueueOrder, Coming, IsFor, Before
<1>2. ASSUME NEW c \in Conns
      PROVE  /\ \A i, j \in 1..Len(inbox'[c]) : i < j => Before(c, inbox'[c][i][1], inbox'[c][j][1])
             /\ \A m \in Messages : Arrived(c, m)' => Arrived(c, m)
  <2>1. CASE inbox'[c] = inbox[c]
    BY <2>1 DEF OInv, InboxOrder, Arrived
  <2>2. CASE inbox'[c] = <<>>
    BY <2>2 DEF Arrived
  <2> QED
    BY <2>1, <2>2
<1>3. InboxOrder'
  BY <1>2 DEF InboxOrder, Before
<1> QED
  BY <1>1, <1>2, <1>3

(* The handlers of the other loops after a step that may change sessions   *)
(* only while nobody holds mutex_.                                         *)
LEMMA OthersPend ==
  ASSUME TInv, NEW l \in Loops, NEW k \in Loops \ {l}, NEW c \in Conns,
         handler'[k] = handler[k], sessions' = sessions \/ mutex = NoLoop, Pending(k, c)'
  PROVE  Pending(k, c)
<1>1. CASE sessions' = sessions
  BY <1>1 DEF Pending
<1>2. CASE mutex = NoLoop
  <2>1. handler[k].at \notin Holding
    BY <1>2 DEF TInv, HoldsMutex
  <2> QED
    BY <2>1 DEF Pending, Holding
<1> QED
  BY <1>1, <1>2

LEMMA CalmOrdered ==
  ASSUME TInv, OInv, NEW l \in Loops, Calm(l)
  PROVE  OInv'
<1>0. /\ sent' = sent /\ sent \in Nat /\ functors' = functors /\ inbox' = inbox
      /\ sessions' = sessions \/ mutex = NoLoop
      /\ \A k \in Loops \ {l} : handler'[k] = handler[k]
      /\ renamed' = renamed
  BY DEF Calm, TInv, Tables
<1>1. ASSUME NEW k \in Loops, NEW c \in Conns, Pending(k, c)'
      PROVE  Pending(k, c) /\ handler'[k].m = handler[k].m
  <2>1. CASE k # l
    BY <1>0, <1>1, <2>1, OthersPend
  <2>2. CASE k = l
    <3>1. handler'[l].at \in {"chat_online", "save"}
      BY <1>1, <2>2 DEF Pending, Calm, Casting, Holding
    <3>2. handler[l].at \in {"chat_online", "save"} /\ handler'[l].m = handler[l].m
      BY <3>1 DEF Calm, Casting, Chatting
    <3> QED
      BY <2>2, <3>2 DEF Pending
  <2> QED
    BY <2>1, <2>2
<1>2. \A k \in Loops : handler'[k].at \in Chatting => handler'[k].m[2] <= sent'
  <2>1. \A k \in Loops : handler'[k].at \in Chatting => handler[k].at \in Chatting /\ handler'[k].m = handler[k].m
    BY <1>0 DEF Calm
  <2> QED
    BY <1>0, <2>1 DEF OInv, Numbered
<1>3. \A c \in Conns : inbox'[c] \in {inbox[c], <<>>}
  BY <1>0
<1>4. /\ InboxOrder' /\ QueueOrder'
      /\ \A c \in Conns : \A m \in Messages :
           (Arrived(c, m)' => Arrived(c, m)) /\ (Coming(c, m)' => Coming(c, m))
  BY <1>0, <1>3, Untouched
<1> QED
  BY <1>0, <1>1, <1>2, <1>4, NothingSent

LEMMA ClientOrdered ==
  ASSUME TInv, OInv, NEW c \in Conns, ClientStep(c)
  PROVE  OInv'
<1> DEFINE l == LoopOf[c]
<1>0. /\ l \in Loops /\ sent \in Nat /\ Sockets
  BY DEF TInv, Tables
<1>1. /\ UNCHANGED <<functors, sessions>> /\ inbox' \in {inbox, [inbox EXCEPT ![c] = <<>>]}
      /\ renamed \subseteq renamed'
  BY DEF ClientStep, OnConnectionUp, CloseFrame, OnConnectionDown, StartLogin, StartLogout, StartChat,
     StartHeartbeat, StartGetHistory, Request
<1>2. \A e \in Conns : inbox'[e] \in {inbox[e], <<>>}
  BY <1>0, <1>1 DEF Sockets
<1>3. Started(c)
  BY ClientHandler
<1>4. sent' \in Nat /\ sent <= sent'
  BY <1>0, <1>3 DEF Started
<1>5. ASSUME NEW k \in Loops
      PROVE  /\ \A e \in Conns : Pending(k, e)' =>
                  \/ Pending(k, e) /\ handler'[k].m = handler[k].m
                  \/ \E n \in Nat : n > sent /\ handler'[k].m = <<handler'[k].c, n>>
             /\ handler'[k].at \in Chatting => handler'[k].m[2] <= sent'
  <2>1. CASE handler'[k] = handler[k]
    <3>1. \A e \in Conns : Pending(k, e)' => Pending(k, e)
      BY <1>1, <2>1 DEF Pending
    <3>2. handler[k].at \in Chatting => handler[k].m[2] <= sent /\ handler[k].m[2] \in Nat
      BY MessageParts DEF OInv, Numbered, TInv, Work
    <3> QED
      BY <1>0, <1>4, <2>1, <3>1, <3>2
  <2>2. CASE k = l /\ handler'[k].at \notin Chatting
    BY <2>2 DEF Pending, Chatting, Holding
  <2>3. CASE k = l /\ handler'[k].c = c /\ handler'[k].m = <<c, sent + 1>> /\ sent' = sent + 1
    <3>1. sent + 1 \in Nat /\ sent + 1 > sent /\ handler'[k].m = <<handler'[k].c, sent + 1>>
      BY <1>0, <2>3
    <3>2. handler'[k].m[2] <= sent'
      BY <1>0, <2>3
    <3> QED
      BY <3>1, <3>2
  <2> QED
    BY <1>3, <2>1, <2>2, <2>3 DEF Started
<1>6. /\ InboxOrder' /\ QueueOrder'
      /\ \A e \in Conns : \A m \in Messages :
           (Arrived(e, m)' => Arrived(e, m)) /\ (Coming(e, m)' => Coming(e, m))
  BY <1>1, <1>2, Untouched
<1> QED
  BY <1>1, <1>4, <1>5, <1>6, NothingSent

(* The other steps of a handler that send nothing.                         *)
LEMMA PassingOrdered ==
  ASSUME TInv, OInv, NEW l \in Loops,
         UNCHANGED <<sent, functors, inbox, sessions, renamed>>,
         \A k \in Loops \ {l} : handler'[k] = handler[k],
         \A c \in Conns : Pending(l, c)' => Pending(l, c),
         handler'[l].at \in Chatting => handler[l].at \in Chatting /\ handler'[l].m = handler[l].m
  PROVE  OInv'
<1>0. sent \in Nat
  BY DEF TInv, Tables
<1>1. ASSUME NEW k \in Loops, NEW c \in Conns, Pending(k, c)'
      PROVE  Pending(k, c) /\ handler'[k].m = handler[k].m
  <2>1. CASE k # l
    BY <1>1, <2>1, OthersPend
  <2>2. CASE k = l
    <3>1. handler'[l].at \in Chatting
      BY <1>1, <2>2 DEF Pending, Chatting, Holding
    <3> QED
      BY <1>1, <2>2, <3>1
  <2> QED
    BY <2>1, <2>2
<1>2. \A k \in Loops : handler'[k].at \in Chatting => handler'[k].m[2] <= sent'
  <2>1. \A k \in Loops : handler'[k].at \in Chatting => handler[k].at \in Chatting /\ handler'[k].m = handler[k].m
    OBVIOUS
  <2> QED
    BY <2>1 DEF OInv, Numbered
<1>3. /\ InboxOrder' /\ QueueOrder'
      /\ \A c \in Conns : \A m \in Messages :
           (Arrived(c, m)' => Arrived(c, m)) /\ (Coming(c, m)' => Coming(c, m))
  BY Untouched
<1> QED
  BY <1>0, <1>1, <1>2, <1>3, NothingSent

LEMMA OpeningOrdered ==
  ASSUME TInv, OInv, NEW l \in Loops,
         \/ SaveMessage(l) /\ Goto(l, "broadcast")
         \/ BroadcastLock(l) \/ BroadcastDone(l) \/ DownEnd(l)
  PROVE  OInv'
<1>0. handler \in [Loops -> Handlers] /\ handler[l] \in Handlers
  BY DEF TInv
<1>1. UNCHANGED <<sent, functors, inbox, sessions, renamed>>
  BY DEF SaveMessage, BroadcastLock, BroadcastDone, DownEnd
<1>2. /\ \A k \in Loops \ {l} : handler'[k] = handler[k]
      /\ \A c \in Conns : Pending(l, c)' => Pending(l, c)
      /\ handler'[l].at \in Chatting => handler[l].at \in Chatting /\ handler'[l].m = handler[l].m
  <2>1. CASE SaveMessage(l) /\ Goto(l, "broadcast")
    <3>1. handler[l].at = "save"
      BY <2>1 DEF SaveMessage, At
    <3> QED
      BY <1>0, <2>1, <3>1 DEF Goto, Handlers, Pending, Chatting
  <2>2. CASE BroadcastLock(l)
    <3>1. handler[l].at = "broadcast"
      BY <2>2 DEF BroadcastLock, At
    <3> QED
      BY <1>0, <2>2, <3>1 DEF BroadcastLock, Handlers, Pending, Chatting
  <2>3. CASE BroadcastDone(l) \/ DownEnd(l)
    <3>1. /\ handler'[l].at = "idle"
          /\ \A k \in Loops \ {l} : handler'[k] = handler[k]
      BY <1>0, <2>3 DEF BroadcastDone, DownEnd, Return, Idle
    <3> QED
      BY <3>1 DEF Pending, Chatting, Holding
  <2> QED
    BY <2>1, <2>2, <2>3
<1> QED
  BY <1>1, <1>2, PassingOrdered

(* What is in a socket after a frame was written to it.                    *)
LEMMA WrittenLast ==
  ASSUME TInv, NEW d \in Conns, NEW m \in Messages, NEW b \in BOOLEAN, Deliver(d, m, b)
  PROVE  /\ Len(inbox[d]) \in Nat /\ Len(inbox'[d]) = Len(inbox[d]) + 1
         /\ inbox'[d][Len(inbox[d]) + 1][1] = m
         /\ \A i \in 1..Len(inbox[d]) : inbox'[d][i] = inbox[d][i]
         /\ \A c \in Conns \ {d} : inbox'[c] = inbox[c]
<1>1. inbox \in [Conns -> Seq(Messages \X BOOLEAN)] /\ inbox[d] \in Seq(Messages \X BOOLEAN)
  BY DEF TInv, Sockets
<1>2. <<m, b>> \in Messages \X BOOLEAN /\ <<m, b>>[1] = m
  OBVIOUS
<1>3. inbox'[d] = Append(inbox[d], <<m, b>>) /\ \A c \in Conns \ {d} : inbox'[c] = inbox[c]
  BY <1>1 DEF Deliver
<1>4. /\ Len(inbox[d]) \in Nat /\ Len(inbox'[d]) = Len(inbox[d]) + 1
      /\ inbox'[d][Len(inbox[d]) + 1] = <<m, b>>
      /\ \A i \in 1..Len(inbox[d]) : inbox'[d][i] = inbox[d][i]
  BY <1>1, <1>2, <1>3, AppendProperties, LenProperties
<1> QED
  BY <1>2, <1>3, <1>4

LEMMA WrittenInOrder ==
  ASSUME TInv, InboxOrder, NEW d \in Conns, NEW m \in Messages, NEW b \in BOOLEAN, Deliver(d, m, b),
         renamed' = renamed
  PROVE  /\ \A c \in Conns : \A k \in Messages : Arrived(c, k)' => Arrived(c, k) \/ (c = d /\ k = m)
         /\ (\A k \in Messages : Arrived(d, k) => Before(d, k, m)) => InboxOrder'
<1> DEFINE n == Len(inbox[d])
<1>1. /\ n \in Nat /\ Len(inbox'[d]) = n + 1 /\ inbox'[d][n + 1][1] = m
      /\ \A i \in 1..n : inbox'[d][i] = inbox[d][i]
      /\ \A c \in Conns \ {d} : inbox'[c] = inbox[c]
  BY WrittenLast
<1>2. \A i \in 1..n + 1 : i \in 1..n \/ i = n + 1
  BY <1>1
<1>3. ASSUME NEW i \in 1..n PROVE inbox[d][i][1] \in Messages /\ Arrived(d, inbox[d][i][1])
  <2>1. inbox[d] \in Seq(Messages \X BOOLEAN)
    BY DEF TInv, Sockets
  <2>2. inbox[d][i] \in Messages \X BOOLEAN
    BY <2>1, <1>3, ElementOfSeq
  <2>3. inbox[d][i][1] \in Messages
    BY <2>2
  <2> QED
    BY <2>3 DEF Arrived
<1>4. ASSUME NEW c \in Conns, NEW k \in Messages, Arrived(c, k)' PROVE Arrived(c, k) \/ (c = d /\ k = m)
  <2>1. CASE c # d
    BY <1>1, <1>4, <2>1 DEF Arrived
  <2>2. CASE c = d
    <3>1. PICK i \in 1..n + 1 : inbox'[d][i][1] = k
      BY <1>1, <1>4, <2>2 DEF Arrived
    <3> QED
      BY <1>1, <1>2, <1>3, <2>2, <3>1
  <2> QED
    BY <2>1, <2>2
<1>5. ASSUME \A k \in Messages : Arrived(d, k) => Before(d, k, m) PROVE InboxOrder'
  <2> SUFFICES ASSUME NEW c \in Conns, NEW i \in 1..Len(inbox'[c]), NEW j \in 1..Len(inbox'[c]), i < j
               PROVE  Before(c, inbox'[c][i][1], inbox'[c][j][1])
    BY DEF InboxOrder, Before
  <2>1. CASE c # d
    BY <1>1, <2>1 DEF InboxOrder
  <2>2. CASE c = d /\ j \in 1..n
    <3>1. i \in 1..n
      BY <1>1, <2>2
    <3> QED
      BY <1>1, <2>2, <3>1 DEF InboxOrder
  <2>3. CASE c = d /\ j = n + 1
    <3>1. i \in 1..n
      BY <1>1, <2>3
    <3>2. Before(d, inbox[d][i][1], m)
      BY <1>3, <1>5, <3>1
    <3> QED
      BY <1>1, <2>3, <3>1, <3>2
  <2> QED
    BY <1>1, <1>2, <2>1, <2>2, <2>3
<1> QED
  BY <1>4, <1>5

(* What waits for a connection after a functor was queued.                 *)
LEMMA QueuedInOrder ==
  ASSUME TInv, QueueOrder, NEW d \in Conns, NEW f \in Functors, Enqueue(d, f), f.c = d,
         renamed' = renamed
  PROVE  /\ \A c \in Conns : \A k \in Messages :
              Coming(c, k)' => Coming(c, k) \/ (c = d /\ f.op = "broadcast" /\ k = f.m)
         /\ (f.op = "broadcast" => \A k \in Messages : Coming(d, k) => Before(d, k, f.m)) => QueueOrder'
<1> DEFINE q == LoopOf[d]
           n == Len(functors[q])
<1>1. /\ q \in Loops /\ n \in Nat /\ Len(functors'[q]) = n + 1 /\ functors'[q][n + 1] = f
      /\ \A i \in 1..n : functors'[q][i] = functors[q][i]
      /\ \A k \in Loops \ {q} : functors'[k] = functors[k]
  BY QueuedLast DEF TInv
<1>2. \A i \in 1..n + 1 : i \in 1..n \/ i = n + 1
  BY <1>1
<1>3. ASSUME NEW c \in Conns, LoopOf[c] = q, NEW i \in 1..n, IsFor(functors[q][i], c)
      PROVE  functors[q][i].m \in Messages /\ Coming(c, functors[q][i].m)
  <2>1. functors[q] \in Seq(Functors)
    BY <1>1 DEF TInv, Tables
  <2>2. functors[q][i] \in Functors
    BY <2>1, <1>3, ElementOfSeq
  <2>3. functors[q][i].m \in Messages
    BY <2>2, <1>3 DEF Functors, IsFor
  <2> QED
    BY <1>3, <2>3 DEF Coming
<1>4. ASSUME NEW c \in Conns, NEW k \in Messages, Coming(c, k)'
      PROVE  Coming(c, k) \/ (c = d /\ f.op = "broadcast" /\ k = f.m)
  <2>1. CASE LoopOf[c] # q
    <3>1. functors'[LoopOf[c]] = functors[LoopOf[c]]
      BY <1>1, <2>1
    <3> QED
      BY <1>4, <3>1 DEF Coming
  <2>2. CASE LoopOf[c] = q
    <3>1. PICK i \in 1..n + 1 : IsFor(functors'[q][i], c) /\ functors'[q][i].m = k
      BY <1>1, <1>4, <2>2 DEF Coming
    <3>2. CASE i \in 1..n
      BY <1>1, <2>2, <3>1, <3>2 DEF Coming
    <3>3. CASE i = n + 1
      BY <1>1, <3>1, <3>3 DEF IsFor
    <3> QED
      BY <1>2, <3>2, <3>3
  <2> QED
    BY <2>1, <2>2
<1>5. ASSUME f.op = "broadcast" => \A k \in Messages : Coming(d, k) => Before(d, k, f.m) PROVE QueueOrder'
  <2> SUFFICES ASSUME NEW c \in Conns, NEW i \in 1..Len(functors'[LoopOf[c]]),
                      NEW j \in 1..Len(functors'[LoopOf[c]]), i < j,
                      IsFor(functors'[LoopOf[c]][i], c), IsFor(functors'[LoopOf[c]][j], c)
               PROVE  Before(c, functors'[LoopOf[c]][i].m, functors'[LoopOf[c]][j].m)
    BY DEF QueueOrder, Before, IsFor
  <2>1. CASE LoopOf[c] # q
    <3>1. functors'[LoopOf[c]] = functors[LoopOf[c]]
      BY <1>1, <2>1
    <3> QED
      BY <3>1 DEF QueueOrder
  <2>2. CASE LoopOf[c] = q /\ j \in 1..n
    <3>1. i \in 1..n
      BY <1>1, <2>2
    <3> QED
      BY <1>1, <2>2, <3>1 DEF QueueOrder
  <2>3. CASE LoopOf[c] = q /\ j = n + 1
    <3>1. i \in 1..n
      BY <1>1, <2>3
    <3>2. c = d /\ f.op = "broadcast" /\ functors'[q][j] = f /\ functors'[q][i] = functors[q][i]
      BY <1>1, <2>3, <3>1 DEF IsFor
    <3>3. Before(d, functors[q][i].m, f.m)
      BY <1>3, <1>5, <2>3, <3>1, <3>2
    <3> QED
      BY <2>3, <3>2, <3>3
  <2> QED
    BY <1>1, <1>2, <2>1, <2>2, <2>3
<1> QED
  BY <1>4, <1>5

(* A connection has one session at most, unless it was renamed.            *)
LEMMA OneName ==
  ASSUME SInv, NEW u \in Users, NEW v \in Users, NEW c \in Conns, sessions[u] = c, sessions[v] = c,
         c \notin renamed
  PROVE  u = v
  BY DEF SInv, Owned

(* Whoever chats is on the loop of the client whose message it handles.    *)
LEMMA ChattersMessage ==
  ASSUME TInv, NEW l \in Loops, handler[l].at \in Chatting
  PROVE  handler[l].m \in Messages /\ LoopOf[handler[l].m[1]] = l
  BY DEF TInv, Work, Chatting

(* A handler sends its message to one more connection.  The messages of    *)
(* other loops' handlers are those of other senders.                       *)
LEMMA OneSent ==
  ASSUME TInv, OInv, NEW l \in Loops, NEW d \in Conns, handler[l].at \in Holding,
         Pending(l, d), Pending(l, d)' => d \in renamed,
         \A c \in Conns : Pending(l, c)' => Pending(l, c),
         handler'[l].m = handler[l].m, UNCHANGED <<sent, sessions, renamed>>,
         \A k \in Loops \ {l} : handler'[k] = handler[k],
         \A c \in Conns : \A k \in Messages :
           /\ Arrived(c, k)' => Arrived(c, k) \/ (c = d /\ k = handler[l].m /\ LoopOf[d] = l)
           /\ Coming(c, k)' => Coming(c, k) \/ (c = d /\ k = handler[l].m /\ LoopOf[d] # l),
         InboxOrder', QueueOrder'
  PROVE  OInv'
<1> DEFINE m == handler[l].m
<1>0. m \in Messages /\ LoopOf[m[1]] = l /\ handler[l].at \in Chatting
  BY ChattersMessage DEF Chatting, Holding
<1>1. ArrivedFirst'
  <2> SUFFICES ASSUME NEW c \in Conns, NEW a \in Messages, NEW b \in Messages, Arrived(c, a)', Coming(c, b)'
               PROVE  Before(c, a, b)
    BY DEF ArrivedFirst, Before
  <2>1. CASE Arrived(c, a) /\ Coming(c, b)
    BY <2>1 DEF OInv, ArrivedFirst
  <2>2. CASE c = d /\ a = m /\ LoopOf[d] = l /\ Coming(c, b)
    <3>1. LoopOf[b[1]] # l
      BY <2>2 DEF OInv, Foreign
    <3> QED
      BY <1>0, <2>2, <3>1 DEF Before
  <2>3. CASE Arrived(c, a) /\ c = d /\ b = m
    BY <2>3 DEF OInv, PendingLast
  <2> QED
    BY <2>1, <2>2, <2>3
<1>2. Foreign'
  BY <1>0 DEF OInv, Foreign
<1>3. Numbered'
  <2>1. m[2] <= sent
    BY <1>0 DEF OInv, Numbered
  <2>2. \A k \in Loops : handler'[k].at \in Chatting => handler'[k].m[2] <= sent'
    BY <2>1 DEF OInv, Numbered
  <2> QED
    BY <2>1, <2>2 DEF OInv, Numbered
<1>4. PendingLast'
  <2> SUFFICES ASSUME NEW k \in Loops, NEW c \in Conns, NEW a \in Messages, Pending(k, c)',
                      Arrived(c, a)' \/ Coming(c, a)'
               PROVE  Before(c, a, handler'[k].m)
    BY DEF PendingLast, Before
  <2>1. Pending(k, c) /\ handler'[k].m = handler[k].m
    BY OthersPend
  <2>2. CASE Arrived(c, a) \/ Coming(c, a)
    BY <2>1, <2>2 DEF OInv, PendingLast
  <2>3. CASE c = d /\ a = m /\ k = l
    BY <2>1, <2>3 DEF Before
  <2>4. CASE c = d /\ a = m /\ k # l
    <3>1. k # l /\ handler[k].at \in Chatting
      BY <2>1, <2>4 DEF Pending, Chatting, Holding
    <3>2. LoopOf[handler[k].m[1]] = k
      BY <3>1, ChattersMessage
    <3> QED
      BY <1>0, <2>1, <2>4, <3>1, <3>2 DEF Before
  <2> QED
    BY <2>2, <2>3, <2>4
<1> QED
  BY <1>1, <1>2, <1>3, <1>4 DEF OInv

LEMMA SendOrdered ==
  ASSUME SInv, TInv, OInv, NEW l \in Loops, NEW u \in Users, BroadcastSend(l, u)
  PROVE  OInv'
<1>a. PICK d : d = sessions[u]
  OBVIOUS
<1>0. /\ handler \in [Loops -> Handlers] /\ handler[l] \in Handlers
      /\ sessions \in [Users -> Conns \cup {NoConn}]
      /\ handler[l].at = "sending" /\ u \in handler[l].left
      /\ UNCHANGED <<sent, functors, sessions, renamed>> /\ d \in Conns \cup {NoConn}
  BY <1>a DEF TInv, Tables, BroadcastSend, At
<1>1. CASE d # NoConn /\ conn[d] = "up" /\ LoopOf[d] # l
  <2>1. handler' = [handler EXCEPT ![l].at = "queue", ![l].d = d, ![l].left = @ \ {u}] /\ inbox' = inbox
    BY <1>a, <1>1 DEF BroadcastSend
  <2>2. /\ handler'[l].at = "queue" /\ handler'[l].d = d /\ handler'[l].left = handler[l].left \ {u}
        /\ handler'[l].m = handler[l].m /\ \A k \in Loops \ {l} : handler'[k] = handler[k]
    BY <1>0, <2>1 DEF Handlers
  <2>3. \A c \in Conns : Pending(l, c)' => Pending(l, c)
    BY <1>a, <1>0, <2>2 DEF Pending, Holding
  <2>4. handler[l].at \in Chatting
    BY <1>0 DEF Chatting
  <2> QED
    BY <1>0, <2>1, <2>2, <2>3, <2>4, PassingOrdered
<1>2. CASE ~(d # NoConn /\ conn[d] = "up" /\ LoopOf[d] # l)
  <2>1. handler' = [handler EXCEPT ![l].left = @ \ {u}]
    BY <1>a, <1>2 DEF BroadcastSend
  <2>2. /\ handler'[l].at = "sending" /\ handler'[l].left = handler[l].left \ {u}
        /\ handler'[l].m = handler[l].m /\ \A k \in Loops \ {l} : handler'[k] = handler[k]
    BY <1>0, <2>1 DEF Handlers
  <2>3. \A c \in Conns : Pending(l, c)' => Pending(l, c)
    BY <1>a, <1>0, <2>2 DEF Pending, Holding
  <2>4. handler[l].at \in Chatting /\ handler[l].at \in Holding
    BY <1>0 DEF Chatting, Holding
  <2>5. CASE ~(d # NoConn /\ conn[d] = "up")
    <3>1. inbox' = inbox
      BY <1>a, <1>2, <2>5 DEF BroadcastSend
    <3> QED
      BY <1>0, <2>2, <2>3, <2>4, <3>1, PassingOrdered
  <2>6. CASE d # NoConn /\ conn[d] = "up"
    <3>1. d \in Conns /\ LoopOf[d] = l /\ Deliver(d, handler[l].m, TRUE)
      BY <1>a, <1>0, <1>2, <2>6 DEF BroadcastSend
    <3>2. Pending(l, d) /\ handler[l].m \in Messages
      BY <1>a, <1>0, <2>4, ChattersMessage DEF Pending, Holding
    <3>3. Pending(l, d)' => d \in renamed
      <4> SUFFICES ASSUME NEW w \in handler[l].left \ {u}, sessions[w] = d PROVE d \in renamed
        BY <1>a, <1>0, <2>2 DEF Pending, Holding
      <4>1. w \in Users
        BY <1>0 DEF Handlers
      <4> QED
        BY <1>a, <3>1, <4>1, OneName
    <3>4. /\ \A c \in Conns : \A k \in Messages :
               Arrived(c, k)' => Arrived(c, k) \/ (c = d /\ k = handler[l].m)
          /\ InboxOrder'
      <4>1. \A k \in Messages : Arrived(d, k) => Before(d, k, handler[l].m)
        BY <3>1, <3>2 DEF OInv, PendingLast
      <4> QED
        BY <1>0, <3>1, <3>2, <4>1, WrittenInOrder DEF OInv
    <3>5. QueueOrder' /\ \A c \in Conns : \A k \in Messages : Coming(c, k)' => Coming(c, k)
      BY <1>0 DEF OInv, QueueOrder, Coming, IsFor, Before
    <3> QED
      BY <1>0, <2>2, <2>3, <2>4, <3>1, <3>2, <3>3, <3>4, <3>5, OneSent
  <2> QED
    BY <2>5, <2>6
<1> QED
  BY <1>1, <1>2

LEMMA QueueingOrdered ==
  ASSUME SInv, TInv, AInv, OInv, NEW l \in Loops, BroadcastQueue(l)
  PROVE  OInv'
<1>a. handler[l].d \in Conns
  BY DEF TInv, Work, BroadcastQueue, At
<1>b. PICK d \in Conns : d = handler[l].d
  BY <1>a
<1> DEFINE f == [op |-> "broadcast", c |-> d, m |-> handler[l].m, by |-> l]
<1>0. /\ handler \in [Loops -> Handlers] /\ handler[l] \in Handlers /\ Work(l, handler[l])
      /\ handler[l].at = "queue" /\ UNCHANGED <<sent, inbox, sessions, renamed>>
      /\ handler' = [handler EXCEPT ![l].at = "sending", ![l].d = NoConn]
      /\ Enqueue(d, f)
  BY <1>b DEF TInv, BroadcastQueue, At
<1>1. handler[l].at \in Chatting /\ handler[l].at \in Holding
  BY <1>0 DEF Chatting, Holding
<1>2. /\ handler'[l].at = "sending" /\ handler'[l].left = handler[l].left
      /\ handler'[l].m = handler[l].m /\ \A k \in Loops \ {l} : handler'[k] = handler[k]
  BY <1>0 DEF Handlers
<1>3. \A c \in Conns : Pending(l, c)' => Pending(l, c)
  BY <1>0, <1>1, <1>2 DEF Pending, Holding
<1>4. Pending(l, d) /\ handler[l].m \in Messages
  BY <1>b, <1>0, <1>1, ChattersMessage DEF Pending
<1>5. PICK v \in Users \ handler[l].left : sessions[v] = d /\ LoopOf[d] # l
  BY <1>b, <1>0 DEF AInv, TargetOK
<1>6. Pending(l, d)' => d \in renamed
  <2> SUFFICES ASSUME NEW w \in handler[l].left, sessions[w] = d PROVE d \in renamed
    BY <1>0, <1>2 DEF Pending, Holding
  <2>1. w \in Users
    BY <1>0 DEF Handlers
  <2> QED
    BY <1>1, <1>5, <2>1, OneName
<1>7. f \in Functors /\ f.c = d /\ f.op = "broadcast" /\ f.m = handler[l].m
  BY <1>1, <1>4 DEF Functors
<1>8. \A k \in Messages : Coming(d, k) => Before(d, k, handler[l].m)
  BY <1>1, <1>4 DEF OInv, PendingLast
<1> HIDE DEF f
<1>9. /\ QueueOrder'
      /\ \A c \in Conns : \A k \in Messages :
           Coming(c, k)' => Coming(c, k) \/ (c = d /\ k = handler[l].m)
  BY <1>0, <1>1, <1>7, <1>8, QueuedInOrder DEF OInv
<1>10. InboxOrder' /\ \A c \in Conns : \A k \in Messages : Arrived(c, k)' => Arrived(c, k)
  BY <1>0 DEF OInv, InboxOrder, Arrived, Before
<1> QED
  BY <1>0, <1>1, <1>2, <1>3, <1>4, <1>5, <1>6, <1>9, <1>10, OneSent

(* Heartbeats and removals are queued too, and are no messages.            *)
LEMMA OtherQueued ==
  ASSUME TInv, OInv, NEW d \in Conns, NEW f \in Functors, Enqueue(d, f), f.c = d, f.op # "broadcast",
         UNCHANGED <<sent, inbox, sessions, renamed>>,
         \A k \in Loops : handler'[k] = handler[k] \/ handler'[k].at = "idle"
  PROVE  OInv'
<1>0. sent \in Nat
  BY DEF TInv, Tables
<1>1. QueueOrder' /\ \A c \in Conns : \A k \in Messages : Coming(c, k)' => Coming(c, k)
  BY QueuedInOrder DEF OInv
<1>2. InboxOrder' /\ \A c \in Conns : \A k \in Messages : Arrived(c, k)' => Arrived(c, k)
  BY DEF OInv, InboxOrder, Arrived, Before
<1>3. ASSUME NEW k \in Loops, NEW c \in Conns, Pending(k, c)'
      PROVE  Pending(k, c) /\ handler'[k].m = handler[k].m
  BY <1>3 DEF Pending, Holding
<1>4. \A k \in Loops : handler'[k].at \in Chatting => handler'[k].m[2] <= sent'
  BY DEF OInv, Numbered, Chatting
<1> QED
  BY <1>0, <1>1, <1>2, <1>3, <1>4, NothingSent

LEMMA HeartbeatOrdered ==
  ASSUME TInv, OInv, NEW l \in Loops, HeartbeatQueue(l)
  PROVE  OInv'
<1> DEFINE d == handler[l].d
           f == [op |-> "beat", c |-> d, m |-> NoMsg, by |-> l]
<1>1. d \in Conns
  BY DEF TInv, Work, HeartbeatQueue, At
<1>2. f \in Functors /\ f.c = d /\ f.op = "beat" /\ Enqueue(d, f)
  BY <1>1 DEF Functors, HeartbeatQueue
<1>3. UNCHANGED <<sent, inbox, sessions, renamed>> /\ \A k \in Loops : handler'[k] = handler[k] \/ handler'[k].at = "idle"
  BY DEF HeartbeatQueue, Return, Idle, TInv
<1> HIDE DEF d, f
<1> QED
  BY <1>1, <1>2, <1>3, OtherQueued

LEMMA RemovalOrdered ==
  ASSUME TInv, OInv, NEW c \in Conns, RemoveConnection(c)
  PROVE  OInv'
<1> DEFINE f == [op |-> "destroyed", c |-> c, m |-> NoMsg, by |-> NoLoop]
<1>1. f \in Functors /\ f.c = c /\ f.op = "destroyed" /\ Enqueue(c, f)
  BY DEF Functors, RemoveConnection
<1>2. UNCHANGED <<sent, inbox, sessions, handler, renamed>>
  BY DEF RemoveConnection
<1> HIDE DEF f
<1> QED
  BY <1>1, <1>2, OtherQueued

(* The queue of a loop is run from its front.                              *)
LEMMA TakenInOrder ==
  ASSUME TInv, OInv, NEW l \in Loops, Taken(l), renamed' = renamed
  PROVE  /\ QueueOrder'
         /\ \A c \in Conns : \A k \in Messages : Coming(c, k)' =>
              /\ Coming(c, k)
              /\ LoopOf[c] = l /\ IsFor(Head(functors[l]), c) => Before(c, Head(functors[l]).m, k)
<1> DEFINE f == Head(functors[l])
<1>1. /\ Len(functors[l]) \in Nat /\ 1 \in 1..Len(functors[l]) /\ f = functors[l][1]
      /\ Len(functors'[l]) = Len(functors[l]) - 1
      /\ \A i \in 1..Len(functors'[l]) : i + 1 \in 1..Len(functors[l]) /\ functors'[l][i] = functors[l][i + 1]
      /\ \A k \in Loops \ {l} : functors'[k] = functors[k]
  BY TakenFirst DEF TInv
<1> HIDE DEF f
<1>2. QueueOrder'
  <2> SUFFICES ASSUME NEW c \in Conns, NEW i \in 1..Len(functors'[LoopOf[c]]),
                      NEW j \in 1..Len(functors'[LoopOf[c]]), i < j,
                      IsFor(functors'[LoopOf[c]][i], c), IsFor(functors'[LoopOf[c]][j], c)
               PROVE  Before(c, functors'[LoopOf[c]][i].m, functors'[LoopOf[c]][j].m)
    BY DEF QueueOrder, Before, IsFor
  <2>1. CASE LoopOf[c] # l
    <3>1. functors'[LoopOf[c]] = functors[LoopOf[c]]
      BY <1>1, <2>1
    <3> QED
      BY <3>1 DEF OInv, QueueOrder
  <2>2. CASE LoopOf[c] = l
    <3>1. /\ i + 1 \in 1..Len(functors[l]) /\ functors'[l][i] = functors[l][i + 1]
          /\ j + 1 \in 1..Len(functors[l]) /\ functors'[l][j] = functors[l][j + 1]
      BY <1>1, <2>2
    <3>2. i + 1 < j + 1
      BY <1>1
    <3>3. PICK a, b \in 1..Len(functors[l]) : a = i + 1 /\ b = j + 1 /\ a < b
      BY <3>1, <3>2
    <3>4. IsFor(functors[LoopOf[c]][a], c) /\ IsFor(functors[LoopOf[c]][b], c)
      BY <2>2, <3>1, <3>3
    <3>5. Before(c, functors[LoopOf[c]][a].m, functors[LoopOf[c]][b].m)
      BY <2>2, <3>3, <3>4 DEF OInv, QueueOrder
    <3> QED
      BY <2>2, <3>1, <3>3, <3>5
  <2> QED
    BY <2>1, <2>2
<1>3. ASSUME NEW c \in Conns, NEW k \in Messages, Coming(c, k)'
      PROVE  Coming(c, k) /\ (LoopOf[c] = l /\ IsFor(f, c) => Before(c, f.m, k))
  <2>1. CASE LoopOf[c] # l
    <3>1. functors'[LoopOf[c]] = functors[LoopOf[c]]
      BY <1>1, <2>1
    <3> QED
      BY <1>3, <2>1, <3>1 DEF Coming
  <2>2. CASE LoopOf[c] = l
    <3>1. PICK i \in 1..Len(functors'[l]) : IsFor(functors'[l][i], c) /\ functors'[l][i].m = k
      BY <1>3, <2>2 DEF Coming
    <3>2. i + 1 \in 1..Len(functors[l]) /\ functors'[l][i] = functors[l][i + 1] /\ 1 < i + 1
      BY <1>1
    <3>3. Coming(c, k)
      BY <2>2, <3>1, <3>2 DEF Coming
    <3>4. IsFor(f, c) => Before(c, f.m, k)
      BY <1>1, <2>2, <3>1, <3>2 DEF OInv, QueueOrder
    <3> QED
      BY <3>3, <3>4
  <2> QED
    BY <2>1, <2>2
<1> QED
  BY <1>2, <1>3 DEF f

LEMMA FunctorOrdered ==
  ASSUME TInv, AInv, OInv, NEW l \in Loops, RunFunctor(l)
  PROVE  OInv'
<1> DEFINE f == Head(functors[l])
<1>0. /\ UNCHANGED <<sent, sessions, handler, renamed>> /\ sent \in Nat
      /\ Taken(l)
  BY DEF RunFunctor, TInv, Tables, Taken
<1>a. RunSend(l, f) \/ ConnectDestroyed(f)
  BY DEF RunFunctor
<1>b. inbox' = inbox \/ (f.op = "broadcast" /\ \E b \in Contents(f) : Deliver(f.c, f.m, b))
  BY <1>a DEF RunSend, ConnectDestroyed
<1>c. Contents(f) \subseteq BOOLEAN
  BY DEF Contents
<1>1. /\ QueueOrder'
      /\ \A c \in Conns : \A k \in Messages : Coming(c, k)' =>
           Coming(c, k) /\ (LoopOf[c] = l /\ IsFor(f, c) => Before(c, f.m, k))
  BY <1>0, TakenInOrder
<1>2. f \in Functors /\ f = functors[l][1] /\ 1 \in 1..Len(functors[l])
  BY <1>0, TakenFirst DEF TInv
<1> HIDE DEF f
<1>3. \A k \in Loops : \A c \in Conns : Pending(k, c)' => Pending(k, c)
  BY <1>0 DEF Pending
<1>4. CASE inbox' = inbox
  <2>1. InboxOrder' /\ \A c \in Conns : \A k \in Messages : Arrived(c, k)' => Arrived(c, k)
    BY <1>0, <1>4 DEF OInv, InboxOrder, Arrived, Before
  <2>2. \A k \in Loops : handler'[k].at \in Chatting => handler'[k].m[2] <= sent'
    BY <1>0 DEF OInv, Numbered
  <2> QED
    BY <1>0, <1>1, <1>3, <2>1, <2>2, NothingSent
<1>5. ASSUME f.op = "broadcast", NEW b \in BOOLEAN, Deliver(f.c, f.m, b) PROVE OInv'
  <2>1. f.c \in Conns /\ f.m \in Messages /\ LoopOf[f.c] = l
    <3>1. f.c \in Conns /\ f.m \in Messages
      BY <1>2, <1>5 DEF Functors
    <3> QED
      BY <1>2, <3>1 DEF AInv, Placed
  <2>2. Coming(f.c, f.m)
    BY <1>2, <1>5, <2>1 DEF Coming, IsFor
  <2>3. \A k \in Messages : Arrived(f.c, k) => Before(f.c, k, f.m)
    BY <2>1, <2>2 DEF OInv, ArrivedFirst
  <2>4. /\ \A c \in Conns : \A k \in Messages : Arrived(c, k)' => Arrived(c, k) \/ (c = f.c /\ k = f.m)
        /\ InboxOrder'
    BY <1>0, <1>5, <2>1, <2>3, WrittenInOrder DEF OInv
  <2>5. ArrivedFirst'
    <3> SUFFICES ASSUME NEW c \in Conns, NEW a \in Messages, NEW k \in Messages, Arrived(c, a)', Coming(c, k)'
                 PROVE  Before(c, a, k)
      BY <1>0 DEF ArrivedFirst, Before
    <3>1. CASE Arrived(c, a)
      BY <1>1, <3>1 DEF OInv, ArrivedFirst
    <3>2. CASE c = f.c /\ a = f.m
      BY <1>1, <1>5, <2>1, <3>2 DEF IsFor
    <3> QED
      BY <2>4, <3>1, <3>2
  <2>6. \A c \in Conns : \A k \in Messages :
          Arrived(c, k)' \/ Coming(c, k)' => Arrived(c, k) \/ Coming(c, k)
    BY <1>1, <2>2, <2>4
  <2>7. PendingLast'
    <3> SUFFICES ASSUME NEW k \in Loops, NEW c \in Conns, NEW a \in Messages, Pending(k, c)',
                        Arrived(c, a)' \/ Coming(c, a)'
                 PROVE  Before(c, a, handler'[k].m)
      BY <1>0 DEF PendingLast, Before
    <3> QED
      BY <1>0, <1>3, <2>6 DEF OInv, PendingLast
  <2>8. Foreign' /\ Numbered'
    BY <1>0, <1>1, <2>6 DEF OInv, Foreign, Numbered
  <2> QED
    BY <1>1, <2>4, <2>5, <2>7, <2>8 DEF OInv
<1> QED
  BY <1>b, <1>c, <1>4, <1>5

LEMMA StepOInv == ASSUME SInv, TInv, AInv, OInv, [Next]_vars PROVE OInv'
<1>1. ASSUME NEW l \in Loops, HandlerStep(l) PROVE OInv'
  <2>1. CASE Calm(l)
    BY <2>1, CalmOrdered
  <2>2. CASE \/ SaveMessage(l) /\ Goto(l, "broadcast")
             \/ BroadcastLock(l) \/ BroadcastDone(l) \/ DownEnd(l)
    BY <2>2, OpeningOrdered
  <2>3. CASE \E u \in Users : BroadcastSend(l, u)
    BY <2>3, SendOrdered
  <2>4. CASE BroadcastQueue(l)
    BY <2>4, QueueingOrdered
  <2>5. CASE HeartbeatQueue(l)
    BY <2>5, HeartbeatOrdered
  <2> QED
    BY <1>1, <2>1, <2>2, <2>3, <2>4, <2>5, HandlerKinds, Zenon
<1>2. CASE UNCHANGED vars
  <2>1. UNCHANGED <<inbox, functors, handler, sessions, sent, renamed>>
    BY <1>2 DEF vars
  <2> QED
    BY <2>1 DEF OInv, InboxOrder, QueueOrder, ArrivedFirst, PendingLast, Foreign, Numbered,
       Arrived, Coming, Pending, Before
<1> QED
  BY <1>1, <1>2, ClientOrdered, RemovalOrdered, FunctorOrdered DEF Next

(* The messages one client sends reach every other client in the order     *)
(* sent, for any number of connections, loops, users and messages, and     *)
(* once each unless the receiver asked for a second name while in session  *)
(* (SessionManager.cpp:58-65, TcpConnection.cpp:214-221).                  *)
THEOREM SendersStayInOrder == Spec => []SenderOrder
<1>1. SInv /\ TInv /\ AInv /\ OInv /\ [Next]_vars => (SInv /\ TInv /\ AInv /\ OInv)'
  BY StepSInv, StepTInv, StepAInv, StepOInv
<1>2. OInv => SenderOrder
  BY DEF OInv, InboxOrder, Before, SenderOrder
<1> QED
  BY <1>1, <1>2, InitSInv, InitTInv, InitAInv, InitOInv, PTL DEF Spec

-----------------------------------------------------------------------------
(* A client that joins while a message is sent does not miss it.           *)

(* The handler of loop l is going to send message m to c.                  *)
Sending(l, m, c) ==
  LET h == handler[l] IN
  /\ h.m = m
  /\ \/ h.at = "broadcast"
     \/ h.at = "queue" /\ h.d = c
     \/ h.at \in Holding /\ \E u \in h.left : sessions[u] = c

LEMMA Ways ==
  ASSUME NEW m, NEW c
  PROVE  OnItsWay(m, c) <=> (\E l \in Loops : Sending(l, m, c)) \/ Coming(c, m)
  BY DEF OnItsWay, Sending, Coming, IsFor, Holding

(* A client that is not logged in has no history on its page.              *)
Blank == \A c \in Conns : granted[c] = NoUser => NoMsg \in seen[c]

GInv == Blank /\ NoGap

LEMMA InitGInv == Init => GInv
  BY DEF Init, GInv, Blank, NoGap

(* A LOGIN that has not fetched its history yet is in one of these steps.  *)
Fetching == {"online_users", "login_history"}

(* Nobody joins by a step that leaves logins, sessions and connections as  *)
(* they are and does not end a LOGIN.                                      *)
LEMMA NobodyJoins ==
  ASSUME NEW l \in Loops, UNCHANGED <<conn, sessions, granted>>,
         handler' = handler \/ handler[l].at \notin Fetching,
         \A k \in Loops \ {l} : handler'[k] = handler[k]
  PROVE  \A c \in Conns : Joined(c)' => Joined(c)
<1> SUFFICES ASSUME NEW c \in Conns, Joining(c) PROVE Joining(c)'
  BY DEF Joined
<1>1. LoopOf[c] \in Loops
  OBVIOUS
<1>2. handler'[LoopOf[c]] = handler[LoopOf[c]]
  BY <1>1 DEF Joining, Fetching
<1> QED
  BY <1>2 DEF Joining

(* A row of the table is a message with its second.                        *)
LEMMA RowParts == ASSUME Tables PROVE \A x \in saved : x \in Rows /\ x.m \in Messages
  BY DEF Tables, Rows

(* A step that replaces no page.                                           *)
LEMMA MessageStep ==
  ASSUME TInv, GInv, UNCHANGED <<granted, listed>>, \A c \in Conns : Joined(c)' => Joined(c),
         \A c \in Conns : seen[c] \subseteq seen'[c] /\ (NoMsg \in seen'[c] => NoMsg \in seen[c]),
         \A x \in saved' : x \in saved \/ \A c \in Conns : OnItsWay(x.m, c)',
         \A c \in Conns : \A m \in Messages :
           Joined(c) /\ OnItsWay(m, c) => m \in seen'[c] \/ OnItsWay(m, c)'
  PROVE  GInv'
<1>1. Blank'
  BY DEF GInv, Blank
<1>2. NoGap'
  <2> SUFFICES ASSUME NEW c \in Conns, Joined(c)', NoMsg \notin seen'[c], NEW x \in saved'
               PROVE  x.m \in seen'[c] \/ OnItsWay(x.m, c)' \/ CutOff(x, c)'
    BY DEF NoGap
  <2>1. Joined(c) /\ NoMsg \notin seen[c]
    OBVIOUS
  <2>2. CASE x \in saved
    <3>1. x.m \in Messages /\ (x.m \in seen[c] \/ OnItsWay(x.m, c) \/ CutOff(x, c))
      BY <2>1, <2>2, RowParts DEF GInv, NoGap, TInv
    <3>2. CutOff(x, c) => CutOff(x, c)'
      BY DEF CutOff
    <3> QED
      BY <2>1, <3>1, <3>2
  <2> QED
    BY <2>2
<1> QED
  BY <1>1, <1>2 DEF GInv

(* The page of c is as it was, or it has just become a history.            *)
PageKept(c) == Joined(c) /\ seen'[c] = seen[c] /\ listed'[c] = listed[c]

PageFetched(c) ==
  \E rows \in RecentMessages : seen'[c] = {x.m : x \in rows} /\ listed'[c] = rows

(* A history leaves out a message only if it is full of ones as recent.    *)
LEMMA HistoryCut ==
  ASSUME NEW rows \in RecentMessages, NEW x \in saved, x \notin rows
  PROVE  Cardinality(rows) = HistoryLimit /\ \A y \in rows : x.t <= y.t
  BY DEF RecentMessages

(* A step that saves and sends nothing: a page is replaced by the history, *)
(* emptied, or left alone.                                                 *)
LEMMA PageStep ==
  ASSUME TInv, GInv, saved' = saved, Blank',
         \A c \in Conns : Joined(c)' /\ NoMsg \notin seen'[c] => PageFetched(c) \/ PageKept(c),
         \A c \in Conns : \A m \in Messages : OnItsWay(m, c) => OnItsWay(m, c)'
  PROVE  GInv'
<1>1. NoGap'
  <2> SUFFICES ASSUME NEW c \in Conns, Joined(c)', NoMsg \notin seen'[c], NEW x \in saved'
               PROVE  x.m \in seen'[c] \/ OnItsWay(x.m, c)' \/ CutOff(x, c)'
    BY DEF NoGap
  <2>1. CASE PageKept(c)
    <3>1. x.m \in Messages /\ (x.m \in seen[c] \/ OnItsWay(x.m, c) \/ CutOff(x, c))
      BY <2>1, RowParts DEF PageKept, GInv, NoGap, TInv
    <3>2. CutOff(x, c) => CutOff(x, c)'
      BY <2>1 DEF CutOff, PageKept
    <3> QED
      BY <2>1, <3>1, <3>2 DEF PageKept
  <2>2. CASE PageFetched(c)
    <3>1. PICK rows \in RecentMessages : seen'[c] = {y.m : y \in rows} /\ listed'[c] = rows
      BY <2>2 DEF PageFetched
    <3>2. CASE x \in rows
      BY <3>1, <3>2
    <3>3. CASE x \notin rows
      <4>1. CutOff(x, c)'
        BY <3>1, <3>3, HistoryCut DEF CutOff
      <4> QED
        BY <4>1
    <3> QED
      BY <3>2, <3>3
  <2> QED
    BY <2>1, <2>2
<1> QED
  BY <1>1 DEF GInv

(* What is on its way stays so while the loop that moves is not sending.   *)
LEMMA WaysKept ==
  ASSUME TInv, NEW l \in Loops, functors' = functors, handler[l].at \notin Casting,
         \A k \in Loops \ {l} : handler'[k] = handler[k],
         sessions' = sessions \/ mutex = NoLoop,
         NEW c \in Conns, NEW m \in Messages, OnItsWay(m, c)
  PROVE  OnItsWay(m, c)'
<1>1. CASE Coming(c, m)
  <2>1. Coming(c, m)'
    BY <1>1 DEF Coming
  <2> QED
    BY <2>1 DEF OnItsWay, Coming, IsFor
<1>2. ASSUME NEW k \in Loops, Sending(k, m, c) PROVE OnItsWay(m, c)'
  <2>1. k # l
    BY <1>2 DEF Sending, Casting, Holding
  <2>2. sessions' = sessions \/ handler[k].at \notin Holding
    BY DEF TInv, HoldsMutex
  <2>3. Sending(k, m, c)'
    BY <1>2, <2>1, <2>2 DEF Sending, Holding
  <2> QED
    BY <2>3 DEF OnItsWay, Sending, Holding
<1> QED
  BY <1>1, <1>2, Ways

(* Only the client of a handler gets another page, or joins, by its step.  *)
LEMMA OthersPages ==
  ASSUME TInv, NEW l \in Loops, NEW c \in Conns, handler[l].c # c,
         \A k \in Loops \ {l} : handler'[k] = handler[k],
         granted'[c] = granted[c], conn'[c] = conn[c],
         seen'[c] = seen[c], listed'[c] = listed[c],
         sessions'[granted[c]] = c => sessions[granted[c]] = c, Joined(c)'
  PROVE  PageKept(c)
<1>1. LoopOf[c] \in Loops
  OBVIOUS
<1>2. Joining(c) => Joining(c)'
  BY <1>1 DEF Joining
<1> QED
  BY <1>2 DEF PageKept, Joined

(* Who is logged in after a step of a handler that is not broadcasting.    *)
LEMMA CalmPages ==
  ASSUME SInv, TInv, GInv, NEW l \in Loops, Calm(l),
         \/ VerifyUser(l) \/ LoginIsOnline(l) \/ AddSession(l) \/ LoginReply(l) \/ GetHistory(l)
         \/ LogoutRemove(l) \/ LogoutReply(l) \/ ChatIsOnline(l) \/ (SaveMessage(l) /\ Return(l))
         \/ GetConnection(l) \/ OnDisconnect(l) \/ OnDisconnectRemove(l)
  PROVE  /\ Blank' /\ saved' = saved
         /\ \A c \in Conns : Joined(c)' /\ NoMsg \notin seen'[c] => PageFetched(c) \/ PageKept(c)
<1> DEFINE h == handler[l]
<1>0. /\ Tables /\ HandlerOK(l) /\ Blank /\ handler \in [Loops -> Handlers] /\ h \in Handlers
      /\ \A k \in Loops \ {l} : handler'[k] = handler[k]
  BY DEF SInv, TInv, GInv, Calm
<1>a. ASSUME UNCHANGED <<conn, sessions, granted, seen, listed, saved>>, h.at \notin Fetching
      PROVE  /\ Blank' /\ saved' = saved
             /\ \A c \in Conns : Joined(c)' => PageKept(c)
  <2>1. \A c \in Conns : Joined(c)' => Joined(c)
    BY <1>0, <1>a, NobodyJoins
  <2> QED
    BY <1>0, <1>a, <2>1 DEF Blank, PageKept
<1>1. CASE VerifyUser(l) \/ LoginIsOnline(l) \/ ChatIsOnline(l) \/ GetConnection(l) \/ OnDisconnect(l)
  <2>1. UNCHANGED <<conn, sessions, granted, seen, listed, saved>> /\ h.at \notin Fetching
    BY <1>1 DEF VerifyUser, LoginIsOnline, ChatIsOnline, GetConnection, OnDisconnect, store, page, At, Fetching
  <2> QED
    BY <1>a, <2>1
<1>2. CASE SaveMessage(l) /\ Return(l)
  <2>1. UNCHANGED <<conn, sessions, granted, seen, listed>> /\ saved' = saved /\ h.at \notin Fetching
    <3>1. ~Goto(l, "broadcast")
      BY <1>2 DEF Goto, Return, Idle, TInv, Handlers
    <3> QED
      BY <1>2, <3>1 DEF SaveMessage, page, At, Fetching
  <2> QED
    BY <1>a, <2>1
<1>3. CASE AddSession(l)
  <2>1. /\ h.at = "add" /\ UNCHANGED <<conn, granted, seen, listed, saved>>
        /\ sessions' = [sessions EXCEPT ![h.u] = h.c] /\ Goto(l, "online_users")
    BY <1>3 DEF AddSession, At, store, page
  <2>2. h.u \in Users /\ h.c \in Conns /\ LoopOf[h.c] = l
    BY <1>0, <2>1 DEF HandlerOK, NamedSteps
  <2>3. handler'[l].at = "online_users" /\ handler'[l].c = h.c
    BY <1>0, <2>1 DEF Goto, Handlers
  <2>4. \A c \in Conns : Joined(c)' => c # h.c
    BY <2>2, <2>3 DEF Joined, Joining
  <2>5. ASSUME NEW c \in Conns, c # h.c, Joined(c)' PROVE PageKept(c)
    <3>1. sessions'[granted[c]] = c => sessions[granted[c]] = c
      BY <1>0, <2>1, <2>2, <2>5 DEF Tables
    <3> QED
      BY <1>0, <2>1, <2>5, <3>1, OthersPages
  <2> QED
    BY <1>0, <2>1, <2>4, <2>5 DEF Blank
<1>4. CASE LogoutRemove(l) \/ OnDisconnectRemove(l)
  <2>1. UNCHANGED <<conn, granted, seen, listed, saved>> /\ RemoveSession(h.u) /\ h.at \notin Fetching
    BY <1>4 DEF LogoutRemove, OnDisconnectRemove, store, page, At, Fetching
  <2>2. \A c \in Conns : Joined(c)' => sessions[granted[c]] = c
    BY <1>0, <2>1 DEF Joined, Tables, RemoveSession
  <2>3. ASSUME NEW c \in Conns, Joined(c)' PROVE PageKept(c)
    <3>1. LoopOf[c] \in Loops
      OBVIOUS
    <3>2. Joining(c) => Joining(c)'
      BY <1>0, <2>1, <3>1 DEF Joining, Fetching
    <3> QED
      BY <2>1, <2>2, <2>3, <3>2 DEF Joined, PageKept
  <2> QED
    BY <1>0, <2>1, <2>3 DEF Blank
<1>5. CASE LoginReply(l)
  <2>1. /\ h.at = "online_users" /\ UNCHANGED <<conn, sessions, seen, listed, saved>>
        /\ granted' \in {granted, [granted EXCEPT ![h.c] = h.u]} /\ Goto(l, "login_history")
    BY <1>5 DEF LoginReply, At, store, page
  <2>2. h.u \in Users /\ h.c \in Conns /\ LoopOf[h.c] = l
    BY <1>0, <2>1 DEF HandlerOK, NamedSteps
  <2>3. handler'[l].at = "login_history" /\ handler'[l].c = h.c
    BY <1>0, <2>1 DEF Goto, Handlers
  <2>4. \A c \in Conns : Joined(c)' => c # h.c
    BY <2>2, <2>3 DEF Joined, Joining
  <2>5. \A c \in Conns : c # h.c => granted'[c] = granted[c]
    BY <1>0, <2>1 DEF Tables
  <2>6. granted'[h.c] = NoUser => granted[h.c] = NoUser
    BY <1>0, <2>1, <2>2, NoneAssumption DEF Tables
  <2>7. \A c \in Conns : c # h.c /\ Joined(c)' => PageKept(c)
    BY <1>0, <2>1, <2>5, OthersPages
  <2> QED
    BY <1>0, <2>1, <2>4, <2>5, <2>6, <2>7 DEF Blank
<1>6. CASE LogoutReply(l)
  <2>1. /\ h.at = "logout_reply" /\ UNCHANGED <<sessions, saved>>
        /\ conn' = [conn EXCEPT ![h.c] = "closing"]
        /\ granted' = [granted EXCEPT ![h.c] = NoUser]
        /\ seen' = [seen EXCEPT ![h.c] = {NoMsg}] /\ listed' = [listed EXCEPT ![h.c] = {}]
    BY <1>6 DEF LogoutReply, At, Blanks, Shows
  <2>2. h.c \in Conns
    BY <1>0, <2>1 DEF HandlerOK
  <2>3. /\ NoMsg \in seen'[h.c]
        /\ \A c \in Conns : c # h.c => /\ granted'[c] = granted[c] /\ conn'[c] = conn[c]
                                       /\ seen'[c] = seen[c] /\ listed'[c] = listed[c]
    BY <1>0, <2>1, <2>2 DEF Tables
  <2>4. \A c \in Conns : c # h.c /\ Joined(c)' => PageKept(c)
    BY <1>0, <2>1, <2>3, OthersPages
  <2> QED
    BY <1>0, <2>1, <2>3, <2>4 DEF Blank
<1>7. CASE GetHistory(l)
  <2>1. /\ h.at \in {"history", "login_history"} /\ UNCHANGED <<conn, sessions, granted, saved>>
        /\ \/ seen' = seen /\ listed' = listed /\ (conn[h.c] # "up" \/ granted[h.c] = NoUser)
           \/ /\ granted[h.c] # NoUser
              /\ \/ \E rows \in RecentMessages : Shows(h.c, {x.m : x \in rows}, rows)
                 \/ Shows(h.c, {NoMsg}, {})
    BY <1>7 DEF GetHistory, At, Blanks, page
  <2>2. h.c \in Conns
    BY <1>0, <2>1 DEF HandlerOK
  <2>3. ASSUME NEW c \in Conns, c # h.c, seen'[c] = seen[c], listed'[c] = listed[c], Joined(c)'
        PROVE  PageKept(c)
    BY <1>0, <2>1, <2>3, OthersPages
  <2>4. CASE seen' = seen /\ listed' = listed /\ (conn[h.c] # "up" \/ granted[h.c] = NoUser)
    <3>1. \A c \in Conns : Joined(c)' => c # h.c
      BY <2>1, <2>4 DEF Joined
    <3> QED
      BY <1>0, <2>1, <2>3, <2>4, <3>1 DEF Blank
  <2>5. ASSUME granted[h.c] # NoUser, NEW msgs, NEW rows, Shows(h.c, msgs, rows),
               NoMsg \in msgs \/ (rows \in RecentMessages /\ msgs = {x.m : x \in rows})
        PROVE  /\ Blank'
               /\ \A c \in Conns : Joined(c)' /\ NoMsg \notin seen'[c] => PageFetched(c) \/ PageKept(c)
    <3>1. /\ seen'[h.c] = msgs /\ listed'[h.c] = rows
          /\ \A c \in Conns : c # h.c => seen'[c] = seen[c] /\ listed'[c] = listed[c]
      BY <1>0, <2>2, <2>5 DEF Shows, Tables
    <3>2. Blank'
      BY <1>0, <2>1, <2>5, <3>1 DEF Blank
    <3>3. NoMsg \notin seen'[h.c] => PageFetched(h.c)
      BY <2>5, <3>1 DEF PageFetched
    <3> QED
      BY <2>3, <3>1, <3>2, <3>3
  <2>6. CASE granted[h.c] # NoUser /\ \E rows \in RecentMessages : Shows(h.c, {x.m : x \in rows}, rows)
    <3>1. PICK rows \in RecentMessages : Shows(h.c, {x.m : x \in rows}, rows)
      BY <2>6
    <3>2. PICK msgs : msgs = {x.m : x \in rows}
      OBVIOUS
    <3>3. Shows(h.c, msgs, rows)
      BY <3>1, <3>2
    <3> QED
      BY <2>1, <2>5, <2>6, <3>2, <3>3
  <2>7. CASE granted[h.c] # NoUser /\ Shows(h.c, {NoMsg}, {})
    BY <2>1, <2>5, <2>7
  <2> QED
    BY <2>1, <2>4, <2>6, <2>7
<1> QED
  BY <1>1, <1>2, <1>3, <1>4, <1>5, <1>6, <1>7

LEMMA CalmGapless ==
  ASSUME SInv, TInv, GInv, NEW l \in Loops,
         \/ VerifyUser(l) \/ LoginIsOnline(l) \/ AddSession(l) \/ LoginReply(l) \/ GetHistory(l)
         \/ LogoutRemove(l) \/ LogoutReply(l) \/ ChatIsOnline(l) \/ (SaveMessage(l) /\ Return(l))
         \/ GetConnection(l) \/ OnDisconnect(l) \/ OnDisconnectRemove(l)
  PROVE  GInv'
<1>1. Calm(l)
  BY CalmSteps
<1>2. \A c \in Conns : \A m \in Messages : OnItsWay(m, c) => OnItsWay(m, c)'
  BY <1>1, WaysKept DEF Calm
<1> QED
  BY <1>1, <1>2, CalmPages, PageStep

LEMMA ClientGapless ==
  ASSUME SInv, TInv, GInv, NEW c \in Conns, ClientStep(c)
  PROVE  GInv'
<1>0. Tables /\ Blank /\ GrantOK(c)
  BY DEF SInv, TInv, GInv
<1>1. UNCHANGED <<functors, sessions, saved>>
  BY DEF ClientStep, OnConnectionUp, CloseFrame, OnConnectionDown, StartLogin, StartLogout, StartChat,
     StartHeartbeat, StartGetHistory, Request, store, page
<1>3. Started(c)
  BY ClientHandler
<1>4. /\ LoopOf[c] \in Loops /\ handler[LoopOf[c]].at \notin Casting \cup Fetching
      /\ \A k \in Loops \ {LoopOf[c]} : handler'[k] = handler[k]
  BY <1>3 DEF Started, Casting, Fetching
<1>2. /\ Blank'
      /\ \A e \in Conns : Joined(e)' /\ NoMsg \notin seen'[e] => PageKept(e)
  <2>0. ASSUME NEW e \in Conns, seen'[e] = seen[e], listed'[e] = listed[e], conn'[e] = conn[e],
               granted'[e] = granted[e], Joined(e)'
        PROVE  PageKept(e)
    <3>1. LoopOf[e] \in Loops
      OBVIOUS
    <3>2. Joining(e) => Joining(e)'
      BY <1>4, <3>1 DEF Joining, Fetching
    <3> QED
      BY <1>1, <2>0, <3>2 DEF Joined, PageKept
  <2>1. CASE UNCHANGED <<conn, granted, seen, listed>>
    BY <1>0, <2>0, <2>1 DEF Blank
  <2>2. CASE OnConnectionUp(c)
    <3>1. conn[c] = "connecting" /\ UNCHANGED <<granted, seen, listed>> /\ conn' = [conn EXCEPT ![c] = "up"]
      BY <2>2 DEF OnConnectionUp, store, page
    <3>2. granted[c] = NoUser /\ \A e \in Conns : e # c => conn'[e] = conn[e]
      BY <1>0, <3>1 DEF GrantOK, Tables
    <3>3. ~Joined(c)'
      BY <3>1, <3>2 DEF Joined
    <3> QED
      BY <1>0, <2>0, <3>1, <3>2, <3>3 DEF Blank
  <2>3. CASE CloseFrame(c)
    <3>1. UNCHANGED <<granted, seen, listed>> /\ conn' = [conn EXCEPT ![c] = "barred"]
      BY <2>3 DEF CloseFrame, store, page
    <3>2. conn'[c] # "up" /\ \A e \in Conns : e # c => conn'[e] = conn[e]
      BY <1>0, <3>1 DEF Tables
    <3>3. ~Joined(c)'
      BY <3>2 DEF Joined
    <3> QED
      BY <1>0, <2>0, <3>1, <3>2, <3>3 DEF Blank
  <2>4. CASE OnConnectionDown(c)
    <3>1. /\ conn' = [conn EXCEPT ![c] = "down"] /\ granted' = [granted EXCEPT ![c] = NoUser]
          /\ seen' = [seen EXCEPT ![c] = {NoMsg}] /\ listed' = [listed EXCEPT ![c] = {}]
      BY <2>4 DEF OnConnectionDown, Blanks, Shows
    <3>2. /\ NoMsg \in seen'[c]
          /\ \A e \in Conns : e # c => /\ granted'[e] = granted[e] /\ conn'[e] = conn[e]
                                       /\ seen'[e] = seen[e] /\ listed'[e] = listed[e]
      BY <1>0, <3>1 DEF Tables
    <3> QED
      BY <1>0, <2>0, <3>2 DEF Blank
  <2> QED
    BY <2>1, <2>2, <2>3, <2>4 DEF ClientStep, StartLogin, StartLogout, StartChat,
       StartHeartbeat, StartGetHistory, Request, store, page
<1>5. \A e \in Conns : \A m \in Messages : OnItsWay(m, e) => OnItsWay(m, e)'
  BY <1>1, <1>4, WaysKept
<1> QED
  BY <1>1, <1>2, <1>5, PageStep

LEMMA OnWay ==
  ASSUME NEW m, NEW c
  PROVE  /\ \A k \in Loops : Sending(k, m, c)' => OnItsWay(m, c)'
         /\ Coming(c, m)' => OnItsWay(m, c)'
  BY DEF OnItsWay, Sending, Coming, IsFor, Holding

(* A step of a handler that only concerns the message it carries.          *)
LEMMA CarrierStep ==
  ASSUME TInv, GInv, NEW l \in Loops, UNCHANGED <<conn, sessions, granted, saved, listed>>,
         handler' = handler \/ handler[l].at \notin Fetching,
         \A k \in Loops \ {l} : handler'[k] = handler[k],
         \A c \in Conns : seen[c] \subseteq seen'[c] /\ (NoMsg \in seen'[c] => NoMsg \in seen[c]),
         \A c \in Conns : \A m \in Messages : Coming(c, m) => Coming(c, m)',
         \A c \in Conns : \A m \in Messages : Joined(c) /\ Sending(l, m, c) =>
           m \in seen'[c] \/ Sending(l, m, c)' \/ Coming(c, m)'
  PROVE  GInv'
<1>1. ASSUME NEW c \in Conns, NEW m \in Messages, Joined(c), OnItsWay(m, c)
      PROVE  m \in seen'[c] \/ OnItsWay(m, c)'
  <2>1. CASE Coming(c, m)
    BY <2>1, OnWay
  <2>2. ASSUME NEW k \in Loops, Sending(k, m, c) PROVE m \in seen'[c] \/ OnItsWay(m, c)'
    <3>1. CASE k = l
      BY <1>1, <2>2, <3>1, OnWay
    <3>2. CASE k # l
      <4>1. Sending(k, m, c)'
        BY <2>2, <3>2 DEF Sending
      <4> QED
        BY <4>1, OnWay
    <3> QED
      BY <3>1, <3>2
  <2> QED
    BY <1>1, <2>1, <2>2, Ways
<1>2. \A c \in Conns : Joined(c)' => Joined(c)
  BY NobodyJoins
<1> QED
  BY <1>1, <1>2, MessageStep

(* What is queued stays queued when a functor is put behind it.            *)
LEMMA StillComing ==
  ASSUME TInv, NEW d \in Conns, NEW f \in Functors, Enqueue(d, f), NEW c \in Conns, NEW m \in Messages,
         Coming(c, m) \/ (c = d /\ IsFor(f, d) /\ f.m = m)
  PROVE  Coming(c, m)'
<1> DEFINE q == LoopOf[d]
           n == Len(functors[q])
<1>1. /\ q \in Loops /\ n \in Nat /\ Len(functors'[q]) = n + 1 /\ functors'[q][n + 1] = f
      /\ \A i \in 1..n : functors'[q][i] = functors[q][i]
      /\ \A k \in Loops \ {q} : functors'[k] = functors[k]
  BY QueuedLast DEF TInv
<1>2. n + 1 \in 1..n + 1 /\ \A i \in 1..n : i \in 1..n + 1
  BY <1>1
<1>3. CASE c = d /\ IsFor(f, d) /\ f.m = m
  BY <1>1, <1>2, <1>3 DEF Coming
<1>4. CASE Coming(c, m) /\ LoopOf[c] = q
  BY <1>1, <1>2, <1>4 DEF Coming
<1>5. CASE Coming(c, m) /\ LoopOf[c] # q
  <2>1. functors'[LoopOf[c]] = functors[LoopOf[c]]
    BY <1>1, <1>5
  <2> QED
    BY <1>5, <2>1 DEF Coming
<1> QED
  BY <1>3, <1>4, <1>5

(* The message is saved before it is broadcast.                            *)
LEMMA SaveGapless ==
  ASSUME TInv, GInv, NEW l \in Loops, SaveMessage(l), Goto(l, "broadcast")
  PROVE  GInv'
<1>0. /\ handler \in [Loops -> Handlers] /\ handler[l] \in Handlers
      /\ handler[l].at = "save" /\ UNCHANGED <<conn, sessions, granted, functors, seen, listed>>
      /\ saved' = saved \/ Insert(handler[l].m)
  BY DEF TInv, SaveMessage, At, page
<1>1. /\ handler'[l].at = "broadcast" /\ handler'[l].m = handler[l].m
      /\ \A k \in Loops \ {l} : handler'[k] = handler[k]
  BY <1>0 DEF Goto, Handlers
<1>2. ASSUME NEW m, m = handler[l].m, NEW c \in Conns PROVE OnItsWay(m, c)'
  <2>1. Sending(l, m, c)'
    BY <1>1, <1>2 DEF Sending
  <2> QED
    BY <2>1, OnWay
<1>3. \A c \in Conns : \A m \in Messages : OnItsWay(m, c) => OnItsWay(m, c)'
  BY <1>0, <1>1, WaysKept DEF Casting
<1>4. \A c \in Conns : Joined(c)' => Joined(c)
  BY <1>0, <1>1, NobodyJoins DEF Fetching
<1>5. \A x \in saved' : x \in saved \/ x.m = handler[l].m
  BY <1>0 DEF Insert
<1> QED
  BY <1>0, <1>2, <1>3, <1>4, <1>5, MessageStep

LEMMA LockGapless ==
  ASSUME TInv, GInv, NEW l \in Loops, BroadcastLock(l)
  PROVE  GInv'
<1>0. /\ handler \in [Loops -> Handlers] /\ handler[l] \in Handlers
      /\ granted \in [Conns -> Users \cup {NoUser}]
      /\ UNCHANGED <<conn, sessions, granted, functors, saved, seen, listed>>
      /\ handler[l].at \notin Fetching
      /\ handler' = [handler EXCEPT ![l].at = "sending", ![l].left = {u \in Users : Online(u)}]
  BY DEF TInv, Tables, BroadcastLock, store, page, At, Fetching
<1>1. /\ handler'[l].at = "sending" /\ handler'[l].m = handler[l].m
      /\ handler'[l].left = {u \in Users : Online(u)}
      /\ \A k \in Loops \ {l} : handler'[k] = handler[k]
  BY <1>0 DEF Handlers
<1>2. ASSUME NEW c \in Conns, NEW m \in Messages, Joined(c), Sending(l, m, c) PROVE Sending(l, m, c)'
  <2>1. granted[c] \in handler'[l].left /\ sessions'[granted[c]] = c
    BY <1>0, <1>1, <1>2 DEF Joined, Online
  <2> QED
    BY <1>1, <1>2, <2>1 DEF Sending, Holding
<1>3. \A c \in Conns : \A m \in Messages : Coming(c, m) => Coming(c, m)'
  BY <1>0 DEF Coming
<1> QED
  BY <1>0, <1>1, <1>2, <1>3, CarrierStep

LEMMA SendGapless ==
  ASSUME TInv, GInv, NEW l \in Loops, NEW u \in Users, BroadcastSend(l, u)
  PROVE  GInv'
<1>a. PICK d : d = sessions[u]
  OBVIOUS
<1>0. /\ handler \in [Loops -> Handlers] /\ handler[l] \in Handlers
      /\ sessions \in [Users -> Conns \cup {NoConn}] /\ d \in Conns \cup {NoConn}
      /\ handler[l].at = "sending" /\ u \in handler[l].left
      /\ handler[l].at \notin Fetching /\ UNCHANGED <<conn, sessions, granted, functors, saved, listed>>
  BY <1>a DEF TInv, Tables, BroadcastSend, At, Fetching
<1>1. \A c \in Conns : \A m \in Messages : Coming(c, m) => Coming(c, m)'
  BY <1>0 DEF Coming
<1>2. ASSUME NEW c \in Conns, NEW m \in Messages, Joined(c), Sending(l, m, c)
      PROVE  m = handler[l].m /\ \E w \in handler[l].left : sessions[w] = c /\ (w = u => c = d)
  BY <1>a, <1>0, <1>2 DEF Sending, Holding
<1>3. CASE d # NoConn /\ conn[d] = "up" /\ LoopOf[d] # l
  <2>1. handler' = [handler EXCEPT ![l].at = "queue", ![l].d = d, ![l].left = @ \ {u}] /\ seen' = seen
    BY <1>a, <1>3 DEF BroadcastSend
  <2>2. /\ handler'[l].at = "queue" /\ handler'[l].d = d /\ handler'[l].left = handler[l].left \ {u}
        /\ handler'[l].m = handler[l].m /\ \A k \in Loops \ {l} : handler'[k] = handler[k]
    BY <1>0, <2>1 DEF Handlers
  <2>3. ASSUME NEW c \in Conns, NEW m \in Messages, Joined(c), Sending(l, m, c) PROVE Sending(l, m, c)'
    <3>1. PICK w \in handler[l].left : m = handler[l].m /\ sessions[w] = c /\ (w = u => c = d)
      BY <1>2, <2>3
    <3>2. CASE w = u
      BY <2>2, <3>1, <3>2 DEF Sending
    <3>3. CASE w # u
      BY <1>0, <2>2, <3>1, <3>3 DEF Sending, Holding
    <3> QED
      BY <3>2, <3>3
  <2> QED
    BY <1>0, <1>1, <2>1, <2>2, <2>3, CarrierStep
<1>4. CASE ~(d # NoConn /\ conn[d] = "up" /\ LoopOf[d] # l)
  <2>1. handler' = [handler EXCEPT ![l].left = @ \ {u}]
    BY <1>a, <1>4 DEF BroadcastSend
  <2>2. /\ handler'[l].at = "sending" /\ handler'[l].left = handler[l].left \ {u}
        /\ handler'[l].m = handler[l].m /\ \A k \in Loops \ {l} : handler'[k] = handler[k]
    BY <1>0, <2>1 DEF Handlers
  <2>3. handler[l].m \in Messages /\ handler[l].m # NoMsg
    BY <1>0, ChattersMessage DEF Chatting, Messages, NoMsg
  <2>4. /\ \A c \in Conns : seen[c] \subseteq seen'[c] /\ (NoMsg \in seen'[c] => NoMsg \in seen[c])
        /\ d \in Conns /\ Joined(d) => handler[l].m \in seen'[d]
    <3>1. CASE seen' = seen /\ ~(d # NoConn /\ conn[d] = "up")
      BY <3>1 DEF Joined
    <3>2. CASE d # NoConn /\ conn[d] = "up"
      <4>1. d \in Conns /\ seen' = IF granted[d] # NoUser THEN [seen EXCEPT ![d] = @ \cup {handler[l].m}] ELSE seen
        BY <1>a, <1>0, <1>4, <3>2 DEF BroadcastSend, Deliver
      <4> QED
        BY <2>3, <4>1 DEF TInv, Tables, Joined
    <3> QED
      BY <1>a, <1>4, <3>1, <3>2 DEF BroadcastSend
  <2>5. ASSUME NEW c \in Conns, NEW m \in Messages, Joined(c), Sending(l, m, c)
        PROVE  m \in seen'[c] \/ Sending(l, m, c)'
    <3>1. PICK w \in handler[l].left : m = handler[l].m /\ sessions[w] = c /\ (w = u => c = d)
      BY <1>2, <2>5
    <3>2. CASE w = u
      BY <2>4, <2>5, <3>1, <3>2
    <3>3. CASE w # u
      BY <1>0, <2>2, <3>1, <3>3 DEF Sending, Holding
    <3> QED
      BY <3>2, <3>3
  <2> QED
    BY <1>0, <1>1, <2>2, <2>4, <2>5, CarrierStep
<1> QED
  BY <1>3, <1>4

LEMMA QueueGapless ==
  ASSUME TInv, GInv, NEW l \in Loops, BroadcastQueue(l)
  PROVE  GInv'
<1>a. handler[l].d \in Conns
  BY DEF TInv, Work, BroadcastQueue, At
<1>b. PICK d \in Conns : d = handler[l].d
  BY <1>a
<1> DEFINE f == [op |-> "broadcast", c |-> d, m |-> handler[l].m, by |-> l]
<1>0. /\ handler \in [Loops -> Handlers] /\ handler[l] \in Handlers
      /\ handler[l].at = "queue" /\ UNCHANGED <<conn, sessions, granted, saved, seen, listed>>
      /\ handler[l].at \notin Fetching
      /\ handler' = [handler EXCEPT ![l].at = "sending", ![l].d = NoConn]
      /\ Enqueue(d, f)
  BY <1>b DEF TInv, BroadcastQueue, At, store, page, Fetching
<1>1. /\ handler'[l].at = "sending" /\ handler'[l].left = handler[l].left
      /\ handler'[l].m = handler[l].m /\ \A k \in Loops \ {l} : handler'[k] = handler[k]
  BY <1>0 DEF Handlers
<1>2. handler[l].m \in Messages
  BY <1>0, ChattersMessage DEF Chatting
<1>3. f \in Functors /\ IsFor(f, d) /\ f.m = handler[l].m
  BY <1>2 DEF Functors, IsFor
<1> HIDE DEF f
<1>4. /\ \A c \in Conns : \A m \in Messages : Coming(c, m) => Coming(c, m)'
      /\ Coming(d, handler[l].m)'
  <2>1. \A c \in Conns : \A m \in Messages : Coming(c, m) => Coming(c, m)'
    BY <1>0, <1>3, StillComing
  <2>2. PICK a \in Messages : a = handler[l].m
    BY <1>2
  <2>3. Coming(d, a)'
    BY <1>0, <1>3, <2>2, StillComing
  <2>4. Coming(d, handler[l].m)'
    BY <1>1, <2>2, <2>3
  <2> QED
    BY <2>1, <2>4
<1>5. ASSUME NEW c \in Conns, NEW m \in Messages, Joined(c), Sending(l, m, c)
      PROVE  Sending(l, m, c)' \/ Coming(c, m)'
  <2>1. CASE c = d
    <3>1. m = handler'[l].m
      BY <1>1, <1>5 DEF Sending
    <3> QED
      BY <1>4, <2>1, <3>1 DEF Coming
  <2>2. CASE c # d
    BY <1>b, <1>0, <1>1, <1>5, <2>2 DEF Sending, Holding
  <2> QED
    BY <2>1, <2>2
<1> QED
  BY <1>0, <1>1, <1>4, <1>5, CarrierStep

(* The end of a broadcast, heartbeats, and the end of DOWN.                *)
LEMMA EndGapless ==
  ASSUME TInv, GInv, NEW l \in Loops, BroadcastDone(l) \/ HeartbeatQueue(l) \/ DownEnd(l)
  PROVE  GInv'
<1>0. /\ handler \in [Loops -> Handlers] /\ handler[l] \in Handlers
      /\ UNCHANGED <<conn, sessions, granted, saved, seen, listed>> /\ Return(l)
      /\ handler[l].at \notin Fetching
  BY DEF TInv, BroadcastDone, HeartbeatQueue, DownEnd, store, page, At, Fetching
<1>1. \A k \in Loops \ {l} : handler'[k] = handler[k]
  BY <1>0 DEF Return
<1>2. \A c \in Conns : \A m \in Messages : ~Sending(l, m, c)
  BY DEF BroadcastDone, HeartbeatQueue, DownEnd, At, Sending, Holding
<1>3. \A c \in Conns : \A m \in Messages : Coming(c, m) => Coming(c, m)'
  <2>1. CASE functors' = functors
    BY <2>1 DEF Coming
  <2>2. CASE HeartbeatQueue(l)
    <3> DEFINE d == handler[l].d
               f == [op |-> "beat", c |-> d, m |-> NoMsg, by |-> l]
    <3>1. d \in Conns
      BY <2>2 DEF TInv, Work, HeartbeatQueue, At
    <3>2. f \in Functors /\ Enqueue(d, f)
      BY <2>2, <3>1 DEF Functors, HeartbeatQueue
    <3> HIDE DEF d, f
    <3> QED
      BY <3>1, <3>2, StillComing
  <2> QED
    BY <2>1, <2>2 DEF BroadcastDone, DownEnd
<1> QED
  BY <1>0, <1>1, <1>2, <1>3, CarrierStep

LEMMA RemovalGapless ==
  ASSUME TInv, GInv, NEW c \in Conns, RemoveConnection(c)
  PROVE  GInv'
<1> DEFINE f == [op |-> "destroyed", c |-> c, m |-> NoMsg, by |-> NoLoop]
<1>1. f \in Functors /\ Enqueue(c, f)
  BY DEF Functors, RemoveConnection
<1>2. UNCHANGED <<conn, sessions, granted, saved, seen, listed, handler>>
  BY DEF RemoveConnection, store, page
<1> HIDE DEF f
<1>3. \A e \in Conns : \A m \in Messages : Coming(e, m) => Coming(e, m)'
  BY <1>1, StillComing
<1>4. \A e \in Conns : \A m \in Messages : Sending(LoopOf[c], m, e) => Sending(LoopOf[c], m, e)'
  BY <1>2 DEF Sending
<1>5. LoopOf[c] \in Loops
  OBVIOUS
<1> QED
  BY <1>2, <1>3, <1>4, <1>5, CarrierStep

(* A queued broadcast to a client that is logged in and up is delivered.   *)
LEMMA FunctorGapless ==
  ASSUME TInv, AInv, GInv, NEW l \in Loops, RunFunctor(l)
  PROVE  GInv'
<1> DEFINE f == Head(functors[l])
<1>0. /\ UNCHANGED <<conn, sessions, granted, saved, listed, handler>> /\ Taken(l) /\ Tables
      /\ RunSend(l, f) \/ ConnectDestroyed(f)
  BY DEF RunFunctor, TInv, Taken
<1>1. /\ f \in Functors /\ f = functors[l][1] /\ 1 \in 1..Len(functors[l])
      /\ Len(functors[l]) \in Nat /\ Len(functors'[l]) = Len(functors[l]) - 1
      /\ \A i \in 1..Len(functors'[l]) : functors'[l][i] = functors[l][i + 1]
      /\ \A k \in Loops \ {l} : functors'[k] = functors[k]
  BY <1>0, TakenFirst
<1> HIDE DEF f
<1>2. f.c \in Conns /\ (f.op = "broadcast" => f.m \in Messages /\ f.m # NoMsg)
  <2>1. f.c \in Conns
    BY <1>1 DEF Functors
  <2>2. f.op = "broadcast" => f.m \in Messages
    BY <1>1 DEF Functors
  <2>3. NoMsg \notin Messages
    BY DEF NoMsg, Messages
  <2> QED
    BY <2>1, <2>2, <2>3
<1>3. \/ seen' = seen
      \/ /\ f.op = "broadcast" /\ granted[f.c] # NoUser
         /\ seen' = [seen EXCEPT ![f.c] = @ \cup {f.m}]
  BY <1>0 DEF RunSend, ConnectDestroyed, Deliver
<1>4. \A c \in Conns : seen[c] \subseteq seen'[c] /\ (NoMsg \in seen'[c] => NoMsg \in seen[c])
  <2>1. CASE seen' = seen
    BY <2>1
  <2>2. CASE f.op = "broadcast" /\ seen' = [seen EXCEPT ![f.c] = @ \cup {f.m}]
    <3>1. /\ seen'[f.c] = seen[f.c] \cup {f.m}
          /\ \A c \in Conns : c # f.c => seen'[c] = seen[c]
      BY <1>0, <1>2, <2>2 DEF Tables
    <3> QED
      BY <1>2, <2>2, <3>1
  <2> QED
    BY <1>3, <2>1, <2>2
<1>5. ASSUME NEW c \in Conns, Joined(c), IsFor(f, c) PROVE f.m \in seen'[c]
  <2>1. c = f.c /\ f.op = "broadcast" /\ conn[f.c] = "up" /\ granted[f.c] # NoUser
    BY <1>5 DEF IsFor, Joined
  <2>2. f.c \notin destroyed
    BY <1>2, <2>1 DEF AInv, GoneOK, Gone
  <2>3. \E b \in Contents(f) : Deliver(f.c, f.m, b)
    BY <1>0, <2>1, <2>2 DEF RunSend, ConnectDestroyed
  <2>4. seen' = [seen EXCEPT ![f.c] = @ \cup {f.m}]
    BY <2>1, <2>3 DEF Deliver
  <2> QED
    BY <1>0, <1>2, <2>1, <2>4 DEF Tables
<1>6. ASSUME NEW c \in Conns, NEW m \in Messages, Joined(c), OnItsWay(m, c)
      PROVE  m \in seen'[c] \/ OnItsWay(m, c)'
  <2>1. ASSUME NEW k \in Loops, Sending(k, m, c) PROVE OnItsWay(m, c)'
    <3>1. Sending(k, m, c)'
      BY <1>0, <2>1 DEF Sending
    <3> QED
      BY <3>1, OnWay
  <2>2. CASE Coming(c, m)
    <3>1. PICK i \in 1..Len(functors[LoopOf[c]]) :
            IsFor(functors[LoopOf[c]][i], c) /\ functors[LoopOf[c]][i].m = m
      BY <2>2 DEF Coming
    <3>2. CASE LoopOf[c] # l
      <4>1. functors'[LoopOf[c]] = functors[LoopOf[c]]
        BY <1>1, <3>2
      <4>2. Coming(c, m)'
        BY <2>2, <4>1 DEF Coming
      <4> QED
        BY <4>2, OnWay
    <3>3. CASE LoopOf[c] = l /\ i = 1
      BY <1>1, <1>5, <1>6, <3>1, <3>3
    <3>4. CASE LoopOf[c] = l /\ i # 1
      <4>1. i \in 1..Len(functors[l])
        BY <3>4
      <4>2. PICK j \in 1..Len(functors'[l]) : j + 1 = i
        <5>1. i - 1 \in 1..Len(functors'[l]) /\ (i - 1) + 1 = i
          BY <1>1, <3>4, <4>1
        <5> QED
          BY <5>1
      <4>3. functors'[l][j] = functors[l][i]
        BY <1>1, <4>2
      <4>4. Coming(c, m)'
        BY <3>1, <3>4, <4>2, <4>3 DEF Coming
      <4> QED
        BY <4>4, OnWay
    <3> QED
      BY <3>2, <3>3, <3>4
  <2> QED
    BY <1>6, <2>1, <2>2, Ways
<1>7. \A c \in Conns : Joined(c)' => Joined(c)
  BY <1>0 DEF Joined, Joining
<1> QED
  BY <1>0, <1>4, <1>6, <1>7, MessageStep

LEMMA StepGInv == ASSUME SInv, TInv, AInv, GInv, [Next]_vars PROVE GInv'
<1>1. ASSUME NEW l \in Loops, HandlerStep(l) PROVE GInv'
  <2>1. CASE SaveMessage(l)
    <3>1. Goto(l, "broadcast") \/ Return(l)
      BY <2>1 DEF SaveMessage
    <3>2. CASE Return(l)
      BY <2>1, <3>2, CalmGapless
    <3> QED
      BY <2>1, <3>1, <3>2, SaveGapless
  <2>2. CASE VerifyUser(l) \/ LoginIsOnline(l) \/ AddSession(l) \/ LoginReply(l) \/ GetHistory(l)
    BY <2>2, CalmGapless
  <2>3. CASE LogoutRemove(l) \/ LogoutReply(l) \/ ChatIsOnline(l)
    BY <2>3, CalmGapless
  <2>4. CASE GetConnection(l) \/ OnDisconnect(l) \/ OnDisconnectRemove(l)
    BY <2>4, CalmGapless
  <2>5. CASE BroadcastDone(l) \/ HeartbeatQueue(l) \/ DownEnd(l)
    BY <2>5, EndGapless
  <2>6. CASE BroadcastLock(l) \/ BroadcastQueue(l) \/ \E u \in Users : BroadcastSend(l, u)
    BY <2>6, LockGapless, QueueGapless, SendGapless
  <2> QED
    BY <1>1, <2>1, <2>2, <2>3, <2>4, <2>5, <2>6 DEF HandlerStep
<1>2. CASE UNCHANGED vars
  <2>1. UNCHANGED <<conn, functors, handler, sessions, granted, saved, seen, listed>>
    BY <1>2 DEF vars
  <2>2. \A c \in Conns : Joined(c)' => Joined(c)
    BY <2>1 DEF Joined, Joining
  <2>3. \A c \in Conns : \A m \in Messages : OnItsWay(m, c) => OnItsWay(m, c)'
    BY <2>1 DEF OnItsWay
  <2> QED
    BY <2>1, <2>2, <2>3, MessageStep
<1> QED
  BY <1>1, <1>2, ClientGapless, RemovalGapless, FunctorGapless DEF Next

(* Nobody misses a message by joining while it is sent, for any number of  *)
(* connections, loops, users, messages and LOGINs and any length of the    *)
(* history: what was saved is on the page of every client that is logged   *)
(* in and has its history, or on its way to it, or the history it got was  *)
(* full of messages at least as recent (ChatService.cpp:59-84,97-123,      *)
(* 142-154, SessionManager.cpp:58-65, MessageDao.cpp:24-54).               *)
THEOREM NobodyMissesAMessage == Spec => []NoGap
<1>1. SInv /\ TInv /\ AInv /\ GInv /\ [Next]_vars => (SInv /\ TInv /\ AInv /\ GInv)'
  BY StepSInv, StepTInv, StepAInv, StepGInv
<1>2. GInv => NoGap
  BY DEF GInv
<1> QED
  BY <1>1, <1>2, InitSInv, InitTInv, InitAInv, InitGInv, PTL DEF Spec
=============================================================================
