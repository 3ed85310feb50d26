--------------------------------- MODULE Chat ---------------------------------
(***************************************************************************)
(* ChatServer, ChatService and SessionManager: I/O loops that each handle  *)
(* one event of one of their connections at a time and share the session   *)
(* table, guarded by SessionManager::mutex_.                               *)
(*                                                                         *)
(* A handler is a sequence of steps, one for every critical section and    *)
(* every database call, so that the handlers of two loops interleave as    *)
(* they can in the program.  broadcastToAll keeps mutex_ while it sends;   *)
(* to a connection of another loop it tests state_ and then queues a       *)
(* functor holding a bare TcpConnection pointer and a pointer into the     *)
(* sender's local string, and those are two steps.  A loop runs a queued   *)
(* functor when it is between events.                                      *)
(*                                                                         *)
(* A TcpConnection is reduced to connecting, up, kDisconnecting ("closing" *)
(* after a logout, "barred" after a close frame) and down;                 *)
(* TcpConnection.tla has the rest.  The clients are those of web/chat.html *)
(* (external): one asks to log in as often as it likes, also while it is   *)
(* logged in, as a button pressed again before the answer has come does;   *)
(* it chats, asks for the history and logs out only once it is told that   *)
(* it is logged in, and sends nothing after its LOGOUT was answered.       *)
(* A connection's entry in connectionStates_ is used by its own loop only. *)
(***************************************************************************)
EXTENDS Naturals, Sequences, FiniteSets

CONSTANTS Conns, Loops, Users,
          LoopOf,       \* the I/O loop of each connection
          NoUser,       \* the empty user name, and "no session"
          NoConn,
          NoLoop,
          HistoryLimit, \* messages a history has at most, 50
          MaxLogins,    \* bound on the LOGIN requests of all connections
          MaxMsgs,      \* bound on the chat messages of all connections
          MaxQueued     \* bound on the functors queued when a heartbeat is sent

ASSUME LoopOfAssumption == LoopOf \in [Conns -> Loops]
ASSUME NoneAssumption == NoUser \notin Users /\ NoConn \notin Conns /\ NoLoop \notin Loops
ASSUME MsgsAssumption == MaxMsgs \in Nat /\ MaxQueued \in Nat /\ MaxLogins \in Nat /\ HistoryLimit \in Nat \ {0}

VARIABLES
  conn,        \* connecting, up, closing and barred (kDisconnecting), down
  username,    \* connectionStates_[conn].username
  sessions,    \* SessionManager::sessions_: user -> connection
  mutex,       \* the loop holding SessionManager::mutex_ across steps
  handler,     \* per loop, the handler being run and its locals
  functors,    \* per loop, the functors other loops queued for it
  removing,    \* connections whose removal waits in the base loop
  destroyed,   \* connections connectDestroyed has run for
  sent,        \* chat messages sent so far; they are numbered in that order
  inbox,       \* per connection that is not down, broadcasts written to its socket
  granted,     \* the user a client has been told it is logged in as
  killed,      \* SIGPIPE or a crash ended the process
  logins,      \* LOGIN requests so far
  renamed,     \* connections whose LOGIN found them in session under another name
  saved,       \* the table messages: the rows, each with its second
  seen,        \* per client that is logged in, messages shown; NoMsg: no history
  listed       \* the rows of the history among them

vars == <<conn, username, sessions, mutex, handler, functors,
          removing, destroyed, sent, inbox, granted, killed, logins, renamed, saved, seen, listed>>

page == <<seen, listed>>
store == <<saved, page>>

Messages == Conns \X (1..MaxMsgs)
NoMsg == <<NoConn, 0>>

\* Bound: a second of its own for every message.
Rows == [m : Messages, t : 1..MaxMsgs]

Idle == [at |-> "idle", c |-> NoConn, u |-> NoUser, m |-> NoMsg, d |-> NoConn,
         left |-> {}]

Steps == {"idle", "verify", "login_online", "add", "online_users",
          "login_history", "history", "logout", "logout_reply", "chat_online", "save",
          "broadcast", "sending", "queue", "beat", "beat_send",
          "down_online", "down_remove", "down_end"}

Handlers == [at : Steps, c : Conns \cup {NoConn}, u : Users \cup {NoUser},
             m : Messages \cup {NoMsg}, d : Conns \cup {NoConn},
             left : SUBSET Users]

Functors == [op : {"broadcast"}, c : Conns, m : Messages, by : Loops]
              \cup [op : {"beat"}, c : Conns, m : {NoMsg}, by : Loops]
              \cup [op : {"destroyed"}, c : Conns, m : {NoMsg}, by : {NoLoop}]

(* The state is well formed, a loop holds SessionManager::mutex_ across    *)
(* steps exactly while it is inside broadcastToAll, and a handler of a     *)
(* connection is run by that connection's loop (SessionManager.cpp:58-65,  *)
(* TcpServer.cpp:78-103).                                                  *)
TypeOK ==
  /\ conn \in [Conns -> {"connecting", "up", "closing", "barred", "down"}]
  /\ username \in [Conns -> Users \cup {NoUser}]
  /\ sessions \in [Users -> Conns \cup {NoConn}]
  /\ mutex \in Loops \cup {NoLoop}
  /\ handler \in [Loops -> Handlers]
  /\ functors \in [Loops -> Seq(Functors)]
  /\ removing \subseteq Conns /\ destroyed \subseteq Conns
  /\ sent \in 0..MaxMsgs
  /\ inbox \in [Conns -> Seq(Messages \X BOOLEAN)]
  /\ granted \in [Conns -> Users \cup {NoUser}]
  /\ killed \in BOOLEAN /\ logins \in 0..MaxLogins /\ renamed \subseteq Conns
  /\ saved \subseteq Rows /\ listed \in [Conns -> SUBSET Rows]
  /\ seen \in [Conns -> SUBSET (Messages \cup {NoMsg})]
  /\ \A l \in Loops : mutex = l <=> handler[l].at \in {"sending", "queue"}
  /\ \A l \in Loops : handler[l].c # NoConn => LoopOf[handler[l].c] = l

Init ==
  /\ conn = [c \in Conns |-> "connecting"]
  /\ username = [c \in Conns |-> NoUser]
  /\ sessions = [u \in Users |-> NoConn]
  /\ mutex = NoLoop
  /\ handler = [l \in Loops |-> Idle]
  /\ functors = [l \in Loops |-> <<>>]
  /\ removing = {} /\ destroyed = {}
  /\ sent = 0
  /\ inbox = [c \in Conns |-> <<>>]
  /\ granted = [c \in Conns |-> NoUser]
  /\ killed = FALSE /\ logins = 0 /\ renamed = {}
  /\ saved = {} /\ listed = [c \in Conns |-> {}] /\ seen = [c \in Conns |-> {NoMsg}]

-----------------------------------------------------------------------------
At(l, step) == handler[l].at = step /\ ~killed

\* A loop starts a handler for an event of its connection c.
Begin(c, h) ==
  /\ At(LoopOf[c], "idle")
  /\ handler' = [handler EXCEPT ![LoopOf[c]] = h]

Goto(l, step) == handler' = [handler EXCEPT ![l].at = step]
Return(l) == handler' = [handler EXCEPT ![l] = Idle]

\* A critical section of SessionManager that is over within one step.
Locked == mutex = NoLoop

Online(u) == u \in Users /\ sessions[u] # NoConn

\* Reading stays enabled after shutdown, so requests that follow a LOGOUT are
\* handled too.
Open(c) == conn[c] \in {"up", "closing"}

\* onConnection, UP.
OnConnectionUp(c) ==
  /\ conn[c] = "connecting" /\ At(LoopOf[c], "idle")
  /\ conn' = [conn EXCEPT ![c] = "up"]
  /\ username' = [username EXCEPT ![c] = NoUser]
  /\ UNCHANGED <<sessions, mutex, handler, functors, removing,
                 destroyed, sent, inbox, granted, killed, logins, renamed, store>>

\* A WebSocket close frame.  The loop over the frames is left before the frame
\* is retrieved, so it stays in front of whatever the client sends after it.
CloseFrame(c) ==
  /\ Open(c) /\ At(LoopOf[c], "idle")
  /\ conn' = [conn EXCEPT ![c] = "barred"]
  /\ UNCHANGED <<username, sessions, mutex, handler, functors, removing,
                 destroyed, sent, inbox, granted, killed, logins, renamed, store>>

Request(c, h) ==
  /\ Open(c) /\ Begin(c, h)
  /\ UNCHANGED <<conn, sessions, mutex, functors, removing, destroyed,
                 inbox, granted, killed, store>>

-----------------------------------------------------------------------------
(* LOGIN.  The name is remembered before anything is verified, and a       *)
(* session the connection has under another name stays.                    *)

StartLogin(c, u) ==
  /\ conn[c] = "up" /\ logins < MaxLogins
  /\ logins' = logins + 1
  /\ Request(c, [Idle EXCEPT !.at = "verify", !.c = c, !.u = u])
  /\ username' = [username EXCEPT ![c] = u]
  /\ renamed' = IF \E v \in Users \ {u} : sessions[v] = c THEN renamed \cup {c} ELSE renamed
  /\ UNCHANGED sent

\* verifyUser: a wrong password or a failed query is a refusal.
VerifyUser(l) ==
  /\ At(l, "verify")
  /\ Goto(l, "login_online") \/ Goto(l, "login_history")
  /\ UNCHANGED <<conn, username, sessions, mutex, functors, removing,
                 destroyed, sent, inbox, granted, killed, logins, renamed, store>>

LoginIsOnline(l) ==
  /\ At(l, "login_online") /\ Locked
  /\ Goto(l, IF Online(handler[l].u) THEN "login_history" ELSE "add")
  /\ UNCHANGED <<conn, username, sessions, mutex, functors, removing,
                 destroyed, sent, inbox, granted, killed, logins, renamed, store>>

AddSession(l) ==
  /\ At(l, "add") /\ Locked
  /\ sessions' = [sessions EXCEPT ![handler[l].u] = handler[l].c]
  /\ Goto(l, "online_users")
  /\ UNCHANGED <<conn, username, mutex, functors, removing, destroyed,
                 sent, inbox, granted, killed, logins, renamed, store>>

\* getOnlineUsers and the LOGIN_RESP that is sent if the connection is up.
LoginReply(l) ==
  /\ At(l, "online_users") /\ Locked
  /\ granted' = IF conn[handler[l].c] = "up"
                THEN [granted EXCEPT ![handler[l].c] = handler[l].u] ELSE granted
  /\ Goto(l, "login_history")
  /\ UNCHANGED <<conn, username, sessions, mutex, functors, removing,
                 destroyed, sent, inbox, killed, logins, renamed, store>>

\* getRecentMessages: ORDER BY timestamp DESC LIMIT; of rows with the same
\* second any may come first.
RecentMessages ==
  IF Cardinality(saved) <= HistoryLimit THEN {saved}
  ELSE {rows \in SUBSET saved :
          /\ Cardinality(rows) = HistoryLimit
          /\ \A x \in rows, y \in saved \ rows : y.t <= x.t}

Shows(c, msgs, rows) ==
  seen' = [seen EXCEPT ![c] = msgs] /\ listed' = [listed EXCEPT ![c] = rows]

Blanks(c) == Shows(c, {NoMsg}, {})

\* handleGetHistory, on request or after a login attempt, successful or not.
\* The page of a client that is logged in is emptied and shows what the
\* answer holds, which is nothing if the query failed.
GetHistory(l) ==
  LET c == handler[l].c IN
  /\ At(l, "login_history") \/ At(l, "history")
  /\ IF conn[c] = "up" /\ granted[c] # NoUser
     THEN \/ \E rows \in RecentMessages : Shows(c, {x.m : x \in rows}, rows)
          \/ Blanks(c)
     ELSE UNCHANGED page
  /\ Return(l)
  /\ UNCHANGED <<conn, username, sessions, mutex, functors, removing,
                 destroyed, sent, inbox, granted, killed, logins, renamed, saved>>

StartGetHistory(c) ==
  /\ granted[c] # NoUser
  /\ Request(c, [Idle EXCEPT !.at = "history", !.c = c])
  /\ UNCHANGED <<username, sent, logins, renamed>>

-----------------------------------------------------------------------------
(* LOGOUT.                                                                 *)

StartLogout(c) ==
  /\ granted[c] # NoUser
  /\ Request(c, [Idle EXCEPT !.at = "logout", !.c = c, !.u = username[c]])
  /\ UNCHANGED <<username, sent, logins, renamed>>

RemoveSession(u) ==
  sessions' = IF u \in Users THEN [sessions EXCEPT ![u] = NoConn] ELSE sessions

LogoutRemove(l) ==
  /\ At(l, "logout") /\ Locked
  /\ RemoveSession(handler[l].u)
  /\ Goto(l, "logout_reply")
  /\ UNCHANGED <<conn, username, mutex, functors, removing, destroyed,
                 sent, inbox, granted, killed, logins, renamed, store>>

\* The answer, shutdown, and state.username = "".
LogoutReply(l) ==
  LET c == handler[l].c IN
  /\ At(l, "logout_reply")
  /\ conn' = [conn EXCEPT ![c] = "closing"]
  /\ username' = [username EXCEPT ![c] = NoUser]
  /\ granted' = [granted EXCEPT ![c] = NoUser]
  /\ Blanks(c)
  /\ Return(l)
  /\ UNCHANGED <<sessions, mutex, functors, removing, destroyed,
                 sent, inbox, killed, logins, renamed, saved>>

-----------------------------------------------------------------------------
(* CHAT: isOnline, getUserByUsername and saveMessage, then broadcastToAll. *)

StartChat(c) ==
  /\ granted[c] # NoUser /\ sent < MaxMsgs
  /\ sent' = sent + 1
  /\ Request(c, [Idle EXCEPT !.at = "chat_online", !.c = c, !.u = username[c],
                             !.m = <<c, sent + 1>>])
  /\ UNCHANGED <<username, logins, renamed>>

ChatIsOnline(l) ==
  /\ At(l, "chat_online") /\ Locked
  /\ IF Online(handler[l].u) THEN Goto(l, "save") ELSE Return(l)
  /\ UNCHANGED <<conn, username, sessions, mutex, functors, removing,
                 destroyed, sent, inbox, granted, killed, logins, renamed, store>>

\* The database stores message m with the time, which is not set back.
Insert(m) ==
  \E t \in 1..MaxMsgs :
    (\A x \in saved : x.t <= t) /\ saved' = saved \cup {[m |-> m, t |-> t]}

\* The user must be found; whether the message could be saved is ignored.
SaveMessage(l) ==
  /\ At(l, "save")
  /\ \/ Goto(l, "broadcast") /\ (Insert(handler[l].m) \/ UNCHANGED saved)
     \/ Return(l) /\ UNCHANGED saved
  /\ UNCHANGED <<conn, username, sessions, mutex, functors, removing,
                 destroyed, sent, inbox, granted, killed, logins, renamed, page>>

\* Fault: the table is locked only while its keys are copied.
BroadcastLockBriefly(l) ==
  /\ At(l, "broadcast") /\ Locked
  /\ handler' = [handler EXCEPT ![l].at = "sending", ![l].left = {u \in Users : Online(u)}]
  /\ UNCHANGED <<conn, username, sessions, mutex, functors, removing,
                 destroyed, sent, inbox, granted, killed, logins, renamed, store>>

\* Fault: the sender is left out.
BroadcastLockExcluding(l) ==
  /\ At(l, "broadcast") /\ Locked
  /\ mutex' = l
  /\ handler' = [handler EXCEPT ![l].at = "sending",
                                ![l].left = {u \in Users : Online(u)} \ {handler[l].u}]
  /\ UNCHANGED <<conn, username, sessions, functors, removing,
                 destroyed, sent, inbox, granted, killed, logins, renamed, store>>

BroadcastLock(l) ==
  /\ At(l, "broadcast") /\ Locked
  /\ mutex' = l
  /\ handler' = [handler EXCEPT ![l].at = "sending", ![l].left = {u \in Users : Online(u)}]
  /\ UNCHANGED <<conn, username, sessions, functors, removing,
                 destroyed, sent, inbox, granted, killed, logins, renamed, store>>

\* The frame of message m is written to d's socket, for d's page.
Deliver(d, m, intact) ==
  /\ inbox' = [inbox EXCEPT ![d] = Append(@, <<m, intact>>)]
  /\ seen' = IF granted[d] # NoUser THEN [seen EXCEPT ![d] = @ \cup {m}] ELSE seen

\* The next session, in the table's order.  A connection of this loop is
\* written to at once; for another loop's the state test is one step and
\* the queueing another.
BroadcastSend(l, u) ==
  LET d == sessions[u] IN
  /\ At(l, "sending") /\ u \in handler[l].left
  /\ IF d # NoConn /\ conn[d] = "up" /\ LoopOf[d] # l THEN
       /\ handler' = [handler EXCEPT ![l].at = "queue", ![l].d = d, ![l].left = @ \ {u}]
       /\ UNCHANGED <<inbox, seen>>
     ELSE
       /\ handler' = [handler EXCEPT ![l].left = @ \ {u}]
       /\ IF d # NoConn /\ conn[d] = "up" THEN Deliver(d, handler[l].m, TRUE)
                                          ELSE UNCHANGED <<inbox, seen>>
  /\ UNCHANGED <<conn, username, sessions, mutex, functors, removing,
                 destroyed, sent, granted, killed, logins, renamed, saved, listed>>

\* Fault: a functor is put in front of those already queued.
EnqueueFront(d, f) == functors' = [functors EXCEPT ![LoopOf[d]] = <<f>> \o @]

Enqueue(d, f) == functors' = [functors EXCEPT ![LoopOf[d]] = Append(@, f)]

BroadcastQueue(l) ==
  LET d == handler[l].d IN
  /\ At(l, "queue")
  /\ Enqueue(d, [op |-> "broadcast", c |-> d, m |-> handler[l].m, by |-> l])
  /\ handler' = [handler EXCEPT ![l].at = "sending", ![l].d = NoConn]
  /\ UNCHANGED <<conn, username, sessions, mutex, removing, destroyed,
                 sent, inbox, granted, killed, logins, renamed, store>>

\* Fault: the lock is not released.
BroadcastDoneLocked(l) ==
  /\ At(l, "sending") /\ handler[l].left = {}
  /\ Return(l)
  /\ UNCHANGED <<conn, username, sessions, mutex, functors, removing,
                 destroyed, sent, inbox, granted, killed, logins, renamed, store>>

\* The lock is released and handleChat returns; its frame string is gone.
BroadcastDone(l) ==
  /\ At(l, "sending") /\ handler[l].left = {}
  /\ mutex' = NoLoop
  /\ Return(l)
  /\ UNCHANGED <<conn, username, sessions, functors, removing,
                 destroyed, sent, inbox, granted, killed, logins, renamed, store>>

-----------------------------------------------------------------------------
(* HEARTBEAT: getConnection copies the shared pointer, then the reply goes *)
(* to the connection found, whichever it is.                               *)

StartHeartbeat(c) ==
  /\ username[c] # NoUser /\ \A l \in Loops : Len(functors[l]) < MaxQueued
  /\ Request(c, [Idle EXCEPT !.at = "beat", !.c = c, !.u = username[c]])
  /\ UNCHANGED <<username, sent, logins, renamed>>

GetConnection(l) ==
  LET d == sessions[handler[l].u] IN
  /\ At(l, "beat") /\ Locked
  /\ IF d # NoConn /\ conn[d] = "up" /\ LoopOf[d] # l
     THEN handler' = [handler EXCEPT ![l].at = "beat_send", ![l].d = d]
     ELSE Return(l)
  /\ UNCHANGED <<conn, username, sessions, mutex, functors, removing,
                 destroyed, sent, inbox, granted, killed, logins, renamed, store>>

HeartbeatQueue(l) ==
  LET d == handler[l].d IN
  /\ At(l, "beat_send")
  /\ Enqueue(d, [op |-> "beat", c |-> d, m |-> NoMsg, by |-> l])
  /\ Return(l)
  /\ UNCHANGED <<conn, username, sessions, mutex, removing, destroyed,
                 sent, inbox, granted, killed, logins, renamed, store>>

-----------------------------------------------------------------------------
(* handleClose: onConnection DOWN with onDisconnect, then closeCallback_.  *)

OnConnectionDown(c) ==
  /\ conn[c] \in {"up", "closing", "barred"}
  /\ Begin(c, [Idle EXCEPT !.at = IF username[c] = NoUser THEN "down_end" ELSE "down_online",
                           !.c = c, !.u = username[c]])
  /\ conn' = [conn EXCEPT ![c] = "down"]
  /\ granted' = [granted EXCEPT ![c] = NoUser]
  /\ inbox' = [inbox EXCEPT ![c] = <<>>] /\ Blanks(c)
  /\ UNCHANGED <<username, sessions, mutex, functors, removing, destroyed,
                 sent, killed, logins, renamed, saved>>

OnDisconnect(l) ==
  /\ At(l, "down_online") /\ Locked
  /\ Goto(l, IF Online(handler[l].u) THEN "down_remove" ELSE "down_end")
  /\ UNCHANGED <<conn, username, sessions, mutex, functors, removing,
                 destroyed, sent, inbox, granted, killed, logins, renamed, store>>

\* Fault: the session of a closed connection stays.
OnDisconnectForget(l) ==
  /\ At(l, "down_remove") /\ Locked
  /\ Goto(l, "down_end")
  /\ UNCHANGED <<conn, username, sessions, mutex, functors, removing,
                 destroyed, sent, inbox, granted, killed, logins, renamed, store>>

OnDisconnectRemove(l) ==
  /\ At(l, "down_remove") /\ Locked
  /\ RemoveSession(handler[l].u)
  /\ Goto(l, "down_end")
  /\ UNCHANGED <<conn, username, mutex, functors, removing, destroyed,
                 sent, inbox, granted, killed, logins, renamed, store>>

\* connectionStates_.erase and TcpServer::removeConnection.
DownEnd(l) ==
  /\ At(l, "down_end")
  /\ username' = [username EXCEPT ![handler[l].c] = NoUser]
  /\ removing' = removing \cup {handler[l].c}
  /\ Return(l)
  /\ UNCHANGED <<conn, sessions, mutex, functors, destroyed, sent, inbox,
                 granted, killed, logins, renamed, store>>

\* The base loop: TcpServer::removeConnectionInLoop.
RemoveConnection(c) ==
  /\ c \in removing /\ ~killed
  /\ removing' = removing \ {c}
  /\ Enqueue(c, [op |-> "destroyed", c |-> c, m |-> NoMsg, by |-> NoLoop])
  /\ UNCHANGED <<conn, username, sessions, mutex, handler, destroyed,
                 sent, inbox, granted, killed, logins, renamed, store>>

-----------------------------------------------------------------------------
(* Functors, run by an idle loop.                                          *)

\* The string a queued broadcast points into lives as long as the handler
\* that queued it; read later, the bytes may be anything.
Contents(f) ==
  IF handler[f.by].m = f.m THEN {TRUE} ELSE BOOLEAN

\* sendInLoop: ignored on a connection that is down; on a closing one, the
\* socket may already be shut and write() raises SIGPIPE.  A heartbeat queued
\* for a connection that is freed by now may do anything, or crash.
RunSend(l, f) ==
  /\ f.op # "destroyed"
  /\ \/ /\ conn[f.c] # "down" /\ f.op = "broadcast"
        /\ \E intact \in Contents(f) : Deliver(f.c, f.m, intact)
        /\ UNCHANGED killed
     \/ /\ conn[f.c] \in {"closing", "barred"} \/ f.c \in destroyed
        /\ killed' = TRUE
        /\ UNCHANGED <<inbox, seen>>
     \/ /\ conn[f.c] = "down" \/ f.op = "beat"
        /\ UNCHANGED <<inbox, seen, killed>>
  /\ UNCHANGED destroyed

ConnectDestroyed(f) ==
  /\ f.op = "destroyed"
  /\ destroyed' = destroyed \cup {f.c}
  /\ UNCHANGED <<inbox, seen, killed>>

RunFunctor(l) ==
  /\ At(l, "idle") /\ functors[l] # <<>>
  /\ LET f == Head(functors[l]) IN RunSend(l, f) \/ ConnectDestroyed(f)
  /\ functors' = [functors EXCEPT ![l] = Tail(@)]
  /\ UNCHANGED <<conn, username, sessions, mutex, handler, removing,
                 sent, granted, logins, renamed, saved, listed>>

-----------------------------------------------------------------------------
ClientStep(c) ==
  \/ OnConnectionUp(c) \/ CloseFrame(c) \/ OnConnectionDown(c)
  \/ \E u \in Users : StartLogin(c, u)
  \/ StartLogout(c) \/ StartChat(c) \/ StartHeartbeat(c) \/ StartGetHistory(c)

HandlerStep(l) ==
  \/ VerifyUser(l) \/ LoginIsOnline(l) \/ AddSession(l) \/ LoginReply(l) \/ GetHistory(l)
  \/ LogoutRemove(l) \/ LogoutReply(l)
  \/ ChatIsOnline(l) \/ SaveMessage(l) \/ BroadcastLock(l)
  \/ (\E u \in Users : BroadcastSend(l, u)) \/ BroadcastQueue(l) \/ BroadcastDone(l)
  \/ GetConnection(l) \/ HeartbeatQueue(l)
  \/ OnDisconnect(l) \/ OnDisconnectRemove(l) \/ DownEnd(l)

Next ==
  \/ \E c \in Conns : ClientStep(c) \/ RemoveConnection(c)
  \/ \E l \in Loops : HandlerStep(l) \/ RunFunctor(l)

Spec == Init /\ [][Next]_vars

-----------------------------------------------------------------------------
(* Only a client that asked for a second name while it was in session      *)
(* leaves a session behind: for every other connection, once DOWN has been *)
(* handled no user name leads to it any more, although the session is      *)
(* looked up by a name that login, logout and other loops' handlers change *)
(* (ChatServer.cpp:35-54,198-202, ChatService.cpp:59-95,156-160).          *)
DownHandled(c) == conn[c] = "down" /\ handler[LoopOf[c]].c # c

NoGhostSession ==
  \A u \in Users : sessions[u] # NoConn /\ DownHandled(sessions[u]) => sessions[u] \in renamed

(* The messages one client sends reach every client in the order sent,     *)
(* whether they are written directly or go through another loop's queue,   *)
(* and each of them once; only a client with two sessions may get one      *)
(* twice (SessionManager.cpp:58-65, TcpConnection.cpp:214-221).            *)
SenderOrder ==
  \A c \in Conns : \A i, j \in 1..Len(inbox[c]) :
    LET x == inbox[c][i][1]
        y == inbox[c][j][1] IN
    i < j /\ x[1] = y[1] => x[2] < y[2] \/ (x = y /\ c \in renamed)

(* A broadcast queued for another loop, which holds a bare TcpConnection   *)
(* pointer, is always run before connectDestroyed gives up the last        *)
(* reference: mutex_ is held from the look-up to the queueing, and DOWN    *)
(* needs it before the removal is queued.  A client that has taken a       *)
(* second name can end its DOWN without it (SessionManager.cpp:58-65,      *)
(* TcpConnection.cpp:214-221, TcpServer.cpp:109-115).                      *)
BroadcastTargetsAlive ==
  \A l \in Loops : \A i \in 1..Len(functors[l]) :
    LET f == functors[l][i] IN
    f.op = "broadcast" /\ f.c \notin renamed =>
      /\ f.c \notin destroyed
      /\ \A j \in 1..i - 1 : ~(functors[l][j].op = "destroyed" /\ functors[l][j].c = f.c)

(* Nobody misses a message by joining while it is sent: once its history   *)
(* has come, a client that is logged in has on its page every message that *)
(* was saved, or the message is still on its way to it, or the history was *)
(* full of messages at least as recent.  handleChat saves before it        *)
(* broadcasts, a login enters the session before it reads the history, and *)
(* the page is emptied by every history that arrives (ChatService.cpp:     *)
(* 59-84,97-123,142-154, SessionManager.cpp:58-65, MessageDao.cpp:24-54).  *)
OnItsWay(m, c) ==
  \/ \E l \in Loops :
       LET h == handler[l] IN
       /\ h.m = m
       /\ \/ h.at = "broadcast"
          \/ h.at = "queue" /\ h.d = c
          \/ h.at \in {"sending", "queue"} /\ \E u \in h.left : sessions[u] = c
  \/ \E i \in 1..Len(functors[LoopOf[c]]) :
       LET f == functors[LoopOf[c]][i] IN f.op = "broadcast" /\ f.c = c /\ f.m = m

CutOff(x, c) ==
  Cardinality(listed[c]) = HistoryLimit /\ \A y \in listed[c] : x.t <= y.t

\* A LOGIN that entered the session and has not fetched the history yet.
Joining(c) ==
  handler[LoopOf[c]].c = c /\ handler[LoopOf[c]].at \in {"online_users", "login_history"}

Joined(c) ==
  granted[c] # NoUser /\ sessions[granted[c]] = c /\ conn[c] = "up" /\ ~Joining(c)

NoGap ==
  \A c \in Conns : Joined(c) /\ NoMsg \notin seen[c] =>
    \A x \in saved : x.m \in seen[c] \/ OnItsWay(x.m, c) \/ CutOff(x, c)

-----------------------------------------------------------------------------
(* What a comment of the code says, and the code does not do.              *)

(* "Broadcast to all online users" (ChatService.cpp:110): when a broadcast *)
(* is being sent, every connected client that was told it is logged in,    *)
(* and has no request of its own under way, is among the receivers.        *)
BroadcastReachesAll ==
  \A l \in Loops : handler[l].at = "sending" =>
    \A c \in Conns :
      granted[c] # NoUser /\ conn[c] = "up" /\ handler[LoopOf[c]].c # c =>
        sessions[granted[c]] = c

(* "Broadcast to all online users" (ChatService.cpp:110), and what is      *)
(* broadcast is the message: no client is sent other bytes in its place.   *)
BroadcastIntact == \A c \in Conns : \A i \in 1..Len(inbox[c]) : inbox[c][i][2]
=============================================================================
