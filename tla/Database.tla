------------------------------- MODULE Database -------------------------------
(***************************************************************************)
(* DbConnection, UserDao and MessageDao, and the requests of ChatService   *)
(* and the keep-alive timer that use them.  Each DAO has one MYSQL handle. *)
(* The I/O loops and the base loop use both handles with no lock, so a     *)
(* statement is as many steps as the calls it makes into the client        *)
(* library: mysql_real_escape_string for the strings it is made from, then *)
(* mysql_query and, for a SELECT, mysql_store_result, each of these two    *)
(* entered and left.                                                       *)
(*                                                                         *)
(* The library (external) keeps the rule of its documentation: a query     *)
(* sent while the result of an earlier one is waiting to be stored fails,  *)
(* "commands out of sync".  Two threads that use the connection of one     *)
(* handle at a time are a data race; from then on the handle is torn and   *)
(* its calls fail, crash, or return anything.  Escaping only reads the     *)
(* handle's character set and escaping mode, which no statement of this    *)
(* program changes, but it needs a handle that is not closed.              *)
(***************************************************************************)
EXTENDS Naturals

CONSTANTS IOLoops, BaseLoop,
          Users, Passwords,   \* non-empty names and passwords
          UniqueKey,          \* users.username has a unique key (no schema in the repository)
          None                \* nullptr, false, or no password

ASSUME NamesAssumption ==
  /\ BaseLoop \notin IOLoops /\ UniqueKey \in BOOLEAN
  /\ None \notin IOLoops \cup {BaseLoop} \cup Users \cup Passwords
  /\ {"no row", "done"} \cap Passwords = {}

VARIABLES
  connected,  \* connected_ of each DbConnection, decided by its constructor
  lost,       \* the server has dropped the handle's connection
  waiting,    \* per handle, the thread whose result waits to be stored, and the result
  torn,       \* handles two threads were inside with
  users,      \* the table users, <<username, password>>
  told,       \* registrations answered with success, before the user handle was torn
  job,        \* per thread, the request being handled
  ended       \* LOG_FATAL or a crash ended the process

vars == <<connected, lost, waiting, torn, users, told, job, ended>>

Threads == IOLoops \cup {BaseLoop}
Handles == {"user", "message"}

\* The statements, by the request they belong to.
UserSelects == {"exists", "verify", "known", "sender", "user_beat"}
MessageSelects == {"history", "message_beat"}
Statements == UserSelects \cup MessageSelects \cup {"insert", "save"}

Handle(at) == IF at \in UserSelects \cup {"insert"} THEN "user" ELSE "message"

\* What a statement can return: nullptr or false (None), no row, a user's
\* password, and for all others true or some rows (Done).
NoRow == "no row"
Done == "done"
Results == Passwords \cup {None, NoRow, Done}

\* The statements that are made from strings of the client.
Escaping == {"exists", "verify", "known", "sender", "insert", "save"}

\* A thread has not yet called the library, escapes its strings, is inside
\* mysql_query, between that and mysql_store_result, or inside the latter.
Phases == {"no", "escape", "query", "between", "store"}

Jobs == [at : Statements \cup {"idle"}, in : Phases,
         u : Users \cup {None}, p : Passwords \cup {None}]

Idle == [at |-> "idle", in |-> "no", u |-> None, p |-> None]
NoResult == [by |-> None, r |-> None]

\* Thread t is in a call that uses the connection of h, or any with h.
Using(t, h) == job[t].in \in {"query", "store"} /\ Handle(job[t].at) = h
Inside(t, h) == Using(t, h) \/ (job[t].in = "escape" /\ Handle(job[t].at) = h)

(* The state is well formed.  A result that waits belongs to a thread that *)
(* is going to store it.  A handle whose connection failed was closed by   *)
(* the constructor and is never passed to the library, although escape(),  *)
(* which is called first, does not test connected_ itself                  *)
(* (DbConnection.cpp:14-18,45-62, UserDao.cpp:10-37, MessageDao.cpp:       *)
(* 12-28).                                                                 *)
ClosedIsUnused == \A h \in Handles : ~connected[h] => \A t \in Threads : ~Inside(t, h)

TypeOK ==
  /\ connected \in [Handles -> BOOLEAN] /\ lost \in [Handles -> BOOLEAN]
  /\ waiting \in [Handles -> [by : Threads \cup {None}, r : Results]]
  /\ torn \subseteq Handles /\ ended \in BOOLEAN
  /\ users \subseteq Users \X Passwords /\ told \subseteq Users \X Passwords
  /\ job \in [Threads -> Jobs]
  /\ \A h \in Handles \ torn : waiting[h].by # None /\ ~ended =>
       Handle(job[waiting[h].by].at) = h /\ job[waiting[h].by].in \in {"between", "store"}
  /\ ClosedIsUnused

\* The unique key: a name is in the table once.
KeyHolds(table) == \A x, y \in table : x[1] = y[1] => x = y

\* The constructors; the table has the users of earlier days.
Init ==
  /\ connected \in [Handles -> BOOLEAN]
  /\ lost = [h \in Handles |-> FALSE]
  /\ waiting = [h \in Handles |-> NoResult]
  /\ torn = {} /\ told = {}
  /\ users \in SUBSET (Users \X Passwords) /\ (UniqueKey => KeyHolds(users))
  /\ job = [t \in Threads |-> Idle]
  /\ ended = FALSE

-----------------------------------------------------------------------------
(* What a request does with the result r of its statement, up to its next  *)
(* statement or its end.                                                   *)

Then(t, at) == job' = [job EXCEPT ![t].at = at, ![t].in = "no"]
Return(t) == job' = [job EXCEPT ![t] = Idle]

\* The process is gone, with all its threads.
Exit == ended' = TRUE /\ job' = [t \in Threads |-> Idle]

\* handleLogin returns, and handleWebSocketMessage calls handleGetHistory.
LoginEnds(t) == job' = [job EXCEPT ![t] = [Idle EXCEPT !.at = "history"]]

\* getUserByUsername returned a user.
IsUser(r) == r \notin {None, NoRow}

UserExists(t, r) ==
  /\ job[t].at = "exists"
  /\ IF IsUser(r) THEN Return(t) ELSE Then(t, "insert")
  /\ UNCHANGED <<told, ended>>

\* Fault: the result of the INSERT is not looked at.
InsertUserUnchecked(t, r) ==
  /\ job[t].at = "insert"
  /\ told' = told \cup {<<job[t].u, job[t].p>>}
  /\ Return(t)
  /\ UNCHANGED ended

\* insertUser's result decides the REGISTER_RESP.
InsertUser(t, r) ==
  /\ job[t].at = "insert"
  /\ told' = IF r # None /\ "user" \notin torn THEN told \cup {<<job[t].u, job[t].p>>} ELSE told
  /\ Return(t)
  /\ UNCHANGED ended

\* verifyUser, then isOnline, which may refuse.
VerifyUser(t, r) ==
  /\ job[t].at = "verify"
  /\ IF r = job[t].p THEN Then(t, "known") \/ LoginEnds(t) ELSE LoginEnds(t)
  /\ UNCHANGED <<told, ended>>

\* The user looked up a second time is not used; addSession and LOGIN_RESP.
LoginSucceeds(t, r) ==
  /\ job[t].at = "known"
  /\ LoginEnds(t)
  /\ UNCHANGED <<told, ended>>

\* handleChat: the sender's id is needed.
ChatSender(t, r) ==
  /\ job[t].at = "sender"
  /\ IF IsUser(r) THEN Then(t, "save") ELSE Return(t)
  /\ UNCHANGED <<told, ended>>

\* Whatever saveMessage or getRecentMessages returned.
MessageDone(t, r) ==
  /\ job[t].at \in {"save", "history"}
  /\ Return(t)
  /\ UNCHANGED <<told, ended>>

\* Fault: the failure is logged and the server goes on.
HeartBeatLogs(t, r) ==
  /\ job[t].at \in {"user_beat", "message_beat"}
  /\ IF job[t].at = "user_beat" THEN Then(t, "message_beat") ELSE Return(t)
  /\ UNCHANGED <<told, ended>>

\* keepMySQLAlive: a heartBeat() that returns false is LOG_FATAL.
HeartBeat(t, r) ==
  /\ job[t].at \in {"user_beat", "message_beat"}
  /\ IF r = None THEN Exit
     ELSE /\ IF job[t].at = "user_beat" THEN Then(t, "message_beat") ELSE Return(t)
          /\ UNCHANGED ended
  /\ UNCHANGED told

GoOn(t, r) ==
  \/ UserExists(t, r) \/ InsertUser(t, r) \/ VerifyUser(t, r) \/ LoginSucceeds(t, r)
  \/ ChatSender(t, r) \/ MessageDone(t, r) \/ HeartBeat(t, r)

-----------------------------------------------------------------------------
(* DbConnection::escape, query and execute.                                *)

Doing(t, phase) == ~ended /\ job[t].at \in Statements /\ job[t].in = phase

NotConnected(t) ==
  /\ Doing(t, "no") /\ ~connected[Handle(job[t].at)]
  /\ GoOn(t, None)
  /\ UNCHANGED <<connected, lost, waiting, torn, users>>

\* A call that uses the connection is entered.
Enter(t, phase) ==
  LET h == Handle(job[t].at) IN
  /\ h \notin torn
  /\ job' = [job EXCEPT ![t].in = phase]
  /\ torn' = IF \E s \in Threads \ {t} : Using(s, h) THEN torn \cup {h} ELSE torn
  /\ UNCHANGED <<connected, lost, waiting, users, told, ended>>

\* Fault: the DAO does not ask whether it is connected before it escapes.
CallEscapeUnasked(t) ==
  /\ Doing(t, "no") /\ job[t].at \in Escaping /\ Handle(job[t].at) \notin torn
  /\ job' = [job EXCEPT ![t].in = "escape"]
  /\ UNCHANGED <<connected, lost, waiting, torn, users, told, ended>>

\* The DAO's connected() test is the only one before escape().
CallEscape(t) ==
  /\ Doing(t, "no") /\ job[t].at \in Escaping /\ Handle(job[t].at) \notin torn
  /\ connected[Handle(job[t].at)]
  /\ job' = [job EXCEPT ![t].in = "escape"]
  /\ UNCHANGED <<connected, lost, waiting, torn, users, told, ended>>

CallQuery(t) ==
  /\ Doing(t, IF job[t].at \in Escaping THEN "escape" ELSE "no")
  /\ connected[Handle(job[t].at)] /\ Enter(t, "query")

CallStore(t) == Doing(t, "between") /\ Enter(t, "store")

\* The library sends the statement: the link is up and no result waits.
InSync(h) == ~lost[h] /\ waiting[h].by = None

\* The result of a SELECT: of the rows with the user's name the first.
Answers(j) ==
  LET found == {p \in Passwords : <<j.u, p>> \in users} IN
  IF j.at \notin {"exists", "verify", "known", "sender"} THEN {Done}
  ELSE IF found = {} THEN {NoRow} ELSE found

Select(t) == Doing(t, "query") /\ job[t].at \in UserSelects \cup MessageSelects

\* Fault: query() stores a result although mysql_query failed.
SelectReturnsUnchecked(t) ==
  LET h == Handle(job[t].at) IN
  /\ Select(t) /\ h \notin torn
  /\ IF InSync(h)
     THEN \E r \in Answers(job[t]) : waiting' = [waiting EXCEPT ![h] = [by |-> t, r |-> r]]
     ELSE UNCHANGED waiting
  /\ job' = [job EXCEPT ![t].in = "between"]
  /\ UNCHANGED <<connected, lost, torn, users, told, ended>>

\* mysql_query returns: the result waits for mysql_store_result, or an error.
SelectReturns(t) ==
  LET h == Handle(job[t].at) IN
  /\ Select(t) /\ h \notin torn
  /\ IF InSync(h)
     THEN /\ \E r \in Answers(job[t]) : waiting' = [waiting EXCEPT ![h] = [by |-> t, r |-> r]]
          /\ job' = [job EXCEPT ![t].in = "between"]
          /\ UNCHANGED <<told, ended>>
     ELSE GoOn(t, None) /\ UNCHANGED waiting
  /\ UNCHANGED <<connected, lost, torn, users>>

Taken(u) == UniqueKey /\ \E p \in Passwords : <<u, p>> \in users

\* mysql_query for an INSERT; the connection may be lost after the server has
\* carried it out and before the reply.
InsertReturns(t) ==
  LET h == Handle(job[t].at)
      isUser == job[t].at = "insert"
      ok == InSync(h) /\ (isUser => ~Taken(job[t].u)) IN
  /\ Doing(t, "query") /\ job[t].at \in {"insert", "save"}
  /\ h \notin torn
  /\ users' = IF ok /\ isUser THEN users \cup {<<job[t].u, job[t].p>>} ELSE users
  /\ \/ GoOn(t, IF ok THEN Done ELSE None) /\ UNCHANGED lost
     \/ ok /\ GoOn(t, None) /\ lost' = [lost EXCEPT ![h] = TRUE]
  /\ UNCHANGED <<connected, waiting, torn>>

\* mysql_store_result returns what waits, whoever asked for it.
StoreReturns(t) ==
  LET h == Handle(job[t].at) IN
  /\ Doing(t, "store") /\ h \notin torn
  /\ GoOn(t, IF lost[h] THEN None ELSE waiting[h].r)
  /\ waiting' = [waiting EXCEPT ![h] = NoResult]
  /\ UNCHANGED <<connected, lost, torn, users>>

\* What is left of a statement with a torn handle, and every later statement
\* with it, crashes, fails or returns anything; an INSERT may be carried out.
TornReturns(t) ==
  LET h == Handle(job[t].at) IN
  /\ ~ended /\ job[t].at \in Statements
  /\ h \in torn
  /\ \/ Exit /\ UNCHANGED <<users, told>>
     \/ /\ \E r \in Results : GoOn(t, r)
        /\ users' \in {users, IF job[t].at = "insert"
                              THEN users \cup {<<job[t].u, job[t].p>>} ELSE users}
  /\ waiting' = [waiting EXCEPT ![h] = NoResult]
  /\ UNCHANGED <<connected, lost, torn>>

CallStep(t) ==
  \/ NotConnected(t) \/ CallEscape(t) \/ CallQuery(t) \/ SelectReturns(t) \/ InsertReturns(t)
  \/ CallStore(t) \/ StoreReturns(t) \/ TornReturns(t)

\* The server restarts or drops the connection; connected_ does not notice.
Lose(h) ==
  /\ connected[h] /\ ~lost[h] /\ h \notin torn /\ ~ended
  /\ lost' = [lost EXCEPT ![h] = TRUE]
  /\ UNCHANGED <<connected, waiting, torn, users, told, job, ended>>

-----------------------------------------------------------------------------
(* Requests begin when the loop is between two events.                     *)

library == <<connected, lost, waiting, torn, users>>

Request(t, at, u, p) ==
  /\ ~ended /\ job[t] = Idle
  /\ job' = [job EXCEPT ![t] = [Idle EXCEPT !.at = at, !.u = u, !.p = p]]
  /\ UNCHANGED <<library, told, ended>>

\* An empty name or password is refused before any statement.
HandleRegister(t) == \E u \in Users, p \in Passwords : Request(t, "exists", u, p)
HandleLogin(t) == \E u \in Users, p \in Passwords : Request(t, "verify", u, p)
HandleChat(t) == \E u \in Users : Request(t, "sender", u, None)
HandleGetHistory(t) == Request(t, "history", None, None)

IOStep(t) ==
  HandleRegister(t) \/ HandleLogin(t) \/ HandleChat(t) \/ HandleGetHistory(t)

\* Every three hours: keepMySQLAlive.
OnTimer == Request(BaseLoop, "user_beat", None, None)

-----------------------------------------------------------------------------
Next ==
  \/ \E t \in Threads : CallStep(t)
  \/ \E t \in IOLoops : IOStep(t)
  \/ OnTimer
  \/ \E h \in Handles : Lose(h)

Spec == Init /\ [][Next]_vars

-----------------------------------------------------------------------------
(* As long as no two threads meet inside the library, whoever stores a     *)
(* result stores the result of its own query, although other threads may   *)
(* have tried theirs in between (DbConnection.cpp:45-54).                  *)
OwnResult ==
  \A t \in Threads : job[t].in \in {"between", "store"} =>
    LET h == Handle(job[t].at) IN h \in torn \/ waiting[h].by = t

(* Nobody is let in by another's answer: unless the user handle was torn,  *)
(* a login that passes verifyUser gave a name and a password of the table  *)
(* (UserDao.cpp:24-58, ChatService.cpp:65-76).                             *)
NoFalseLogin ==
  \A t \in Threads : job[t].at = "known" /\ "user" \notin torn =>
    <<job[t].u, job[t].p>> \in users

(* Who was told that the registration succeeded can log in, also when the  *)
(* test for the name failed or raced another registration: unless the user *)
(* handle was torn the name leads to that password and to no other.  This  *)
(* needs the unique key (ChatService.cpp:44-56, UserDao.cpp:10-22).        *)
RegisteredIsStored ==
  UniqueKey /\ "user" \notin torn =>
    \A x \in told : {y \in users : y[1] = x[1]} = {x}

(* A handle that is not or no longer connected, which every other request  *)
(* takes for "no such user" or "no messages", is not missed by the         *)
(* keep-alive timer, whatever other threads do with the handle meanwhile:  *)
(* unless the handle was torn, no beat gets past it without ending the     *)
(* server, so that it can be restarted; nothing reconnects it              *)
(* (ChatService.cpp:162-168, UserDao.cpp:65-73, MessageDao.cpp:57-66).     *)
Dead(h) == ~connected[h] \/ lost[h]

LostIsFatal ==
  [][\A at \in {"user_beat", "message_beat"} :
       job[BaseLoop].at = at /\ Dead(Handle(at)) /\ Handle(at) \notin torn =>
         job'[BaseLoop].at = at \/ ended']_vars
=============================================================================
