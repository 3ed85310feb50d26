---------------------------- MODULE DatabaseProofs ----------------------------
(***************************************************************************)
(* Safety of the database access for any number of I/O loops, names and    *)
(* passwords.  The inductive invariant DInv says who may be inside the     *)
(* library, whose result waits, and that a waiting answer to verifyUser is *)
(* still true: the table only grows.                                       *)
(***************************************************************************)
EXTENDS Database, TLAPS

Types ==
  /\ connected \in [Handles -> BOOLEAN] /\ lost \in [Handles -> BOOLEAN]
  /\ waiting \in [Handles -> [by : Threads \cup {None}, r : Results]]
  /\ torn \subseteq Handles /\ ended \in BOOLEAN
  /\ users \subseteq Users \X Passwords /\ told \subseteq Users \X Passwords
  /\ job \in [Threads -> Jobs]

\* A request about a name and a password has them.
Named(j) ==
  j.at \in {"exists", "insert", "verify", "known"} => j.u \in Users /\ j.p \in Passwords

\* Only a thread with a statement, on a handle that is connected, is on its
\* way through the library.
Calling == \A t \in Threads :
  /\ Named(job[t])
  /\ job[t].in # "no" => job[t].at \in Statements /\ connected[Handle(job[t].at)]
  /\ job[t].in \in {"between", "store"} => job[t].at \in UserSelects \cup MessageSelects

\* Whose result waits.
Expected == \A h \in Handles \ torn : waiting[h].by # None /\ ~ended =>
  Handle(job[waiting[h].by].at) = h /\ job[waiting[h].by].in \in {"between", "store"}

\* The password that waits for a login is in the table.
AnswerTrue == \A t \in Threads :
  "user" \notin torn /\ waiting["user"].by = t /\ job[t].at = "verify"
    /\ waiting["user"].r \in Passwords
  => <<job[t].u, waiting["user"].r>> \in users

\* What was told is true.
ToldTrue == UniqueKey /\ "user" \notin torn => told \subseteq users /\ KeyHolds(users)

DInv == Types /\ Calling /\ Expected /\ OwnResult /\ AnswerTrue /\ NoFalseLogin /\ ToldTrue

LEMMA HandleType == ASSUME NEW at PROVE Handle(at) \in Handles
  BY DEF Handle, Handles

LEMMA IdleJob == Idle \in Jobs /\ Named(Idle) /\ Idle.in = "no" /\ Idle.at = "idle"
  BY DEF Idle, Jobs, Phases, Named

LEMMA InitDInv == Init => DInv
<1> SUFFICES ASSUME Init PROVE DInv
  OBVIOUS
<1>1. Types
  BY IdleJob, NamesAssumption DEF Init, Types, NoResult, Results, Handles
<1>2. \A t \in Threads : job[t] = Idle
  BY DEF Init
<1>3. \A h \in Handles : waiting[h].by = None
  BY DEF Init, NoResult
<1>4. Calling
  BY <1>2, IdleJob DEF Calling
<1>5. Expected /\ OwnResult /\ NoFalseLogin
  BY <1>2, <1>3, IdleJob DEF Expected, OwnResult, NoFalseLogin
<1>6. AnswerTrue
  BY <1>2, IdleJob DEF AnswerTrue
<1>7. ToldTrue
  BY DEF Init, ToldTrue
<1> QED
  BY <1>1, <1>4, <1>5, <1>6, <1>7 DEF DInv

(* What DInv is for. *)
LEMMA DInvImplies ==
  DInv => TypeOK /\ OwnResult /\ NoFalseLogin /\ RegisteredIsStored
<1> SUFFICES ASSUME DInv PROVE TypeOK /\ RegisteredIsStored
  BY DEF DInv
<1>1. ClosedIsUnused
  BY DEF DInv, Calling, ClosedIsUnused, Inside, Using
<1>2. TypeOK
  BY <1>1 DEF DInv, Types, Expected, TypeOK
<1>3. RegisteredIsStored
  BY DEF DInv, ToldTrue, KeyHolds, RegisteredIsStored
<1> QED
  BY <1>1, <1>2, <1>3

-----------------------------------------------------------------------------
(* The continuation of a request: the process ends, or one thread moves on *)
(* to a job that is not yet in the library.                                *)
Continued(t, r) ==
  \/ ended' = TRUE /\ job' = [s \in Threads |-> Idle] /\ told' = told
  \/ /\ ended' = ended
     /\ \E j \in Jobs :
          /\ job' = [job EXCEPT ![t] = j] /\ j.in = "no" /\ Named(j)
          /\ j.at = "known" => job[t].at = "verify" /\ r = job[t].p
                                 /\ j.u = job[t].u /\ j.p = job[t].p
     /\ \/ told' = told
        \/ /\ job[t].at = "insert" /\ r # None /\ "user" \notin torn
           /\ told' = told \cup {<<job[t].u, job[t].p>>}

LEMMA GoOnContinues ==
  ASSUME Types, Calling, NEW t \in Threads, NEW r, GoOn(t, r)
  PROVE  Continued(t, r)
<1>0. job[t] \in Jobs /\ Named(job[t])
  BY DEF Types, Calling
<1>1. ASSUME Return(t), ended' = ended,
             \/ told' = told
             \/ /\ job[t].at = "insert" /\ r # None /\ "user" \notin torn
                /\ told' = told \cup {<<job[t].u, job[t].p>>}
      PROVE  Continued(t, r)
  BY <1>1, IdleJob DEF Return, Continued
<1>2. ASSUME LoginEnds(t), UNCHANGED <<told, ended>> PROVE Continued(t, r)
  <2> DEFINE j == [Idle EXCEPT !.at = "history"]
  <2>1. j \in Jobs /\ j.in = "no" /\ j.at = "history" /\ Named(j)
    BY DEF Idle, Jobs, Phases, Statements, MessageSelects, Named
  <2> QED
    BY <1>2, <2>1 DEF LoginEnds, Continued
<1>3. ASSUME NEW at \in Statements, Then(t, at), UNCHANGED <<told, ended>>,
             at \in {"insert", "known", "save", "message_beat"},
             at = "insert" => job[t].at = "exists",
             at = "known" => job[t].at = "verify" /\ r = job[t].p
      PROVE  Continued(t, r)
  <2> DEFINE j == [job[t] EXCEPT !.at = at, !.in = "no"]
  <2>1. j \in Jobs /\ j.in = "no" /\ j.at = at /\ j.u = job[t].u /\ j.p = job[t].p
    BY <1>0 DEF Jobs, Phases
  <2>2. Named(j)
    BY <1>0, <1>3, <2>1 DEF Named
  <2>3. job' = [job EXCEPT ![t] = j]
    BY <1>3, <1>0 DEF Then, Types
  <2> HIDE DEF j
  <2> QED
    BY <1>3, <2>1, <2>2, <2>3 DEF Continued
<1>4. {"insert", "known", "save", "message_beat"} \subseteq Statements
  BY DEF Statements, UserSelects, MessageSelects
<1>5. CASE UserExists(t, r)
  BY <1>5, <1>1, <1>3, <1>4 DEF UserExists
<1>6. CASE InsertUser(t, r)
  BY <1>6, <1>1 DEF InsertUser
<1>7. CASE VerifyUser(t, r)
  BY <1>7, <1>2, <1>3, <1>4 DEF VerifyUser
<1>8. CASE LoginSucceeds(t, r)
  BY <1>8, <1>2 DEF LoginSucceeds
<1>9. CASE ChatSender(t, r)
  BY <1>9, <1>1, <1>3, <1>4 DEF ChatSender
<1>10. CASE MessageDone(t, r)
  BY <1>10, <1>1 DEF MessageDone
<1>11. CASE HeartBeat(t, r)
  <2>1. CASE r = None
    BY <1>11, <2>1 DEF HeartBeat, Exit, Continued
  <2>2. CASE r # None
    BY <1>11, <2>2, <1>1, <1>3, <1>4 DEF HeartBeat
  <2> QED
    BY <2>1, <2>2
<1> QED
  BY <1>5, <1>6, <1>7, <1>8, <1>9, <1>10, <1>11 DEF GoOn

-----------------------------------------------------------------------------
(* A statement is over: what must be true of the handles, the table and    *)
(* the result for DInv to hold when the request goes on.                   *)
LEMMA StatementOver ==
  ASSUME DInv, ~ended, NEW t \in Threads, NEW r, Continued(t, r),
         UNCHANGED <<connected, torn>>, lost' \in [Handles -> BOOLEAN],
         users \subseteq users', users' \subseteq Users \X Passwords,
         waiting' \in [Handles -> [by : Threads \cup {None}, r : Results]],
         job[t].at \in Statements,
         \A h \in Handles \ torn :
           \/ waiting'[h] = waiting[h] /\ waiting[h].by # t
           \/ waiting'[h] = NoResult /\ waiting[h].by = t,
         "user" \notin torn /\ job[t].at = "verify" /\ r = job[t].p =>
           <<job[t].u, job[t].p>> \in users,
         UniqueKey /\ "user" \notin torn =>
           /\ KeyHolds(users')
           /\ job[t].at = "insert" /\ r # None => <<job[t].u, job[t].p>> \in users'
  PROVE  DInv'
<1>0. Types /\ Calling /\ Expected /\ OwnResult /\ AnswerTrue /\ NoFalseLogin /\ ToldTrue
  BY DEF DInv
<1>1. CASE ended' = TRUE /\ job' = [s \in Threads |-> Idle] /\ told' = told
  <2>1. \A s \in Threads : job'[s] = Idle
    BY <1>1
  <2>2. Types'
    BY <1>0, <1>1, IdleJob DEF Types
  <2>3. Calling' /\ OwnResult' /\ AnswerTrue' /\ NoFalseLogin' /\ Expected'
    BY <2>1, <1>1, IdleJob DEF Calling, OwnResult, AnswerTrue, NoFalseLogin, Expected, Named
  <2>4. ToldTrue'
    BY <1>0, <1>1 DEF ToldTrue
  <2> QED
    BY <2>2, <2>3, <2>4 DEF DInv
<1>2. CASE ~(ended' = TRUE /\ job' = [s \in Threads |-> Idle] /\ told' = told)
  <2>1. PICK j \in Jobs :
          /\ job' = [job EXCEPT ![t] = j] /\ j.in = "no" /\ Named(j)
          /\ j.at = "known" => job[t].at = "verify" /\ r = job[t].p
                                 /\ j.u = job[t].u /\ j.p = job[t].p
    BY <1>2 DEF Continued
  <2>2. /\ ended' = ended
        /\ \/ told' = told
           \/ /\ job[t].at = "insert" /\ r # None /\ "user" \notin torn
              /\ told' = told \cup {<<job[t].u, job[t].p>>}
    BY <1>2 DEF Continued
  <2>3. job'[t] = j /\ \A s \in Threads \ {t} : job'[s] = job[s]
    BY <2>1, <1>0 DEF Types
  <2>4. Types'
    <3>1. job[t].at = "insert" => job[t].u \in Users /\ job[t].p \in Passwords
      BY <1>0 DEF Calling, Named
    <3>2. told' \subseteq Users \X Passwords
      BY <1>0, <2>2, <3>1 DEF Types
    <3>3. job' \in [Threads -> Jobs]
      BY <2>1, <1>0 DEF Types
    <3> QED
      BY <1>0, <2>2, <3>2, <3>3 DEF Types
  <2>5. Calling'
    BY <1>0, <2>1, <2>3 DEF Calling, Named
  <2>6. Expected'
    <3> SUFFICES ASSUME NEW h \in Handles \ torn, waiting'[h].by # None
                 PROVE  /\ Handle(job'[waiting'[h].by].at) = h
                        /\ job'[waiting'[h].by].in \in {"between", "store"}
      BY DEF Expected
    <3>1. waiting'[h] = waiting[h] /\ waiting[h].by # t
      BY DEF NoResult
    <3>2. waiting[h].by \in Threads \ {t}
      BY <3>1, <1>0 DEF Types
    <3> QED
      BY <1>0, <2>3, <3>1, <3>2 DEF Expected
  <2>7. OwnResult'
    <3> SUFFICES ASSUME NEW s \in Threads, job'[s].in \in {"between", "store"},
                        Handle(job'[s].at) \notin torn
                 PROVE  waiting'[Handle(job'[s].at)].by = s
      BY DEF OwnResult
    <3>1. s # t /\ job'[s] = job[s]
      BY <2>1, <2>3
    <3>2. waiting[Handle(job[s].at)].by = s
      BY <1>0, <3>1 DEF OwnResult
    <3> QED
      BY <3>1, <3>2, HandleType
  <2>8. AnswerTrue'
    <3> SUFFICES ASSUME NEW s \in Threads, "user" \notin torn, waiting'["user"].by = s,
                        job'[s].at = "verify", waiting'["user"].r \in Passwords
                 PROVE  <<job'[s].u, waiting'["user"].r>> \in users'
      BY DEF AnswerTrue
    <3>1. waiting'["user"] = waiting["user"] /\ waiting["user"].by # t
      <4>1. "user" \in Handles \ torn
        BY DEF Handles
      <4>2. s # None
        BY NamesAssumption DEF Threads
      <4>3. NoResult.by = None
        BY DEF NoResult
      <4> QED
        BY <4>1, <4>2, <4>3
    <3>2. s # t /\ job'[s] = job[s]
      BY <3>1, <2>3
    <3> QED
      BY <1>0, <3>1, <3>2 DEF AnswerTrue
  <2>9. NoFalseLogin'
    <3> SUFFICES ASSUME NEW s \in Threads, job'[s].at = "known", "user" \notin torn
                 PROVE  <<job'[s].u, job'[s].p>> \in users'
      BY DEF NoFalseLogin
    <3>1. CASE s = t
      BY <3>1, <2>1, <2>3
    <3>2. CASE s # t
      BY <3>2, <2>3, <1>0 DEF NoFalseLogin
    <3> QED
      BY <3>1, <3>2
  <2>10. ToldTrue'
    BY <1>0, <2>2 DEF ToldTrue
  <2> QED
    BY <2>4, <2>5, <2>6, <2>7, <2>8, <2>9, <2>10 DEF DInv
<1> QED
  BY <1>1, <1>2

(* A thread that is not about to store a result is not waited for. *)
LEMMA NotWaitedFor ==
  ASSUME DInv, ~ended, NEW t \in Threads, job[t].in \in {"no", "escape", "query"},
         NEW h \in Handles \ torn
  PROVE  waiting[h].by # t
<1>1. t # None
  BY NamesAssumption DEF Threads
<1> QED
  BY <1>1 DEF DInv, Expected

(* The steps of a thread through the library that end a statement. *)
LEMMA LibraryFails ==
  ASSUME DInv, ~ended, NEW t \in Threads, job[t].in \in {"no", "query"}, job[t].at \in Statements,
         GoOn(t, None), UNCHANGED <<connected, lost, waiting, torn, users>>
  PROVE  DInv'
<1>1. Continued(t, None)
  BY GoOnContinues DEF DInv
<1>2. \A h \in Handles \ torn : waiting'[h] = waiting[h] /\ waiting[h].by # t
  BY NotWaitedFor
<1>3. ~(job[t].at = "verify" /\ None = job[t].p)
  BY NamesAssumption DEF DInv, Calling, Named
<1>4. UniqueKey /\ "user" \notin torn => KeyHolds(users)
  BY DEF DInv, ToldTrue
<1>5. waiting' \in [Handles -> [by : Threads \cup {None}, r : Results]]
  BY DEF DInv, Types
<1>6. users \subseteq Users \X Passwords /\ lost' \in [Handles -> BOOLEAN]
  BY DEF DInv, Types
<1> QED
  BY <1>1, <1>2, <1>3, <1>4, <1>5, <1>6, StatementOver

LEMMA Inserted ==
  ASSUME DInv, NEW t \in Threads, InsertReturns(t)
  PROVE  DInv'
<1> DEFINE h == Handle(job[t].at)
           isUser == job[t].at = "insert"
           ok == InSync(h) /\ (isUser => ~Taken(job[t].u))
           row == <<job[t].u, job[t].p>>
<1>1. /\ ~ended /\ job[t].in = "query" /\ job[t].at \in {"insert", "save"}
      /\ job[t].at \in Statements
      /\ users' = IF ok /\ isUser THEN users \cup {row} ELSE users
      /\ UNCHANGED <<connected, waiting, torn>>
      /\ \/ GoOn(t, IF ok THEN Done ELSE None) /\ UNCHANGED lost
         \/ ok /\ GoOn(t, None) /\ lost' = [lost EXCEPT ![h] = TRUE]
  BY DEF InsertReturns, Doing
<1>a. lost' \in [Handles -> BOOLEAN]
  BY <1>1 DEF DInv, Types
<1>b. PICK r : GoOn(t, r) /\ (r # None => ok)
  BY <1>1
<1>2. Continued(t, r)
  BY <1>b, GoOnContinues DEF DInv
<1>3. \A g \in Handles \ torn : waiting'[g] = waiting[g] /\ waiting[g].by # t
  BY <1>1, NotWaitedFor
<1>4. waiting' \in [Handles -> [by : Threads \cup {None}, r : Results]]
  BY <1>1 DEF DInv, Types
<1>5. isUser => job[t].u \in Users /\ job[t].p \in Passwords
  BY DEF DInv, Calling, Named
<1>6. users \subseteq users' /\ users' \subseteq Users \X Passwords
  BY <1>1, <1>5 DEF DInv, Types
<1>7. ASSUME UniqueKey, "user" \notin torn
      PROVE  KeyHolds(users') /\ (isUser /\ r # None => row \in users')
  <2>1. KeyHolds(users) /\ users \subseteq Users \X Passwords
    BY <1>7 DEF DInv, ToldTrue, Types
  <2>2. CASE ok /\ isUser
    <3>1. \A p \in Passwords : <<job[t].u, p>> \notin users
      BY <1>7, <2>2 DEF Taken
    <3>2. \A x \in users : x[1] # job[t].u
      BY <2>1, <3>1
    <3>3. users' = users \cup {row} /\ row[1] = job[t].u
      BY <1>1, <2>2
    <3>4. ASSUME NEW x \in users', NEW y \in users', x[1] = y[1] PROVE x = y
      BY <2>1, <3>2, <3>3, <3>4 DEF KeyHolds
    <3> QED
      BY <3>3, <3>4 DEF KeyHolds
  <2>3. CASE ~(ok /\ isUser)
    BY <1>1, <1>b, <2>1, <2>3
  <2> QED
    BY <2>2, <2>3
<1>8. job[t].at # "verify"
  BY <1>1
<1> HIDE DEF ok, h
<1> QED
  BY <1>a, <1>1, <1>2, <1>3, <1>4, <1>6, <1>7, <1>8, StatementOver

LEMMA Stored ==
  ASSUME DInv, NEW t \in Threads, StoreReturns(t)
  PROVE  DInv'
<1> DEFINE h == Handle(job[t].at)
           r == IF lost[h] THEN None ELSE waiting[h].r
<1>1. /\ ~ended /\ job[t].in = "store" /\ job[t].at \in Statements /\ h \in Handles \ torn
      /\ GoOn(t, r) /\ UNCHANGED <<connected, lost, torn, users>>
      /\ waiting' = [waiting EXCEPT ![h] = NoResult]
  BY HandleType DEF StoreReturns, Doing
<1>2. Continued(t, r)
  BY <1>1, GoOnContinues DEF DInv
<1>3. waiting[h].by = t
  BY <1>1 DEF DInv, OwnResult
<1>4. t # None
  BY NamesAssumption DEF Threads
<1>5. ASSUME NEW g \in Handles \ torn
      PROVE  \/ waiting'[g] = waiting[g] /\ waiting[g].by # t
             \/ waiting'[g] = NoResult /\ waiting[g].by = t
  <2>1. CASE g = h
    BY <2>1, <1>1, <1>3 DEF DInv, Types
  <2>2. CASE g # h
    <3>1. waiting'[g] = waiting[g]
      BY <2>2, <1>1 DEF DInv, Types
    <3>2. waiting[g].by # t
      BY <2>2, <1>1, <1>4 DEF DInv, Expected
    <3> QED
      BY <3>1, <3>2
  <2> QED
    BY <2>1, <2>2
<1>6. waiting' \in [Handles -> [by : Threads \cup {None}, r : Results]]
  BY <1>1 DEF DInv, Types, NoResult, Results
<1>7. "user" \notin torn /\ job[t].at = "verify" /\ r = job[t].p =>
        <<job[t].u, job[t].p>> \in users
  <2> SUFFICES ASSUME "user" \notin torn, job[t].at = "verify", r = job[t].p
               PROVE  <<job[t].u, job[t].p>> \in users
    OBVIOUS
  <2>1. h = "user"
    BY DEF Handle, UserSelects
  <2>2. job[t].p \in Passwords
    BY DEF DInv, Calling, Named
  <2>3. waiting["user"].r = job[t].p
    BY <2>1, <2>2, NamesAssumption
  <2> QED
    BY <1>3, <2>1, <2>2, <2>3 DEF DInv, AnswerTrue
<1>8. /\ users \subseteq Users \X Passwords /\ lost' \in [Handles -> BOOLEAN]
      /\ UniqueKey /\ "user" \notin torn => KeyHolds(users)
  BY <1>1 DEF DInv, Types, ToldTrue
<1>9. job[t].at # "insert"
  BY <1>1 DEF DInv, Calling, UserSelects, MessageSelects
<1> HIDE DEF r, h
<1> QED
  BY <1>1, <1>2, <1>5, <1>6, <1>7, <1>8, <1>9, StatementOver

LEMMA Torn ==
  ASSUME DInv, NEW t \in Threads, TornReturns(t)
  PROVE  DInv'
<1> DEFINE h == Handle(job[t].at)
<1>1. /\ ~ended /\ job[t].at \in Statements /\ h \in torn /\ h \in Handles
      /\ UNCHANGED <<connected, lost, torn>>
      /\ waiting' = [waiting EXCEPT ![h] = NoResult]
  BY HandleType DEF TornReturns
<1>2. PICK r : Continued(t, r)
  <2>1. CASE Exit /\ UNCHANGED <<users, told>>
    BY <2>1 DEF Exit, Continued
  <2>2. CASE \E r \in Results : GoOn(t, r)
    BY <2>2, GoOnContinues DEF DInv
  <2> QED
    BY <2>1, <2>2 DEF TornReturns
<1>3. /\ users \subseteq users' /\ users' \subseteq Users \X Passwords
      /\ job[t].at # "insert" => users' = users
  <2>1. job[t].at = "insert" => job[t].u \in Users /\ job[t].p \in Passwords
    BY DEF DInv, Calling, Named
  <2> QED
    BY <2>1 DEF TornReturns, DInv, Types
<1>4. t # None
  BY NamesAssumption DEF Threads
<1>5. \A g \in Handles \ torn : waiting'[g] = waiting[g] /\ waiting[g].by # t
  <2> TAKE g \in Handles \ torn
  <2>1. g # h
    BY <1>1
  <2>2. waiting'[g] = waiting[g]
    BY <1>1, <2>1 DEF DInv, Types
  <2>3. waiting[g].by # t
    BY <1>1, <1>4, <2>1 DEF DInv, Expected
  <2> QED
    BY <2>2, <2>3
<1>6. waiting' \in [Handles -> [by : Threads \cup {None}, r : Results]]
  BY <1>1 DEF DInv, Types, NoResult, Results
<1>7. "user" \notin torn => job[t].at \notin {"verify", "insert"}
  BY <1>1 DEF Handle, UserSelects
<1>8. /\ UniqueKey /\ "user" \notin torn => KeyHolds(users')
      /\ lost' \in [Handles -> BOOLEAN]
  BY <1>1, <1>3, <1>7 DEF DInv, ToldTrue, Types
<1> HIDE DEF h
<1> QED
  BY <1>1, <1>2, <1>3, <1>5, <1>6, <1>7, <1>8, StatementOver

-----------------------------------------------------------------------------
(* One thread moves on in its statement, or begins a request: nothing else *)
(* changes, except that its handle may be torn.                            *)
LEMMA ThreadMoves ==
  ASSUME DInv, ~ended, NEW t \in Threads, NEW j \in Jobs,
         job' = [job EXCEPT ![t] = j], Named(j),
         torn \subseteq torn', torn' \subseteq Handles,
         UNCHANGED <<connected, lost, waiting, users, told, ended>>,
         j.in # "no" => j.at \in Statements /\ connected[Handle(j.at)],
         j.in \in {"between", "store"} =>
           /\ j.at \in UserSelects \cup MessageSelects
           /\ Handle(j.at) \in torn' \/ waiting[Handle(j.at)].by = t,
         \A h \in Handles \ torn' : waiting[h].by = t =>
           Handle(j.at) = h /\ j.in \in {"between", "store"} /\ j.at = job[t].at /\ j.u = job[t].u,
         j.at = "known" => job[t].at = "known" /\ j.u = job[t].u /\ j.p = job[t].p
  PROVE  DInv'
<1>0. Types /\ Calling /\ Expected /\ OwnResult /\ AnswerTrue /\ NoFalseLogin /\ ToldTrue
  BY DEF DInv
<1>1. job'[t] = j /\ \A s \in Threads \ {t} : job'[s] = job[s]
  BY <1>0 DEF Types
<1>2. Types'
  BY <1>0 DEF Types
<1>3. Calling'
  BY <1>0, <1>1 DEF Calling, Named
<1>4. Expected'
  <2> SUFFICES ASSUME NEW h \in Handles \ torn', waiting[h].by # None
               PROVE  /\ Handle(job'[waiting[h].by].at) = h
                      /\ job'[waiting[h].by].in \in {"between", "store"}
    BY DEF Expected
  <2>1. CASE waiting[h].by = t
    BY <2>1, <1>1
  <2>2. CASE waiting[h].by # t
    <3>1. waiting[h].by \in Threads \ {t} /\ h \in Handles \ torn
      BY <2>2, <1>0 DEF Types
    <3> QED
      BY <3>1, <1>0, <1>1 DEF Expected
  <2> QED
    BY <2>1, <2>2
<1>5. OwnResult'
  <2> SUFFICES ASSUME NEW s \in Threads, job'[s].in \in {"between", "store"}
               PROVE  \/ Handle(job'[s].at) \in torn'
                      \/ waiting[Handle(job'[s].at)].by = s
    BY DEF OwnResult
  <2>1. CASE s = t
    BY <2>1, <1>1
  <2>2. CASE s # t
    BY <2>2, <1>0, <1>1 DEF OwnResult
  <2> QED
    BY <2>1, <2>2
<1>6. AnswerTrue'
  <2> SUFFICES ASSUME NEW s \in Threads, "user" \notin torn', waiting["user"].by = s,
                      job'[s].at = "verify", waiting["user"].r \in Passwords
               PROVE  <<job'[s].u, waiting["user"].r>> \in users
    BY DEF AnswerTrue
  <2>1. "user" \in Handles \ torn' /\ "user" \notin torn
    BY DEF Handles
  <2>2. job'[s].at = job[s].at /\ job'[s].u = job[s].u
    BY <1>1, <2>1
  <2> QED
    BY <1>0, <2>1, <2>2 DEF AnswerTrue
<1>7. NoFalseLogin'
  BY <1>0, <1>1 DEF NoFalseLogin
<1>8. ToldTrue'
  BY <1>0 DEF ToldTrue
<1> QED
  BY <1>2, <1>3, <1>4, <1>5, <1>6, <1>7, <1>8 DEF DInv

LEMMA Entered ==
  ASSUME DInv, NEW t \in Threads, CallEscape(t) \/ CallQuery(t) \/ CallStore(t)
  PROVE  DInv'
<1>0. PICK phase \in {"escape", "query", "store"} :
        /\ ~ended /\ job[t].at \in Statements
        /\ job' = [job EXCEPT ![t].in = phase]
        /\ torn' \in {torn, torn \cup {Handle(job[t].at)}} /\ Handle(job[t].at) \notin torn
        /\ UNCHANGED <<connected, lost, waiting, users, told, ended>>
        /\ phase # "store" => job[t].in \in {"no", "escape"} /\ connected[Handle(job[t].at)]
        /\ phase = "store" => job[t].in = "between"
  <2>1. CASE CallEscape(t)
    BY <2>1 DEF CallEscape, Doing
  <2>2. CASE CallQuery(t)
    BY <2>2 DEF CallQuery, Doing, Enter
  <2>3. CASE CallStore(t)
    BY <2>3 DEF CallStore, Doing, Enter
  <2> QED
    BY <2>1, <2>2, <2>3
<1> DEFINE j == [job[t] EXCEPT !.in = phase]
           h == Handle(job[t].at)
<1>3. job[t] \in Jobs /\ Named(job[t]) /\ h \in Handles
  BY HandleType DEF DInv, Types, Calling
<1>4. /\ j \in Jobs /\ j.in = phase
      /\ j.at = job[t].at /\ j.u = job[t].u /\ j.p = job[t].p
  BY <1>0, <1>3 DEF Jobs, Phases
<1>5. job' = [job EXCEPT ![t] = j]
  BY <1>0 DEF DInv, Types
<1>6. /\ torn \subseteq torn' /\ torn' \subseteq Handles /\ h \notin torn
      /\ UNCHANGED <<connected, lost, waiting, users, told, ended>>
  BY <1>0, <1>3 DEF DInv, Types
<1>7. Named(j)
  BY <1>3, <1>4 DEF Named
<1>8. connected[h]
  BY <1>0 DEF DInv, Calling
<1>9. phase = "store" =>
        job[t].at \in UserSelects \cup MessageSelects /\ (h \in torn' \/ waiting[h].by = t)
  BY <1>0, <1>6 DEF DInv, Calling, OwnResult
<1>10. \A g \in Handles \ torn' : waiting[g].by = t => h = g /\ phase = "store"
  <2> TAKE g \in Handles \ torn'
  <2>1. g \in Handles \ torn /\ t # None
    BY <1>6, NamesAssumption DEF Threads
  <2> QED
    BY <1>0, <2>1 DEF DInv, Expected
<1> HIDE DEF j, h
<1> QED
  <2>1. Handle(j.at) = h
    BY <1>4 DEF h
  <2> QED
    BY <1>0, <1>4, <1>5, <1>6, <1>7, <1>8, <1>9, <1>10, <2>1, ThreadMoves

LEMMA Begun ==
  ASSUME DInv, NEW t \in Threads, NEW at \in Statements \ {"known"},
         NEW u \in Users \cup {None}, NEW p \in Passwords \cup {None},
         at \in {"exists", "insert", "verify"} => u \in Users /\ p \in Passwords,
         Request(t, at, u, p)
  PROVE  DInv'
<1> DEFINE j == [Idle EXCEPT !.at = at, !.u = u, !.p = p]
<1>1. j \in Jobs /\ j.in = "no" /\ j.at = at /\ j.u = u /\ j.p = p
  BY DEF Idle, Jobs, Phases
<1>2. Named(j)
  BY <1>1 DEF Named
<1>3. /\ ~ended /\ job[t] = Idle /\ job' = [job EXCEPT ![t] = j]
      /\ UNCHANGED <<connected, lost, waiting, torn, users, told, ended>>
  BY DEF Request, library
<1>4. \A h \in Handles \ torn : waiting[h].by # t
  BY <1>3, IdleJob, NotWaitedFor
<1>5. torn \subseteq Handles
  BY DEF DInv, Types
<1> HIDE DEF j
<1> QED
  BY <1>1, <1>2, <1>3, <1>4, <1>5, ThreadMoves

(* What a SELECT answers is in the table. *)
LEMMA AnswersTrue ==
  ASSUME NEW j, NEW r \in Answers(j)
  PROVE  /\ r \in Results
         /\ j.at = "verify" /\ r \in Passwords => <<j.u, r>> \in users
  BY NamesAssumption DEF Answers, Results, NoRow, Done

LEMMA Selected ==
  ASSUME DInv, NEW t \in Threads, SelectReturns(t)
  PROVE  DInv'
<1> DEFINE h == Handle(job[t].at)
           j == [job[t] EXCEPT !.in = "between"]
<1>1. /\ ~ended /\ job[t].in = "query" /\ job[t].at \in UserSelects \cup MessageSelects
      /\ job[t].at \in Statements /\ h \in Handles \ torn
      /\ UNCHANGED <<connected, lost, torn, users>>
  BY HandleType DEF SelectReturns, Select, Doing
<1>2. CASE ~InSync(h)
  <2>1. GoOn(t, None) /\ waiting' = waiting
    BY <1>2 DEF SelectReturns
  <2> QED
    BY <1>1, <2>1, LibraryFails
<1>3. CASE InSync(h)
  <2>0. Types /\ Calling /\ Expected /\ OwnResult /\ AnswerTrue /\ NoFalseLogin /\ ToldTrue
    BY DEF DInv
  <2>1. PICK r \in Answers(job[t]) : waiting' = [waiting EXCEPT ![h] = [by |-> t, r |-> r]]
    BY <1>3 DEF SelectReturns
  <2>2. /\ job' = [job EXCEPT ![t].in = "between"] /\ UNCHANGED <<told, ended>>
        /\ waiting[h].by = None
    BY <1>3 DEF SelectReturns, InSync
  <2>3. /\ waiting'[h] = [by |-> t, r |-> r]
        /\ \A g \in Handles \ {h} : waiting'[g] = waiting[g]
    BY <1>1, <2>0, <2>1 DEF Types
  <2>4. /\ job'[t] = j /\ job[t] \in Jobs
        /\ \A s \in Threads \ {t} : job'[s] = job[s]
    BY <2>0, <2>2 DEF Types
  <2>5. /\ j \in Jobs /\ j.in = "between"
        /\ j.at = job[t].at /\ j.u = job[t].u /\ j.p = job[t].p
    BY <2>4 DEF Jobs, Phases
  <2>6. Types'
    <3>1. waiting' \in [Handles -> [by : Threads \cup {None}, r : Results]]
      BY <2>0, <2>1, AnswersTrue DEF Types
    <3>2. job' \in [Threads -> Jobs]
      <4>1. job' = [job EXCEPT ![t] = j]
        BY <2>0, <2>2 DEF Types
      <4> QED
        BY <2>0, <2>5, <4>1 DEF Types
    <3> QED
      BY <1>1, <2>0, <2>2, <3>1, <3>2 DEF Types
  <2>7. Calling'
    BY <1>1, <2>0, <2>4, <2>5 DEF Calling, Named
  <2>8. Expected'
    <3> SUFFICES ASSUME NEW g \in Handles \ torn, waiting'[g].by # None
                 PROVE  /\ Handle(job'[waiting'[g].by].at) = g
                        /\ job'[waiting'[g].by].in \in {"between", "store"}
      BY <1>1 DEF Expected
    <3>1. CASE g = h
      <4>1. waiting'[g].by = t
        BY <3>1, <2>3
      <4>2. job'[t].at = job[t].at /\ job'[t].in = "between"
        BY <2>4, <2>5
      <4> QED
        BY <3>1, <4>1, <4>2
    <3>2. CASE g # h
      <4>1. waiting'[g] = waiting[g]
        BY <3>2, <2>3
      <4>2. waiting[g].by # t
        BY <1>1, NotWaitedFor
      <4>3. waiting[g].by \in Threads \ {t}
        BY <2>0, <4>1, <4>2 DEF Types
      <4> QED
        BY <1>1, <2>0, <2>4, <4>1, <4>3 DEF Expected
    <3> QED
      BY <3>1, <3>2
  <2>9. OwnResult'
    <3> SUFFICES ASSUME NEW s \in Threads, job'[s].in \in {"between", "store"},
                        Handle(job'[s].at) \notin torn
                 PROVE  waiting'[Handle(job'[s].at)].by = s
      BY <1>1 DEF OwnResult
    <3>1. CASE s = t
      BY <3>1, <2>3, <2>4, <2>5
    <3>2. CASE s # t
      <4>1. waiting[Handle(job[s].at)].by = s /\ job'[s] = job[s]
        BY <3>2, <2>0, <2>4 DEF OwnResult
      <4>2. s # None
        BY NamesAssumption DEF Threads
      <4> QED
        BY <2>2, <2>3, <4>1, <4>2, HandleType
    <3> QED
      BY <3>1, <3>2
  <2>10. AnswerTrue'
    <3> SUFFICES ASSUME NEW s \in Threads, "user" \notin torn, waiting'["user"].by = s,
                        job'[s].at = "verify", waiting'["user"].r \in Passwords
                 PROVE  <<job'[s].u, waiting'["user"].r>> \in users
      BY <1>1 DEF AnswerTrue
    <3>0. "user" \in Handles
      BY DEF Handles
    <3>1. CASE h = "user"
      <4>1. s = t /\ waiting'["user"].r = r
        BY <3>1, <2>3
      <4> QED
        BY <4>1, <2>4, <2>5, AnswersTrue
    <3>2. CASE h # "user"
      <4>1. waiting'["user"] = waiting["user"]
        BY <3>0, <3>2, <2>3
      <4>2. s # t /\ job'[s] = job[s]
        BY <1>1, <3>0, <4>1, <2>4, NotWaitedFor
      <4> QED
        BY <2>0, <4>1, <4>2 DEF AnswerTrue
    <3> QED
      BY <3>1, <3>2
  <2>11. NoFalseLogin'
    BY <1>1, <2>0, <2>4, <2>5 DEF NoFalseLogin
  <2>12. ToldTrue'
    BY <1>1, <2>0, <2>2 DEF ToldTrue
  <2> QED
    BY <2>6, <2>7, <2>8, <2>9, <2>10, <2>11, <2>12 DEF DInv
<1> QED
  BY <1>2, <1>3

LEMMA Unmoved ==
  ASSUME DInv, lost' \in [Handles -> BOOLEAN],
         UNCHANGED <<connected, waiting, torn, users, told, job, ended>>
  PROVE  DInv'
  BY DEF DInv, Types, Calling, Expected, OwnResult, AnswerTrue, NoFalseLogin, ToldTrue

LEMMA StepDInv == ASSUME DInv, [Next]_vars PROVE DInv'
<1>1. ASSUME NEW t \in Threads, CallStep(t) PROVE DInv'
  <2>1. CASE NotConnected(t)
    BY <2>1, LibraryFails DEF NotConnected, Doing
  <2>2. CASE CallEscape(t) \/ CallQuery(t) \/ CallStore(t)
    BY <2>2, Entered
  <2>3. CASE SelectReturns(t)
    BY <2>3, Selected
  <2>4. CASE InsertReturns(t)
    BY <2>4, Inserted
  <2>5. CASE StoreReturns(t)
    BY <2>5, Stored
  <2>6. CASE TornReturns(t)
    BY <2>6, Torn
  <2> QED
    BY <1>1, <2>1, <2>2, <2>3, <2>4, <2>5, <2>6 DEF CallStep
<1>2. {"exists", "verify", "sender", "history", "user_beat"} \subseteq Statements \ {"known"}
  BY DEF Statements, UserSelects, MessageSelects
<1>3. ASSUME NEW t \in IOLoops, IOStep(t) PROVE DInv'
  <2>0. t \in Threads
    BY DEF Threads
  <2>1. CASE HandleRegister(t)
    BY <2>0, <2>1, <1>2, Begun DEF HandleRegister
  <2>2. CASE HandleLogin(t)
    BY <2>0, <2>2, <1>2, Begun DEF HandleLogin
  <2>3. CASE HandleChat(t)
    BY <2>0, <2>3, <1>2, Begun DEF HandleChat
  <2>4. CASE HandleGetHistory(t)
    BY <2>0, <2>4, <1>2, Begun DEF HandleGetHistory
  <2> QED
    BY <1>3, <2>1, <2>2, <2>3, <2>4 DEF IOStep
<1>4. CASE OnTimer
  BY <1>4, <1>2, Begun DEF OnTimer, Threads
<1>5. ASSUME NEW h \in Handles, Lose(h) PROVE DInv'
  <2>1. lost' \in [Handles -> BOOLEAN]
    BY <1>5 DEF Lose, DInv, Types
  <2> QED
    BY <1>5, <2>1, Unmoved DEF Lose
<1>6. CASE UNCHANGED vars
  BY <1>6, Unmoved DEF vars, DInv, Types
<1> QED
  BY <1>1, <1>3, <1>4, <1>5, <1>6 DEF Next

LEMMA DInvAlways == Spec => []DInv
<1>1. DInv /\ [Next]_vars => DInv'
  BY StepDInv
<1> QED
  BY <1>1, InitDInv, PTL DEF Spec

-----------------------------------------------------------------------------
(* A result that waits on a sound handle belongs to a thread that is going *)
(* to store it, and a handle the constructor closed is never passed to the *)
(* library, for any number of threads (DbConnection.cpp:14-18,45-62).      *)
THEOREM DatabaseTyped == Spec => []TypeOK
  BY DInvAlways, DInvImplies, PTL

(* Without a lock, but as long as no two threads are inside the library    *)
(* with one handle, a thread stores the result of its own query            *)
(* (DbConnection.cpp:45-54).                                               *)
THEOREM ResultsAreOwn == Spec => []OwnResult
  BY DInvAlways, DInvImplies, PTL

(* Nobody is let in with a password that is not in the table               *)
(* (UserDao.cpp:24-58, ChatService.cpp:65-76).                             *)
THEOREM LoginsAreTrue == Spec => []NoFalseLogin
  BY DInvAlways, DInvImplies, PTL

(* Whoever was told that the registration succeeded is in the table, alone *)
(* under that name, if the table has the unique key                        *)
(* (ChatService.cpp:44-56).                                                *)
THEOREM RegistrationsAreStored == Spec => []RegisteredIsStored
  BY DInvAlways, DInvImplies, PTL

-----------------------------------------------------------------------------
(* A beat ends its statement with a result; with none it ends the server.  *)
LEMMA BeatGoesOn ==
  ASSUME Types, job[BaseLoop].at \in {"user_beat", "message_beat"}, GoOn(BaseLoop, None)
  PROVE  ended'
  BY DEF GoOn, UserExists, InsertUser, VerifyUser, LoginSucceeds, ChatSender, MessageDone,
         HeartBeat, Exit

(* A call of one thread leaves the others' jobs alone, or ends the server. *)
LEMMA CallsAreOwn ==
  ASSUME DInv, NEW t \in Threads, CallStep(t)
  PROVE  ended' \/ \A s \in Threads \ {t} : job'[s] = job[s]
<1>0. Types /\ Calling
  BY DEF DInv
<1>1. ASSUME NEW r, GoOn(t, r) PROVE ended' \/ \A s \in Threads \ {t} : job'[s] = job[s]
  <2>1. Continued(t, r)
    BY <1>0, <1>1, GoOnContinues
  <2> QED
    BY <1>0, <2>1 DEF Continued, Types
<1>2. CASE NotConnected(t) \/ InsertReturns(t) \/ StoreReturns(t) \/ TornReturns(t)
  <2>1. CASE Exit
    BY <2>1 DEF Exit
  <2>2. CASE \E r : GoOn(t, r)
    BY <2>2, <1>1
  <2> QED
    BY <1>2, <2>1, <2>2 DEF NotConnected, InsertReturns, StoreReturns, TornReturns
<1>3. CASE CallEscape(t) \/ CallQuery(t) \/ CallStore(t)
  BY <1>0, <1>3 DEF CallEscape, CallQuery, CallStore, Enter, Types
<1>4. CASE SelectReturns(t)
  <2>1. CASE GoOn(t, None)
    BY <2>1, <1>1
  <2>2. CASE job' = [job EXCEPT ![t].in = "between"]
    BY <1>0, <2>2 DEF Types
  <2> QED
    BY <1>4, <2>1, <2>2 DEF SelectReturns
<1> QED
  BY <1>2, <1>3, <1>4 DEF CallStep

(* A beat on a handle without a connection ends the server when its        *)
(* statement ends, in whichever call the loss is met.                      *)
LEMMA BeatStep ==
  ASSUME DInv, NEW at \in {"user_beat", "message_beat"}, CallStep(BaseLoop),
         job[BaseLoop].at = at, Dead(Handle(at)), Handle(at) \notin torn
  PROVE  job'[BaseLoop].at = at \/ ended'
<1>0. Types /\ Calling /\ BaseLoop \in Threads
  BY DEF DInv, Threads
<1>1. CASE NotConnected(BaseLoop)
  BY <1>0, <1>1, BeatGoesOn DEF NotConnected
<1>a. ASSUME NEW phase, job' = [job EXCEPT ![BaseLoop].in = phase]
      PROVE  job'[BaseLoop].at = at
  <2>1. job[BaseLoop] \in Jobs
    BY <1>0 DEF Types
  <2>2. job'[BaseLoop] = [job[BaseLoop] EXCEPT !.in = phase]
    BY <1>0, <1>a DEF Types
  <2> QED
    BY <2>1, <2>2 DEF Jobs
<1>2. CASE CallEscape(BaseLoop) \/ CallQuery(BaseLoop) \/ CallStore(BaseLoop)
  <2>1. \E phase : job' = [job EXCEPT ![BaseLoop].in = phase]
    BY <1>2 DEF CallEscape, CallQuery, CallStore, Enter
  <2> QED
    BY <1>a, <2>1
<1>3. CASE SelectReturns(BaseLoop)
  <2>1. CASE GoOn(BaseLoop, None)
    BY <1>0, <2>1, BeatGoesOn
  <2>2. CASE job' = [job EXCEPT ![BaseLoop].in = "between"]
    BY <1>a, <2>2
  <2> QED
    BY <1>3, <2>1, <2>2 DEF SelectReturns
<1>4. CASE StoreReturns(BaseLoop)
  <2>1. lost[Handle(at)]
    BY <1>0, <1>4 DEF StoreReturns, Doing, Calling, Dead
  <2>2. GoOn(BaseLoop, None)
    BY <1>4, <2>1 DEF StoreReturns
  <2> QED
    BY <1>0, <2>2, BeatGoesOn
<1>5. CASE InsertReturns(BaseLoop) \/ TornReturns(BaseLoop)
  BY <1>5 DEF InsertReturns, TornReturns
<1> QED
  BY <1>1, <1>2, <1>3, <1>4, <1>5 DEF CallStep

(* No beat of the keep-alive timer gets past a handle that is not or no    *)
(* longer connected without ending the server, for any number of threads   *)
(* that use the handle meanwhile (ChatService.cpp:162-168).                *)
THEOREM LossEndsServer == Spec => LostIsFatal
<1>1. ASSUME DInv, Next, NEW at \in {"user_beat", "message_beat"},
             job[BaseLoop].at = at, Dead(Handle(at)), Handle(at) \notin torn
      PROVE  job'[BaseLoop].at = at \/ ended'
  <2>0. Types /\ BaseLoop \in Threads
    BY <1>1 DEF DInv, Threads
  <2>a. BaseLoop \notin IOLoops
    BY NamesAssumption
  <2>1. ASSUME NEW t \in Threads, CallStep(t) PROVE job'[BaseLoop].at = at \/ ended'
    <3>1. CASE t = BaseLoop
      BY <1>1, <2>1, <3>1, BeatStep
    <3>2. CASE t # BaseLoop
      BY <1>1, <2>0, <2>1, <3>2, CallsAreOwn
    <3> QED
      BY <3>1, <3>2
  <2>2. ASSUME NEW t \in IOLoops, IOStep(t) PROVE job'[BaseLoop].at = at
    <3>1. PICK j : job' = [job EXCEPT ![t] = j]
      BY <2>2 DEF IOStep, HandleRegister, HandleLogin, HandleChat, HandleGetHistory, Request
    <3> QED
      BY <1>1, <2>0, <2>a, <3>1 DEF Types
  <2>3. ~OnTimer
    BY <1>1 DEF OnTimer, Request, Idle
  <2>4. ASSUME NEW h \in Handles, Lose(h) PROVE job'[BaseLoop].at = at
    BY <1>1, <2>4 DEF Lose
  <2> QED
    BY <1>1, <2>1, <2>2, <2>3, <2>4 DEF Next
<1>2. DInv /\ [Next]_vars =>
        [\A at \in {"user_beat", "message_beat"} :
           job[BaseLoop].at = at /\ Dead(Handle(at)) /\ Handle(at) \notin torn =>
             job'[BaseLoop].at = at \/ ended']_vars
  BY <1>1
<1> QED
  BY <1>2, DInvAlways, PTL DEF Spec, LostIsFatal
=============================================================================
