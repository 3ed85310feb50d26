-------------------------- MODULE TcpServerProofs --------------------------
(***************************************************************************)
(* Proofs about TcpServer: the start of the pool, the reuse of descriptors *)
(* and the spreading of connections, for any number of threads,            *)
(* connections and descriptors.                                            *)
(***************************************************************************)
EXTENDS TcpServer, Integers, SequenceTheorems, FiniteSetTheorems, TLAPS

-----------------------------------------------------------------------------
(* The inductive invariant.                                                *)

(* TypeOK, the part about the pool and the part about connections.         *)
PoolTypes ==
  /\ numThreads \in 0..MaxThreads
  /\ main \in {"spawn", "sem_wait", "test", "wait", "listen", "loop"}
  /\ thread \in [1..MaxThreads -> {"none", "spawned", "posted", "made", "published", "looping"}]
  /\ sem \in [1..MaxThreads -> 0..1] /\ loop \in [1..MaxThreads -> BOOLEAN]
  /\ loops \in Seq(1..MaxThreads)
  /\ \A i \in 1..Len(loops) : loops[i] = i /\ loop[i] /\ thread[i] \in {"published", "looping"}

ConnTypes ==
  /\ next \in Nat /\ nextConnId \in 1..MaxConns + 1
  /\ connections \subseteq Conns
  /\ state \in [Conns -> {"none", "connecting", "up", "down", "destroyed"}]
  /\ loopOf \in [Conns -> Loops] /\ fdOf \in [Conns -> Fds \cup {NoFd}]
  /\ open \subseteq Conns
  /\ channels \in [Loops -> [Fds -> Conns \cup {NoConn}]]

(* startLoop is at work on thread Current.                                 *)
Starting == main \in {"sem_wait", "test", "wait"}

(* Threads are started one after the other; a semaphore is not posted      *)
(* before its thread runs, and a loop is published by its own thread.      *)
PoolInv ==
  /\ Len(loops) <= numThreads /\ (Starting => Current <= numThreads)
  /\ \A t \in 1..MaxThreads :
       /\ thread[t] \in {"none", "spawned"} => sem[t] = 0
       /\ loop[t] => thread[t] \in {"published", "looping"}
       /\ t > Len(loops) /\ ~(Starting /\ t = Current) => thread[t] = "none"

(* Round robin: no connection before all loops are there, and the loops    *)
(* before next_ have had one connection more than the others.              *)
TurnInv ==
  /\ main # "loop" => nextConnId = 1 /\ next = 0
  /\ loops # <<>> => next < Len(loops)
  /\ \E q \in Nat : \A i \in 1..Len(loops) : Given(i) = IF i <= next THEN q + 1 ELSE q

(* A connection has a descriptor of its own from accept to its destructor, *)
(* which connectDestroyed precedes.                                        *)
ConnInv ==
  /\ \A c \in Conns : c >= nextConnId => state[c] = "none"
  /\ \A c \in Conns : state[c] = "none" => c \notin open
  /\ \A c \in Conns : state[c] \in {"connecting", "up", "down"} => c \in open
  /\ \A c \in open : fdOf[c] \in Fds
  /\ \A c, d \in open : fdOf[c] = fdOf[d] => c = d

(* A functor that waits fits the state of its connection, and no other     *)
(* functor of the connection waits in any loop.                            *)
FunctorSet == [op : {"established", "remove", "destroyed"}, c : Conns]

Fits(f, l, st, lo) ==
  /\ f.op = "established" => st[f.c] = "connecting" /\ l = lo[f.c]
  /\ f.op = "remove" => st[f.c] = "down"
  /\ f.op = "destroyed" => st[f.c] = "down" /\ l = lo[f.c]

QueuesOK(Q, st, lo) ==
  /\ Q \in [Loops -> Seq(FunctorSet)]
  /\ \A l \in Loops : \A i \in 1..Len(Q[l]) : Fits(Q[l][i], l, st, lo)
  /\ \A l, m \in Loops : \A i \in 1..Len(Q[l]), j \in 1..Len(Q[m]) :
       Q[l][i].c = Q[m][j].c => l = m /\ i = j

QueueInv == QueuesOK(functors, state, loopOf)

PInv == PoolTypes /\ PoolInv

SInv == ConnTypes /\ ConnInv /\ QueueInv /\ ChannelFound

-----------------------------------------------------------------------------
(* Queues of functors.                                                     *)

(* No functor of c waits.                                                  *)
Fresh(Q, c) == \A l \in Loops : \A i \in 1..Len(Q[l]) : Q[l][i].c # c

(* The functor at the head of a queue is taken off.                        *)
LEMMA Pop ==
  ASSUME NEW Q, NEW st, NEW lo, QueuesOK(Q, st, lo), NEW l \in Loops, Q[l] # <<>>
  PROVE  LET P == [Q EXCEPT ![l] = Tail(@)] IN
         /\ QueuesOK(P, st, lo) /\ Fresh(P, Head(Q[l]).c)
         /\ Head(Q[l]) \in FunctorSet /\ Fits(Head(Q[l]), l, st, lo)
<1> DEFINE P == [Q EXCEPT ![l] = Tail(@)]
           At(m, i) == IF m = l THEN i + 1 ELSE i
<1>1. Q \in [Loops -> Seq(FunctorSet)] /\ Q[l] \in Seq(FunctorSet)
  BY DEF QueuesOK
<1>2. /\ Tail(Q[l]) \in Seq(FunctorSet) /\ Len(Tail(Q[l])) = Len(Q[l]) - 1
      /\ \A i \in 1..Len(Tail(Q[l])) : Tail(Q[l])[i] = Q[l][i + 1]
      /\ Head(Q[l]) \in FunctorSet /\ Head(Q[l]) = Q[l][1] /\ Len(Q[l]) \in Nat \ {0}
  BY <1>1, HeadTailProperties, EmptySeq
<1>3. /\ P \in [Loops -> Seq(FunctorSet)] /\ P[l] = Tail(Q[l])
      /\ \A m \in Loops : m # l => P[m] = Q[m]
  BY <1>1, <1>2
<1>4. \A m \in Loops : \A i \in 1..Len(P[m]) :
        /\ At(m, i) \in 1..Len(Q[m]) /\ P[m][i] = Q[m][At(m, i)] /\ i \in Nat
        /\ m = l => At(m, i) # 1
  <2> SUFFICES ASSUME NEW m \in Loops, NEW i \in 1..Len(P[m])
               PROVE  /\ At(m, i) \in 1..Len(Q[m]) /\ P[m][i] = Q[m][At(m, i)] /\ i \in Nat
                      /\ m = l => At(m, i) # 1
    OBVIOUS
  <2>1. CASE m = l
    BY <1>2, <1>3, <2>1
  <2>2. CASE m # l
    BY <1>3, <2>2
  <2> QED
    BY <2>1, <2>2
<1> HIDE DEF P, At
<1>5. \A m \in Loops : \A i \in 1..Len(P[m]) : Fits(P[m][i], m, st, lo)
  <2> SUFFICES ASSUME NEW m \in Loops, NEW i \in 1..Len(P[m]) PROVE Fits(P[m][i], m, st, lo)
    OBVIOUS
  <2>1. At(m, i) \in 1..Len(Q[m]) /\ P[m][i] = Q[m][At(m, i)]
    BY <1>4
  <2>2. Fits(Q[m][At(m, i)], m, st, lo)
    BY <2>1 DEF QueuesOK
  <2> QED
    BY <2>1, <2>2
<1>6. ASSUME NEW m \in Loops, NEW n \in Loops, NEW i \in 1..Len(P[m]), NEW j \in 1..Len(P[n]),
             P[m][i].c = P[n][j].c
      PROVE  m = n /\ i = j
  <2>1. /\ At(m, i) \in 1..Len(Q[m]) /\ P[m][i] = Q[m][At(m, i)] /\ i \in Nat
        /\ At(n, j) \in 1..Len(Q[n]) /\ P[n][j] = Q[n][At(n, j)] /\ j \in Nat
    BY <1>4
  <2>2. Q[m][At(m, i)].c = Q[n][At(n, j)].c
    BY <1>6, <2>1
  <2>3. m = n /\ At(m, i) = At(n, j)
    BY <2>1, <2>2 DEF QueuesOK
  <2> QED
    BY <2>1, <2>3 DEF At
<1>7. Fresh(P, Head(Q[l]).c)
  <2> SUFFICES ASSUME NEW m \in Loops, NEW i \in 1..Len(P[m]), P[m][i].c = Head(Q[l]).c
               PROVE  FALSE
    BY DEF Fresh
  <2>1. 1 \in 1..Len(Q[l])
    BY <1>2
  <2>2. m = l /\ At(m, i) = 1
    <3>1. At(m, i) \in 1..Len(Q[m]) /\ P[m][i] = Q[m][At(m, i)]
      BY <1>4
    <3>2. Q[m][At(m, i)].c = Q[l][1].c
      BY <1>2, <3>1
    <3> QED
      BY <2>1, <3>1, <3>2 DEF QueuesOK
  <2> QED
    BY <1>4, <2>2
<1>8. Fits(Head(Q[l]), l, st, lo)
  BY <1>2 DEF QueuesOK
<1>9. QueuesOK(P, st, lo)
  BY <1>3, <1>5, <1>6 DEF QueuesOK
<1> QED
  BY <1>2, <1>7, <1>8, <1>9 DEF P

(* A functor that fits is queued for a connection that has none.           *)
LEMMA Push ==
  ASSUME NEW Q, NEW st, NEW lo, QueuesOK(Q, st, lo), NEW l \in Loops,
         NEW f \in FunctorSet, Fits(f, l, st, lo), Fresh(Q, f.c)
  PROVE  QueuesOK([Q EXCEPT ![l] = Append(@, f)], st, lo)
<1> DEFINE P == [Q EXCEPT ![l] = Append(@, f)]
<1>1. Q \in [Loops -> Seq(FunctorSet)] /\ Q[l] \in Seq(FunctorSet)
  BY DEF QueuesOK
<1>2. /\ Append(Q[l], f) \in Seq(FunctorSet) /\ Len(Append(Q[l], f)) = Len(Q[l]) + 1
      /\ \A i \in 1..Len(Q[l]) : Append(Q[l], f)[i] = Q[l][i]
      /\ Append(Q[l], f)[Len(Q[l]) + 1] = f /\ Len(Q[l]) \in Nat
  BY <1>1, AppendProperties, LenProperties
<1>3. /\ P \in [Loops -> Seq(FunctorSet)] /\ P[l] = Append(Q[l], f)
      /\ \A m \in Loops : m # l => P[m] = Q[m]
  BY <1>1, <1>2
<1> HIDE DEF P
<1>4. \A m \in Loops : \A i \in 1..Len(P[m]) :
        \/ i \in 1..Len(Q[m]) /\ P[m][i] = Q[m][i]
        \/ m = l /\ i = Len(Q[l]) + 1 /\ P[m][i] = f
  <2> SUFFICES ASSUME NEW m \in Loops, NEW i \in 1..Len(P[m])
               PROVE  \/ i \in 1..Len(Q[m]) /\ P[m][i] = Q[m][i]
                      \/ m = l /\ i = Len(Q[l]) + 1 /\ P[m][i] = f
    OBVIOUS
  <2>1. CASE m = l
    BY <1>2, <1>3, <2>1
  <2>2. CASE m # l
    BY <1>3, <2>2
  <2> QED
    BY <2>1, <2>2
<1>5. \A m \in Loops : \A i \in 1..Len(P[m]) : Fits(P[m][i], m, st, lo)
  BY <1>4 DEF QueuesOK
<1>6. ASSUME NEW m \in Loops, NEW n \in Loops, NEW i \in 1..Len(P[m]), NEW j \in 1..Len(P[n]),
             P[m][i].c = P[n][j].c
      PROVE  m = n /\ i = j
  <2>1. \/ i \in 1..Len(Q[m]) /\ P[m][i] = Q[m][i]
        \/ m = l /\ i = Len(Q[l]) + 1 /\ P[m][i] = f
    BY <1>4
  <2>2. \/ j \in 1..Len(Q[n]) /\ P[n][j] = Q[n][j]
        \/ n = l /\ j = Len(Q[l]) + 1 /\ P[n][j] = f
    BY <1>4
  <2>3. CASE i \in 1..Len(Q[m]) /\ P[m][i] = Q[m][i] /\ j \in 1..Len(Q[n]) /\ P[n][j] = Q[n][j]
    <3>1. Q[m][i].c = Q[n][j].c
      BY <1>6, <2>3
    <3> QED
      BY <2>3, <3>1 DEF QueuesOK
  <2>4. CASE i \in 1..Len(Q[m]) /\ P[m][i] = Q[m][i] /\ P[n][j] = f
    BY <1>6, <2>4 DEF Fresh
  <2>5. CASE j \in 1..Len(Q[n]) /\ P[n][j] = Q[n][j] /\ P[m][i] = f
    BY <1>6, <2>5 DEF Fresh
  <2> QED
    BY <2>1, <2>2, <2>3, <2>4, <2>5
<1>7. QueuesOK(P, st, lo)
  BY <1>3, <1>5, <1>6 DEF QueuesOK
<1> QED
  BY <1>7 DEF P

(* A connection without functors changes its state.                        *)
LEMMA Change ==
  ASSUME NEW Q, NEW st, NEW lo, NEW st2, NEW lo2, NEW c, QueuesOK(Q, st, lo), Fresh(Q, c),
         \A d \in Conns : d # c => st2[d] = st[d] /\ lo2[d] = lo[d]
  PROVE  QueuesOK(Q, st2, lo2)
<1>1. \A l \in Loops : \A i \in 1..Len(Q[l]) : Q[l][i] \in FunctorSet /\ Q[l][i].c # c
  BY ElementOfSeq DEF QueuesOK, Fresh
<1>2. \A l \in Loops : \A i \in 1..Len(Q[l]) : Q[l][i].c \in Conns /\ Q[l][i].c # c
  BY <1>1 DEF FunctorSet
<1>3. \A l \in Loops : \A i \in 1..Len(Q[l]) : Fits(Q[l][i], l, st2, lo2)
  BY <1>2 DEF QueuesOK, Fits
<1> QED
  BY <1>3 DEF QueuesOK

(* Only connections on their way up or down have functors.                 *)
LEMMA FreshStates ==
  ASSUME QueueInv, NEW c, state[c] \notin {"connecting", "down"}
  PROVE  Fresh(functors, c)
<1> SUFFICES ASSUME NEW l \in Loops, NEW i \in 1..Len(functors[l]), functors[l][i].c = c
             PROVE  FALSE
  BY DEF Fresh
<1>1. functors[l][i] \in FunctorSet /\ Fits(functors[l][i], l, state, loopOf)
  BY ElementOfSeq DEF QueueInv, QueuesOK
<1> QED
  BY <1>1 DEF FunctorSet, Fits
-----------------------------------------------------------------------------
(* The pool.                                                               *)

LEMMA InitPInv == Init => PInv
<1> SUFFICES ASSUME Init PROVE PInv
  OBVIOUS
<1>1. loops \in Seq(1..MaxThreads) /\ Len(loops) = 0 /\ numThreads \in Nat
  BY BoundsAssumption, EmptySeq DEF Init
<1> QED
  BY <1>1 DEF Init, PInv, PoolTypes, PoolInv, Starting, Current

(* Thread t moves on without being started or announced.                   *)
LEMMA MainPInv ==
  ASSUME PInv, MainStep \/ SpuriousWakeup
  PROVE  PInv'
<1>0. /\ loops \in Seq(1..MaxThreads) /\ Len(loops) \in Nat /\ numThreads \in 0..MaxThreads
      /\ MaxThreads \in Nat
  BY BoundsAssumption, LenProperties DEF PInv, PoolTypes
<1>1. CASE Spawn
  <2>1. /\ Current <= numThreads /\ main = "spawn" /\ main' = "sem_wait"
        /\ thread' = [thread EXCEPT ![Current] = "spawned"]
        /\ UNCHANGED <<numThreads, sem, loop, loops>>
    BY <1>1 DEF Spawn
  <2>2. Current \in 1..MaxThreads /\ Current = Len(loops) + 1 /\ Current' = Current
    BY <1>0, <2>1 DEF Current
  <2>3. thread[Current] = "none" /\ sem[Current] = 0 /\ loop[Current] = FALSE
    BY <1>0, <2>1, <2>2 DEF PInv, PoolInv, PoolTypes, Starting
  <2>4. \A t \in 1..MaxThreads : thread'[t] = IF t = Current THEN "spawned" ELSE thread[t]
    BY <2>1 DEF PInv, PoolTypes
  <2>5. PoolTypes'
    <3>1. thread' \in [1..MaxThreads -> {"none", "spawned", "posted", "made", "published", "looping"}]
      BY <2>1 DEF PInv, PoolTypes
    <3>2. \A i \in 1..Len(loops) : i # Current /\ i \in 1..MaxThreads
      BY <1>0, <2>2
    <3> QED
      BY <2>1, <2>4, <3>1, <3>2 DEF PInv, PoolTypes
  <2>6. PoolInv'
    BY <1>0, <2>1, <2>2, <2>3, <2>4 DEF PInv, PoolInv, Starting
  <2> QED
    BY <2>5, <2>6 DEF PInv
<1>2. CASE SemWait
  <2>1. /\ main = "sem_wait" /\ main' = "test" /\ sem[Current] > 0
        /\ sem' = [sem EXCEPT ![Current] = @ - 1]
        /\ UNCHANGED <<numThreads, thread, loop, loops>>
    BY <1>2 DEF SemWait
  <2>2. Current \in 1..MaxThreads /\ Current' = Current
    BY <1>0, <2>1 DEF Current, PInv, PoolInv, Starting
  <2>3. sem' \in [1..MaxThreads -> 0..1]
        /\ \A t \in 1..MaxThreads : sem'[t] = IF t = Current THEN sem[t] - 1 ELSE sem[t]
    BY <2>1, <2>2 DEF PInv, PoolTypes
  <2>4. thread[Current] \notin {"none", "spawned"}
    BY <2>1, <2>2 DEF PInv, PoolInv
  <2> QED
    BY <2>1, <2>2, <2>3, <2>4 DEF PInv, PoolTypes, PoolInv, Starting
<1>3. CASE StartLoop /\ loop[Current]
  <2>1. /\ main = "test" /\ main' = "spawn" /\ loops' = Append(loops, Current) /\ loop[Current]
        /\ UNCHANGED <<numThreads, thread, sem, loop>>
    BY <1>3 DEF StartLoop
  <2>2. Current \in 1..MaxThreads /\ Current = Len(loops) + 1 /\ Current <= numThreads
    BY <1>0, <2>1 DEF Current, PInv, PoolInv, Starting
  <2>3. /\ loops' \in Seq(1..MaxThreads) /\ Len(loops') = Len(loops) + 1
        /\ \A i \in 1..Len(loops) : loops'[i] = loops[i]
        /\ loops'[Len(loops) + 1] = Current
    BY <1>0, <2>1, <2>2, AppendProperties
  <2>4. \A i \in 1..Len(loops') : i \in 1..Len(loops) \/ i = Current
    BY <1>0, <2>2, <2>3
  <2>5. \A i \in 1..Len(loops') : loops'[i] = i /\ loop'[i] /\ thread'[i] \in {"published", "looping"}
    BY <2>1, <2>2, <2>3, <2>4 DEF PInv, PoolTypes, PoolInv
  <2>6. PoolTypes'
    BY <2>1, <2>3, <2>5 DEF PInv, PoolTypes
  <2>7. PoolInv'
    <3>1. \A t \in 1..MaxThreads : t > Len(loops') => t > Len(loops) /\ t # Current
      BY <1>0, <2>2, <2>3
    <3>2. Len(loops') <= numThreads
      BY <1>0, <2>2, <2>3
    <3>3. ~Starting'
      BY <2>1 DEF Starting
    <3> QED
      BY <2>1, <3>1, <3>2, <3>3 DEF PInv, PoolInv
  <2> QED
    BY <2>6, <2>7 DEF PInv
<1>4. CASE (StartLoop /\ ~loop[Current]) \/ SpuriousWakeup
  <2>1. /\ Starting /\ Starting' /\ main' \in {"wait", "test"}
        /\ UNCHANGED <<numThreads, thread, sem, loop, loops>>
    BY <1>4 DEF StartLoop, SpuriousWakeup, Starting
  <2> QED
    BY <2>1 DEF PInv, PoolTypes, PoolInv, Current
<1>5. CASE Listen \/ BaseLoop
  <2>1. /\ ~Starting /\ ~Starting' /\ main' \in {"listen", "loop"}
        /\ UNCHANGED <<numThreads, thread, sem, loop, loops>>
    BY <1>5 DEF Listen, BaseLoop, Starting
  <2> QED
    BY <2>1 DEF PInv, PoolTypes, PoolInv
<1> QED
  BY <1>1, <1>2, <1>3, <1>4, <1>5 DEF MainStep

LEMMA ThreadPInv ==
  ASSUME PInv, NEW t \in Threads, ThreadStep(t)
  PROVE  PInv'
<1>0. t \in 1..MaxThreads
  BY BoundsAssumption DEF Threads, PInv, PoolTypes
<1>1. /\ thread' \in [1..MaxThreads -> {"none", "spawned", "posted", "made", "published", "looping"}]
      /\ \A u \in 1..MaxThreads : u # t => thread'[u] = thread[u]
      /\ thread[t] # "none" /\ UNCHANGED <<numThreads, loops>>
      /\ thread'[t] \notin {"none", "spawned"}
      /\ thread[t] \in {"published", "looping"} => thread'[t] = "looping"
  <2>1. CASE SemPost(t)
    BY <1>0, <2>1 DEF SemPost, PInv, PoolTypes
  <2>2. CASE MakeLoop(t)
    BY <1>0, <2>2 DEF MakeLoop, PInv, PoolTypes
  <2>3. CASE Publish(t)
    BY <1>0, <2>3 DEF Publish, PInv, PoolTypes
  <2>4. CASE EnterLoop(t)
    BY <1>0, <2>4 DEF EnterLoop, PInv, PoolTypes
  <2> QED
    BY <2>1, <2>2, <2>3, <2>4 DEF ThreadStep
<1>2. /\ loop' \in [1..MaxThreads -> BOOLEAN]
      /\ \A u \in 1..MaxThreads : u # t => loop'[u] = loop[u]
      /\ loop[t] => loop'[t]
      /\ loop'[t] => thread'[t] \in {"published", "looping"}
  <2>1. CASE Publish(t)
    BY <1>0, <2>1 DEF Publish, PInv, PoolTypes
  <2>2. CASE SemPost(t) \/ MakeLoop(t) \/ EnterLoop(t)
    <3>1. loop' = loop
      BY <2>2 DEF SemPost, MakeLoop, EnterLoop
    <3>2. loop[t] => thread[t] \in {"published", "looping"}
      BY <1>0 DEF PInv, PoolInv
    <3> QED
      BY <1>1, <3>1, <3>2 DEF PInv, PoolTypes
  <2> QED
    BY <2>1, <2>2 DEF ThreadStep
<1>3. /\ sem' \in [1..MaxThreads -> 0..1]
      /\ \A u \in 1..MaxThreads : u # t => sem'[u] = sem[u]
  <2>1. CASE SemPost(t)
    <3>1. sem[t] = 0 /\ sem' = [sem EXCEPT ![t] = sem[t] + 1]
      BY <1>0, <2>1 DEF SemPost, PInv, PoolInv
    <3>2. sem[t] + 1 \in 0..1
      BY <3>1
    <3> QED
      BY <3>1, <3>2 DEF PInv, PoolTypes
  <2>2. CASE UNCHANGED sem
    BY <2>2 DEF PInv, PoolTypes
  <2> QED
    BY <2>1, <2>2 DEF ThreadStep, MakeLoop, Publish, EnterLoop
<1>4. main' \in {"spawn", "sem_wait", "test", "wait", "listen", "loop"} /\ Starting' = Starting
  BY DEF ThreadStep, SemPost, MakeLoop, Publish, EnterLoop, PInv, PoolTypes, Starting
<1>5. \A i \in 1..Len(loops) : i \in 1..MaxThreads
  BY BoundsAssumption, LenProperties DEF PInv, PoolTypes, PoolInv
<1>6. PoolTypes'
  BY <1>1, <1>2, <1>3, <1>4, <1>5 DEF PInv, PoolTypes
<1>7. PoolInv'
  BY <1>1, <1>2, <1>3, <1>4 DEF PInv, PoolInv, Current
<1> QED
  BY <1>6, <1>7 DEF PInv

LEMMA StepPInv ==
  ASSUME PInv, [Next]_vars
  PROVE  PInv'
<1>1. CASE UNCHANGED pool
  BY <1>1 DEF pool, PInv, PoolTypes, PoolInv, Starting, Current
<1>2. \/ MainStep \/ SpuriousWakeup \/ (\E t \in Threads : ThreadStep(t)) \/ UNCHANGED pool
  BY DEF Next, vars, NewConnection, HandleClose, Release, RunFunctor
<1> QED
  BY <1>1, <1>2, MainPInv, ThreadPInv
-----------------------------------------------------------------------------
(* Connections.                                                            *)

LEMMA InitSInv == Init => SInv
<1> SUFFICES ASSUME Init PROVE SInv
  OBVIOUS
<1>1. functors \in [Loops -> Seq(FunctorSet)] /\ \A l \in Loops : functors[l] = <<>>
  BY EmptySeq DEF Init
<1>2. QueueInv
  BY <1>1 DEF QueueInv, QueuesOK
<1>3. ConnTypes
  BY BoundsAssumption DEF Init, ConnTypes, Base, Loops, NoConn
<1> QED
  BY <1>2, <1>3 DEF Init, SInv, ConnInv, ChannelFound

(* The loop that gets a new connection.                                    *)
LEMMA NextLoop ==
  ASSUME PInv, TurnInv, ConnTypes
  PROVE  loops # <<>> =>
           /\ next + 1 \in 1..Len(loops) /\ loops[next + 1] = next + 1
           /\ next + 1 \in Loops /\ next + 1 # Base
<1>1. Len(loops) \in Nat /\ next \in Nat /\ MaxThreads \in Nat /\ Len(loops) <= MaxThreads
  BY LenProperties, BoundsAssumption DEF PInv, PoolTypes, PoolInv, ConnTypes
<1> QED
  BY <1>1 DEF TurnInv, PInv, PoolTypes, Loops, Base

(* newConnection.                                                          *)
LEMMA NewSInv ==
  ASSUME PInv, TurnInv, SInv, NEW fd \in Fds, NewConnection(fd)
  PROVE  SInv'
<1> DEFINE c == nextConnId
           l == IF loops = <<>> THEN Base ELSE loops[next + 1]
<1>1. /\ c \in Conns /\ \A d \in open : fdOf[d] # fd
      /\ nextConnId' = nextConnId + 1 /\ connections' = connections \cup {c}
      /\ loopOf' = [loopOf EXCEPT ![c] = l] /\ fdOf' = [fdOf EXCEPT ![c] = fd]
      /\ open' = open \cup {c}
  BY BoundsAssumption DEF NewConnection, Accepts, SInv, ConnTypes, Conns
<1>2. l \in Loops /\ nextConnId \in Nat /\ MaxConns \in Nat
  BY NextLoop, BoundsAssumption DEF SInv, ConnTypes, Base, Loops
<1>3. state[c] = "none" /\ c \notin open
  BY <1>1, <1>2 DEF SInv, ConnInv
<1>4. next' \in Nat
  BY DEF NewConnection, NextIndex, SInv, ConnTypes
<1>5. nextConnId' \in 1..MaxConns + 1
  BY <1>1, <1>2 DEF Conns
<1>6. \A d \in Conns : /\ loopOf'[d] = IF d = c THEN l ELSE loopOf[d]
                       /\ fdOf'[d] = IF d = c THEN fd ELSE fdOf[d]
  BY <1>1 DEF SInv, ConnTypes
<1>7. /\ loopOf' \in [Conns -> Loops] /\ fdOf' \in [Conns -> Fds \cup {NoFd}]
  BY <1>1, <1>2 DEF SInv, ConnTypes
<1> DEFINE s == IF l = Base THEN "up" ELSE "connecting"
<1>8. state' = [state EXCEPT ![c] = s]
  BY DEF NewConnection
<1>9. /\ state' \in [Conns -> {"none", "connecting", "up", "down", "destroyed"}]
      /\ \A d \in Conns : state'[d] = IF d = c THEN s ELSE state[d]
  BY <1>8 DEF SInv, ConnTypes
<1>10. /\ IF l = Base THEN channels' = [channels EXCEPT ![l][fd] = c] /\ UNCHANGED functors
          ELSE /\ functors' = [functors EXCEPT ![l] = Append(@, Functor("established", c))]
               /\ UNCHANGED channels
  BY DEF NewConnection, AddChannel
<1> HIDE DEF l
<1>11. channels' \in [Loops -> [Fds -> Conns \cup {NoConn}]]
  BY <1>1, <1>2, <1>10, SMTT(30) DEF SInv, ConnTypes
<1>12. ConnTypes'
  BY <1>1, <1>4, <1>5, <1>7, <1>9, <1>11 DEF SInv, ConnTypes
<1>13. ConnInv'
  <2>1. \A d \in Conns : d >= nextConnId' => state'[d] = "none"
    BY <1>1, <1>2, <1>9 DEF SInv, ConnInv, Conns
  <2>2. \A d \in Conns : /\ state'[d] = "none" => d \notin open'
                         /\ state'[d] \in {"connecting", "up", "down"} => d \in open'
    BY <1>1, <1>9 DEF SInv, ConnInv
  <2>3. \A d \in open' : fdOf'[d] \in Fds
    BY <1>1, <1>6 DEF SInv, ConnInv, ConnTypes
  <2>4. \A d, e \in open' : fdOf'[d] = fdOf'[e] => d = e
    BY <1>1, <1>6 DEF SInv, ConnInv, ConnTypes
  <2> QED
    BY <2>1, <2>2, <2>3, <2>4 DEF ConnInv
<1>14. QueueInv'
  <2>1. Fresh(functors, c)
    BY <1>3, FreshStates DEF SInv
  <2>2. QueuesOK(functors, state', loopOf')
    BY <1>6, <1>9, <2>1, Change DEF SInv, QueueInv
  <2>3. CASE l = Base
    BY <1>10, <2>2, <2>3 DEF QueueInv
  <2>4. CASE l # Base
    <3> DEFINE f == Functor("established", c)
    <3>1. f \in FunctorSet /\ f.op = "established" /\ f.c = c
      BY <1>1 DEF Functor, FunctorSet
    <3> HIDE DEF f
    <3>2. Fits(f, l, state', loopOf')
      BY <1>1, <1>6, <1>9, <2>4, <3>1 DEF Fits
    <3>3. functors' = [functors EXCEPT ![l] = Append(@, f)]
      BY <1>10, <2>4 DEF f
    <3> QED
      BY <1>2, <2>1, <2>2, <3>1, <3>2, <3>3, Push DEF QueueInv
  <2> QED
    BY <2>3, <2>4
<1>15. ChannelFound'
  <2> SUFFICES ASSUME NEW d \in Conns, state'[d] \in {"up", "down"}
               PROVE  channels'[loopOf'[d]][fdOf'[d]] = d
    BY DEF ChannelFound
  <2>1. CASE d = c
    <3>1. l = Base
      BY <1>9, <2>1
    <3> QED
      BY <1>1, <1>2, <1>6, <1>10, <2>1, <3>1 DEF SInv, ConnTypes
  <2>2. CASE d # c
    <3>1. state[d] \in {"up", "down"} /\ loopOf'[d] = loopOf[d] /\ fdOf'[d] = fdOf[d]
      BY <1>6, <1>9, <2>2
    <3>2. d \in open /\ fdOf[d] # fd /\ channels[loopOf[d]][fdOf[d]] = d
          /\ fdOf[d] \in Fds /\ loopOf[d] \in Loops
      BY <1>1, <3>1 DEF SInv, ConnInv, ConnTypes, ChannelFound
    <3>3. channels'[loopOf[d]][fdOf[d]] = channels[loopOf[d]][fdOf[d]]
      BY <1>10, <1>2, <3>2 DEF SInv, ConnTypes
    <3> QED
      BY <3>1, <3>2, <3>3
  <2> QED
    BY <2>1, <2>2
<1> QED
  BY <1>12, <1>13, <1>14, <1>15 DEF SInv
(* removeConnectionInLoop queues connectDestroyed in the connection's loop.*)
LEMMA RemovedQueue ==
  ASSUME ConnTypes, NEW c \in Conns, NEW queues, NEW st, QueuesOK(queues, st, loopOf),
         st[c] = "down", Fresh(queues, c), Removed(c, queues)
  PROVE  QueuesOK(functors', st, loopOf)
<1> DEFINE f == Functor("destroyed", c)
<1>1. f \in FunctorSet /\ f.op = "destroyed" /\ f.c = c
  BY DEF Functor, FunctorSet
<1>2. functors' = [queues EXCEPT ![loopOf[c]] = Append(@, f)] /\ loopOf[c] \in Loops
  BY DEF Removed, ConnTypes
<1> HIDE DEF f
<1>3. Fits(f, loopOf[c], st, loopOf)
  BY <1>1 DEF Fits
<1> QED
  BY <1>1, <1>2, <1>3, Push

(* handleClose.                                                            *)
LEMMA CloseSInv ==
  ASSUME SInv, NEW c \in Conns, HandleClose(c)
  PROVE  SInv'
<1>1. /\ state[c] = "up" /\ state' = [state EXCEPT ![c] = "down"]
      /\ connections' \subseteq connections
      /\ UNCHANGED <<next, nextConnId, loopOf, fdOf, open, channels>>
  BY DEF HandleClose, Removed
<1>2. /\ state' \in [Conns -> {"none", "connecting", "up", "down", "destroyed"}]
      /\ \A d \in Conns : state'[d] = IF d = c THEN "down" ELSE state[d]
  BY <1>1 DEF SInv, ConnTypes
<1>3. ConnTypes'
  BY <1>1, <1>2 DEF SInv, ConnTypes
<1>4. ConnInv'
  BY <1>1, <1>2 DEF SInv, ConnInv
<1>5. ChannelFound'
  BY <1>1, <1>2 DEF SInv, ChannelFound
<1>6. QueueInv'
  <2>1. Fresh(functors, c)
    BY <1>1, FreshStates DEF SInv
  <2>2. QueuesOK(functors, state', loopOf) /\ state'[c] = "down"
    BY <1>2, <2>1, Change DEF SInv, QueueInv
  <2>3. CASE loopOf[c] = Base
    <3>1. Removed(c, functors)
      BY <2>3 DEF HandleClose
    <3> QED
      BY <1>1, <2>1, <2>2, <3>1, RemovedQueue DEF SInv, QueueInv
  <2>4. CASE loopOf[c] # Base
    <3> DEFINE f == Functor("remove", c)
    <3>1. f \in FunctorSet /\ f.op = "remove" /\ f.c = c
      BY DEF Functor, FunctorSet
    <3>2. functors' = [functors EXCEPT ![Base] = Append(@, f)] /\ Base \in Loops
      BY <2>4, BoundsAssumption DEF HandleClose, Base, Loops
    <3> HIDE DEF f
    <3>3. Fits(f, Base, state', loopOf)
      BY <2>2, <3>1 DEF Fits
    <3>4. QueuesOK(functors', state', loopOf)
      BY <2>1, <2>2, <3>1, <3>2, <3>3, Push
    <3> QED
      BY <1>1, <3>4 DEF QueueInv
  <2> QED
    BY <2>3, <2>4
<1> QED
  BY <1>3, <1>4, <1>5, <1>6 DEF SInv

(* A functor of loop l.                                                    *)
LEMMA RunSInv ==
  ASSUME SInv, NEW l \in Loops, RunFunctor(l)
  PROVE  SInv'
<1> DEFINE f == Head(functors[l])
           rest == [functors EXCEPT ![l] = Tail(@)]
<1>1. /\ functors[l] # <<>> /\ UNCHANGED <<next, nextConnId, loopOf, fdOf, open>>
      /\ \/ f.op = "established" /\ RunEstablished(l, f.c, rest)
         \/ f.op = "remove" /\ RunRemove(l, f.c, rest)
         \/ f.op = "destroyed" /\ RunDestroyed(l, f.c, rest)
  BY DEF RunFunctor
<1>2. /\ QueuesOK(rest, state, loopOf) /\ Fresh(rest, f.c)
      /\ f \in FunctorSet /\ Fits(f, l, state, loopOf)
  BY <1>1, Pop DEF SInv, QueueInv
<1> HIDE DEF f, rest
<1>3. f.c \in Conns
  BY <1>2 DEF FunctorSet
<1>4. ASSUME NEW s \in {"up", "destroyed"}, NEW e \in {f.c, NoConn},
             l = loopOf[f.c], state[f.c] \in {"connecting", "down"},
             s = "up" => e = f.c,
             state' = [state EXCEPT ![f.c] = s], functors' = rest, UNCHANGED connections,
             channels' = [channels EXCEPT ![l][fdOf[f.c]] = e]
      PROVE  SInv'
  <2>1. /\ state' \in [Conns -> {"none", "connecting", "up", "down", "destroyed"}]
        /\ \A d \in Conns : state'[d] = IF d = f.c THEN s ELSE state[d]
    BY <1>3, <1>4 DEF SInv, ConnTypes
  <2>2. f.c \in open /\ fdOf[f.c] \in Fds
    BY <1>3, <1>4 DEF SInv, ConnInv
  <2>3. channels' \in [Loops -> [Fds -> Conns \cup {NoConn}]]
    BY <1>3, <1>4, <2>2 DEF SInv, ConnTypes
  <2>4. ConnTypes'
    BY <1>1, <1>4, <2>1, <2>3 DEF SInv, ConnTypes
  <2>5. ConnInv'
    BY <1>1, <1>4, <2>1, <2>2 DEF SInv, ConnInv
  <2>6. QueueInv'
    BY <1>1, <1>2, <1>4, <2>1, Change DEF QueueInv
  <2>7. ChannelFound'
    <3> SUFFICES ASSUME NEW d \in Conns, state'[d] \in {"up", "down"}
                 PROVE  channels'[loopOf[d]][fdOf[d]] = d
      BY <1>1 DEF ChannelFound
    <3>1. CASE d = f.c
      <4>1. e = f.c
        BY <1>4, <2>1, <3>1
      <4> QED
        BY <1>4, <2>2, <3>1, <4>1 DEF SInv, ConnTypes
    <3>2. CASE d # f.c
      <4>1. state[d] \in {"up", "down"} /\ d \in open /\ loopOf[d] \in Loops
            /\ channels[loopOf[d]][fdOf[d]] = d /\ fdOf[d] # fdOf[f.c] /\ fdOf[d] \in Fds
        BY <2>1, <2>2, <3>2 DEF SInv, ConnInv, ConnTypes, ChannelFound
      <4>2. channels'[loopOf[d]][fdOf[d]] = channels[loopOf[d]][fdOf[d]]
        BY <1>4, <2>2, <4>1 DEF SInv, ConnTypes
      <4> QED
        BY <4>1, <4>2
    <3> QED
      BY <3>1, <3>2
  <2> QED
    BY <2>4, <2>5, <2>6, <2>7 DEF SInv
<1>5. CASE f.op = "established" /\ RunEstablished(l, f.c, rest)
  BY <1>2, <1>4, <1>5 DEF RunEstablished, AddChannel, Fits
<1>6. CASE f.op = "destroyed" /\ RunDestroyed(l, f.c, rest)
  BY <1>2, <1>4, <1>6 DEF RunDestroyed, Fits
<1>7. CASE f.op = "remove" /\ RunRemove(l, f.c, rest)
  <2>1. Removed(f.c, rest) /\ UNCHANGED <<state, channels>> /\ state[f.c] = "down"
    BY <1>2, <1>7 DEF RunRemove, Fits
  <2>2. QueuesOK(functors', state, loopOf)
    BY <1>2, <1>3, <2>1, RemovedQueue DEF SInv
  <2>3. ConnTypes' /\ ConnInv' /\ ChannelFound'
    BY <1>1, <2>1 DEF SInv, ConnTypes, ConnInv, ChannelFound, Removed
  <2> QED
    BY <1>1, <2>1, <2>2, <2>3 DEF SInv, QueueInv
<1> QED
  BY <1>1, <1>5, <1>6, <1>7

(* ~TcpConnection.                                                         *)
LEMMA ReleaseSInv ==
  ASSUME SInv, NEW c \in Conns, Release(c)
  PROVE  SInv'
<1>1. /\ state[c] = "destroyed" /\ open' = open \ {c}
      /\ UNCHANGED <<next, nextConnId, connections, state, loopOf, fdOf, channels, functors>>
  BY DEF Release
<1>2. ConnTypes' /\ ChannelFound' /\ QueueInv'
  BY <1>1 DEF SInv, ConnTypes, ChannelFound, QueueInv
<1>3. ConnInv'
  BY <1>1 DEF SInv, ConnInv
<1> QED
  BY <1>2, <1>3 DEF SInv

LEMMA StepSInv ==
  ASSUME PInv, TurnInv, SInv, [Next]_vars
  PROVE  SInv'
<1>1. CASE UNCHANGED conns
  BY <1>1 DEF conns, SInv, ConnTypes, ConnInv, QueueInv, ChannelFound
<1>2. \/ UNCHANGED conns
      \/ \E fd \in Fds : NewConnection(fd)
      \/ \E c \in Conns : HandleClose(c) \/ Release(c)
      \/ \E l \in Loops : RunFunctor(l)
  BY DEF Next, vars, MainStep, Spawn, SemWait, StartLoop, Listen, BaseLoop, SpuriousWakeup,
         ThreadStep, SemPost, MakeLoop, Publish, EnterLoop
<1> QED
  BY <1>1, <1>2, NewSInv, CloseSInv, ReleaseSInv, RunSInv

-----------------------------------------------------------------------------
(* Turns.                                                                  *)

(* The connections loop l was given.                                       *)
GivenSet(l) == {c \in 1..nextConnId - 1 : loopOf[c] = l}

LEMMA GivenFinite ==
  ASSUME ConnTypes
  PROVE  \A l : IsFiniteSet(GivenSet(l)) /\ Given(l) = Cardinality(GivenSet(l)) /\ Given(l) \in Nat
<1> TAKE l
<1>1. nextConnId - 1 \in Int
  BY BoundsAssumption DEF ConnTypes
<1>2. IsFiniteSet(1..nextConnId - 1)
  BY <1>1, FS_Interval
<1>3. IsFiniteSet(GivenSet(l))
  BY <1>2, FS_Subset DEF GivenSet
<1> QED
  BY <1>3, FS_CardinalityType DEF Given, GivenSet

LEMMA InitTurnInv == Init => TurnInv
<1> SUFFICES ASSUME Init PROVE TurnInv
  OBVIOUS
<1>1. Len(loops) = 0
  BY DEF Init
<1>2. \A i \in 1..Len(loops) : Given(i) = IF i <= next THEN 0 + 1 ELSE 0
  BY <1>1
<1> QED
  BY <1>2 DEF Init, TurnInv

(* One more connection for the loop whose turn it was.                     *)
LEMMA NewGiven ==
  ASSUME PInv, TurnInv, SInv, NEW fd \in Fds, NewConnection(fd), loops # <<>>
  PROVE  \A i \in 1..Len(loops) : Given(i)' = IF i = next + 1 THEN Given(i) + 1 ELSE Given(i)
<1>1. /\ loops[next + 1] = next + 1 /\ next \in Nat
  BY NextLoop DEF SInv, ConnTypes
<1>2. /\ nextConnId \in Conns /\ nextConnId \in Nat \ {0}
      /\ nextConnId' = nextConnId + 1 /\ loopOf' = [loopOf EXCEPT ![nextConnId] = next + 1]
  BY <1>1, BoundsAssumption DEF NewConnection, SInv, ConnTypes, Conns
<1>3. /\ nextConnId' - 1 = nextConnId /\ 1..nextConnId = (1..nextConnId - 1) \cup {nextConnId}
      /\ nextConnId \notin 1..nextConnId - 1
  BY <1>2
<1>4. \A c \in 1..nextConnId : c \in Conns
  BY <1>2, BoundsAssumption DEF Conns
<1>5. \A c \in 1..nextConnId : loopOf'[c] = IF c = nextConnId THEN next + 1 ELSE loopOf[c]
  BY <1>2, <1>4 DEF SInv, ConnTypes
<1>6. ASSUME NEW i \in 1..Len(loops)
      PROVE  Given(i)' = IF i = next + 1 THEN Given(i) + 1 ELSE Given(i)
  <2>1. Given(i)' = Cardinality({c \in 1..nextConnId' - 1 : loopOf'[c] = i})
    BY DEF Given
  <2>2. {c \in 1..nextConnId' - 1 : loopOf'[c] = i} =
          IF i = next + 1 THEN GivenSet(i) \cup {nextConnId} ELSE GivenSet(i)
    BY <1>3, <1>5 DEF GivenSet
  <2>3. nextConnId \notin GivenSet(i)
    BY <1>3 DEF GivenSet
  <2>4. IsFiniteSet(GivenSet(i)) /\ Given(i) = Cardinality(GivenSet(i))
    BY GivenFinite DEF SInv
  <2>5. Cardinality(GivenSet(i) \cup {nextConnId}) = Given(i) + 1
    BY <2>3, <2>4, FS_AddElement
  <2> QED
    BY <2>1, <2>2, <2>4, <2>5
<1> QED
  BY <1>6
LEMMA NewTurnInv ==
  ASSUME PInv, TurnInv, SInv, NEW fd \in Fds, NewConnection(fd)
  PROVE  TurnInv'
<1>1. /\ main = "loop" /\ UNCHANGED <<main, loops>>
      /\ next' = IF loops = <<>> THEN next ELSE NextIndex
  BY DEF NewConnection, Running, Base, pool
<1>2. Len(loops) \in Nat /\ next \in Nat
  BY LenProperties DEF PInv, PoolTypes, SInv, ConnTypes
<1>3. CASE loops = <<>>
  <2>1. \A i \in 1..Len(loops) : Given(i)' = IF i <= next' THEN 0 + 1 ELSE 0
    BY <1>3
  <2> QED
    BY <1>1, <1>3, <2>1 DEF TurnInv
<1>4. CASE loops # <<>>
  <2>1. next + 1 \in 1..Len(loops)
    BY <1>4, NextLoop DEF SInv
  <2>2. PICK q \in Nat : \A i \in 1..Len(loops) : Given(i) = IF i <= next THEN q + 1 ELSE q
    BY DEF TurnInv
  <2>3. \A i \in 1..Len(loops) : Given(i)' = IF i <= next + 1 THEN q + 1 ELSE q
    <3>1. \A i \in 1..Len(loops) : Given(i)' = IF i = next + 1 THEN Given(i) + 1 ELSE Given(i)
      BY <1>4, NewGiven
    <3> QED
      BY <1>2, <2>2, <3>1
  <2>4. CASE next + 1 >= Len(loops)
    <3>1. next' = 0 /\ 0 < Len(loops)
      BY <1>1, <1>2, <1>4, <2>1, <2>4 DEF NextIndex
    <3>2. \A i \in 1..Len(loops) : Given(i)' = IF i <= next' THEN (q + 1) + 1 ELSE q + 1
      BY <1>2, <2>3, <2>4, <3>1
    <3>3. q + 1 \in Nat
      OBVIOUS
    <3> QED
      BY <1>1, <3>1, <3>2, <3>3 DEF TurnInv
  <2>5. CASE ~(next + 1 >= Len(loops))
    <3>1. next' = next + 1 /\ next' < Len(loops)
      BY <1>1, <1>2, <1>4, <2>5 DEF NextIndex
    <3>2. \A i \in 1..Len(loops) : Given(i)' = IF i <= next' THEN q + 1 ELSE q
      BY <2>3, <3>1
    <3> QED
      BY <1>1, <3>1, <3>2 DEF TurnInv
  <2> QED
    BY <2>4, <2>5
<1> QED
  BY <1>3, <1>4

LEMMA StepTurnInv ==
  ASSUME PInv, TurnInv, SInv, [Next]_vars
  PROVE  TurnInv'
<1>1. CASE UNCHANGED <<loops, next, nextConnId, loopOf>> /\ (main' # "loop" => main # "loop")
  BY <1>1 DEF TurnInv, Given
<1>2. CASE StartLoop /\ loop[Current]
  <2>1. /\ main # "loop" /\ main' # "loop" /\ loops' = Append(loops, Current)
        /\ UNCHANGED <<next, nextConnId, loopOf>> /\ Current \in 1..MaxThreads
    BY <1>2, LenProperties, BoundsAssumption
       DEF StartLoop, conns, Current, Starting, PInv, PoolTypes, PoolInv
  <2>2. nextConnId = 1 /\ next = 0
    BY <2>1 DEF TurnInv
  <2>3. loops' # <<>> /\ Len(loops') \in Nat \ {0}
    <3>1. loops' \in Seq(1..MaxThreads) /\ loops' # <<>>
      BY <2>1, AppendProperties DEF PInv, PoolTypes
    <3> QED
      BY <3>1, EmptySeq
  <2>4. \A i \in 1..Len(loops') : Given(i)' = 0
    <3> SUFFICES ASSUME NEW i \in 1..Len(loops') PROVE Given(i)' = 0
      OBVIOUS
    <3>1. Given(i)' = Cardinality({c \in 1..nextConnId - 1 : loopOf[c] = i})
      BY <2>1 DEF Given
    <3>2. {c \in 1..nextConnId - 1 : loopOf[c] = i} = {}
      BY <2>2
    <3> QED
      BY <3>1, <3>2, FS_EmptySet
  <2>5. \A i \in 1..Len(loops') : Given(i)' = IF i <= next' THEN 0 + 1 ELSE 0
    BY <2>1, <2>2, <2>4
  <2> QED
    BY <2>1, <2>2, <2>3, <2>5 DEF TurnInv
<1>3. \/ UNCHANGED <<loops, next, nextConnId, loopOf>> /\ (main' # "loop" => main # "loop")
      \/ StartLoop /\ loop[Current]
      \/ \E fd \in Fds : NewConnection(fd)
  BY DEF Next, vars, pool, conns, MainStep, Spawn, SemWait, StartLoop, Listen, BaseLoop,
         SpuriousWakeup, ThreadStep, SemPost, MakeLoop, Publish, EnterLoop, HandleClose,
         Release, RunFunctor
<1> QED
  BY <1>1, <1>2, <1>3, NewTurnInv

(* TypeOK: startLoop never hands out a loop its thread has not published   *)
(* (EventLoopThread.cpp:25-53, EventLoopThreadPool.cpp:23-36).             *)
THEOREM TypeCorrect == Spec => []TypeOK
<1>1. PInv /\ SInv => TypeOK
  BY DEF PInv, SInv, PoolTypes, ConnTypes, QueueInv, QueuesOK, FunctorSet, TypeOK
<1> QED
  BY InitPInv, InitSInv, InitTurnInv, StepPInv, StepSInv, StepTurnInv, <1>1, PTL
     DEF Spec, SafeSpec

(* ChannelFound: a reused descriptor never takes the poller's entry of a   *)
(* connection that is not yet destroyed (EPollPoller.cpp:50-83,            *)
(* TcpServer.cpp:78-115).                                                  *)
THEOREM ChannelsFound == Spec => []ChannelFound
<1>1. SInv => ChannelFound
  BY DEF SInv
<1> QED
  BY InitPInv, InitSInv, InitTurnInv, StepPInv, StepSInv, StepTurnInv, <1>1, PTL
     DEF Spec, SafeSpec

(* Balanced: the connections two loops were given never differ by more     *)
(* than one (EventLoopThreadPool.cpp:38-48).                               *)
THEOREM StaysBalanced == Spec => []Balanced
<1>1. PInv /\ TurnInv => Balanced
  <2> SUFFICES ASSUME PInv, TurnInv, NEW i \in 1..Len(loops), NEW j \in 1..Len(loops)
               PROVE  Given(loops[i]) <= Given(loops[j]) + 1
    BY DEF Balanced
  <2>1. loops[i] = i /\ loops[j] = j
    BY DEF PInv, PoolTypes
  <2>2. PICK q \in Nat : \A k \in 1..Len(loops) : Given(k) = IF k <= next THEN q + 1 ELSE q
    BY DEF TurnInv
  <2> QED
    BY <2>1, <2>2
<1> QED
  BY InitPInv, InitSInv, InitTurnInv, StepPInv, StepSInv, StepTurnInv, <1>1, PTL
     DEF Spec, SafeSpec
=============================================================================
