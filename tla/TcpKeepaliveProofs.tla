------------------------- MODULE TcpKeepaliveProofs -------------------------
(***************************************************************************)
(* Proofs about tcp-keepalive, for any number of connections, goroutines,  *)
(* faults and any choice of --retry.                                       *)
(***************************************************************************)
EXTENDS TcpKeepalive, TLAPS

TypeOK ==
    /\ retryNum \in Int
    /\ pc \in {"loop", "dial", "exchange", "wait", "tick", "end"}
    /\ i \in Nat /\ failures \in Nat
    /\ conn \in Conns \cup {Nil}
    /\ opened \in SUBSET Conns
    /\ current \in Workers \cup {Nil}
    /\ worker \in [Workers -> [pc: {"none", "start", "write", "sent", "read", "ok", "failed"},
                               on: Conns \cup {Nil}]]
    /\ sent \in [Conns -> Nat] /\ echoed \in [Conns -> Nat] /\ held \in [Conns -> Nat]
    /\ handler \in [Conns -> {"closed", "read", "send"}]

\* The connection of Client.run is open and exported while it is used.
Connected ==
    /\ pc \in {"exchange", "wait", "tick"} =>
          conn \in Conns /\ opened = {conn} /\ gauge = "established"
    /\ pc \in {"loop", "dial"} => opened = {} /\ gauge # "established"
    /\ pc = "end" => opened = {}
    /\ pc = "wait" <=> current \in Workers

\* The index of the bounded loop counts the failures, but for the one iteration
\* after a stopped run, which finds the context cancelled.
Counted ==
    /\ pc # "end" => result = "none"
    /\ retryNum >= 0 =>
          /\ pc # "end" => \/ failures = i /\ i <= retryNum
                           \/ cancelled /\ pc = "loop" /\ failures <= retryNum
          /\ failures <= retryNum + 1
    /\ result = "limit" => /\ retryNum >= 0
                           /\ failures = retryNum + 1 \/ (cancelled /\ retryNum = 0)

UnderWay(k) == sent[k] + held[k] + echoed[k]

\* Without a stray goroutine only the current one uses the connection, and its
\* place tells how many messages may be under way.
Apart ==
    /\ \A k \in Conns : handler[k] # "send" => held[k] = 0
    /\ ~strayed =>
          /\ ~merged
          /\ opened # {} => \A w \in Workers \ {current} : worker[w].on # conn
          /\ pc \in {"exchange", "tick"} => UnderWay(conn) = 0
          /\ pc = "wait" => /\ UnderWay(conn) <= 1
                            /\ worker[current].pc \in {"start", "write", "ok"} =>
                                  UnderWay(conn) = 0
                            /\ worker[current].pc # "none"
-----------------------------------------------------------------------------
\* The state in which main starts the client and the server.
LEMMA InitIsGood == Init => TypeOK /\ Connected /\ Counted /\ Apart
<1> SUFFICES ASSUME Init PROVE TypeOK /\ Connected /\ Counted /\ Apart
    OBVIOUS
<1> USE TcpAssumption, NilAssumption DEF Init
<1>1. TypeOK
    BY DEF TypeOK, NoWorker
<1>2. Connected
    BY DEF Connected
<1>3. Counted
    BY DEF Counted, TypeOK
<1>4. Apart
    BY DEF Apart
<1> QED BY <1>1, <1>2, <1>3, <1>4

\* Types are kept by every step.
LEMMA TypeStep == TypeOK /\ Connected /\ [Next]_vars => TypeOK'
<1> SUFFICES ASSUME TypeOK, Connected, [Next]_vars PROVE TypeOK'
    OBVIOUS
<1> USE TcpAssumption, NilAssumption DEF TypeOK
<1> USE DEF clientVars, workerVars, serverVars, wireVars
<1>1. CASE StartRun
    BY <1>1 DEF StartRun
<1>2. CASE DialSucceeds
    BY <1>2 DEF DialSucceeds, Unused
<1>3. CASE DialFails
    BY <1>3 DEF DialFails, RunFailed, Iterate
<1>4. CASE StartExchange
    BY <1>4 DEF StartExchange
<1>5. CASE Timeout
    BY <1>5 DEF Timeout, TimedOut, CloseConn, RunFailed, Iterate, NoWorker, Connected
<1>6. CASE ExchangeDone
    BY <1>6 DEF ExchangeDone, CloseConn, KeepConn, RunFailed, Iterate, NoWorker, Connected
<1>7. CASE Tick
    BY <1>7 DEF Tick, CloseConn, KeepConn, RunReturned, Iterate, Connected
<1>8. CASE Interrupt
    BY <1>8 DEF Interrupt
<1>9. CASE Exit \/ ServeMetricsFails
    BY <1>9 DEF Exit, ServeMetricsFails, Serve, ClientGone, NoWorker
<1>10. ASSUME NEW w \in Workers, UseConn(w) PROVE TypeOK'
    BY <1>10 DEF UseConn
<1>11. ASSUME NEW w \in Workers, UseNil(w) PROVE TypeOK'
    BY <1>11 DEF UseNil, ClientGone, NoWorker
<1>12. ASSUME NEW w \in Workers, Write(w) PROVE TypeOK'
    BY <1>12 DEF Write, Leave, NoWorker, Dead
<1>13. ASSUME NEW w \in Workers, Read(w) PROVE TypeOK'
    BY <1>13 DEF Read, Leave, NoWorker, Dead
<1>14. ASSUME NEW k \in Conns, HandleReceive(k) PROVE TypeOK'
    BY <1>14 DEF HandleReceive, HandleFails, CloseHandler
<1>15. ASSUME NEW k \in Conns, HandleSend(k) PROVE TypeOK'
    BY <1>15 DEF HandleSend, HandleFails, CloseHandler
<1>16. ASSUME NEW k \in Conns, Break(k) PROVE TypeOK'
    BY <1>16 DEF Break
<1>17. CASE StopServer \/ ServerExit \/ ServerStart
    BY <1>17 DEF StopServer, ServerExit, ServerStart
<1>18. CASE UNCHANGED vars
    BY <1>18 DEF vars
<1> QED BY <1>1, <1>2, <1>3, <1>4, <1>5, <1>6, <1>7, <1>8, <1>9, <1>10, <1>11, <1>12,
           <1>13, <1>14, <1>15, <1>16, <1>17, <1>18
        DEF Next, RunLoop, Exchange, Handle

\* The steps of Client.Run and of its process change what Connected and Counted
\* look at; nobody else does.
LEMMA ConnectedStep == TypeOK /\ Connected /\ [Next]_vars => Connected'
<1> SUFFICES ASSUME TypeOK, Connected, [Next]_vars PROVE Connected'
    OBVIOUS
<1> USE TcpAssumption, NilAssumption DEF Connected, clientVars, workerVars
<1>1. CASE StartRun
    BY <1>1 DEF StartRun
<1>2. CASE DialSucceeds
    BY <1>2 DEF DialSucceeds, Unused, setConnStateEstablished
<1>3. CASE DialFails
    BY <1>3 DEF DialFails, RunFailed, Iterate
<1>4. CASE StartExchange
    BY <1>4 DEF StartExchange
<1>5. CASE Timeout
    BY <1>5 DEF Timeout, TimedOut, CloseConn, setConnStateClosed, RunFailed, Iterate
<1>6. CASE ExchangeDone
    BY <1>6 DEF ExchangeDone, CloseConn, KeepConn, setConnStateClosed, RunFailed, Iterate
<1>7. CASE Tick
    BY <1>7 DEF Tick, CloseConn, KeepConn, setConnStateClosed, RunReturned, Iterate
<1>8. CASE Interrupt
    BY <1>8 DEF Interrupt
<1>9. CASE Exit \/ ServeMetricsFails
    BY <1>9 DEF Exit, ServeMetricsFails, Serve, ClientGone
<1>10. ASSUME NEW w \in Workers, Exchange(w) PROVE Connected'
    BY <1>10 DEF Exchange, UseConn, UseNil, Write, Read, ClientGone
<1>11. ASSUME NEW k \in Conns, Handle(k) \/ Break(k) PROVE Connected'
    BY <1>11 DEF Handle, HandleReceive, HandleSend, Break
<1>12. CASE StopServer \/ ServerExit \/ ServerStart
    BY <1>12 DEF StopServer, ServerExit, ServerStart
<1>13. CASE UNCHANGED vars
    BY <1>13 DEF vars
<1> QED BY <1>1, <1>2, <1>3, <1>4, <1>5, <1>6, <1>7, <1>8, <1>9, <1>10, <1>11, <1>12, <1>13
        DEF Next, RunLoop

\* The index and the failures stay in step.
LEMMA CountedStep == TypeOK /\ Counted /\ [Next]_vars => Counted'
<1> SUFFICES ASSUME TypeOK, Counted, [Next]_vars PROVE Counted'
    OBVIOUS
<1>0. retryNum \in Int /\ i \in Nat /\ failures \in Nat
    BY DEF TypeOK
<1> USE <1>0 DEF Counted, clientVars
<1>a. ASSUME RunFailed, UNCHANGED <<retryNum, cancelled>>, pc \in {"dial", "wait"} PROVE Counted'
    BY <1>a DEF RunFailed, Iterate, LimitReached
<1>1. CASE StartRun
    BY <1>1 DEF StartRun
<1>2. CASE DialSucceeds
    BY <1>2 DEF DialSucceeds
<1>3. CASE DialFails
    BY <1>3, <1>a DEF DialFails
<1>4. CASE StartExchange
    BY <1>4 DEF StartExchange
<1>5. CASE Timeout
    BY <1>5, <1>a DEF Timeout, TimedOut
<1>6. CASE ExchangeDone
    BY <1>6, <1>a DEF ExchangeDone
<1>7. CASE Tick
    BY <1>7 DEF Tick, RunReturned, Iterate, LimitReached
<1>8. CASE Interrupt
    BY <1>8 DEF Interrupt
<1>9. CASE Exit \/ ServeMetricsFails
    BY <1>9 DEF Exit, ServeMetricsFails, Serve, ClientGone
<1>10. ASSUME NEW w \in Workers, Exchange(w) PROVE Counted'
    BY <1>10 DEF Exchange, UseConn, UseNil, Write, Read, ClientGone
<1>11. ASSUME NEW k \in Conns, Handle(k) \/ Break(k) PROVE Counted'
    BY <1>11 DEF Handle, HandleReceive, HandleSend, Break
<1>12. CASE StopServer \/ ServerExit \/ ServerStart
    BY <1>12 DEF StopServer, ServerExit, ServerStart
<1>13. CASE UNCHANGED vars
    BY <1>13 DEF vars
<1> QED BY <1>1, <1>2, <1>3, <1>4, <1>5, <1>6, <1>7, <1>8, <1>9, <1>10, <1>11, <1>12, <1>13
        DEF Next, RunLoop

\* A step that leaves the connection's messages and goroutines alone, or takes
\* messages away, keeps exchanges apart.
LEMMA ApartStep == TypeOK /\ TypeOK' /\ Connected /\ Connected' /\ Apart /\ [Next]_vars => Apart'
<1> SUFFICES ASSUME TypeOK, TypeOK', Connected, Connected', Apart, [Next]_vars PROVE Apart'
    OBVIOUS
<1> USE TcpAssumption, NilAssumption
        DEF TypeOK, Connected, Apart, UnderWay, clientVars, workerVars, serverVars, wireVars
<1>1. CASE StartRun
    BY <1>1 DEF StartRun
<1>2. CASE DialSucceeds
    BY <1>2 DEF DialSucceeds, Unused
<1>3. CASE DialFails
    BY <1>3 DEF DialFails, RunFailed, Iterate
<1>4. CASE StartExchange
    BY <1>4 DEF StartExchange, NoWorker
<1>5. CASE Timeout
    BY <1>5 DEF Timeout, TimedOut, CloseConn, RunFailed, Iterate, NoWorker
<1>6. CASE ExchangeDone
    BY <1>6 DEF ExchangeDone, CloseConn, KeepConn, RunFailed, Iterate, NoWorker
<1>7. CASE Tick
    BY <1>7 DEF Tick, CloseConn, KeepConn, RunReturned, Iterate
<1>8. CASE Interrupt
    BY <1>8 DEF Interrupt
<1>9. CASE Exit \/ ServeMetricsFails
    BY <1>9 DEF Exit, ServeMetricsFails, Serve, ClientGone
<1>10. ASSUME NEW w \in Workers, UseConn(w) PROVE Apart'
  <2>1. ~strayed' => ~strayed /\ w = current
      BY <1>10 DEF UseConn
  <2>2. CASE strayed'
      BY <1>10, <2>2 DEF UseConn
  <2>3. CASE ~strayed'
      BY <1>10, <2>1, <2>3 DEF UseConn
  <2> QED BY <2>2, <2>3
<1>11. ASSUME NEW w \in Workers, UseNil(w) PROVE Apart'
    BY <1>11 DEF UseNil, ClientGone
<1>12. ASSUME NEW w \in Workers, Write(w) PROVE Apart'
    BY <1>12 DEF Write, Leave, NoWorker, Dead
<1>13. ASSUME NEW w \in Workers, Read(w) PROVE Apart'
  <2>1. UNCHANGED <<strayed, opened, conn, pc, current, handler, held, sent>>
      BY <1>13 DEF Read
  <2>2. CASE strayed
      BY <2>1, <2>2
  <2>3. CASE ~strayed /\ w # current
    <3>1. opened # {} => worker[w].on # conn
        BY <2>3
    <3>2. worker[w].on \notin opened
        BY <3>1
    <3>3. UNCHANGED <<echoed, merged>> /\ worker' = [worker EXCEPT ![w] = NoWorker]
        BY <1>13, <2>3, <3>2 DEF Read, Leave
    <3> QED BY <2>1, <2>3, <3>3 DEF NoWorker
  <2>4. CASE ~strayed /\ w = current
    <3>1. pc = "wait" /\ UnderWay(conn) <= 1 /\ ~merged /\ opened = {conn} /\ conn \in Conns
        BY <2>4
    <3>2. \A v \in Workers \ {w} : worker'[v] = worker[v]
        BY <1>13 DEF Read, Leave
    <3>3. CASE worker'[w] = [pc |-> "failed", on |-> Nil] /\ UNCHANGED <<echoed, merged>>
        BY <2>1, <2>4, <3>1, <3>2, <3>3
    <3>4. ASSUME worker[w].on \in opened, worker' = [worker EXCEPT ![w] = [pc |-> "ok", on |-> Nil]],
                 NEW n \in 1..echoed[worker[w].on],
                 echoed' = [echoed EXCEPT ![worker[w].on] = echoed[worker[w].on] - n],
                 merged' = (merged \/ n > 1)
          PROVE  Apart'
      <4>a. worker[w].on = conn
          BY <3>1, <3>4
      <4>b. sent[conn] \in Nat /\ held[conn] \in Nat /\ echoed[conn] \in Nat
          BY <3>1
      <4>1. n = 1 /\ sent[conn] = 0 /\ held[conn] = 0 /\ echoed[conn] = 1
        <5> HIDE DEF TypeOK, Connected, Apart
        <5> QED BY <3>1, <3>4, <4>a, <4>b
      <4>2. UnderWay(conn)' = 0 /\ ~merged'
        <5>1. echoed'[conn] = 0
            BY <3>1, <3>4, <4>a, <4>1
        <5>2. sent'[conn] = 0 /\ held'[conn] = 0 /\ conn' = conn
            BY <2>1, <4>1
        <5> HIDE DEF TypeOK, Connected, Apart
        <5>a. ~(n > 1)
            BY <4>1
        <5>3. ~merged'
            BY <3>1, <3>4, <5>a, Zenon
        <5> QED BY <5>1, <5>2, <5>3
      <4> QED BY <2>1, <2>4, <3>1, <3>2, <3>4, <4>2
    <3> QED BY <1>13, <2>4, <3>3, <3>4 DEF Read, Leave
  <2> QED BY <2>2, <2>3, <2>4
<1>14. ASSUME NEW k \in Conns, HandleReceive(k) PROVE Apart'
    BY <1>14 DEF HandleReceive, HandleFails, CloseHandler
<1>15. ASSUME NEW k \in Conns, HandleSend(k) PROVE Apart'
    BY <1>15 DEF HandleSend, HandleFails, CloseHandler
<1>16. ASSUME NEW k \in Conns, Break(k) PROVE Apart'
    BY <1>16 DEF Break
<1>17. CASE StopServer \/ ServerExit \/ ServerStart
    BY <1>17 DEF StopServer, ServerExit, ServerStart
<1>18. CASE UNCHANGED vars
    BY <1>18 DEF vars
<1> QED BY <1>1, <1>2, <1>3, <1>4, <1>5, <1>6, <1>7, <1>8, <1>9, <1>10, <1>11, <1>12,
           <1>13, <1>14, <1>15, <1>16, <1>17, <1>18
        DEF Next, RunLoop, Exchange, Handle

\* The inductive invariant holds in every state of every behaviour.
LEMMA Inductive == Spec => [](TypeOK /\ Connected /\ Counted /\ Apart)
BY InitIsGood, TypeStep, ConnectedStep, CountedStep, ApartStep, PTL DEF Spec

\* The connection-state gauge tells the truth and no retry leaves an earlier
\* connection open (client.go:97).
THEOREM GaugeTellsTheTruth == Spec => []OneConnection
<1>1. TypeOK /\ Connected => OneConnection
    BY DEF TypeOK, Connected, OneConnection
<1> QED BY <1>1, Inductive, PTL

\* The bounded loop gives up after exactly RetryNum retries (client.go:78).
THEOREM RetriesAreCounted == Spec => []LimitIsKept
<1>1. Counted => LimitIsKept
    BY DEF Counted, LimitIsKept
<1> QED BY <1>1, Inductive, PTL

\* No late answer is taken for that of a later exchange as long as no abandoned
\* goroutine came to a later connection (client.go:162).
THEOREM LateAnswersAreLost == Spec => []ExchangesStayApart
<1>1. TypeOK /\ Connected /\ Apart => ExchangesStayApart
    BY DEF TypeOK, Connected, Apart, UnderWay, ExchangesStayApart
<1> QED BY <1>1, Inductive, PTL
=============================================================================
