---------------------------- MODULE TcpKeepalive ----------------------------
(***************************************************************************)
(* tcp-keepalive: Client.Run with the goroutine that every SendAndReceive  *)
(* starts and a timeout abandons, Server.Run with a handler for every      *)
(* connection, and the connections between them.                           *)
(*                                                                         *)
(* An abandoned goroutine goes on: it reads c.conn when it comes to Write  *)
(* and again when it comes to Read, and by then c.conn may be the next     *)
(* connection, or nil after a failed dial.                                 *)
(*                                                                         *)
(* External: TCP.  A read returns one or more of the messages that are     *)
(* under way; a connection may break at any time.                          *)
(***************************************************************************)
EXTENDS Integers, FiniteSets

CONSTANTS
    RetryNums,  \* choices of --retry, negative for infinite
    Conns,      \* bound: connections that exist at a time
    Workers,    \* bound: goroutines of exchanges that are alive at a time
    MaxFaults   \* bound: failing calls, broken connections, signals

ASSUME TcpAssumption ==
    /\ RetryNums \subseteq Int
    /\ IsFiniteSet(Conns) /\ IsFiniteSet(Workers)
    /\ MaxFaults \in Nat

Nil == "nil"

ASSUME NilAssumption == Nil \notin Conns \cup Workers

VARIABLES
    retryNum,   \* Config.RetryNum
    pc, i,      \* of Client.Run; i is the index of the bounded loop
    result,     \* how Run ended
    conn,       \* Client.conn
    gauge,      \* the connection state exported
    worker,     \* goroutines of SendAndReceive
    current,    \* the one SendAndReceive waits for
    cancelled,  \* the client got a signal
    failures,   \* history: failed runs of the bounded loop
    opened,     \* connections that the client has not closed
    sent, echoed,   \* messages under way to the server, and back
    handler, held,  \* the server's handler, and the messages it read
    server,     \* "up", "stopping" after a signal, "down"
    broken,     \* broken connections
    strayed,    \* history: an abandoned goroutine used the connection
    merged,     \* history: messages of the connection were received as one
    faults      \* what is left of the bound

clientVars == <<pc, i, result, conn, gauge, cancelled, failures, opened>>
workerVars == <<worker, current>>
serverVars == <<handler, held, server>>
wireVars == <<sent, echoed, broken>>
vars == <<retryNum, clientVars, workerVars, serverVars, wireVars, strayed, merged,
          faults>>

\* start, sent: before c.conn is read for Write, for Read; write, read: in the
\* call; ok, failed: in front of the channel; none: not there.
NoWorker == [pc |-> "none", on |-> Nil]

Init ==
    /\ retryNum \in RetryNums
    /\ pc = "loop" /\ i = 0
    /\ result = "none"
    /\ conn = Nil
    /\ gauge = "unestablished"
    /\ worker = [w \in Workers |-> NoWorker]
    /\ current = Nil
    /\ cancelled = FALSE
    /\ failures = 0
    /\ opened = {}
    /\ sent = [k \in Conns |-> 0] /\ echoed = [k \in Conns |-> 0]
    /\ handler = [k \in Conns |-> "closed"]
    /\ held = [k \in Conns |-> 0]
    /\ server = "up"
    /\ broken = {} /\ strayed = FALSE /\ merged = FALSE
    /\ faults = MaxFaults

Fault == faults > 0 /\ faults' = faults - 1
-----------------------------------------------------------------------------
(***************************************************************************)
(* Client.Run.                                                             *)
(***************************************************************************)
\* Mutant of LimitReached: the loop runs while i < c.RetryNum.
LimitReachedEarly(n) == retryNum >= 0 /\ n >= retryNum

\* Mutant of LimitReached: a negative number of retries is not special.
LimitReachedSigned(n) == n > retryNum

\* The condition of the bounded loop fails at index n.
LimitReached(n) == retryNum >= 0 /\ n > retryNum

\* The next iteration, at index n; the infinite loop has no index.
Iterate(n) ==
    /\ i' = IF retryNum >= 0 THEN n ELSE 0
    /\ pc' = IF LimitReached(n) THEN "end" ELSE "loop"
    /\ result' = IF LimitReached(n) THEN "limit" ELSE result

\* run returned an error: it is logged, and Run sleeps.
RunFailed ==
    /\ Iterate(i + 1)
    /\ failures' = IF retryNum >= 0 THEN failures + 1 ELSE 0

\* run returned nil: i is reset and then incremented.
RunReturned ==
    /\ Iterate(1)
    /\ UNCHANGED failures

\* The head of both loops: a cancelled context ends Run.
StartRun ==
    /\ pc = "loop"
    /\ IF cancelled
         THEN pc' = "end" /\ result' = "nil"
         ELSE pc' = "dial" /\ UNCHANGED result
    /\ UNCHANGED <<retryNum, i, conn, gauge, cancelled, failures, opened, workerVars,
                   serverVars, wireVars, strayed, merged, faults>>

setConnStateEstablished == gauge' = "established"

setConnStateClosed == gauge' = "closed"

\* A connection nobody uses any more.
Unused(k) ==
    /\ k \notin opened
    /\ handler[k] = "closed"
    /\ \A w \in Workers : worker[w].on # k

DialSucceeds ==
    /\ pc = "dial"
    /\ server # "down"
    /\ \E k \in Conns : Unused(k)
    /\ LET k == CHOOSE x \in Conns : Unused(x) IN
          /\ conn' = k
          /\ opened' = opened \cup {k}
          /\ sent' = [sent EXCEPT ![k] = 0]
          /\ echoed' = [echoed EXCEPT ![k] = 0]
          /\ broken' = broken \ {k}
          /\ handler' = [handler EXCEPT ![k] = "read"]
          /\ held' = [held EXCEPT ![k] = 0]
    /\ setConnStateEstablished
    /\ strayed' = FALSE /\ merged' = FALSE
    /\ pc' = "exchange"
    /\ UNCHANGED <<retryNum, i, result, cancelled, failures, workerVars, server,
                   faults>>

\* DialTCP leaves nil in c.conn, a failing ResolveTCPAddr what was there.
DialFails ==
    /\ pc = "dial"
    /\ \/ server = "down" /\ conn' = Nil /\ UNCHANGED faults
       \/ Fault /\ conn' \in {Nil, conn}
    /\ RunFailed
    /\ UNCHANGED <<retryNum, gauge, cancelled, opened, workerVars, serverVars, wireVars,
                   strayed, merged>>

\* Mutant of CloseConn: the gauge is left alone.
CloseConnOnly ==
    /\ opened' = opened \ {conn}
    /\ echoed' = [echoed EXCEPT ![conn] = 0]
    /\ broken' = broken \ {conn}
    /\ UNCHANGED <<conn, gauge, sent>>

\* The deferred Close of run.  What has not been read is lost.
CloseConn ==
    /\ opened' = opened \ {conn}
    /\ echoed' = [echoed EXCEPT ![conn] = 0]
    /\ broken' = broken \ {conn}
    /\ setConnStateClosed
    /\ UNCHANGED <<conn, sent>>

KeepConn == UNCHANGED <<conn, opened, gauge, wireVars>>

\* SendAndReceive starts its goroutine.
StartExchange ==
    /\ pc = "exchange"
    /\ \E w \in Workers : worker[w] = NoWorker
    /\ LET w == CHOOSE x \in Workers : worker[x] = NoWorker IN
          /\ worker' = [worker EXCEPT ![w].pc = "start"]
          /\ current' = w
    /\ pc' = "wait"
    /\ UNCHANGED <<retryNum, i, result, conn, gauge, cancelled, failures, opened,
                   serverVars, wireVars, strayed, merged, faults>>

\* Mutant of TimedOut: the loop of SendByPeriod goes on after a timeout.
TimedOutGoesOn ==
    /\ pc' = "tick"
    /\ KeepConn
    /\ UNCHANGED <<i, result, failures>>

\* t.Err() goes up to Run.
TimedOut == CloseConn /\ RunFailed

\* ReceiveTimeout is over: the goroutine is abandoned.  If it is in a call, the
\* call fails with the connection, and then nobody receives its result.
Timeout ==
    /\ pc = "wait"
    /\ worker' = [worker EXCEPT ![current] =
                     IF @.pc \in {"start", "sent"} THEN @ ELSE NoWorker]
    /\ current' = Nil
    /\ TimedOut
    /\ UNCHANGED <<retryNum, cancelled, serverVars, strayed, merged, faults>>

\* The goroutine's result arrives.
ExchangeDone ==
    /\ pc = "wait"
    /\ \/ /\ worker[current].pc = "ok"
          /\ pc' = "tick"
          /\ KeepConn
          /\ UNCHANGED <<i, result, failures>>
       \/ /\ worker[current].pc = "failed"
          /\ CloseConn
          /\ RunFailed
    /\ worker' = [worker EXCEPT ![current] = NoWorker]
    /\ current' = Nil
    /\ UNCHANGED <<retryNum, cancelled, serverVars, strayed, merged, faults>>

\* The select of SendByPeriod.
Tick ==
    /\ pc = "tick"
    /\ \/ /\ cancelled
          /\ CloseConn
          /\ RunReturned
       \/ /\ pc' = "exchange"
          /\ KeepConn
          /\ UNCHANGED <<i, result, failures>>
    /\ UNCHANGED <<retryNum, cancelled, workerVars, serverVars, strayed, merged, faults>>

\* The process is gone, its sockets and goroutines with it.
ClientGone(how) ==
    /\ pc' = "end"
    /\ result' = how
    /\ opened' = {}
    /\ worker' = [w \in Workers |-> NoWorker]
    /\ current' = Nil
    /\ UNCHANGED <<retryNum, i, conn, gauge, cancelled, failures, serverVars, wireVars,
                   strayed, merged>>

Interrupt ==
    /\ ~cancelled
    /\ Fault
    /\ cancelled' = TRUE
    /\ UNCHANGED <<retryNum, pc, i, result, conn, gauge, failures, opened, workerVars,
                   serverVars, wireVars, strayed, merged>>

\* Five seconds after the signal main returns.
Exit == cancelled /\ pc # "end" /\ ClientGone("exit") /\ UNCHANGED faults

\* Serve registers its path again when it is called again, and panics.
Serve == ClientGone("panic")

\* The metrics server fails and is started again.
ServeMetricsFails == pc # "end" /\ Fault /\ Serve
-----------------------------------------------------------------------------
(***************************************************************************)
(* The goroutine of an exchange, abandoned or not.                         *)
(***************************************************************************)
\* An abandoned goroutine blocks on the unbuffered channel for good.
Leave(w, how) ==
    worker' = [worker EXCEPT ![w] =
                  IF w = current THEN [pc |-> how, on |-> Nil] ELSE NoWorker]

\* c.conn is read for Write or for Read.  A nil pointer panics.
UseConn(w) ==
    /\ \/ worker[w].pc = "start" /\ worker' = [worker EXCEPT ![w] = [pc |-> "write", on |-> conn]]
       \/ worker[w].pc = "sent" /\ worker' = [worker EXCEPT ![w] = [pc |-> "read", on |-> conn]]
    /\ conn # Nil
    /\ strayed' = (strayed \/ w # current)
    /\ UNCHANGED <<retryNum, clientVars, current, serverVars, wireVars, merged, faults>>

UseNil(w) ==
    /\ worker[w].pc \in {"start", "sent"}
    /\ conn = Nil
    /\ ClientGone("panic")
    /\ UNCHANGED faults

\* The connection is of no use: closed here, broken, or ended by the server.
Dead(k) == k \notin opened \/ k \in broken \/ handler[k] = "closed"

\* A message written to a connection that the server has closed is lost.
Write(w) ==
    LET k == worker[w].on IN
    /\ worker[w].pc = "write"
    /\ \/ /\ k \in opened /\ k \notin broken
          /\ sent' = [sent EXCEPT ![k] = IF handler[k] = "closed" THEN @ ELSE @ + 1]
          /\ worker' = [worker EXCEPT ![w] = [pc |-> "sent", on |-> Nil]]
       \/ /\ Dead(k)
          /\ Leave(w, "failed")
          /\ UNCHANGED sent
    /\ UNCHANGED <<retryNum, clientVars, current, serverVars, echoed, broken, strayed,
                   merged, faults>>

\* Messages that come together are an unexpected one, which is no error.
Read(w) ==
    LET k == worker[w].on IN
    /\ worker[w].pc = "read"
    /\ \/ /\ k \in opened /\ k \notin broken
          /\ \E n \in 1..echoed[k] :
                /\ echoed' = [echoed EXCEPT ![k] = @ - n]
                /\ merged' = (merged \/ n > 1)
          /\ Leave(w, "ok")
       \/ /\ Dead(k)
          /\ k \in opened \ broken => echoed[k] = 0
          /\ Leave(w, "failed")
          /\ UNCHANGED <<echoed, merged>>
    /\ UNCHANGED <<retryNum, clientVars, current, serverVars, sent, broken, strayed,
                   faults>>
-----------------------------------------------------------------------------
(***************************************************************************)
(* The server: one handler per connection.  After an error Handle returns  *)
(* and the connection is closed; the goroutine inside finds it closed and  *)
(* blocks on its channel for good.                                         *)
(***************************************************************************)
CloseHandler(k) == handler' = [handler EXCEPT ![k] = "closed"]

\* Mutant of HandleFails: an error does not end Handle.
HandleFailsGoesOn(k) == handler' = handler

HandleFails(k) == CloseHandler(k)

HandleReceive(k) ==
    /\ handler[k] = "read"
    /\ \/ /\ k \notin broken
          /\ \E n \in 1..sent[k] :
                /\ sent' = [sent EXCEPT ![k] = @ - n]
                /\ held' = [held EXCEPT ![k] = n]
          /\ handler' = [handler EXCEPT ![k] = "send"]
       \/ /\ k \in broken \/ (k \notin opened /\ sent[k] = 0)
          /\ HandleFails(k)
          /\ UNCHANGED <<sent, held>>
    /\ UNCHANGED <<retryNum, clientVars, workerVars, server, echoed, broken, strayed,
                   merged, faults>>

\* A stopping server's handler ends after the exchange it was waiting for.
HandleSend(k) ==
    /\ handler[k] = "send"
    /\ \/ /\ k \in opened \ broken
          /\ echoed' = [echoed EXCEPT ![k] = @ + held[k]]
          /\ \/ handler' = [handler EXCEPT ![k] = "read"]
             \/ server = "stopping" /\ CloseHandler(k)
       \/ /\ k \notin opened \/ k \in broken
          /\ HandleFails(k)
          /\ UNCHANGED echoed
    /\ held' = [held EXCEPT ![k] = 0]
    /\ UNCHANGED <<retryNum, clientVars, workerVars, sent, broken, server, strayed,
                   merged, faults>>

StopServer ==
    /\ server = "up"
    /\ Fault
    /\ server' = "stopping"
    /\ UNCHANGED <<retryNum, clientVars, workerVars, handler, held, wireVars, strayed,
                   merged>>

\* Five seconds after the signal, or at once by a panic of its metrics server.
ServerExit ==
    /\ \/ server = "stopping" /\ UNCHANGED faults
       \/ server = "up" /\ Fault
    /\ server' = "down"
    /\ handler' = [k \in Conns |-> "closed"]
    /\ held' = [k \in Conns |-> 0]
    /\ UNCHANGED <<retryNum, clientVars, workerVars, wireVars, strayed, merged>>

ServerStart ==
    /\ server = "down"
    /\ server' = "up"
    /\ UNCHANGED <<retryNum, clientVars, workerVars, handler, held, wireVars, strayed,
                   merged, faults>>

\* External: the network loses a connection.
Break(k) ==
    /\ k \in opened \ broken
    /\ Fault
    /\ broken' = broken \cup {k}
    /\ UNCHANGED <<retryNum, clientVars, workerVars, serverVars, sent, echoed, strayed,
                   merged>>
-----------------------------------------------------------------------------
RunLoop ==
    \/ StartRun \/ DialSucceeds \/ DialFails \/ StartExchange \/ Timeout
    \/ ExchangeDone \/ Tick

Exchange(w) == UseConn(w) \/ UseNil(w) \/ Write(w) \/ Read(w)

Handle(k) == HandleReceive(k) \/ HandleSend(k)

Next ==
    \/ RunLoop \/ Interrupt \/ Exit \/ ServeMetricsFails
    \/ \E w \in Workers : Exchange(w)
    \/ \E k \in Conns : Handle(k) \/ Break(k)
    \/ StopServer \/ ServerExit \/ ServerStart

Spec == Init /\ [][Next]_vars

\* Goroutines run, timers fire.
Fairness ==
    /\ WF_vars(RunLoop)
    /\ \A w \in Workers : WF_vars(Exchange(w))
    /\ \A k \in Conns : WF_vars(Handle(k))

FairSpec == Spec /\ Fairness
-----------------------------------------------------------------------------
(***************************************************************************)
(* Properties.                                                             *)
(***************************************************************************)
\* The gauge says "established" exactly while the client has a connection, and
\* a retry never leaves an earlier connection open.
OneConnection ==
    /\ \A k \in opened : k = conn
    /\ pc # "end" => (gauge = "established" <=> opened # {})

\* One exchange at a time: however late an answer is, it is never taken for the
\* answer of a later exchange, and no two messages are received as one, unless
\* the goroutine of a timed-out exchange came to a later connection.
ExchangesStayApart ==
    ~strayed => ~merged /\ \A k \in opened :
        /\ sent[k] + held[k] + echoed[k] <= 1
        /\ pc = "tick" => sent[k] + held[k] + echoed[k] = 0

\* The client gives up after exactly c.RetryNum retries, never earlier, or when
\* it is stopped and has none.
LimitIsKept ==
    /\ retryNum >= 0 => failures <= retryNum + 1
    /\ result = "limit" => failures = retryNum + 1 \/ (cancelled /\ retryNum = 0)

\* A client without limit comes back again and again once the server stays.
Reconnects ==
    retryNum < 0 /\ <>[](server = "up")
        => []<>(gauge = "established") \/ <>(result = "panic" \/ cancelled)

\* The server closes every connection that its client has closed, though the
\* goroutine of its handler is left behind.
ConnectionsAreReleased ==
    \A k \in Conns :
        (handler[k] \in {"read", "send"} /\ k \notin opened)
            ~> (handler[k] = "closed")
=============================================================================
