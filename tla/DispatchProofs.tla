---------------------------- MODULE DispatchProofs ----------------------------
(***************************************************************************)
(* What Dispatch queues and how it replies, for any clients, commands and  *)
(* limits, and whatever the handlers (Exec) do to the keyspace.            *)
(***************************************************************************)
EXTENDS Dispatch, SequenceTheorems, TLAPS

\* The part of the type invariant that transactions are about.
ClientsOK ==
    /\ cs \in [Clients -> ClientState]
    /\ running \in {Idle} \cup [client : Clients, queue : Seq(Cmds) \ {<<>>}]

\* The inductive invariant.
TInv == ClientsOK /\ QueueValid

\* What Dispatch works on.
Shaped(st) == DOMAIN st = {"ks", "cl", "stop", "out"} /\ st.cl \in ClientState

\* The same transaction state, and the same client otherwise but for its database.
SameTx(cl, old) ==
    /\ cl \in ClientState
    /\ cl.in_multi = old.in_multi /\ cl.multi_error = old.multi_error
    /\ cl.multi_queue = old.multi_queue /\ cl.quit_requested = old.quit_requested

LEMMA ReplyKeeps ==
  ASSUME NEW st, Shaped(st), NEW r
  PROVE  /\ Shaped(Reply(st, r))
         /\ Reply(st, r).cl = st.cl /\ Reply(st, r).ks = st.ks /\ Reply(st, r).stop = st.stop
  BY DEF Reply, Shaped

LEMMA StateShaped ==
  ASSUME ClientsOK, NEW c \in Clients
  PROVE  Shaped(State(c)) /\ State(c).cl = cs[c] /\ State(c).ks = ks /\ State(c).stop = stop
  BY DEF ClientsOK, Shaped, State

\* Outside MULTI, EXEC, DISCARD and QUIT, running a command leaves the transaction alone.
LEMMA RunPlain ==
  ASSUME NEW st, Shaped(st), NEW t, NEW u, NEW cmd, cmd.op \notin Transactional
  PROVE  SameTx(Run(st, t, u, cmd).cl, st.cl)
<1>0. SameTx(st.cl, st.cl)
  BY DEF Shaped, SameTx
<1>1. ASSUME NEW r PROVE SameTx(Reply(st, r).cl, st.cl)
  BY <1>0, ReplyKeeps
<1>2. SameTx(SELECT(st, cmd).cl, st.cl)
  <2>1. CASE cmd.n \notin Dbs
    BY <1>1, <2>1 DEF SELECT
  <2>2. CASE cmd.n \in Dbs
    <3> DEFINE s == [st EXCEPT !.cl.db = cmd.n]
    <3>1. Shaped(s) /\ SameTx(s.cl, st.cl)
      BY <2>2 DEF Shaped, SameTx, ClientState
    <3> HIDE DEF s
    <3>2. SameTx(Reply(s, OK).cl, st.cl)
      BY <3>1, ReplyKeeps
    <3> QED BY <2>2, <3>2 DEF SELECT, s
  <2> QED BY <2>1, <2>2
<1>3. SameTx(SHUTDOWN(st, cmd).cl, st.cl)
  <2>1. [st EXCEPT !.stop = cmd.how].cl = st.cl
    BY DEF Shaped
  <2>2. CASE cmd.how = "bad"
    BY <1>1, <2>2 DEF SHUTDOWN
  <2>3. CASE cmd.how # "bad"
    BY <1>0, <2>1, <2>3 DEF SHUTDOWN
  <2> QED BY <2>2, <2>3
<1>4. ASSUME NEW r PROVE SameTx(Reply([st EXCEPT !.ks = r.ks], r.reply).cl, st.cl)
  <2>1. Shaped([st EXCEPT !.ks = r.ks]) /\ [st EXCEPT !.ks = r.ks].cl = st.cl
    BY DEF Shaped
  <2> QED BY <1>0, <2>1, ReplyKeeps
<1>5. CASE Malformed(cmd)
  BY <1>1, <1>5 DEF Run
<1>6. CASE ~Malformed(cmd) /\ Refused(st, cmd)
  BY <1>1, <1>6 DEF Run
<1>7. CASE ~Malformed(cmd) /\ ~Refused(st, cmd)
  <2>1. CASE cmd.op = "PING"
    BY <1>1, <1>7, <2>1 DEF Run
  <2>2. CASE cmd.op = "SELECT"
    BY <1>2, <1>7, <2>2 DEF Run
  <2>3. CASE cmd.op = "SHUTDOWN"
    BY <1>3, <1>7, <2>3 DEF Run
  <2>4. CASE cmd.op \notin {"PING", "SELECT", "SHUTDOWN"}
    BY <1>4, <1>7, <2>4 DEF Run, Handler, Transactional
  <2> QED BY <2>1, <2>2, <2>3, <2>4
<1> QED BY <1>5, <1>6, <1>7

\* A client whose queue is in order.
TxOK(cl) ==
    /\ cl \in ClientState
    /\ cl.multi_queue # <<>> => cl.in_multi
    /\ Accepted(cl.multi_queue)

\* A step of Dispatch that does not reach the keyspace or the shutdown flags.
Inert(st, old) == TxOK(st.cl) /\ st.ks = old.ks /\ st.stop = old.stop

LEMMA EmptyQueue == <<>> \in Seq(Cmds) /\ Accepted(<<>>)
  BY DEF Accepted

LEMMA ReplyInert ==
  ASSUME NEW st, NEW s, NEW r, Shaped(s), Inert(s, st)
  PROVE  Inert(Reply(s, r), st) /\ Reply(s, r).cl = s.cl
  BY ReplyKeeps DEF Inert

LEMMA QueueEffect ==
  ASSUME NEW st, Shaped(st), TxOK(st.cl), st.cl.in_multi,
         NEW cmd \in Cmds, cmd.op \notin Transactional
  PROVE  Inert(Queue(st, cmd), st)
<1>1. CASE Malformed(cmd)
  <2> DEFINE s == [st EXCEPT !.cl.multi_error = TRUE]
  <2>1. Shaped(s) /\ Inert(s, st)
    BY DEF Shaped, Inert, TxOK, ClientState
  <2> HIDE DEF s
  <2>2. Inert(Reply(s, Error(cmd.op)), st)
    BY <2>1, ReplyInert
  <2> QED BY <1>1, <2>2 DEF Queue, s
<1>2. CASE ~Malformed(cmd)
  <2> DEFINE q == Append(st.cl.multi_queue, cmd)
             s == [st EXCEPT !.cl.multi_queue = q]
  <2>1. st.cl.multi_queue \in Seq(Cmds)
    BY DEF Shaped, ClientState
  <2>2. q \in Seq(Cmds)
    BY <2>1
  <2>3. Accepted(q)
    <3> SUFFICES ASSUME NEW i \in DOMAIN q
                 PROVE  ~Malformed(q[i]) /\ q[i].op \notin Transactional
      BY DEF Accepted
    <3>1. CASE i \in DOMAIN st.cl.multi_queue
      <4>1. q[i] = st.cl.multi_queue[i]
        BY <2>1, <3>1
      <4> QED BY <3>1, <4>1 DEF TxOK, Accepted
    <3>2. CASE i \notin DOMAIN st.cl.multi_queue
      <4>1. q[i] = cmd
        BY <2>1, <3>2
      <4> QED BY <1>2, <4>1
    <3> QED BY <3>1, <3>2
  <2> HIDE DEF q
  <2>4. Shaped(s) /\ s.cl.multi_queue = q /\ s.cl.in_multi /\ s.ks = st.ks /\ s.stop = st.stop
    BY <2>2 DEF Shaped, ClientState
  <2>5. Inert(s, st)
    BY <2>3, <2>4 DEF Inert, TxOK, Shaped
  <2> HIDE DEF s
  <2>6. Inert(Reply(s, <<"queued">>), st)
    BY <2>4, <2>5, ReplyInert
  <2> QED BY <1>2, <2>6 DEF Queue, s, q
<1> QED BY <1>1, <1>2

LEMMA ExecEffect ==
  ASSUME NEW st, Shaped(st), TxOK(st.cl)
  PROVE  Inert(EXEC(st), st) /\ ~EXEC(st).cl.in_multi
<1> DEFINE s == [st EXCEPT !.cl.in_multi = FALSE, !.cl.multi_queue = <<>>]
<1>1. Shaped(s) /\ s.cl.multi_queue = <<>> /\ s.cl.in_multi = FALSE /\ s.ks = st.ks /\ s.stop = st.stop
  BY EmptyQueue DEF Shaped, ClientState
<1>2. Inert(s, st)
  BY <1>1, EmptyQueue DEF Inert, TxOK, Shaped
<1>3. Inert(st, st)
  BY DEF Inert
<1>4. CASE ~st.cl.in_multi
  BY <1>3, <1>4, ReplyInert DEF EXEC
<1>5. CASE st.cl.in_multi
  <2> HIDE DEF s
  <2>1. \A r : Inert(Reply(s, r), st) /\ ~Reply(s, r).cl.in_multi
    BY <1>1, <1>2, ReplyInert
  <2>2. EXEC(st) = Reply(s, Error("execabort"))
           \/ EXEC(st) = Reply(s, <<"header", Len(st.cl.multi_queue)>>)
    BY <1>5 DEF EXEC, s
  <2> QED BY <2>1, <2>2
<1> QED BY <1>4, <1>5

LEMMA RunTx ==
  ASSUME NEW st, Shaped(st), TxOK(st.cl), NEW t, NEW u, NEW cmd,
         cmd.op \in {"MULTI", "DISCARD", "QUIT", "txarity"}
  PROVE  Inert(Run(st, t, u, cmd), st)
<1>1. Inert(st, st)
  BY DEF Inert
<1>2. ASSUME NEW r PROVE Inert(Reply(st, r), st)
  BY <1>1, ReplyInert
<1>3. Inert(MULTI(st), st)
  <2> DEFINE s == [st EXCEPT !.cl.in_multi = TRUE, !.cl.multi_error = FALSE,
                             !.cl.multi_queue = <<>>]
  <2>1. Shaped(s) /\ s.cl.multi_queue = <<>> /\ s.ks = st.ks /\ s.stop = st.stop
    BY EmptyQueue DEF Shaped, ClientState
  <2>2. Inert(s, st)
    BY <2>1, EmptyQueue DEF Inert, TxOK, Shaped
  <2> HIDE DEF s
  <2>3. Inert(Reply(s, OK), st)
    BY <2>1, <2>2, ReplyInert
  <2> QED BY <1>2, <2>3 DEF MULTI, s
<1>4. Inert(DISCARD(st), st)
  <2> DEFINE s == [st EXCEPT !.cl.in_multi = FALSE, !.cl.multi_error = FALSE,
                             !.cl.multi_queue = <<>>]
  <2>1. Shaped(s) /\ s.cl.multi_queue = <<>> /\ s.ks = st.ks /\ s.stop = st.stop
    BY EmptyQueue DEF Shaped, ClientState
  <2>2. Inert(s, st)
    BY <2>1, EmptyQueue DEF Inert, TxOK, Shaped
  <2> HIDE DEF s
  <2>3. Inert(Reply(s, OK), st)
    BY <2>1, <2>2, ReplyInert
  <2> QED BY <1>2, <2>3 DEF DISCARD, s
<1>5. Inert(Reply([st EXCEPT !.cl.quit_requested = TRUE], OK), st)
  <2> DEFINE s == [st EXCEPT !.cl.quit_requested = TRUE]
  <2>1. Shaped(s) /\ Inert(s, st)
    BY DEF Shaped, Inert, TxOK, ClientState
  <2> HIDE DEF s
  <2>2. Inert(Reply(s, OK), st)
    BY <2>1, ReplyInert
  <2> QED BY <2>2 DEF s
<1>6. CASE Malformed(cmd)
  BY <1>2, <1>6 DEF Run
<1>7. CASE ~Malformed(cmd) /\ Refused(st, cmd)
  BY <1>2, <1>7 DEF Run
<1>8. CASE ~Malformed(cmd) /\ ~Refused(st, cmd)
  <2>1. CASE cmd.op = "MULTI"
    BY <1>3, <1>8, <2>1 DEF Run
  <2>2. CASE cmd.op = "DISCARD"
    BY <1>4, <1>8, <2>2 DEF Run
  <2>3. CASE cmd.op = "QUIT"
    BY <1>5, <1>8, <2>3 DEF Run
  <2> QED BY <1>8, <2>1, <2>2, <2>3 DEF Malformed
<1> QED BY <1>6, <1>7, <1>8

-----------------------------------------------------------------------------
\* Dispatch as a whole.
LEMMA DispatchEffect ==
  ASSUME NEW st, Shaped(st), TxOK(st.cl), NEW t, NEW u, NEW cmd \in Cmds
  PROVE  LET r == DispatchTo(st, t, u, cmd) IN
         /\ TxOK(r.cl)
         /\ st.cl.in_multi => r.ks = st.ks /\ r.stop = st.stop
         /\ ~st.cl.in_multi /\ cmd.op \notin Transactional => ~r.cl.in_multi
         /\ cmd.op = "EXEC" => ~r.cl.in_multi
<1> DEFINE r == DispatchTo(st, t, u, cmd)
<1>1. CASE st.cl.in_multi /\ cmd.op \notin Transactional
  <2>1. r = Queue(st, cmd)
    BY <1>1 DEF DispatchTo
  <2>2. cmd.op # "EXEC"
    BY <1>1 DEF Transactional
  <2> QED BY <1>1, <2>1, <2>2, QueueEffect DEF Inert
<1>2. CASE cmd.op = "EXEC"
  <2>1. cmd.op \in Transactional
    BY <1>2 DEF Transactional
  <2>2. r = EXEC(st)
    BY <1>2, <2>1 DEF DispatchTo
  <2> QED BY <2>1, <2>2, ExecEffect DEF Inert
<1>3. CASE ~st.cl.in_multi /\ cmd.op \notin Transactional
  <2>1. cmd.op # "EXEC"
    BY <1>3 DEF Transactional
  <2>2. r = Run(st, t, u, cmd)
    BY <1>3, <2>1 DEF DispatchTo
  <2>3. SameTx(r.cl, st.cl)
    BY <1>3, <2>2, RunPlain
  <2>4. TxOK(r.cl)
    BY <2>3 DEF SameTx, TxOK
  <2> QED BY <1>3, <2>1, <2>3, <2>4 DEF SameTx
<1>4. CASE cmd.op \in Transactional /\ cmd.op # "EXEC"
  <2>1. cmd.op \in {"MULTI", "DISCARD", "QUIT", "txarity"}
    BY <1>4 DEF Transactional
  <2>2. r = Run(st, t, u, cmd)
    BY <1>4 DEF DispatchTo
  <2> QED BY <1>4, <2>1, <2>2, RunTx DEF Inert
<1> QED BY <1>1, <1>2, <1>3, <1>4

LEMMA ClientTxOK ==
  ASSUME TInv, NEW c \in Clients
  PROVE  TxOK(cs[c])
  BY DEF TInv, ClientsOK, QueueValid, TxOK

\* The queue that EXEC runs: its first command is accepted, and so is the rest.
LEMMA RunningQueue ==
  ASSUME TInv, running # Idle
  PROVE  /\ running.client \in Clients /\ ~cs[running.client].in_multi
         /\ running.queue \in Seq(Cmds) /\ Len(running.queue) \in Nat \ {0}
         /\ DOMAIN running = {"client", "queue"}
         /\ Head(running.queue) \in Cmds
         /\ Head(running.queue).op \notin Transactional
         /\ Accepted(Tail(running.queue))
<1>1. /\ running.client \in Clients /\ running.queue \in Seq(Cmds) /\ running.queue # <<>>
      /\ DOMAIN running = {"client", "queue"}
  BY DEF TInv, ClientsOK
<1>2. Accepted(running.queue) /\ ~cs[running.client].in_multi
  BY DEF TInv, QueueValid
<1> DEFINE q == running.queue
<1>3. 1 \in DOMAIN q /\ Len(q) \in Nat \ {0} /\ Head(q) = q[1] /\ q[1] \in Cmds
  BY <1>1
<1>4. \A i \in DOMAIN Tail(q) : i + 1 \in DOMAIN q /\ Tail(q)[i] = q[i + 1]
  BY <1>1
<1>5. Accepted(Tail(q))
  BY <1>2, <1>4 DEF Accepted
<1> QED BY <1>1, <1>2, <1>3, <1>5 DEF Accepted

LEMMA CommandTInv ==
  ASSUME TInv, NEW c \in Clients, NEW cmd \in Cmds, Command(c, cmd)
  PROVE  TInv'
<1>1. PICK u \in Times : Apply(c, DispatchTo(State(c), now, u, cmd))
  BY DEF Command
<1> DEFINE r == DispatchTo(State(c), now, u, cmd)
<1>2. Shaped(State(c)) /\ State(c).cl = cs[c] /\ TxOK(cs[c])
  BY StateShaped, ClientTxOK DEF TInv
<1>3. TxOK(r.cl) /\ (cmd.op = "EXEC" => ~r.cl.in_multi)
  BY <1>2, DispatchEffect
<1>4. cs' = [cs EXCEPT ![c] = r.cl]
  BY <1>1 DEF Apply
<1> HIDE DEF r
<1>5. cs \in [Clients -> ClientState] /\ running = Idle
  BY DEF TInv, ClientsOK, Command
<1>6. \A e \in Clients : TxOK(cs'[e])
  BY <1>3, <1>4, <1>5, ClientTxOK
<1>7. cs' \in [Clients -> ClientState]
  BY <1>3, <1>4, <1>5 DEF TxOK
<1>8. CASE running' = running
  BY <1>5, <1>6, <1>7, <1>8 DEF TInv, ClientsOK, QueueValid, TxOK
<1>9. CASE /\ cmd.op = "EXEC" /\ cs[c].multi_queue # <<>>
           /\ running' = [client |-> c, queue |-> cs[c].multi_queue]
  <2>1. cs[c].multi_queue \in Seq(Cmds) /\ Accepted(cs[c].multi_queue)
    BY <1>2 DEF TxOK, ClientState
  <2>2. /\ running' \in [client : Clients, queue : Seq(Cmds) \ {<<>>}]
        /\ running'.client = c /\ running'.queue = cs[c].multi_queue
    BY <1>9, <2>1
  <2>3. ~cs'[running'.client].in_multi
    <3>1. cs'[c] = r.cl
      BY <1>4, <1>5
    <3> QED BY <1>3, <1>9, <2>2, <3>1
  <2> QED BY <1>6, <1>7, <2>1, <2>2, <2>3 DEF TInv, ClientsOK, QueueValid, TxOK
<1> QED BY <1>8, <1>9 DEF Command

LEMMA TailOfLong ==
  ASSUME NEW S, NEW s \in Seq(S), Len(s) \in Nat \ {0}, Len(s) # 1
  PROVE  Tail(s) \in Seq(S) /\ Tail(s) # <<>>
<1>1. s # <<>> /\ Len(s) > 1
  <2>0. \A n \in Nat \ {0} : n # 1 => n # 0 /\ n > 1
    OBVIOUS
  <2>1. Len(s) # 0 /\ Len(s) > 1
    BY <2>0, Zenon
  <2>2. Len(<<>>) = 0
    BY EmptySeq
  <2> QED BY <2>1, <2>2, Zenon
<1>2. Tail(s) \in Seq(S) /\ Len(Tail(s)) = Len(s) - 1
  BY <1>1, HeadTailProperties
<1>3. Len(Tail(s)) # 0
  BY <1>1, <1>2
<1> QED BY <1>2, <1>3, EmptySeq

LEMMA ExecNextTInv ==
  ASSUME TInv, ExecNext
  PROVE  TInv'
<1> DEFINE c == running.client
           q == running.queue
<1>0. running # Idle
  BY DEF ExecNext
<1>1. PICK u \in Times : Apply(c, DispatchTo(State(c), now, u, Head(q)))
  BY DEF ExecNext
<1> DEFINE r == DispatchTo(State(c), now, u, Head(q))
<1>2. /\ c \in Clients /\ ~cs[c].in_multi /\ q \in Seq(Cmds) /\ Len(q) \in Nat \ {0}
      /\ DOMAIN running = {"client", "queue"} /\ Head(q) \in Cmds
      /\ Head(q).op \notin Transactional /\ Accepted(Tail(q))
  BY <1>0, RunningQueue
<1>3. Shaped(State(c)) /\ State(c).cl = cs[c] /\ TxOK(cs[c])
  BY <1>2, StateShaped, ClientTxOK DEF TInv
<1>4. TxOK(r.cl) /\ ~r.cl.in_multi
  BY <1>2, <1>3, DispatchEffect
<1>5. cs' = [cs EXCEPT ![c] = r.cl]
  BY <1>1 DEF Apply
<1> HIDE DEF r
<1>6. cs \in [Clients -> ClientState]
  BY DEF TInv, ClientsOK
<1>7. \A e \in Clients : TxOK(cs'[e])
  BY <1>2, <1>4, <1>5, <1>6, ClientTxOK
<1>8. cs' \in [Clients -> ClientState] /\ ~cs'[c].in_multi
  BY <1>2, <1>4, <1>5, <1>6 DEF TxOK
<1>9. CASE Len(q) = 1
  <2>1. running' = Idle
    BY <1>9 DEF ExecNext
  <2> QED BY <1>7, <1>8, <2>1 DEF TInv, ClientsOK, QueueValid, TxOK
<1>10. CASE Len(q) # 1
  <2>1. running' = [running EXCEPT !.queue = Tail(q)]
    BY <1>10 DEF ExecNext
  <2>2. Tail(q) \in Seq(Cmds) /\ Tail(q) # <<>>
    BY <1>2, <1>10, TailOfLong
  <2>3. /\ running' \in [client : Clients, queue : Seq(Cmds) \ {<<>>}]
        /\ running'.client = c /\ running'.queue = Tail(q)
    <3>1. running' = [client |-> c, queue |-> Tail(q)]
      BY <1>2, <2>1
    <3> QED BY <1>2, <2>2, <3>1
  <2> QED BY <1>2, <1>7, <1>8, <2>3 DEF TInv, ClientsOK, QueueValid, TxOK
<1> QED BY <1>9, <1>10

LEMMA InitTInv == Init => TInv
<1> SUFFICES ASSUME Init PROVE TInv
  OBVIOUS
<1>1. Fresh \in ClientState /\ Fresh.multi_queue = <<>>
  BY EmptyQueue, DispatchAssumption DEF Fresh, ClientState
<1>2. cs = [c \in Clients |-> Fresh] /\ running = Idle
  BY DEF Init
<1> QED BY <1>1, <1>2, EmptyQueue DEF TInv, ClientsOK, QueueValid

LEMMA ReconnectTInv ==
  ASSUME TInv, NEW c \in Clients, Reconnect(c)
  PROVE  TInv'
<1>1. Fresh \in ClientState /\ Fresh.multi_queue = <<>>
  BY EmptyQueue, DispatchAssumption DEF Fresh, ClientState
<1>2. cs' = [cs EXCEPT ![c] = Fresh] /\ running' = Idle /\ cs \in [Clients -> ClientState]
  BY DEF Reconnect, TInv, ClientsOK
<1>3. cs' \in [Clients -> ClientState]
  BY <1>1, <1>2
<1>4. \A e \in Clients : cs'[e] = Fresh \/ cs'[e] = cs[e]
  BY <1>2
<1>5. \A e \in Clients : /\ cs'[e].multi_queue # <<>> => cs'[e].in_multi
                         /\ Accepted(cs'[e].multi_queue)
  BY <1>1, <1>4, EmptyQueue DEF TInv, QueueValid
<1> QED BY <1>2, <1>3, <1>5 DEF TInv, ClientsOK, QueueValid

LEMMA NextTInv == ASSUME TInv, [Next]_vars PROVE TInv'
<1>1. CASE UNCHANGED <<cs, running>>
  BY <1>1 DEF TInv, ClientsOK, QueueValid
<1> QED BY <1>1, CommandTInv, ExecNextTInv, ReconnectTInv DEF Next, Serve, Periodic, Tick, vars

\* EXEC never runs MULTI, EXEC, DISCARD, QUIT or a command that the queueing path of
\* Dispatch rejected, and a queue never outlives its MULTI, however the commands of
\* any number of clients interleave with reconnections and expiry.
THEOREM QueuesValid == Spec => []QueueValid
<1>1. TInv => QueueValid
  BY DEF TInv
<1> QED BY <1>1, InitTInv, NextTInv, PTL DEF Spec

-----------------------------------------------------------------------------
\* One reply more, and no shutdown taken back.
LEMMA ReplyOnce ==
  ASSUME NEW s, Shaped(s), s.out = <<>>, NEW r
  PROVE  Len(Reply(s, r).out) = 1 /\ Reply(s, r).stop = s.stop
<1>1. Reply(s, r).out = Append(<<>>, r)
  BY DEF Reply, Shaped
<1>2. Len(Append(<<>>, r)) = 1
  OBVIOUS
<1> QED BY <1>1, <1>2, ReplyKeeps

\* A command outside MULTI gets one reply, unless it shuts the server down.
LEMMA RunReplies ==
  ASSUME NEW st, Shaped(st), st.out = <<>>, NEW t, NEW u, NEW cmd \in Cmds,
         Run(st, t, u, cmd).stop = "no"
  PROVE  st.stop = "no" /\ Len(Run(st, t, u, cmd).out) = 1
<1> DEFINE Good(s) == s.stop = "no" => st.stop = "no" /\ Len(s.out) = 1
<1>1. ASSUME NEW s, Shaped(s), s.out = <<>>, s.stop = st.stop, NEW r PROVE Good(Reply(s, r))
  BY <1>1, ReplyOnce
<1>2. ASSUME NEW r PROVE Good(Reply(st, r))
  BY <1>1
<1>3. Good(SELECT(st, cmd))
  <2>1. CASE cmd.n \notin Dbs
    BY <1>2, <2>1 DEF SELECT
  <2>2. CASE cmd.n \in Dbs
    <3> DEFINE s == [st EXCEPT !.cl.db = cmd.n]
    <3>1. Shaped(s) /\ s.out = <<>> /\ s.stop = st.stop
      BY <2>2 DEF Shaped, ClientState
    <3> HIDE DEF s
    <3>2. Good(Reply(s, OK))
      BY <1>1, <3>1
    <3> QED BY <2>2, <3>2 DEF SELECT, s
  <2> QED BY <2>1, <2>2
<1>4. cmd.op = "SHUTDOWN" => Good(SHUTDOWN(st, cmd))
  <2>1. CASE cmd.how = "bad"
    BY <1>2, <2>1 DEF SHUTDOWN
  <2>2. CASE cmd.how # "bad" /\ cmd.op = "SHUTDOWN"
    <3>1. cmd.how # "no"
      BY <2>2, DispatchAssumption
    <3>2. SHUTDOWN(st, cmd).stop = cmd.how
      BY <2>2 DEF SHUTDOWN, Shaped
    <3> QED BY <3>1, <3>2
  <2> QED BY <2>1, <2>2
<1>5. Good(Reply([st EXCEPT !.cl.quit_requested = TRUE], OK))
  <2> DEFINE s == [st EXCEPT !.cl.quit_requested = TRUE]
  <2>1. Shaped(s) /\ s.out = <<>> /\ s.stop = st.stop
    BY DEF Shaped, ClientState
  <2> HIDE DEF s
  <2>2. Good(Reply(s, OK))
    BY <1>1, <2>1
  <2> QED BY <2>2 DEF s
<1>6. ASSUME NEW b \in BOOLEAN
      PROVE  Good(Reply([st EXCEPT !.cl.in_multi = b, !.cl.multi_error = FALSE,
                                   !.cl.multi_queue = <<>>], OK))
  <2> DEFINE s == [st EXCEPT !.cl.in_multi = b, !.cl.multi_error = FALSE, !.cl.multi_queue = <<>>]
  <2>1. Shaped(s) /\ s.out = <<>> /\ s.stop = st.stop
    BY EmptyQueue DEF Shaped, ClientState
  <2> HIDE DEF s
  <2>2. Good(Reply(s, OK))
    BY <1>1, <2>1
  <2> QED BY <2>2 DEF s
<1>7. Good(MULTI(st)) /\ Good(DISCARD(st))
  <2>1. Good(MULTI(st))
    BY <1>2, <1>6 DEF MULTI
  <2>2. Good(DISCARD(st))
    BY <1>2, <1>6 DEF DISCARD
  <2> QED BY <2>1, <2>2
<1>8. ASSUME NEW r PROVE Good(Reply([st EXCEPT !.ks = r.ks], r.reply))
  <2> DEFINE s == [st EXCEPT !.ks = r.ks]
  <2>1. Shaped(s) /\ s.out = <<>> /\ s.stop = st.stop
    BY DEF Shaped
  <2> HIDE DEF s
  <2>2. Good(Reply(s, r.reply))
    BY <1>1, <2>1
  <2> QED BY <2>2 DEF s
<1> HIDE DEF Good
<1>9. CASE Malformed(cmd)
  <2>1. Good(Run(st, t, u, cmd))
    BY <1>2, <1>9 DEF Run
  <2> QED BY <2>1 DEF Good
<1>10. CASE ~Malformed(cmd) /\ Refused(st, cmd)
  <2>1. Good(Run(st, t, u, cmd))
    BY <1>2, <1>10 DEF Run
  <2> QED BY <2>1 DEF Good
<1>11. CASE ~Malformed(cmd) /\ ~Refused(st, cmd)
  <2>1. Good(Run(st, t, u, cmd))
    <3>1. CASE cmd.op = "PING"
      BY <1>2, <1>11, <3>1 DEF Run
    <3>2. CASE cmd.op = "SELECT"
      BY <1>3, <1>11, <3>2 DEF Run
    <3>3. CASE cmd.op = "QUIT"
      BY <1>5, <1>11, <3>3 DEF Run
    <3>4. CASE cmd.op = "SHUTDOWN"
      BY <1>4, <1>11, <3>4 DEF Run
    <3>5. CASE cmd.op = "MULTI"
      BY <1>7, <1>11, <3>5 DEF Run
    <3>6. CASE cmd.op = "DISCARD"
      BY <1>7, <1>11, <3>6 DEF Run
    <3>7. CASE cmd.op \notin {"PING", "SELECT", "QUIT", "SHUTDOWN", "MULTI", "DISCARD"}
      BY <1>8, <1>11, <3>7 DEF Run, Handler
    <3> QED BY <3>1, <3>2, <3>3, <3>4, <3>5, <3>6, <3>7
  <2> QED BY <2>1 DEF Good
<1> QED BY <1>9, <1>10, <1>11

\* The command that EXEC runs next, and a shutdown that is not taken back by any command.
LEMMA DispatchReplies ==
  ASSUME TInv, NEW c \in Clients, NEW t, NEW u, NEW cmd \in Cmds,
         DispatchTo(State(c), t, u, cmd).stop = "no"
  PROVE  /\ stop = "no"
         /\ ~cs[c].in_multi /\ cmd.op \notin Transactional =>
               Len(DispatchTo(State(c), t, u, cmd).out) = 1
<1>1. /\ Shaped(State(c)) /\ State(c).cl = cs[c] /\ State(c).stop = stop /\ State(c).out = <<>>
      /\ TxOK(cs[c])
  BY StateShaped, ClientTxOK DEF TInv, State
<1>2. CASE cs[c].in_multi
  BY <1>1, <1>2, DispatchEffect
<1>3. CASE ~cs[c].in_multi /\ cmd.op = "EXEC"
  <2>1. DispatchTo(State(c), t, u, cmd) = Reply(State(c), Error("nomulti"))
    BY <1>1, <1>3 DEF DispatchTo, EXEC
  <2> QED BY <1>1, <1>3, <2>1, ReplyKeeps DEF Transactional
<1>4. CASE ~cs[c].in_multi /\ cmd.op # "EXEC"
  <2>1. DispatchTo(State(c), t, u, cmd) = Run(State(c), t, u, cmd)
    BY <1>1, <1>4 DEF DispatchTo
  <2> QED BY <1>1, <2>1, RunReplies
<1> QED BY <1>2, <1>3, <1>4

LEMMA NextFramed == ASSUME TInv, FramedReplies, [Next]_vars PROVE FramedReplies'
<1>0. Len(Idle.queue) = 0
  BY DEF Idle
<1>1. ASSUME NEW c \in Clients, NEW cmd \in Cmds, Command(c, cmd) PROVE FramedReplies'
  <2>1. PICK u \in Times : Apply(c, DispatchTo(State(c), now, u, cmd))
    BY <1>1 DEF Command
  <2>2. stop' = "no" => stop = "no"
    BY <2>1, DispatchReplies DEF Apply
  <2>3. \/ running' = [client |-> c, queue |-> cs[c].multi_queue] /\ owed' = Len(cs[c].multi_queue)
        \/ running' = running /\ owed' = owed
    BY <1>1 DEF Command
  <2> QED BY <2>2, <2>3 DEF FramedReplies
<1>2. ASSUME ExecNext PROVE FramedReplies'
  <2> DEFINE c == running.client
             q == running.queue
  <2>1. running # Idle
    BY <1>2 DEF ExecNext
  <2>2. /\ c \in Clients /\ ~cs[c].in_multi /\ q \in Seq(Cmds) /\ Len(q) \in Nat \ {0}
        /\ DOMAIN running = {"client", "queue"} /\ Head(q) \in Cmds
        /\ Head(q).op \notin Transactional
    BY <2>1, RunningQueue
  <2>3. PICK u \in Times : /\ Apply(c, DispatchTo(State(c), now, u, Head(q)))
                           /\ owed' = owed - Len(DispatchTo(State(c), now, u, Head(q)).out)
    BY <1>2 DEF ExecNext
  <2>4. SUFFICES ASSUME stop' = "no" PROVE owed' = Len(running'.queue)
    BY DEF FramedReplies
  <2>5. stop = "no" /\ Len(DispatchTo(State(c), now, u, Head(q)).out) = 1
    BY <2>2, <2>3, <2>4, DispatchReplies DEF Apply
  <2>6. owed' = Len(q) - 1
    BY <2>3, <2>5 DEF FramedReplies
  <2>7. running' = IF Len(q) = 1 THEN Idle ELSE [running EXCEPT !.queue = Tail(@)]
    BY <1>2 DEF ExecNext
  <2>8. CASE Len(q) = 1
    BY <1>0, <2>6, <2>7, <2>8
  <2>9. CASE Len(q) # 1
    <3>1. running'.queue = Tail(q)
      BY <2>2, <2>7, <2>9
    <3>2. q # <<>>
      BY <2>2
    <3>3. Len(Tail(q)) = Len(q) - 1
      BY <2>2, <3>2, HeadTailProperties
    <3> QED BY <2>6, <3>1, <3>3
  <2> QED BY <2>8, <2>9
<1>3. CASE UNCHANGED <<stop, running, owed>>
  BY <1>3 DEF FramedReplies
<1> QED BY <1>1, <1>2, <1>3 DEF Next, Serve, Reconnect, Periodic, Tick, vars

\* EXEC sends exactly as many replies as its header announced, unless one of the commands
\* of the queue shut the server down: the array that a client reads is never short.
THEOREM RepliesFramed == Spec => []FramedReplies
<1>1. Init => FramedReplies
  BY DEF Init, FramedReplies, Idle
<1>2. TInv /\ FramedReplies /\ [Next]_vars => FramedReplies'
  BY NextFramed
<1> QED BY <1>1, <1>2, InitTInv, NextTInv, PTL DEF Spec
=============================================================================
