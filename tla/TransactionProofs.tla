--------------------------- MODULE TransactionProofs ---------------------------
(***************************************************************************)
(* A transaction does what its client was told, for any clients, commands  *)
(* and limits, and whatever the handlers (Exec) do to the keyspace.        *)
(***************************************************************************)
EXTENDS DispatchProofs

\* What the client was told of its transaction is what the server holds of it.
Linked(h, cl) ==
    /\ h.open = cl.in_multi
    /\ cl.in_multi => h.sent = cl.multi_queue /\ h.refused = cl.multi_error

\* The inductive invariant of TransactionExact.
LInv ==
    /\ TInv
    /\ told \in [Clients -> Told]
    /\ \A c \in Clients : Linked(told[c], cs[c])

LEMMA ReplyOut ==
  ASSUME NEW s, Shaped(s), s.out = <<>>, NEW r
  PROVE  Reply(s, r).out = <<r>> /\ Reply(s, r).cl = s.cl
<1>1. Reply(s, r).out = Append(<<>>, r)
  BY DEF Reply, Shaped
<1>2. Append(<<>>, r) = <<r>>
  OBVIOUS
<1> QED BY <1>1, <1>2, ReplyKeeps

\* The replies that tell a client what became of its command.
LEMMA Distinct ==
  ASSUME NEW e
  PROVE  <<Error(e)>> # <<OK>> /\ <<Error(e)>> # << <<"queued">> >>
<1>1. Error(e)[1] = "error" /\ OK[1] = "ok" /\ <<"queued">>[1] = "queued"
  BY DEF Error, OK
<1>2. Error(e) # OK /\ Error(e) # <<"queued">>
  BY <1>1
<1> QED BY <1>2

LEMMA ClosedTold ==
  LET opened == [Closed EXCEPT !.open = TRUE] IN
  /\ Closed \in Told /\ Closed.open = FALSE
  /\ opened \in Told /\ opened.open = TRUE /\ opened.sent = <<>> /\ opened.refused = FALSE
<1>1. Closed \in Told /\ Closed.open = FALSE /\ Closed.sent = <<>> /\ Closed.refused = FALSE
  BY EmptyQueue DEF Closed, Told
<1> QED BY <1>1 DEF Told

LEMMA QueueLinked ==
  ASSUME NEW st, Shaped(st), st.cl.in_multi, st.out = <<>>,
         NEW h \in Told, Linked(h, st.cl), NEW cmd \in Cmds, cmd.op \notin Transactional
  PROVE  LET r == Queue(st, cmd) IN
         Heard(h, cmd, r.out) \in Told /\ Linked(Heard(h, cmd, r.out), r.cl)
<1>0. /\ st.cl \in ClientState /\ h.open /\ h.sent = st.cl.multi_queue /\ h.refused = st.cl.multi_error
      /\ st.cl.in_multi = TRUE /\ h.open = TRUE
  BY DEF Shaped, Linked, ClientState, Told
<1>1. ASSUME NEW out
      PROVE  Heard(h, cmd, out) = IF out = << <<"queued">> >> THEN [h EXCEPT !.sent = Append(@, cmd)]
                                  ELSE [h EXCEPT !.refused = TRUE]
  BY <1>0 DEF Heard, Transactional
<1>2. CASE Malformed(cmd)
  <2> DEFINE s == [st EXCEPT !.cl.multi_error = TRUE]
  <2>1. /\ Shaped(s) /\ s.out = <<>> /\ s.cl.in_multi = TRUE /\ s.cl.multi_error = TRUE
        /\ s.cl.multi_queue = st.cl.multi_queue
    BY <1>0 DEF Shaped, ClientState
  <2>2. Queue(st, cmd) = Reply(s, Error(cmd.op))
    BY <1>2 DEF Queue
  <2> HIDE DEF s
  <2>3. Queue(st, cmd).out = <<Error(cmd.op)>> /\ Queue(st, cmd).cl = s.cl
    BY <2>1, <2>2, ReplyOut
  <2> DEFINE g == [h EXCEPT !.refused = TRUE]
  <2>4. Heard(h, cmd, Queue(st, cmd).out) = g
    BY <1>1, <2>3, Distinct
  <2>5. g \in Told /\ g.open = h.open /\ g.sent = h.sent /\ g.refused = TRUE
    BY DEF Told
  <2> HIDE DEF g
  <2> QED BY <1>0, <2>1, <2>3, <2>4, <2>5 DEF Linked
<1>3. CASE ~Malformed(cmd)
  <2> DEFINE q == Append(st.cl.multi_queue, cmd)
             s == [st EXCEPT !.cl.multi_queue = q]
             g == [h EXCEPT !.sent = q]
  <2>1. q \in Seq(Cmds)
    BY <1>0 DEF ClientState
  <2>2. Queue(st, cmd) = Reply(s, <<"queued">>)
    BY <1>3 DEF Queue
  <2>3. Heard(h, cmd, << <<"queued">> >>) = g
    BY <1>0, <1>1
  <2> HIDE DEF q
  <2>4. /\ Shaped(s) /\ s.out = <<>> /\ s.cl.in_multi = TRUE
        /\ s.cl.multi_error = st.cl.multi_error /\ s.cl.multi_queue = q
    BY <1>0, <2>1 DEF Shaped, ClientState
  <2>5. g \in Told /\ g.open = h.open /\ g.refused = h.refused /\ g.sent = q
    BY <2>1 DEF Told
  <2> HIDE DEF s, g
  <2>6. Queue(st, cmd).out = << <<"queued">> >> /\ Queue(st, cmd).cl = s.cl
    BY <2>2, <2>4, ReplyOut
  <2> QED BY <1>0, <2>3, <2>4, <2>5, <2>6 DEF Linked
<1> QED BY <1>2, <1>3

LEMMA MultiLinked ==
  ASSUME NEW st, Shaped(st), st.out = <<>>, NEW h \in Told, Linked(h, st.cl),
         NEW t, NEW u, NEW cmd, cmd.op = "MULTI"
  PROVE  LET r == Run(st, t, u, cmd) IN
         Heard(h, cmd, r.out) \in Told /\ Linked(Heard(h, cmd, r.out), r.cl)
<1> DEFINE r == Run(st, t, u, cmd)
<1>1. r = MULTI(st)
  BY DEF Run, Malformed, Refused, Writes
<1>2. ASSUME NEW out
      PROVE  Heard(h, cmd, out) = IF out = <<OK>> THEN [Closed EXCEPT !.open = TRUE] ELSE h
  BY DEF Heard, Transactional
<1>3. CASE st.cl.in_multi
  <2>1. r = Reply(st, Error("nested"))
    BY <1>1, <1>3 DEF MULTI
  <2>2. r.out = <<Error("nested")>> /\ r.cl = st.cl
    BY <2>1, ReplyOut
  <2> QED BY <1>2, <2>2, Distinct
<1>4. CASE ~st.cl.in_multi
  <2> DEFINE s == [st EXCEPT !.cl.in_multi = TRUE, !.cl.multi_error = FALSE,
                             !.cl.multi_queue = <<>>]
  <2>1. /\ Shaped(s) /\ s.out = <<>> /\ s.cl.in_multi = TRUE /\ s.cl.multi_error = FALSE
        /\ s.cl.multi_queue = <<>>
    BY EmptyQueue DEF Shaped, ClientState
  <2>2. r = Reply(s, OK)
    BY <1>1, <1>4 DEF MULTI
  <2> HIDE DEF s
  <2>3. r.out = <<OK>> /\ r.cl = s.cl
    BY <2>1, <2>2, ReplyOut
  <2> QED BY <1>2, <2>1, <2>3, ClosedTold DEF Linked
<1> QED BY <1>3, <1>4

\* DISCARD ends the transaction, whatever it finds.
LEMMA DiscardEnds ==
  ASSUME NEW st, Shaped(st), NEW t, NEW u, NEW cmd, cmd.op = "DISCARD"
  PROVE  Run(st, t, u, cmd).cl.in_multi = FALSE
<1>1. Run(st, t, u, cmd) = DISCARD(st)
  BY DEF Run, Malformed, Refused, Writes
<1>2. CASE st.cl.in_multi
  <2> DEFINE s == [st EXCEPT !.cl.in_multi = FALSE, !.cl.multi_error = FALSE,
                             !.cl.multi_queue = <<>>]
  <2>1. Shaped(s) /\ s.cl.in_multi = FALSE
    BY EmptyQueue DEF Shaped, ClientState
  <2>2. DISCARD(st) = Reply(s, OK)
    BY <1>2 DEF DISCARD
  <2> HIDE DEF s
  <2> QED BY <1>1, <2>1, <2>2, ReplyKeeps
<1>3. CASE ~st.cl.in_multi
  <2>1. st.cl.in_multi = FALSE
    BY <1>3 DEF Shaped, ClientState
  <2>2. DISCARD(st) = Reply(st, Error("nomulti"))
    BY <1>3 DEF DISCARD
  <2> QED BY <1>1, <2>1, <2>2, ReplyKeeps
<1> QED BY <1>2, <1>3

\* QUIT, and MULTI, EXEC, DISCARD or QUIT of the wrong arity, leave the transaction alone.
LEMMA QuitKeeps ==
  ASSUME NEW st, Shaped(st), NEW t, NEW u, NEW cmd, cmd.op \in {"QUIT", "txarity"}
  PROVE  LET cl == Run(st, t, u, cmd).cl IN
         /\ cl.in_multi = st.cl.in_multi /\ cl.multi_queue = st.cl.multi_queue
         /\ cl.multi_error = st.cl.multi_error
<1>1. CASE cmd.op = "txarity"
  <2>1. Run(st, t, u, cmd) = Reply(st, Error(cmd.op))
    BY <1>1 DEF Run, Malformed
  <2> QED BY <2>1, ReplyKeeps
<1>2. CASE cmd.op = "QUIT"
  <2> DEFINE s == [st EXCEPT !.cl.quit_requested = TRUE]
  <2>1. /\ Shaped(s) /\ s.cl.in_multi = st.cl.in_multi /\ s.cl.multi_queue = st.cl.multi_queue
        /\ s.cl.multi_error = st.cl.multi_error
    BY DEF Shaped, ClientState
  <2>2. Run(st, t, u, cmd) = Reply(s, OK)
    BY <1>2 DEF Run, Malformed, Refused, Writes
  <2> HIDE DEF s
  <2> QED BY <2>1, <2>2, ReplyKeeps
<1> QED BY <1>1, <1>2

\* Whatever a client sends, what it reads tells it what became of its transaction.
LEMMA DispatchLinked ==
  ASSUME NEW st, Shaped(st), TxOK(st.cl), st.out = <<>>, NEW h \in Told, Linked(h, st.cl),
         NEW t, NEW u, NEW cmd \in Cmds
  PROVE  LET r == DispatchTo(st, t, u, cmd) IN
         Heard(h, cmd, r.out) \in Told /\ Linked(Heard(h, cmd, r.out), r.cl)
<1> DEFINE r == DispatchTo(st, t, u, cmd)
<1>0. h.open = st.cl.in_multi /\ st.cl.in_multi \in BOOLEAN
  BY DEF Linked, Shaped, ClientState
<1>1. CASE st.cl.in_multi /\ cmd.op \notin Transactional
  <2>1. r = Queue(st, cmd)
    BY <1>1 DEF DispatchTo
  <2> HIDE DEF r
  <2> QED BY <1>1, <2>1, QueueLinked DEF r
<1>2. CASE cmd.op = "EXEC"
  <2>1. r = EXEC(st)
    BY <1>2 DEF DispatchTo, Transactional
  <2>2. r.cl \in ClientState /\ ~r.cl.in_multi
    BY <2>1, ExecEffect DEF Inert, TxOK
  <2>3. Heard(h, cmd, r.out) = Closed
    BY <1>2 DEF Heard, Transactional
  <2>4. r.cl.in_multi = FALSE
    BY <2>2 DEF ClientState
  <2> HIDE DEF r
  <2> QED BY <2>3, <2>4, ClosedTold DEF Linked, r
<1>3. CASE ~st.cl.in_multi /\ cmd.op \notin Transactional
  <2>1. r = Run(st, t, u, cmd)
    BY <1>3 DEF DispatchTo, Transactional
  <2>2. r.cl.in_multi = FALSE
    BY <1>0, <1>3, <2>1, RunPlain DEF SameTx
  <2>3. Heard(h, cmd, r.out) = h
    BY <1>0, <1>3 DEF Heard, Transactional
  <2> HIDE DEF r
  <2> QED BY <1>0, <1>3, <2>2, <2>3 DEF Linked, r
<1>4. CASE cmd.op = "MULTI"
  <2>1. r = Run(st, t, u, cmd)
    BY <1>4 DEF DispatchTo, Transactional
  <2> HIDE DEF r
  <2> QED BY <1>4, <2>1, MultiLinked DEF r
<1>5. CASE cmd.op = "DISCARD"
  <2>1. r = Run(st, t, u, cmd)
    BY <1>5 DEF DispatchTo, Transactional
  <2>2. r.cl.in_multi = FALSE
    BY <1>5, <2>1, DiscardEnds
  <2>3. Heard(h, cmd, r.out) = Closed
    BY <1>5 DEF Heard, Transactional
  <2> HIDE DEF r
  <2> QED BY <2>2, <2>3, ClosedTold DEF Linked, r
<1>6. CASE cmd.op \in {"QUIT", "txarity"}
  <2>1. r = Run(st, t, u, cmd)
    BY <1>6 DEF DispatchTo, Transactional
  <2>2. /\ r.cl.in_multi = st.cl.in_multi /\ r.cl.multi_queue = st.cl.multi_queue
        /\ r.cl.multi_error = st.cl.multi_error
    BY <1>6, <2>1, QuitKeeps
  <2>3. Heard(h, cmd, r.out) = h
    BY <1>6 DEF Heard, Transactional
  <2> HIDE DEF r
  <2> QED BY <2>2, <2>3 DEF Linked, r
<1> QED BY <1>1, <1>2, <1>3, <1>4, <1>5, <1>6 DEF Transactional

LEMMA CommandLInv ==
  ASSUME LInv, NEW c \in Clients, NEW cmd \in Cmds, Command(c, cmd)
  PROVE  LInv'
<1>0. TInv'
  BY CommandTInv DEF LInv
<1>1. PICK u \in Times : LET r == DispatchTo(State(c), now, u, cmd) IN
                         /\ Apply(c, r)
                         /\ told' = [told EXCEPT ![c] = Heard(@, cmd, r.out)]
  BY DEF Command
<1> DEFINE r == DispatchTo(State(c), now, u, cmd)
           g == Heard(told[c], cmd, r.out)
<1>2. /\ Shaped(State(c)) /\ State(c).cl = cs[c] /\ TxOK(cs[c]) /\ State(c).out = <<>>
      /\ told[c] \in Told /\ Linked(told[c], cs[c])
  BY StateShaped, ClientTxOK DEF LInv, TInv, State
<1>3. g \in Told /\ Linked(g, r.cl)
  BY <1>2, DispatchLinked
<1>4. cs' = [cs EXCEPT ![c] = r.cl] /\ told' = [told EXCEPT ![c] = g]
  BY <1>1 DEF Apply
<1> HIDE DEF r, g
<1>5. cs \in [Clients -> ClientState] /\ told \in [Clients -> Told]
  BY DEF LInv, TInv, ClientsOK
<1>6. told' \in [Clients -> Told]
  BY <1>3, <1>4, <1>5
<1>7. ASSUME NEW e \in Clients PROVE Linked(told'[e], cs'[e])
  <2>1. CASE e = c
    BY <1>3, <1>4, <1>5, <2>1
  <2>2. CASE e # c
    <3>1. told'[e] = told[e] /\ cs'[e] = cs[e]
      BY <1>4, <1>5, <2>2
    <3> QED BY <3>1 DEF LInv
  <2> QED BY <2>1, <2>2
<1> QED BY <1>0, <1>6, <1>7 DEF LInv

\* The client whose EXEC runs is out of MULTI, and stays so.
LEMMA ExecNextLInv ==
  ASSUME LInv, ExecNext
  PROVE  LInv'
<1> DEFINE c == running.client
<1>0. TInv /\ TInv' /\ running # Idle
  BY ExecNextTInv DEF LInv, ExecNext
<1>1. c \in Clients /\ ~cs[c].in_multi /\ Head(running.queue) \in Cmds
      /\ Head(running.queue).op \notin Transactional
  BY <1>0, RunningQueue
<1>2. PICK u \in Times : Apply(c, DispatchTo(State(c), now, u, Head(running.queue)))
  BY DEF ExecNext
<1> DEFINE r == DispatchTo(State(c), now, u, Head(running.queue))
<1>3. Shaped(State(c)) /\ State(c).cl = cs[c] /\ TxOK(cs[c])
  BY <1>0, <1>1, StateShaped, ClientTxOK DEF TInv
<1>4. TxOK(r.cl) /\ ~r.cl.in_multi
  BY <1>1, <1>3, DispatchEffect
<1>5. cs' = [cs EXCEPT ![c] = r.cl] /\ told' = told
  BY <1>2 DEF Apply, ExecNext
<1> HIDE DEF r
<1>6. cs \in [Clients -> ClientState] /\ told \in [Clients -> Told]
  BY DEF LInv, TInv, ClientsOK
<1>7. ASSUME NEW e \in Clients PROVE Linked(told'[e], cs'[e])
  <2>1. CASE e = c
    <3>1. cs'[c] = r.cl /\ r.cl.in_multi = FALSE /\ cs[c].in_multi = FALSE
      BY <1>1, <1>4, <1>5, <1>6 DEF TxOK, ClientState
    <3>2. told[c].open = FALSE
      BY <1>1, <3>1 DEF LInv, Linked
    <3> QED BY <1>5, <2>1, <3>1, <3>2 DEF Linked
  <2>2. CASE e # c
    <3>1. told'[e] = told[e] /\ cs'[e] = cs[e]
      BY <1>5, <1>6, <2>2
    <3> QED BY <3>1 DEF LInv
  <2> QED BY <2>1, <2>2
<1> QED BY <1>0, <1>5, <1>6, <1>7 DEF LInv

LEMMA FreshLinked == Linked(Closed, Fresh) /\ Closed \in Told
  BY ClosedTold DEF Linked, Fresh

LEMMA ReconnectLInv ==
  ASSUME LInv, NEW c \in Clients, Reconnect(c)
  PROVE  LInv'
<1>0. TInv'
  BY ReconnectTInv DEF LInv
<1>1. /\ cs' = [cs EXCEPT ![c] = Fresh] /\ told' = [told EXCEPT ![c] = Closed]
      /\ cs \in [Clients -> ClientState] /\ told \in [Clients -> Told]
  BY DEF Reconnect, LInv, TInv, ClientsOK
<1>2. told' \in [Clients -> Told]
  BY <1>1, FreshLinked
<1>3. \A e \in Clients : \/ told'[e] = Closed /\ cs'[e] = Fresh
                         \/ told'[e] = told[e] /\ cs'[e] = cs[e]
  BY <1>1
<1> QED BY <1>0, <1>2, <1>3, FreshLinked DEF LInv

LEMMA InitLInv == Init => LInv
<1> SUFFICES ASSUME Init PROVE LInv
  OBVIOUS
<1>1. TInv
  BY InitTInv
<1>2. cs = [c \in Clients |-> Fresh] /\ told = [c \in Clients |-> Closed]
  BY DEF Init
<1> QED BY <1>1, <1>2, FreshLinked DEF LInv

LEMMA NextLInv == ASSUME LInv, [Next]_vars PROVE LInv'
<1>0. TInv'
  BY NextTInv DEF LInv
<1>1. CASE UNCHANGED <<cs, told>>
  BY <1>0, <1>1 DEF LInv
<1> QED BY <1>1, CommandLInv, ExecNextLInv, ReconnectLInv DEF Next, Serve, Periodic, Tick, vars

\* What a command does once its client has been told that a transaction is open.
LEMMA CommandExact ==
  ASSUME LInv, NEW c \in Clients, NEW cmd \in Cmds, Command(c, cmd)
  PROVE  /\ told[c].open => ks' = ks /\ stop' = stop
         /\ running = Idle
         /\ running' # Idle => /\ told[c].open /\ ~told[c].refused /\ told[c].sent # <<>>
                               /\ running' = [client |-> c, queue |-> told[c].sent]
         /\ cmd.op = "EXEC" /\ told[c].open /\ ~told[c].refused /\ told[c].sent # <<>>
               => running' = [client |-> c, queue |-> told[c].sent]
<1>1. PICK u \in Times : Apply(c, DispatchTo(State(c), now, u, cmd))
  BY DEF Command
<1>2. /\ Shaped(State(c)) /\ State(c).cl = cs[c] /\ TxOK(cs[c])
      /\ State(c).ks = ks /\ State(c).stop = stop
  BY StateShaped, ClientTxOK DEF LInv, TInv
<1>3. /\ told[c].open = cs[c].in_multi
      /\ cs[c].in_multi => told[c].sent = cs[c].multi_queue /\ told[c].refused = cs[c].multi_error
  BY DEF LInv, Linked
<1>4. told[c].open => ks' = ks /\ stop' = stop
  <2> DEFINE r == DispatchTo(State(c), now, u, cmd)
  <2>1. cs[c].in_multi => r.ks = ks /\ r.stop = stop
    BY <1>2, DispatchEffect
  <2>2. ks' = r.ks /\ stop' = r.stop
    BY <1>1 DEF Apply
  <2> HIDE DEF r
  <2> QED BY <1>3, <2>1, <2>2
<1>5. running = Idle
  BY DEF Command
<1>6. IF cmd.op = "EXEC" /\ ~Aborts(cs[c]) /\ cs[c].multi_queue # <<>>
      THEN running' = [client |-> c, queue |-> cs[c].multi_queue]
      ELSE running' = running
  BY DEF Command
<1>7. running' # Idle => /\ cs[c].in_multi /\ ~cs[c].multi_error /\ cs[c].multi_queue # <<>>
                         /\ running' = [client |-> c, queue |-> cs[c].multi_queue]
  BY <1>5, <1>6 DEF Aborts
<1>8. cmd.op = "EXEC" /\ cs[c].in_multi /\ ~cs[c].multi_error /\ cs[c].multi_queue # <<>>
        => running' = [client |-> c, queue |-> cs[c].multi_queue]
  BY <1>6 DEF Aborts
<1>9. running' # Idle => /\ told[c].open /\ ~told[c].refused /\ told[c].sent # <<>>
                         /\ running' = [client |-> c, queue |-> told[c].sent]
  BY <1>3, <1>7
<1>10. cmd.op = "EXEC" /\ told[c].open /\ ~told[c].refused /\ told[c].sent # <<>>
         => running' = [client |-> c, queue |-> told[c].sent]
  BY <1>3, <1>8
<1> QED BY <1>4, <1>5, <1>9, <1>10

\* Only a command can make the server run a queue.
LEMMA OnlyCommandsStart ==
  ASSUME LInv, [Next]_vars, running = Idle, running' # Idle
  PROVE  \E c \in Clients, cmd \in Cmds : Command(c, cmd)
  BY DEF Next, Serve, Reconnect, ExecNext, Periodic, Tick, vars

\* A transaction does what its client was told, for any number of clients, any commands
\* and whatever the handlers do: before EXEC nothing reaches the keyspace or the shutdown
\* flags, and EXEC runs the commands answered QUEUED if and only if none was refused.
THEOREM TransactionsExact == Spec => TransactionExact
<1> DEFINE execs == {cmd \in Cmds : cmd.op = "EXEC"}
           Sends(c, cmds) == \E cmd \in cmds : Command(c, cmd)
           Runs(c) == told[c].open /\ ~told[c].refused /\ told[c].sent # <<>>
           Started(c) == running' = [client |-> c, queue |-> told[c].sent]
           Exact == /\ ks' # ks \/ stop' # stop =>
                          \A c \in Clients : told[c].open => ~Sends(c, Cmds)
                    /\ \A c \in Clients : Runs(c) /\ Sends(c, execs) => Started(c)
                    /\ running = Idle /\ running' # Idle =>
                          \E c \in Clients : Runs(c) /\ Started(c)
<1>1. ASSUME LInv, [Next]_vars PROVE Exact
  <2>1. ks' # ks \/ stop' # stop => \A c \in Clients : told[c].open => ~Sends(c, Cmds)
    BY <1>1, CommandExact
  <2>2. \A c \in Clients : Runs(c) /\ Sends(c, execs) => Started(c)
    BY <1>1, CommandExact
  <2>3. running = Idle /\ running' # Idle => \E c \in Clients : Runs(c) /\ Started(c)
    BY <1>1, CommandExact, OnlyCommandsStart
  <2> QED BY <2>1, <2>2, <2>3
<1>2. LInv /\ [Next]_vars => [Exact]_vars
  BY <1>1
<1> QED BY <1>2, InitLInv, NextLInv, PTL DEF Spec, TransactionExact
=============================================================================
