-------------------------------- MODULE Reactor --------------------------------
(***************************************************************************)
(* The event loop (server.cpp): accept, read, run, write, close, shut      *)
(* down.  Sockets have a receive queue of whole requests and a send buffer *)
(* of SockBuf replies.  kevent reports readiness in batches, and between   *)
(* the report and the handling of an event the connection may be closed.   *)
(*                                                                         *)
(* A request is "cmd" (one reply), "quit", "save" or "nosave" (SHUTDOWN,   *)
(* no reply) or "bad" (the parser reports a protocol error).               *)
(* stats_.connected_clients always changes together with conns_ and is not *)
(* a variable.                                                             *)
(***************************************************************************)
EXTENDS Integers, Sequences, FiniteSetsExt

CONSTANTS
    Fds,           \* file descriptors for connections
    Requests,      \* the requests that clients send
    ReadSize,      \* requests that fill the 64K buffer of OnReadable
    SockBuf,       \* replies that a send buffer holds
    MaxEvents,     \* size of the array of events in Run
    MaxConns,      \* bound on the connections made
    MaxRequests    \* bound on the requests sent on a connection

ASSUME ReactorAssumption ==
    /\ IsFiniteSet(Fds)
    /\ Requests \subseteq {"cmd", "quit", "save", "nosave", "bad"}
    /\ ReadSize \in Nat \ {0} /\ SockBuf \in Nat \ {0} /\ MaxEvents \in Nat \ {0}
    /\ MaxConns \in Nat /\ MaxRequests \in Nat

VARIABLES
    conns,     \* conns[f]: the Connection with descriptor f and its socket
    nextId,    \* next_client_id_
    backlog,   \* connections waiting for accept
    signal,    \* SIGINT or SIGTERM is pending
    phase,     \* "wait" in kevent, "batch", "exit", "stopped" or "crashed"
    batch,     \* the events of the last kevent that are still to be handled
    stop,      \* "no", or "save" or "nosave" once a shutdown is requested (quit_)
    touched,   \* history: some handler used a Connection after its destruction
    late       \* history: requests dispatched after a shutdown was requested

vars == <<conns, nextId, backlog, signal, phase, batch, stop, touched, late>>

\* out, quit and want_write are the fields of Connection, filter says whether kqueue
\* holds EVFILT_WRITE.  inbox, peer and unread are the socket: what the client has
\* sent, whether it has closed ("half": no more requests, "gone": both ways), and
\* replies it has not read.  History: got requests arrived, ran were dispatched,
\* answers were appended to out, taken were read by the client.
Blank == [open |-> FALSE, id |-> 0, out |-> 0, quit |-> FALSE, want_write |-> FALSE,
          filter |-> FALSE, inbox |-> <<>>, peer |-> "open", unread |-> 0,
          got |-> 0, ran |-> 0, answers |-> 0, taken |-> 0]

Open == {f \in Fds : conns[f].open}

Init ==
    /\ conns = [f \in Fds |-> Blank]
    /\ nextId = 1
    /\ backlog = 0
    /\ signal = FALSE
    /\ phase = "wait" /\ batch = {}
    /\ stop = "no"
    /\ touched = FALSE
    /\ late = 0

-----------------------------------------------------------------------------
(* The member functions, on one connection c.                              *)

\* Mutant of EnableWrite: the flag is set and the filter is not registered.
EnableWriteFlag(c, enable) == [c EXCEPT !.want_write = enable]

EnableWrite(c, enable) ==
    IF enable = c.want_write THEN c
    ELSE [c EXCEPT !.want_write = enable, !.filter = enable]

\* close(fd) also takes the filters out of the kqueue.
CloseConn(c) == Blank

\* Mutant of OnWritable: a short write is taken for a complete one.
OnWritableShort(c) ==
    LET n == Min({c.out, SockBuf - c.unread}) IN
    IF c.out > 0 /\ c.peer = "gone" THEN CloseConn(c)
    ELSE [EnableWrite(c, FALSE) EXCEPT !.out = 0, !.unread = @ + n]

\* write until out is empty, the send buffer is full or the peer turns out to be gone.
OnWritable(c) ==
    LET n == Min({c.out, SockBuf - c.unread}) IN
    IF c.out > 0 /\ c.peer = "gone" THEN CloseConn(c)
    ELSE [EnableWrite(c, n < c.out) EXCEPT !.out = @ - n, !.unread = @ + n]

Replies(reqs) == Cardinality({i \in DOMAIN reqs : reqs[i] \in {"cmd", "quit"}})

\* Mutant of RunLength: a shutdown requested elsewhere is not looked at.
RunLengthOn(c, st) ==
    CASE c.inbox = <<>> -> 0
      [] c.inbox # <<>> /\ c.quit -> 1
      [] OTHER -> Min({i \in DOMAIN c.inbox : c.inbox[i] # "cmd"} \cup {Len(c.inbox)})

\* How many of the parsed requests the dispatch loop runs: it breaks after QUIT and
\* after SHUTDOWN, and after the first one if either was requested before.
RunLength(c, st) ==
    LET ends == {i \in DOMAIN c.inbox : c.inbox[i] # "cmd"}
    IN  CASE c.inbox = <<>> -> 0
          [] c.inbox # <<>> /\ (st # "no" \/ c.quit) -> 1
          [] OTHER -> Min(ends \cup {Len(c.inbox)})

\* The dispatch loop.  Requests behind the break are dropped.
RunParsed(c, st) ==
    LET reqs == SubSeq(c.inbox, 1, RunLength(c, st)) IN
    [c EXCEPT !.inbox = <<>>,
              !.out = @ + Replies(reqs),
              !.answers = @ + Replies(reqs),
              !.ran = @ + Len(reqs),
              !.quit = @ \/ \E i \in DOMAIN reqs : reqs[i] = "quit"]

\* stats_.shutdown_requested and shutdown_nosave after the dispatch loop.  The mutant
\* takes any last request for a SHUTDOWN.
StopAfterAny(c, st) ==
    LET n == RunLength(c, st) IN IF n > 0 THEN c.inbox[n] ELSE st
StopAfter(c, st) ==
    LET n == RunLength(c, st)
    IN  IF n > 0 /\ c.inbox[n] \in {"save", "nosave"} THEN c.inbox[n] ELSE st

\* The requests that the dispatch loop runs although a shutdown was requested, on this
\* connection or before.
LateRuns(c, st) ==
    Cardinality({i \in 1 .. RunLength(c, st) :
                   st # "no" \/ \E j \in 1 .. i - 1 : c.inbox[j] \in {"save", "nosave"}})

\* Mutant of Finish: replies wait for the next event.
FinishLazy(c, st) ==
    LET w == OnWritable(c)
    IN  CASE st = "no" /\ c.quit ->
               [c |-> IF w.open /\ w.want_write THEN w ELSE CloseConn(w), freed |-> ~w.open]
          [] OTHER -> [c |-> c, freed |-> FALSE]

\* The end of OnReadable.  freed: c is used after OnWritable has destroyed it.
Finish(c, st) ==
    LET w == OnWritable(c)
    IN  CASE st # "no" -> [c |-> c, freed |-> FALSE]
          [] st = "no" /\ c.quit ->
               [c |-> IF w.open /\ w.want_write THEN w ELSE CloseConn(w), freed |-> ~w.open]
          [] OTHER -> [c |-> IF c.out > 0 THEN w ELSE c, freed |-> FALSE]

\* A protocol error is reported and closes the connection, and so does the end of the
\* stream; both drop the requests that were read before.  The read loop looks for the
\* end of the stream only when its last read filled the buffer.
Malformed(c) == \E i \in DOMAIN c.inbox : c.inbox[i] = "bad"
SeesEnd(c) == c.peer # "open" /\ Len(c.inbox) % ReadSize = 0

OnReadable(c, st) ==
    CASE Malformed(c) ->
           [c |-> Blank, freed |-> ~OnWritable([c EXCEPT !.out = @ + 1]).open]
      [] ~Malformed(c) /\ SeesEnd(c) -> [c |-> CloseConn(c), freed |-> FALSE]
      [] OTHER -> Finish(RunParsed(c, st), StopAfter(c, st))

Dispatches(c) == ~Malformed(c) /\ ~SeesEnd(c)
StopAfterRead(c, st) == IF Dispatches(c) THEN StopAfter(c, st) ELSE st

-----------------------------------------------------------------------------
(* The loop of Run.                                                        *)

Event(kind, f) == [kind |-> kind, fd |-> f, id |-> conns[f].id]
Accept == [kind |-> "accept", fd |-> 0, id |-> 0]
Signal == [kind |-> "signal", fd |-> 0, id |-> 0]

Ready ==
    {Event("read", f) : f \in {g \in Open : conns[g].inbox # <<>> \/ conns[g].peer # "open"}}
    \cup {Event("write", f) : f \in {g \in Open : /\ conns[g].filter
                                                  /\ \/ conns[g].unread < SockBuf
                                                     \/ conns[g].peer = "gone"}}
    \cup (IF backlog > 0 THEN {Accept} ELSE {})
    \cup (IF signal THEN {Signal} ELSE {})

\* kevent returns up to MaxEvents of the events that are ready, in any order.
Poll ==
    /\ phase = "wait" /\ Ready # {}
    /\ phase' = "batch"
    /\ batch' \in {b \in SUBSET Ready : Cardinality(b) = Min({Cardinality(Ready), MaxEvents})}
    /\ signal' = (signal /\ Signal \notin batch')
    /\ UNCHANGED <<conns, nextId, backlog, stop, touched, late>>

Take(e) == phase = "batch" /\ e \in batch /\ batch' = batch \ {e}

HandleSignal ==
    /\ Take(Signal)
    /\ stop' = "save"
    /\ UNCHANGED <<conns, nextId, backlog, signal, phase, touched, late>>

\* OnAccept accepts until nobody waits or no descriptor is left.
OnAccept ==
    /\ Take(Accept)
    /\ \E new \in SUBSET (Fds \ Open) :
          LET first(f) == Cardinality({g \in new : g < f}) IN
          /\ Cardinality(new) = Min({backlog, Cardinality(Fds \ Open)})
          /\ conns' = [f \in Fds |-> IF f \in new
                          THEN [Blank EXCEPT !.open = TRUE, !.id = nextId + first(f)]
                          ELSE conns[f]]
          /\ nextId' = nextId + Cardinality(new)
          /\ backlog' = backlog - Cardinality(new)
    /\ UNCHANGED <<signal, phase, stop, touched, late>>

\* Using freed memory goes unnoticed or ends the process.
Touch(freed) ==
    /\ touched' = (touched \/ freed)
    /\ phase' = phase \/ (freed /\ phase' = "crashed")

HandleRead(e) ==
    LET c == conns[e.fd]
        r == OnReadable(c, stop)
    IN  /\ e.kind = "read" /\ c.id = e.id
        /\ Take(e)
        /\ conns' = [conns EXCEPT ![e.fd] = r.c]
        /\ stop' = StopAfterRead(c, stop)
        /\ late' = late + (IF Dispatches(c) THEN LateRuns(c, stop) ELSE 0)
        /\ Touch(r.freed)
        /\ UNCHANGED <<nextId, backlog, signal>>

HandleWrite(e) ==
    /\ e.kind = "write" /\ conns[e.fd].id = e.id
    /\ Take(e)
    /\ conns' = [conns EXCEPT ![e.fd] = OnWritable(@)]
    /\ UNCHANGED <<nextId, backlog, signal, phase, stop, touched, late>>

\* The Connection of the event has been destroyed by an earlier event of the batch.
\* Run reads its descriptor from the freed memory to find that out.
HandleStale(e) ==
    /\ e.kind \in {"read", "write"} /\ conns[e.fd].id # e.id
    /\ Take(e)
    /\ Touch(TRUE)
    /\ UNCHANGED <<conns, nextId, backlog, signal, stop, late>>

Handle ==
    \/ HandleSignal
    \/ OnAccept
    \/ \E e \in batch : HandleRead(e) \/ HandleWrite(e) \/ HandleStale(e)

\* Mutant of EndBatch: quit_ is not looked at.
EndBatchOn ==
    /\ phase = "batch" /\ batch = {}
    /\ phase' = "wait"
    /\ UNCHANGED <<conns, nextId, backlog, signal, batch, stop, touched, late>>

\* PeriodicTasks, then the next round or the end of the loop.
EndBatch ==
    /\ phase = "batch" /\ batch = {}
    /\ phase' = IF stop = "no" THEN "wait" ELSE "exit"
    /\ UNCHANGED <<conns, nextId, backlog, signal, batch, stop, touched, late>>

\* The final save and CloseAll.
Exit ==
    /\ phase = "exit"
    /\ phase' = "stopped"
    /\ conns' = [f \in Fds |-> Blank]
    /\ UNCHANGED <<nextId, backlog, signal, batch, stop, touched, late>>

-----------------------------------------------------------------------------
(* The clients, and whoever sends the signal.                              *)

Connect ==
    /\ nextId + backlog <= MaxConns
    /\ backlog' = backlog + 1
    /\ UNCHANGED <<conns, nextId, signal, phase, batch, stop, touched, late>>

OnSocket(f, c) ==
    /\ f \in Open
    /\ conns' = [conns EXCEPT ![f] = c]
    /\ UNCHANGED <<nextId, backlog, signal, phase, batch, stop, touched, late>>

Send(f, r) ==
    /\ conns[f].peer = "open" /\ conns[f].got < MaxRequests
    /\ OnSocket(f, [conns[f] EXCEPT !.inbox = Append(@, r), !.got = @ + 1])

Receive(f) ==
    /\ conns[f].peer # "gone" /\ conns[f].unread > 0
    /\ OnSocket(f, [conns[f] EXCEPT !.unread = @ - 1, !.taken = @ + 1])

Leave(f, how) ==
    /\ conns[f].peer # "gone" /\ conns[f].peer # how
    /\ OnSocket(f, [conns[f] EXCEPT !.peer = how])

Interrupt ==
    /\ ~signal /\ stop = "no"
    /\ signal' = TRUE
    /\ UNCHANGED <<conns, nextId, backlog, phase, batch, stop, touched, late>>

Client ==
    \/ Connect
    \/ \E f \in Fds : \/ \E r \in Requests : Send(f, r)
                      \/ Receive(f)
                      \/ \E how \in {"half", "gone"} : Leave(f, how)
    \/ Interrupt

Next == Poll \/ Handle \/ EndBatch \/ Exit \/ Client

Spec == Init /\ [][Next]_vars

\* The thread of the server does not stop, and clients read what they are sent.
Fairness ==
    /\ WF_vars(Poll) /\ WF_vars(Handle) /\ WF_vars(EndBatch) /\ WF_vars(Exit)
    /\ \A f \in Fds : WF_vars(Receive(f))

FairSpec == Spec /\ Fairness

-----------------------------------------------------------------------------
Connection ==
    [open : BOOLEAN, id : Nat, out : Nat, quit : BOOLEAN, want_write : BOOLEAN,
     filter : BOOLEAN, inbox : Seq(Requests), peer : {"open", "half", "gone"},
     unread : 0 .. SockBuf, got : 0 .. MaxRequests, ran : Nat, answers : Nat, taken : Nat]

TypeOK ==
    /\ conns \in [Fds -> Connection]
    /\ nextId \in Nat /\ backlog \in Nat /\ late \in Nat
    /\ signal \in BOOLEAN /\ touched \in BOOLEAN
    /\ phase \in {"wait", "batch", "exit", "stopped", "crashed"}
    /\ batch \subseteq [kind : {"accept", "signal", "read", "write"}, fd : Fds \cup {0}, id : Nat]
    /\ stop \in {"no", "save", "nosave"}

\* Whenever the server sleeps in kevent, a connection that still has replies to send
\* has the write filter in the kqueue, and one without has not: no reply is stranded
\* and the loop does not spin (OnWritable, EnableWrite, the end of OnReadable).
NoStrandedReply ==
    phase = "wait" => \A f \in Open : /\ conns[f].filter <=> conns[f].out > 0
                                      /\ conns[f].filter = conns[f].want_write

\* While a connection is open and has neither quit nor met a shutdown, every request
\* that arrived is in the socket or was dispatched once, and every answer is in out,
\* in the socket or with the client: batches, partial writes and other connections
\* lose and repeat nothing.
NothingLost ==
    \A f \in Open :
       LET c == conns[f] IN
       /\ stop = "no" /\ ~c.quit => c.got = c.ran + Len(c.inbox)
       /\ c.answers = c.out + c.unread + c.taken

\* Once a shutdown is requested, by a signal or by SHUTDOWN, the server dispatches at
\* most one more request for each event that is left in the batch: together fewer than
\* a batch has events, however many connections and pipelined requests are waiting and
\* whatever else arrives (the breaks in OnReadable, and quit_ in the loop of Run).
StopsServing == late < MaxEvents

\* A client that keeps reading gets its requests served and the replies sent, unless
\* the connection or the server ends first.
Served == \A f \in Fds :
    (conns[f].open /\ (conns[f].inbox # <<>> \/ conns[f].out > 0))
        ~> (~conns[f].open \/ (conns[f].inbox = <<>> /\ conns[f].out = 0) \/ phase = "crashed")

\* A requested shutdown takes the server out of its loop.
ShutdownCompletes == (stop # "no") ~> (phase \in {"stopped", "crashed"})

\* server.h: one event loop owns all connections.  So no handler uses a Connection
\* after CloseConn has destroyed it.
HandlersOwnConnections == ~touched

\* server.cpp on QUIT: flush pending replies, then close.
QuitCloses == \A f \in Fds :
    (conns[f].open /\ conns[f].quit) ~> (~conns[f].open \/ phase = "crashed")
=============================================================================
