------------------------------- MODULE Dispatch -------------------------------
(***************************************************************************)
(* Dispatch (commands.cpp): clients send commands one at a time to a       *)
(* single-threaded server.  A command is queued, refused or run; EXEC runs *)
(* a client's queue.  Between two commands the clock moves and the event   *)
(* loop runs the active expire cycle; clients come and go.                 *)
(***************************************************************************)
EXTENDS Commands

CONSTANTS
    Clients, None,
    Cmds,            \* the commands clients send
    Probes,          \* the commands whose handlers the properties try in every state
    Snapshots,       \* the tables the server may have loaded before it serves
    maxmemory,       \* opts.maxmemory, 0 for no limit
    Times,           \* the readings of the clock
    MaxQueue,        \* bound on multi_queue
    MaxData,         \* bound on the length of strings, lists, sets and hashes
    MaxDrift,        \* bound on how far used_ drifts from the size of the entries
    MaxExpired       \* bound on total_expired_

ASSUME DispatchAssumption ==
    /\ maxmemory \in Nat
    /\ Times \subseteq Nat
    /\ MaxQueue \in Nat /\ MaxData \in Nat /\ MaxDrift \in Nat /\ MaxExpired \in Nat
    /\ 0 \in Dbs
    /\ None \notin Clients
    /\ \A cmd \in Cmds : cmd.op = "SHUTDOWN" => cmd.how \in {"save", "nosave", "bad"}

VARIABLES
    ks,       \* the Database
    now,      \* NowMs()
    cs,       \* the ClientState of each connection
    stop,     \* stats.shutdown_requested and shutdown_nosave
    running,  \* the client whose EXEC is running and the commands it still has to run
    owed,     \* history: replies that EXEC has announced and not yet sent
    told      \* history: what the replies have told each client of its transaction

vars == <<ks, now, cs, stop, running, owed, told>>

Fresh == [db |-> 0, in_multi |-> FALSE, multi_error |-> FALSE, multi_queue |-> <<>>,
          quit_requested |-> FALSE]

Idle == [client |-> None, queue |-> <<>>]

\* A transaction as the client knows it: whether one is open, the commands that were
\* answered QUEUED, and whether one was answered with an error.
Closed == [open |-> FALSE, sent |-> <<>>, refused |-> FALSE]

\* LoadFromFile stores every entry with Set in an empty database.
Restore(tbl) ==
    FoldSet(LAMBDA p, s : IF tbl[p[1]][p[2]] = Missing THEN s
                          ELSE Set(s, p[1], p[2], tbl[p[1]][p[2]].val, tbl[p[1]][p[2]].exp),
            EmptyState, Dbs \X Keys)

Init ==
    /\ ks \in {Restore(tbl) : tbl \in Snapshots}
    /\ now \in Times
    /\ cs = [c \in Clients |-> Fresh]
    /\ stop = "no"
    /\ running = Idle
    /\ owed = 0
    /\ told = [c \in Clients |-> Closed]

-----------------------------------------------------------------------------
\* Dispatch works on [ks, cl, stop, out]: the keyspace, the state of the client,
\* the shutdown flags and the replies appended so far.
Reply(st, r) == [st EXCEPT !.out = Append(@, r)]

\* A command that the table does not know or whose arity is wrong; txarity stands for
\* MULTI, EXEC, DISCARD and QUIT with the wrong arity.
Malformed(cmd) == cmd.op \in {"unknown", "arity", "txarity"}

\* What the queueing path lets through by its name alone.
Transactional == {"MULTI", "EXEC", "DISCARD", "QUIT", "txarity"}

\* Mutants of Queue: no check of the name and the arity, or a rejection that is forgotten.
QueueUnchecked(st, cmd) == Reply([st EXCEPT !.cl.multi_queue = Append(@, cmd)], <<"queued">>)
QueueForgets(st, cmd) ==
    IF Malformed(cmd) THEN Reply(st, Error(cmd.op))
    ELSE Reply([st EXCEPT !.cl.multi_queue = Append(@, cmd)], <<"queued">>)

Queue(st, cmd) ==
    IF Malformed(cmd) THEN Reply([st EXCEPT !.cl.multi_error = TRUE], Error(cmd.op))
    ELSE Reply([st EXCEPT !.cl.multi_queue = Append(@, cmd)], <<"queued">>)

\* Mutant of Refused: no gate.
RefusedNever(st, cmd) == FALSE

\* The maxmemory gate.
Refused(st, cmd) ==
    /\ maxmemory > 0 /\ st.ks.used > maxmemory
    /\ cmd.op \in Writes \ {"FLUSHDB", "FLUSHALL"}

\* Mutants of SELECT: no range check, or no reply to a bad index.
SELECTAny(st, cmd) == Reply([st EXCEPT !.cl.db = cmd.n], OK)
SELECTSilent(st, cmd) ==
    IF cmd.n \notin Dbs THEN st ELSE Reply([st EXCEPT !.cl.db = cmd.n], OK)

SELECT(st, cmd) ==
    IF cmd.n \notin Dbs THEN Reply(st, Error("dbindex"))
    ELSE Reply([st EXCEPT !.cl.db = cmd.n], OK)

\* No reply: the server closes connections.
SHUTDOWN(st, cmd) ==
    CASE cmd.how = "bad" -> Reply(st, Error("syntax"))
      [] cmd.how # "bad" -> [st EXCEPT !.stop = cmd.how]

MULTI(st) ==
    IF st.cl.in_multi THEN Reply(st, Error("nested"))
    ELSE Reply([st EXCEPT !.cl.in_multi = TRUE, !.cl.multi_error = FALSE,
                          !.cl.multi_queue = <<>>], OK)

DISCARD(st) ==
    IF ~st.cl.in_multi THEN Reply(st, Error("nomulti"))
    ELSE Reply([st EXCEPT !.cl.in_multi = FALSE, !.cl.multi_error = FALSE,
                          !.cl.multi_queue = <<>>], OK)

\* What a handler returned.
Handler(st, r) == Reply([st EXCEPT !.ks = r.ks], r.reply)

\* A command that is neither queued nor EXEC.
Run(st, t, u, cmd) ==
    CASE Malformed(cmd) -> Reply(st, Error(cmd.op))
      [] ~Malformed(cmd) /\ Refused(st, cmd) -> Reply(st, Error("oom"))
      [] OTHER ->
           CASE cmd.op = "PING"     -> Reply(st, OK)
             [] cmd.op = "SELECT"   -> SELECT(st, cmd)
             [] cmd.op = "QUIT"     -> Reply([st EXCEPT !.cl.quit_requested = TRUE], OK)
             [] cmd.op = "SHUTDOWN" -> SHUTDOWN(st, cmd)
             [] cmd.op = "MULTI"    -> MULTI(st)
             [] cmd.op = "DISCARD"  -> DISCARD(st)
             [] OTHER -> Handler(st, Exec(st.ks, st.cl.db, t, u, cmd))

\* EXEC leaves MULTI and, unless a command was rejected, hands its queue over.
Aborts(cl) == ~cl.in_multi \/ cl.multi_error
EXEC(st) ==
    CASE ~st.cl.in_multi -> Reply(st, Error("nomulti"))
      [] st.cl.in_multi /\ st.cl.multi_error ->
           Reply([st EXCEPT !.cl.in_multi = FALSE, !.cl.multi_queue = <<>>], Error("execabort"))
      [] OTHER -> Reply([st EXCEPT !.cl.in_multi = FALSE, !.cl.multi_queue = <<>>],
                        <<"header", Len(st.cl.multi_queue)>>)

DispatchTo(st, t, u, cmd) ==
    CASE st.cl.in_multi /\ cmd.op \notin Transactional -> Queue(st, cmd)
      [] ~(st.cl.in_multi /\ cmd.op \notin Transactional) /\ cmd.op = "EXEC" -> EXEC(st)
      [] OTHER -> Run(st, t, u, cmd)

State(c) == [ks |-> ks, cl |-> cs[c], stop |-> stop, out |-> <<>>]

-----------------------------------------------------------------------------
\* How much a value holds.
Extent(v) ==
    CASE v.type \in {"string", "list"} -> Len(v.data)
      [] v.type = "set" -> Cardinality(v.data)
      [] v.type = "hash" -> Max({Cardinality(DOMAIN v.data)} \cup {Len(v.data[f]) : f \in DOMAIN v.data})

Fits(s) ==
    /\ s.used - Account(s, [d \in Dbs |-> Keys]) \in -MaxDrift .. MaxDrift
    /\ s.expired <= MaxExpired
    /\ \A d \in Dbs, k \in Keys : s.table[d][k] # Missing => Extent(s.table[d][k].val) <= MaxData

ASSUME SnapshotsFit == \A tbl \in Snapshots : Fits(Restore(tbl))

\* The state that a dispatch for client c leaves behind.
Apply(c, st) ==
    /\ Fits(st.ks) /\ Len(st.cl.multi_queue) <= MaxQueue
    /\ ks' = st.ks
    /\ cs' = [cs EXCEPT ![c] = st.cl]
    /\ stop' = st.stop

\* What a client that knew h knows after it has sent cmd and read the replies out.
Heard(h, cmd, out) ==
    CASE cmd.op \in {"EXEC", "DISCARD"} -> Closed
      [] cmd.op = "MULTI" -> IF out = <<OK>> THEN [Closed EXCEPT !.open = TRUE] ELSE h
      [] h.open /\ cmd.op \notin Transactional ->
           IF out = << <<"queued">> >> THEN [h EXCEPT !.sent = Append(@, cmd)]
           ELSE [h EXCEPT !.refused = TRUE]
      [] OTHER -> h

\* The clock reads u when the command ends.
Command(c, cmd) ==
    LET Send(st) == Apply(c, st) /\ told' = [told EXCEPT ![c] = Heard(@, cmd, st.out)]
    IN  /\ running = Idle
        /\ \E u \in Times :
              /\ u >= now
              /\ Send(DispatchTo(State(c), now, u, cmd))
              /\ now' = u
        /\ IF cmd.op = "EXEC" /\ ~Aborts(cs[c]) /\ cs[c].multi_queue # <<>>
           THEN /\ running' = [client |-> c, queue |-> cs[c].multi_queue]
                /\ owed' = Len(cs[c].multi_queue)
           ELSE UNCHANGED <<running, owed>>

\* The next command of a connection; after QUIT no more are read from it.
Serve(c) ==
    /\ ~cs[c].quit_requested
    /\ \E cmd \in Cmds : Command(c, cmd)

\* The loop of EXEC: Dispatch for the next command of the queue.  The thread is in
\* the middle of EXEC, so nothing else happens until the queue has been run.
ExecNext ==
    LET c == running.client
        queue == running.queue
        Send(st) == Apply(c, st) /\ owed' = owed - Len(st.out)
    IN  /\ running # Idle
        /\ \E u \in Times :
              /\ u >= now
              /\ Send(DispatchTo(State(c), now, u, Head(queue)))
              /\ now' = u
        /\ running' = IF Len(queue) = 1 THEN Idle ELSE [running EXCEPT !.queue = Tail(@)]
        /\ UNCHANGED told

\* The connection is closed and its place taken by a new one.
Reconnect(c) ==
    /\ running = Idle
    /\ cs[c] # Fresh
    /\ cs' = [cs EXCEPT ![c] = Fresh]
    /\ told' = [told EXCEPT ![c] = Closed]
    /\ UNCHANGED <<ks, now, stop, running, owed>>

Periodic ==
    /\ running = Idle
    /\ \E scan \in [Dbs -> SUBSET Keys] :
          /\ \A d \in Dbs : scan[d] \in Windows(ks, d)
          /\ ks' = ActiveExpireCycle(ks, scan, now)
          /\ Fits(ks')
    /\ UNCHANGED <<now, cs, stop, running, owed, told>>

Tick ==
    /\ \E t \in Times : t > now /\ now' = t
    /\ UNCHANGED <<ks, cs, stop, running, owed, told>>

Next ==
    \/ \E c \in Clients : Reconnect(c) \/ Serve(c)
    \/ ExecNext
    \/ Periodic
    \/ Tick

Spec == Init /\ [][Next]_vars

-----------------------------------------------------------------------------
ClientState == [db : Dbs, in_multi : BOOLEAN, multi_error : BOOLEAN,
                multi_queue : Seq(Cmds), quit_requested : BOOLEAN]

Told == [open : BOOLEAN, sent : Seq(Cmds), refused : BOOLEAN]

TypeOK ==
    /\ ks.table \in Tables /\ ks.used \in Nat /\ ks.expired \in 0 .. MaxExpired
    /\ now \in Times
    /\ stop \in {"no", "save", "nosave"}
    /\ cs \in [Clients -> ClientState]
    /\ running \in {Idle} \cup [client : Clients, queue : Seq(Cmds) \ {<<>>}]
    /\ owed \in Int
    /\ told \in [Clients -> Told]

\* Commands that passed the checks of the queueing path.
Accepted(queue) ==
    \A i \in DOMAIN queue : ~Malformed(queue[i]) /\ queue[i].op \notin Transactional

\* A queue exists only inside MULTI and holds only accepted commands, never MULTI,
\* EXEC, DISCARD or QUIT; and the client whose EXEC runs is out of MULTI.  So the
\* Dispatch calls that EXEC makes do not queue, do not nest and do not meet an
\* unknown command.
QueueValid ==
    /\ \A c \in Clients : /\ cs[c].multi_queue # <<>> => cs[c].in_multi
                          /\ Accepted(cs[c].multi_queue)
    /\ running # Idle => Accepted(running.queue) /\ ~cs[running.client].in_multi

\* A transaction does what its client was told.  From the reply to MULTI on, no command
\* of the client reaches the keyspace or the shutdown flags before EXEC.  EXEC then runs
\* exactly the commands that were answered QUEUED, in their order, if there are any and
\* none was answered with an error; and nothing else makes the server run a queue.
\* Errors to MULTI, EXEC, DISCARD and QUIT themselves do not count: the queueing path
\* lets them through, and an EXEC after a nested MULTI or after MULTI with an argument
\* still runs.
TransactionExact ==
    [][LET execs == {cmd \in Cmds : cmd.op = "EXEC"}
           Sends(c, cmds) == \E cmd \in cmds : Command(c, cmd)
           Runs(c) == told[c].open /\ ~told[c].refused /\ told[c].sent # <<>>
           Started(c) == running' = [client |-> c, queue |-> told[c].sent]
       IN  /\ ks' # ks \/ stop' # stop =>
                 \A c \in Clients : told[c].open => ~Sends(c, Cmds)
           /\ \A c \in Clients : Runs(c) /\ Sends(c, execs) => Started(c)
           /\ running = Idle /\ running' # Idle => \E c \in Clients : Runs(c) /\ Started(c)]_vars

\* EXEC sends as many replies as its header announces, unless one of its commands
\* shuts the server down: a client that pipelines keeps its place in the stream.
FramedReplies ==
    stop = "no" => owed = Len(running.queue)

\* The account never exceeds maxmemory by more than one command adds, also when EXEC
\* runs several: every command that EXEC runs passes the gate on its own.
MaxGrowth == MapThenSumSet(LAMBDA k : 48 + KeySize(k) + 32 + (17 + MaxData) * MaxData, Keys)
GateBounds == maxmemory > 0 => ks.used <= maxmemory + MaxGrowth

-----------------------------------------------------------------------------
\* The commands of Probes that run a handler on the keyspace.
Handled == {cmd \in Probes : /\ ~Malformed(cmd)
                           /\ cmd.op \notin Transactional \cup {"PING", "SELECT", "SHUTDOWN"}}
Later == {u \in Times : u >= now}

\* What is alive at time t.
View(s, t) == [d \in Dbs |-> [k \in Keys |->
                  IF Stale(s.table[d][k], t) THEN Missing ELSE s.table[d][k]]]
Purged == [ks EXCEPT !.table = View(ks, now)]

Blind(cmd) ==
    \A d \in Dbs, u \in Later :
       LET Same(r, q) == r.reply = q.reply /\ View(r.ks, u) = View(q.ks, u)
       IN  Same(Exec(ks, d, now, u, cmd), Exec(Purged, d, now, u, cmd))

\* No command can tell a key whose deadline has passed from a key that is not there,
\* neither in its reply nor in what it leaves behind.  DEL, DBSIZE and RANDOMKEY
\* work on the raw tables and are left out.
StaleInvisible == \A cmd \in Handled : cmd.op \notin {"DEL", "DBSIZE", "RANDOMKEY"} => Blind(cmd)

\* A value without content.
Hollow(e) == e # Missing /\ Extent(e.val) = 0 /\ e.exp = 0

\* A command that replies with an error has changed nothing, except that under a key that
\* was missing INCRBYFLOAT, and HINCRBYFLOAT when the sum is infinite, leave an empty value.
ErrorLeavesNoTrace ==
    \A cmd \in Handled, d \in Dbs, u \in Later :
       LET Harmless(before, after) ==
              \/ after = before
              \/ /\ cmd.op = "INCRBYFLOAT" \/ (cmd.op = "HINCRBYFLOAT" /\ cmd.size = "infinite")
                 /\ before[d][cmd.key] = Missing /\ Hollow(after[d][cmd.key])
                 /\ after = [before EXCEPT ![d][cmd.key] = after[d][cmd.key]]
           Traceless(r) == IsError(r.reply) => Harmless(View(ks, u), View(r.ks, u))
       IN  Traceless(Exec(ks, d, now, u, cmd))

\* Commands that change a value in place keep the deadline of the key.
DeadlineKept ==
    \A cmd \in Handled, d \in Dbs, u \in Later :
       LET Kept(before, after) ==
              \A k \in Keys : before[k] # Missing /\ after[k] # Missing => before[k].exp = after[k].exp
       IN  cmd.op \notin {"SET", "SETNX", "SETEX", "GETSET", "MSET", "MSETNX",
                          "EXPIRE", "PERSIST", "RENAME", "SETSTORE"}
           => Kept(View(ks, u)[d], View(Exec(ks, d, now, u, cmd).ks, u)[d])

\* The keys that a command looks up one after the other and holds on to.
Held(cmd) ==
    CASE cmd.op \in {"LMOVE", "SMOVE"} -> <<cmd.key, cmd.to>>
      [] cmd.op \in {"SETOP", "SETSTORE"} -> cmd.keys
      [] OTHER -> <<>>

\* The arguments with which an integer computation of a handler leaves long long.
Extreme(cmd, u) ==
    CASE cmd.op \in {"LREM", "SRANDMEMBER"} -> cmd.n = LLMin
      [] cmd.op = "SETRANGE" -> cmd.n \in Nat /\ cmd.n > LLMax - Len(cmd.val)
      [] cmd.op \in {"SETEX", "EXPIRE"} -> cmd.n \in Int /\ Overflows(u, cmd.n, cmd.unit)
      [] cmd.op = "SET" -> Overflows(u, cmd.px, 1) \/ Overflows(u, cmd.ex, Second)
      [] OTHER -> FALSE

\* Where a handler can leave the defined behaviour of C++: HDEL and SREM of a key that is
\* not there; a count, an offset or a time to live at the edge of long long; a sum that
\* does not fit the buffer of FormatLongDouble; and a command that names one key twice
\* when the deadline of that key passes between the two lookups.  Nowhere else does a
\* handler of a string, key, list, hash or set command use a value that is missing or that
\* a lookup has freed, or compute a number that does not fit.
UndefinedConfined ==
    \A cmd \in Handled, d \in Dbs, u \in Later :
       Exec(ks, d, now, u, cmd).reply = Undefined =>
          \/ cmd.op \in {"HDEL", "SREM"} /\ View(ks, now)[d][cmd.key] = Missing
          \/ Extreme(cmd, u)
          \/ cmd.op \in {"INCRBYFLOAT", "HINCRBYFLOAT"} /\ cmd.size = "wide"
          \/ \E i, j \in DOMAIN Held(cmd) :
                LET e == ks.table[d][Held(cmd)[i]]
                IN  i < j /\ Held(cmd)[i] = Held(cmd)[j] /\ ~Stale(e, now) /\ Stale(e, u)

\* SUNION, SINTER and SDIFF compute the union, the intersection and the difference of the
\* sets that are alive when they are looked up, a missing key counting as the empty set
\* and a key named twice included; of SDIFF this holds only if its first key is there.
SetAlgebraExact ==
    \A cmd \in {c \in Handled : c.op = "SETOP"}, d \in Dbs, u \in Later :
       LET Operand(i) == View(ks, IF i = 1 THEN now ELSE u)[d][cmd.keys[i]]
           all == {Members(Operand(i)) : i \in DOMAIN cmd.keys}
           rest == {Members(Operand(i)) : i \in 2 .. Len(cmd.keys)}
           exact == CASE cmd.what = "union" -> UNION all
                      [] cmd.what = "inter" -> {x \in Members(Operand(1)) : \A m \in rest : x \in m}
                      [] cmd.what = "diff"  -> Members(Operand(1)) \ UNION rest
           Exact(reply) == reply[1] = "array" /\ (cmd.what = "diff" => Operand(1) # Missing)
                           => ToSet(reply[2]) = exact
       IN  Exact(Exec(ks, d, now, u, cmd).reply)

\* What a pattern says of a string: the string can be cut so that each star stands for
\* any piece, each question mark for one character and every other character for itself.
\* That is all GlobMatch implements.  The comment on it in commands.h also promises classes
\* in brackets and escapes with a backslash; neither character is in Chars, and nothing is
\* said here of a pattern that has one.
Matches(pattern, str) ==
    \E cut \in [1 .. Len(pattern) + 1 -> 0 .. Len(str)] :
       /\ cut[1] = 0 /\ cut[Len(pattern) + 1] = Len(str)
       /\ \A i \in DOMAIN pattern :
             IF pattern[i] = Star THEN cut[i] <= cut[i + 1]
             ELSE cut[i + 1] = cut[i] + 1 /\ pattern[i] \in {Question, str[cut[i + 1]]}

Listing == {cmd \in Handled : cmd.op \in {"KEYS", "SCAN"}}
Wanted == [cmd \in Listing |-> {k \in Keys : Matches(cmd.pattern, k)}]

\* KEYS and SCAN never list a key that does not match the pattern, is stale or is not
\* there; and KEYS, and SCAN without COUNT, list every live key that matches, the ones
\* that the backtracking of GlobMatch finds only after it has given up a first try
\* included, unless the key itself has a star in it: GlobMatch takes a star of the pattern
\* that meets one in the key for an ordinary character, and may miss the key.
KeysListed ==
    \A cmd \in Listing, d \in Dbs, u \in Later :
       LET live == {k \in Wanted[cmd] : View(ks, now)[d][k] # Missing}
           plain == {k \in live : Star \notin ToSet(k)}
           Lists(reply) == ~IsError(reply) =>
                              /\ reply[2] \subseteq live
                              /\ cmd.op = "KEYS" \/ cmd.count = -1 => plain \subseteq reply[2]
       IN  Lists(Exec(ks, d, now, u, cmd).reply)
=============================================================================
