# A TLA+ model of tiny-redis-server

tiny-redis-server is a single-threaded, in-memory key-value server that speaks
the Redis protocol. These modules model its concurrency, its failure handling
and its bookkeeping, TLC checks them on small instances, and TLAPS proves the
most important properties for instances of any size.

## The system

| Part | Source | State | Operations |
|---|---|---|---|
| Event loop | `server.cpp`, `server.h` | connections, kqueue filters, `quit_`, counters | accept, read, write, close, signal, periodic tasks, exit |
| Request parser | `resp.cpp` | the bytes not yet parsed | `Feed`, `ParseBuffered` |
| Dispatcher and transactions | `commands.cpp` 134-225, 804-852, 2253-2293 | `ClientState`, shutdown flags | queue, refuse, run, `MULTI`, `EXEC`, `DISCARD` |
| Command handlers | `commands.cpp` | none of their own | strings, keys, lists, hashes, sets, sorted sets, server commands |
| Database | `db.cpp`, `db.h` | 16 hash tables, the memory account, the expiry counter | `Lookup`, `Set`, `Delete`, `FlushDb`, `FlushAll`, `ActiveExpireCycle` |
| Skip list | `zskiplist.cpp` | towers with spans | insert, delete, rank, ranges |
| Snapshots | `rdb.cpp`, end of `Server::Run`, `main.cpp` | `path.tmp`, `path`, children | `SAVE`, `BGSAVE`, final save, load |

One thread runs the event loop, and with it every handler, so commands do not
interleave. What does interleave: BGSAVE children with the server and with each
other on two file names; kernel readiness and clients with the batch of events
being handled; the clock with the several lookups of one command; crashes with
everything.

## Modules

| Module | Models | Correspondence |
|---|---|---|
| `Persistence` | snapshots | One action per system call of a saver (`Open`, `WriteChunk`, `Rename`, `Fail`), per command (`Save`, `BgSaveFork`, `ShutdownSave`, `ShutdownNoSave`), and `Reap`, `Crash`, `PowerLoss`, `Start`. Files are inodes with names and descriptors. A dataset is a version number, its image `Size[v]` chunks. |
| `Database` | `db.cpp` as functions of `[table, used, expired]` | One operator per member function; `Poke` is a write through the pointer that `Lookup` returned. |
| `Keyspace` | the Database object under any sequence of calls | One action per call, and the clock. |
| `ExpiringStore` | the abstract promise of the Database | A key is there until its deadline and gone from then on. `Keyspace` is shown to implement it, with stale entries mapped to `Missing`. |
| `ActiveExpire` | `ActiveExpireCycle` on one table in its iteration order | `Keyspace` leaves the order of the hash table open; this module makes it part of the state, because which keys are ever visited depends on it. |
| `CommandBase` | helpers of `commands.cpp`: typed lookup, creation, strict integers, value sizes | |
| `StringCommands`, `KeyCommands`, `ListCommands`, `HashCommands`, `SetCommands` | the handlers | One operator per handler: `(ks, d, t, u, cmd)` to the new keyspace and the reply. `GlobMatch` is in `KeyCommands`. |
| `Commands` | the dispatch chain and `IsWriteCommand` | |
| `Dispatch` | `Dispatch` with several clients, on a keyspace that was loaded from a snapshot | `Serve` (the next `Command` of a connection), `ExecNext` (one queued command of `EXEC`), `Reconnect`, `Periodic`, `Tick`. `owed` and `told` are history: the replies `EXEC` still has to send, and what the replies have told a client of its transaction. |
| `Reactor` | `server.cpp` | `Poll` (kevent), one `Handle*` action per kind of event, `EndBatch`, `Exit`; clients and signals are the environment. `late` is history: the requests dispatched after a shutdown was requested. |
| `SkipList` | `zskiplist.cpp` | A list is its nodes with `forward` and `span`, its level and its length; one operator per member function. The key of a node, (score, member), is its identity. `FindNode`'s descent is `Descend`. |
| `SortedSets` | the sorted-set commands on one key | `Command` for each command with every draw of levels, `Delete`; the value is a skip list and a dictionary. |
| `RankedSet` | the abstract promise of a sorted set | A function from members to scores, ordered by (score, member). |
| `RespParser` | `resp.cpp` and the read loop of `OnReadable` | `Read(n)` (`Feed` on n bytes), `Drained` (`EAGAIN`), `Close`; the parse functions one by one, on bytes. |
| `PersistenceProofs`, `KeyspaceProofs`, `DispatchProofs`, `TransactionProofs`, `ReactorProofs` | theorems | `TransactionProofs` extends `DispatchProofs`. |
| `MCPersistence`, `MCKeyspace`, `MCDispatch`, `MCSortedSets`, `MCRespParser` | constants for TLC | `ActiveExpire` and `Reactor` need none. |

`Dispatch` is composed from `Commands`, the handlers and `Database`, so its
clients run the real handlers on the real tables. `Reactor` sees a request only
by its effect on the connection (`cmd`, `quit`, `save`, `nosave`, `bad`), and
`Persistence` sees the dataset only as a version; what happens inside a command
is the business of the other modules. `RespParser` stands between `Reactor`'s
bytes and its requests: `RequestsExact` is what lets `Reactor` take requests
whole. `SortedSets` is on its own: the lookup of the key, its deadline and the
type check are those of the other handlers, so that the state can be spent on
towers and spans.

### Two readings of the clock

A handler calls `NowMs()` several times. In the model a command begins at time
`t` and ends at `u >= t`: its first lookup reads `t`, later ones read `u`.
`KEYS` and `SCAN` read the clock for every entry in the code and once in the
model. The reading never goes backwards in the model; the code uses the system
clock, which an administrator can set back.

### What the abstractions leave out

- The CRC is taken to accept exactly what `Serialize` wrote.
- Strings and keys are sequences over a few characters: digits, a minus sign, a
  letter, NUL, a star and a question mark; `strtoll` and `to_string` are modelled
  on these. The range of `long long` is `LLMin .. LLMax`, and a computation that
  leaves it is undefined where the code does not check. Floats are integers in
  `INCRBYFLOAT` and `HINCRBYFLOAT`, and `cmd.size` says whether the sum is finite,
  infinite or too wide for the buffer of `FormatLongDouble`. Members of sets and
  fields of hashes are three labels with an order.
- Scores are integers; those beyond `MaxScore` are the infinities. Spans are
  numbers modulo `Word`, as `unsigned long` is. The level that `RandomLevel`
  returns, the members that `SPOP` and `SRANDMEMBER` draw and the order in which
  `SCAN` meets the keys are arguments, over which the runs quantify.
- Bytes of the protocol are CR, LF, blanks, `*`, `$`, `-`, digits and letters. The
  wording of an error is left out, which check raised it is kept.
- The lengths of strings and lists and the sizes of sets and hashes are bounded by
  `MaxData`.
- `stats_.connected_clients` changes together with `conns_` and is not a
  variable; neither are `stats_.expired_keys` and the other counters that only
  `INFO` reads.
- `Dispatch` lets clients go on after a `SHUTDOWN`; `Reactor` models how the
  loop stops.
- Requests arrive whole in `Reactor`; `RespParser` has the bytes.
- A use of freed memory either goes unnoticed or ends the process (`Touch`); in
  the handlers it makes the reply `Undefined`, and so does a null pointer.

## Runs that pass

| Run | Properties | What it shows |
|---|---|---|
| `persistence` | `TypeOK`, `AloneDumpWhole`, `GracefulExitKeepsData`, `DumpNeverOlder`, `ChildrenReaped` | A save that overlaps no other installs exactly what it serialized, and nothing but a loss of power damages that file later: not a crash between truncation, writes and rename, not the remains of an earlier `path.tmp`, not a failed save. A graceful exit whose final save succeeds and overlaps no child loses nothing. Saves that overlap no other never put an older dataset in place, unless a child of a dead server makes them. Every child ends and is reaped. |
| `keyspace` | `TypeOK`, `UsedExact`, `ExpiryCounted`, `Implements` | Lazy and active expiry together look like a store in which keys vanish at their deadline; `used_` is exact until something is resized in place; each expiry is counted once; no operation touches another database. |
| `active_expire` | `StaleCollected` | The cycle alone collects every stale key as long as at most 2W - 2 keys stay for ever, W being `kSampleWindow`, also when the table is larger than the 2W - 1 positions the cycle reaches. |
| `transactions` | `TypeOK`, `QueueValid`, `FramedReplies`, `GateBounds`, `TransactionExact` | Queues hold accepted commands only. A transaction does what its client was told: after the reply to `MULTI` nothing reaches the keyspace before `EXEC`, and `EXEC` runs exactly the commands that were answered `QUEUED`, unless one was answered with an error. `EXEC` sends the replies it announced; the memory gate holds for each command inside `EXEC`. |
| `handlers` | `StaleInvisible`, `ErrorLeavesNoTrace`, `DeadlineKept`, `UndefinedConfined`, `KeysListed`, `SetAlgebraExact` | For every string, key, list, hash and set command, on keyspaces with values of each type, alive and stale, and for every pair of clock readings: a stale key cannot be told from a missing one; a command that fails changes nothing (but see below); a write in place keeps the deadline; a handler never uses a value that is missing or freed and never computes a number that does not fit, except in the places that `UndefinedConfined` names; `KEYS` and `SCAN` list only live keys that match, and without `COUNT` all of them that have no star in them, with the backtracking of `GlobMatch` checked against the meaning of a pattern; `SUNION`, `SINTER` and `SDIFF` compute what they are named for, also when one key is named twice. |
| `reactor` | `TypeOK`, `NoStrandedReply`, `NothingLost`, `StopsServing` | Requests are dispatched once and replies sent once and completely, through batches, short writes and closed peers; whenever the server sleeps, the write filter is on exactly where replies wait; once a shutdown is requested, each remaining event of the batch has at most one more request dispatched, fewer in all than a batch has events. |
| `reactor_live` | `Served`, `ShutdownCompletes` | A client that reads is answered; a requested shutdown ends the loop. |
| `sorted_sets` | `LinksOrdered`, `SpansExact`, `IndexesAgree`, `CommandsPromise`, `RanksAgree`, `RangesAgree` | Through any sequence of commands and any levels drawn, links skip no node, spans are distances although the last link of a level wraps below zero, skip list and dictionary hold the same pairs, and every command, rank and range is that of `RankedSet`, but for the two departures of `ZADD` below. |
| `parser` | `RequestsExact`, `FlawsCaught`, `NoFalseAlarm`, `ParsedRuns` | However the bytes are cut into reads, requests come out whole, once, in order, with their arguments, also when an argument holds bytes of the protocol; a malformed request is refused as soon as its bytes show it; a connection whose requests are well formed and keep to the limits is never refused; what was parsed is run. |

## Runs that show a disagreement

Each states what a line of the repository says, and TLC finds a behaviour of the
code that does otherwise.

| Run | Said by | What the code does |
|---|---|---|
| `persistence_overlap` | `README.md:177` | Savers share `path.tmp`; when two overlap, one can rename a file that the other has just emptied, and `path` is a file that no save wrote. |
| `reactor_ownership` | `include/server.h:2` | The second event of a connection that the first has closed reads the destroyed object. |
| `reactor_quit` | `src/server.cpp:190` | `QUIT` behind a full send buffer never closes. |

Other places where code and text differ are part of the models, and the passing
properties say where they stop:

- `rdb.cpp:223` announces an fsync that is not made, so a loss of power may empty
  a completed dump (`dumpKind = "lost"`);
- `test_ttl_rdb.cpp:49` expects the cycle to clean everything; with 2W - 1 or more
  persistent keys at the front of the table a stale key behind them is never
  visited, which is the premise of `StaleCollected`;
- `DEL`, `DBSIZE` and `RANDOMKEY` work on the raw tables and see keys that have
  expired; `StaleInvisible` leaves them out;
- `INCRBYFLOAT` with an argument that is no number or with an infinite sum, and
  `HINCRBYFLOAT` with an infinite sum, reply with an error and leave an empty value
  under a key that was missing; `ErrorLeavesNoTrace` allows that and no more;
- `MULTI`, `EXEC`, `DISCARD` and `QUIT` skip the queueing path by their name
  (`commands.cpp:811`), so that with a wrong number of arguments inside `MULTI` they are
  answered with an error and do not stop `EXEC`; `TransactionExact` leaves their
  errors out;
- `LPOP`, `RPOP`, `LREM` and `LMOVE` leave empty lists behind, `LTRIM` does not;
- `RENAME` (`commands.cpp:1302`) moves the value out before it deletes the source,
  so `Delete` pays back the size of an empty value and the account keeps the rest,
  where `db.h:41` says that `Set` "handles memory accounting" and `README.md:47`
  speaks of "Real-Time Memory Accounting";
- `LMOVE`, `SMOVE` and the set operations with one key twice look it up twice, and
  when its deadline falls between, the second lookup frees what the first returned
  (`commands.cpp:547`); `HDEL` and `SREM` of a missing key go through a null pointer
  (1420, 1740); `SRANDMEMBER` and `LREM` negate their count (1860, 1647), `SETRANGE`
  adds a length to an offset of any size (1109), and `SET`, `SETEX` and `EXPIRE`
  compute a deadline from a time of any size (382, 1046, 707); `FormatLongDouble` reads
  past its buffer for a sum with 111 to 126 characters before the point (288).
  `UndefinedConfined` lists these and shows that there are no others among the
  handlers of `Commands`. One kind is not counted: `HGET`, `HMGET`, `HSTRLEN` and
  `ZREM` of a missing key take `end()` of a map through a null pointer (1362, 1377,
  1462, 2139), which the map answers without reading memory, so the model has them
  reply that there is nothing;
- `SDIFF` takes the first key that is there as its base, so a missing first key is
  passed over (`commands.cpp:627`);
- `ZADD INCR` tests `NX` and `XX` the other way round from plain `ZADD`
  (`commands.cpp:1951`), and `ZADD` with a bad score keeps the pairs before it (1943);
  `CommandsPromise` says what these two do and demands the promise of all others;
- `commands.h:47` gives the patterns of `GlobMatch` as "`* ? [..]` with `\` escape";
  brackets and backslash have no meaning in the code (782-802), and `KeysListed` says
  nothing of patterns that have one;
- `GlobMatch` compares a character literally before it looks for a star, so a
  star in a key can make the key be missed; `KeysListed` excepts such keys;
- the comment at `resp.cpp:125` calls `*-1` an empty command to be dropped; the check
  for digits (107-111) refuses it and the connection is closed. `NoFalseAlarm` counts
  it as not well formed;
- `SCAN COUNT` stops early and still returns the cursor 0; with `COUNT 0` it may
  return one key;
- a protocol error or the end of the stream after a read that filled the buffer
  drops the requests parsed before it (`server.cpp:214-226`);
- a header line of more than 32 bytes, or an inline line above its limit, is
  refused only while its end has not arrived, so the answer depends on the split;
- `ZREVRANGEBYSCORE ... LIMIT` with a negative offset leaves the array
  (`zskiplist.cpp:279`); `RangesAgree` takes offsets that are not negative.

`README.md:3` claims "100% behavioral parity verified against official Redis
servers"; the points above about `SDIFF`, `ZADD INCR`, `SCAN` and empty lists are
where the code departs from it.

## Bounds

- `Persistence`: the server and one child (two savers are enough for every
  overlap of a pair; the overlap run has two children), two writes, images of one
  and two chunks so that a longer image can show under a shorter one, one loss of
  power, enough inodes that `open` never lacks one.
- `Keyspace`: two databases with two keys each, of which two can be held at a time
  (`MaxUsed`); values of two sizes; a deadline before, at and after the three clock
  readings; two expiries (`MaxExpired`). Once the account has drifted, it drifts by
  the difference of the two sizes at most (`MaxDrift`), which is enough for
  `MemSub` to saturate.
- `ActiveExpire`: four keys and a window of 2, so that one position is out of
  reach, and one insertion.
- `Dispatch`: `Fits` bounds the drift of the account (`MaxDrift`), the expiry
  counter and the length of values. `transactions` has two interchangeable clients,
  two databases, queues of two commands, and a gate that one value exceeds.
  `handlers` separates the commands that move the keyspace on (`Cmds`) from those
  whose handlers are tried in each state (`Probes`, all of them). It starts from
  every snapshot with a value of each type under `a`, empty ones included, and a
  string, list or set under `b`, each with or without a deadline (`Snapshots`,
  loaded as `LoadFromFile` does); clock readings before, at and after the deadline.
  The keys are 12 and 112, so that a star has to be tried at two places, and a third
  with a star in it. `LLMin .. LLMax` is -8 .. 7, above `MaxBulk` and every clock
  reading; arguments at both ends are among the probes.
- `Reactor`: two descriptors, two requests each, a send buffer of one reply,
  batches of two events, reads of two requests. `reactor_live` has one
  descriptor and two connections, so that it is reused.
- `SortedSets`: four members, three levels, scores -1, 0, 1 and the infinities. One
  member moves from the first place to the last and back, the others come and go,
  two of them with equal scores, so that every position of an insertion and a
  deletion below and above the height of its neighbours occurs. `Word` is 8, above
  any distance and small enough that a wrong wrap shows.
- `RespParser`: streams of three requests out of eleven proper ones, the last one
  possibly out of ten improper ones, reads of 1 to 4 bytes, a buffer limit of 21,
  so that requests just below and just above it occur, and headers and lines just
  above what the parser waits for.

Deadlock checking is off where the system may stop: after `Exit` in `Reactor`,
after the connection is closed in `RespParser`, and in `ActiveExpire`, where an
empty table with no inserts left has no step.

## Fairness

- `Persistence`: the operating system runs every saver (weak fairness of its next
  step). `Reap` is strongly fair: `PeriodicTasks` runs after each batch, but a
  stream of `SAVE`s disables it again and again in the model.
- `ActiveExpire`: deadlines pass, and each offset that stays possible is drawn
  again and again (strong fairness of `Cycle(offset)`), which is what
  `rng() % n` does with probability one.
- `Reactor`: the thread of the server goes on (weak fairness of `Poll`, `Handle`,
  `EndBatch`, `Exit`), and clients read what they are sent. `Served` is about such
  clients; nothing is assumed of what clients send or when they leave.
- `RespParser`: weak fairness of `Drained`: a loop that has nothing more to read
  gets `EAGAIN` and goes on to the commands. Nothing is assumed of the client.

## Proofs

`PersistenceProofs` (`TypeCorrect`, `AloneDumpIsWhole`, `GracefulExit`,
`NeverOlder`), from `PersistenceAssumption` only: any number of children, inodes,
writes, chunks, losses of power. None of the properties is inductive. `IInv` adds:

- `Control`: the step of a saver determines its descriptor and offset, and the
  server saves exactly in its modes "save" and "exit";
- `Alone`: a saver not marked as overlapped is the only one in flight, `path.tmp`
  is the file it has open, and that file holds what it wrote and nothing else.
  This is what makes its rename install a whole image;
- `Installed`: a dump installed that way is the image of `dumpSnap` and nobody has
  it open, so no later write reaches it;
- `Ordered`, `Bounded`: snapshots of the present server are not newer than its
  dataset and not older than an "alone" dump;
- `Exited`: what a graceful exit leaves behind.

There is one lemma per action. `LoadsImage` rests on images of different versions
being different.

`KeyspaceProofs` (`TablesWellFormed`, `ImplementsStore`): for any databases, keys,
values, deadlines and clock readings the Database implements `ExpiringStore`. The
mapping hides stale entries. A lemma per operation says what it does to the
tables; lazy expiry and the active cycle then are stuttering steps, because they
only take entries that the mapping hides already.

`DispatchProofs` (`QueuesValid`, `RepliesFramed`) and `TransactionProofs`
(`TransactionsExact`): for any clients, commands, limits, snapshots, and whatever the
handlers do to the keyspace. The properties need the types of `cs` and `running` to be inductive (`TInv`).
`DispatchEffect` says what one dispatch does to a client's transaction, by the cases
of the dispatch chain. `RepliesFramed` rests on `RunReplies`: every command that can
be queued sends exactly one reply, or requests a shutdown. `TransactionExact` compares
the server with what its client was told; `LInv` adds that the two agree at any time:
a transaction is open for both or for neither, the commands answered `QUEUED` are
`multi_queue`, and an error was sent exactly when `multi_error` is set.
`DispatchLinked` shows it for every command, by what the reply is.

`ReactorProofs` (`ReactorTyped`, `RepliesNotStranded`, `RequestsNotLost`,
`ServingStops`), from `ReactorAssumption` only: any number of descriptors,
connections, requests, any buffer and batch sizes. `NoStrandedReply` speaks of the
moments when the server sleeps; `Armed` says what holds inside a batch too: the filter
is on exactly while `out` is not empty, until a shutdown is requested. `Counted` is
the conservation law of requests and answers, for connections that are closed too,
and that the filter agrees with `want_write`. For `StopsServing`, `SInv` says how much
room is left: the requests dispatched since the shutdown and the events still in the
batch together stay below the size of a batch, since a handled event leaves the batch
and dispatches at most one. Lemmas say what each handler does to
the connection it is given; the steps of the events show that the others are left
alone.

Only model-checked: everything about liveness; `UsedExact`, `ExpiryCounted` and
`GateBounds`, which are about sums over sets and would need induction over data;
the properties of `handlers`, which go through every handler; the skip list and the
parser, whose operators are recursive over lists and bytes, so that what they compute
for every input needs induction over data as well.

## Not modelled

- `INFO`, `CONFIG`, `CLIENT`, `COMMAND` and option parsing format or read data and
  change no state that another part depends on; the reply writers for other than
  arrays of strings are pure formatting. `ProcessBuffered` and `ScoreOf` are never
  called.
- The byte format of a snapshot: an image is chunks of a version.
- `EXPIREAT key 0` stores the value that means "no deadline"; the model does the same
  and no property is about it. A float with 127 or more characters before the point is
  cut off by `FormatLongDouble`.
- A composition of `Reactor`, `Dispatch` and `Persistence` for the path from a
  request through `SHUTDOWN` to the final save. Each module has its part of the
  path: `StopsServing` and `ShutdownCompletes` up to the end of the loop,
  `GracefulExitKeepsData` from there.
