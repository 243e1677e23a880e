----------------------------- MODULE ReactorProofs -----------------------------
(***************************************************************************)
(* The event loop keeps its accounts: for any descriptors, requests and    *)
(* buffer sizes no reply is stranded and no request is lost or run twice.  *)
(***************************************************************************)
EXTENDS Reactor, SequenceTheorems, FiniteSetTheorems, WellFoundedInduction, TLAPS

\* What a connection owes, whatever its write filter says.
Counted(c, st) ==
    /\ c.filter = c.want_write
    /\ st = "no" /\ ~c.quit => c.got = c.ran + Len(c.inbox)
    /\ c.answers = c.out + c.unread + c.taken

\* The write filter is registered exactly while there is something to write.
Armed(c) == c.filter <=> c.out > 0

\* The inductive invariant.  Armed holds inside a batch too, as long as no shutdown is
\* requested: from then on OnReadable no longer flushes.
IInv ==
    /\ TypeOK
    /\ phase = "wait" => stop = "no"
    /\ \A e \in batch : e.kind \in {"read", "write"} => e.fd \in Fds
    /\ \A f \in Fds : Counted(conns[f], stop) /\ (stop = "no" => Armed(conns[f]))

-----------------------------------------------------------------------------
LEMMA MinOfTwo ==
  ASSUME NEW x \in Int, NEW y \in Int
  PROVE  Min({x, y}) = IF x <= y THEN x ELSE y
<1> DEFINE m == IF x <= y THEN x ELSE y
<1>1. m \in {x, y} /\ \A z \in {x, y} : m <= z
  OBVIOUS
<1>2. \A n \in {x, y} : (\A z \in {x, y} : n <= z) => n = m
  OBVIOUS
<1> QED BY <1>1, <1>2 DEF Min

\* A set of natural numbers has a least element.
LEMMA MinOfSet ==
  ASSUME NEW S, S \subseteq Nat, S # {}
  PROVE  Min(S) \in S /\ \A y \in S : Min(S) <= y
<1> DEFINE R == OpToRel(<, Nat)
<1>1. IsWellFoundedOn(R, Nat)
  BY NatLessThanWellFounded
<1>2. R = {ss \in Nat \X Nat : ss[1] < ss[2]}
  BY DEF OpToRel
<1> HIDE DEF R
<1>3. PICK x \in S : \A y \in S : ~(<<y, x>> \in R)
  BY <1>1, WFMin
<1>4. \A y \in S : x <= y
  <2> TAKE y \in S
  <2>1. x \in Nat /\ y \in Nat /\ ~(<<y, x>> \in R)
    BY <1>3
  <2>2. ~(y < x)
    BY <1>2, <2>1
  <2> QED BY <2>1, <2>2
<1> QED BY <1>4 DEF Min

-----------------------------------------------------------------------------
LEMMA BlankSound ==
  ASSUME NEW st
  PROVE  Blank \in Connection /\ Counted(Blank, st) /\ Armed(Blank)
<1>1. <<>> \in Seq(Requests) /\ Len(<<>>) = 0
  OBVIOUS
<1> QED BY <1>1, ReactorAssumption DEF Blank, Connection, Counted, Armed

\* What the dispatch loop runs is a prefix of what was parsed, and without a QUIT or a
\* shutdown it is all of it.
LEMMA RunLengthRange ==
  ASSUME NEW c \in Connection, NEW st
  PROVE  /\ RunLength(c, st) \in 0 .. Len(c.inbox)
         /\ st = "no" /\ ~c.quit /\ c.inbox # <<>> =>
              \/ RunLength(c, st) = Len(c.inbox)
              \/ RunLength(c, st) \in 1 .. Len(c.inbox) /\ c.inbox[RunLength(c, st)] # "cmd"
<1> DEFINE ends == {i \in DOMAIN c.inbox : c.inbox[i] # "cmd"}
<1>1. c.inbox \in Seq(Requests) /\ Len(c.inbox) \in Nat /\ DOMAIN c.inbox = 1 .. Len(c.inbox)
  BY DEF Connection
<1>2. c.inbox # <<>> => Len(c.inbox) >= 1
  BY <1>1
<1>3. ends \cup {Len(c.inbox)} \subseteq Nat /\ ends \cup {Len(c.inbox)} # {}
  BY <1>1
<1>4. Min(ends \cup {Len(c.inbox)}) \in ends \cup {Len(c.inbox)}
  BY <1>3, MinOfSet
<1> DEFINE m == Min(ends \cup {Len(c.inbox)})
<1>5. CASE c.inbox = <<>>
  BY <1>1, <1>5 DEF RunLength
<1>6. CASE c.inbox # <<>> /\ (st # "no" \/ c.quit)
  <2>1. RunLength(c, st) = 1
    BY <1>6 DEF RunLength
  <2> QED BY <1>1, <1>2, <1>6, <2>1
<1>7. CASE c.inbox # <<>> /\ ~(st # "no" \/ c.quit)
  <2>1. RunLength(c, st) = m
    BY <1>7 DEF RunLength
  <2>2. m \in 1 .. Len(c.inbox) /\ (m = Len(c.inbox) \/ c.inbox[m] # "cmd")
    BY <1>1, <1>2, <1>4, <1>7
  <2> HIDE DEF m
  <2> QED BY <1>1, <2>1, <2>2
<1> QED BY <1>5, <1>6, <1>7

LEMMA RepliesNat ==
  ASSUME NEW s \in Seq(Requests)
  PROVE  Replies(s) \in Nat
<1>1. IsFiniteSet(1 .. Len(s))
  BY FS_Interval
<1>2. {i \in DOMAIN s : s[i] \in {"cmd", "quit"}} \subseteq 1 .. Len(s)
  OBVIOUS
<1>3. IsFiniteSet({i \in DOMAIN s : s[i] \in {"cmd", "quit"}})
  BY <1>1, <1>2, FS_Subset
<1> QED BY <1>3, FS_CardinalityType DEF Replies

LEMMA EnableWriteSets ==
  ASSUME NEW c \in Connection, c.filter = c.want_write, NEW enable \in BOOLEAN
  PROVE  EnableWrite(c, enable) = [c EXCEPT !.want_write = enable, !.filter = enable]
<1>1. CASE enable = c.want_write
  <2>1. c = [c EXCEPT !.want_write = enable, !.filter = enable]
    BY <1>1 DEF Connection
  <2> QED BY <1>1, <2>1 DEF EnableWrite
<1>2. CASE enable # c.want_write
  BY <1>2 DEF EnableWrite
<1> QED BY <1>1, <1>2

\* Whatever write does, the filter ends up registered exactly if something is left.
LEMMA WriteSound ==
  ASSUME NEW c \in Connection, NEW st, Counted(c, st)
  PROVE  OnWritable(c) \in Connection /\ Counted(OnWritable(c), st) /\ Armed(OnWritable(c))
<1> DEFINE n == Min({c.out, SockBuf - c.unread})
<1>1. c.out \in Nat /\ c.unread \in 0 .. SockBuf /\ SockBuf \in Nat
  BY ReactorAssumption DEF Connection
<1>2. n = IF c.out <= SockBuf - c.unread THEN c.out ELSE SockBuf - c.unread
  BY <1>1, MinOfTwo
<1>3. n \in Nat /\ c.out - n \in Nat /\ c.unread + n \in 0 .. SockBuf
  BY <1>1, <1>2
<1> HIDE DEF n
<1>4. CASE c.out > 0 /\ c.peer = "gone"
  BY <1>4, BlankSound DEF OnWritable, CloseConn
<1>5. CASE ~(c.out > 0 /\ c.peer = "gone")
  <2> DEFINE w == [c EXCEPT !.want_write = (n < c.out), !.filter = (n < c.out),
                            !.out = c.out - n, !.unread = c.unread + n]
  <2>1. c.filter = c.want_write /\ (n < c.out) \in BOOLEAN
    BY DEF Counted
  <2>2. OnWritable(c) = w
    <3>1. EnableWrite(c, n < c.out) = [c EXCEPT !.want_write = (n < c.out), !.filter = (n < c.out)]
      BY <2>1, EnableWriteSets
    <3>2. OnWritable(c) = [EnableWrite(c, n < c.out) EXCEPT !.out = @ - n, !.unread = @ + n]
      BY <1>5 DEF OnWritable, n
    <3> QED BY <3>1, <3>2 DEF Connection
  <2>3. w \in Connection
    BY <1>3, <2>1 DEF Connection
  <2>4. /\ w.filter = w.want_write /\ w.filter = (n < c.out)
        /\ w.out = c.out - n /\ w.unread = c.unread + n /\ w.quit = c.quit
        /\ w.got = c.got /\ w.ran = c.ran /\ w.inbox = c.inbox
        /\ w.answers = c.answers /\ w.taken = c.taken
    BY DEF Connection
  <2>5. c.taken \in Nat /\ c.answers \in Nat
    BY DEF Connection
  <2> HIDE DEF w
  <2>6. Counted(w, st)
    BY <1>1, <1>3, <2>4, <2>5 DEF Counted
  <2>7. Armed(w)
    <3>1. (n < c.out) <=> (c.out - n > 0)
      BY <1>1, <1>3
    <3>2. w.filter <=> (n < c.out)
      BY <2>4, Zenon
    <3>3. w.out > 0 <=> c.out - n > 0
      BY <2>4
    <3> QED BY <3>1, <3>2, <3>3, Zenon DEF Armed
  <2> QED BY <2>2, <2>3, <2>6, <2>7
<1> QED BY <1>4, <1>5

Stops == {"no", "save", "nosave"}

LEMMA StopAfterStays ==
  ASSUME NEW c \in Connection, NEW st \in Stops
  PROVE  StopAfter(c, st) \in Stops /\ (StopAfter(c, st) = "no" => st = "no")
  BY DEF StopAfter, Stops

\* The dispatch loop: every request that was parsed is run once, unless one of them ends
\* the connection or the server.
LEMMA RunSound ==
  ASSUME NEW c \in Connection, NEW st \in Stops, Counted(c, st), ~Malformed(c)
  PROVE  /\ RunParsed(c, st) \in Connection
         /\ Counted(RunParsed(c, st), StopAfter(c, st))
         /\ RunParsed(c, st).filter = c.filter
         /\ RunParsed(c, st).out >= c.out
<1> DEFINE n == RunLength(c, st)
           reqs == SubSeq(c.inbox, 1, n)
           quits == c.quit \/ \E i \in DOMAIN reqs : reqs[i] = "quit"
           p == RunParsed(c, st)
<1>1. c.inbox \in Seq(Requests) /\ Len(c.inbox) \in Nat
  BY DEF Connection
<1>2. n \in 0 .. Len(c.inbox)
  BY RunLengthRange
<1>3. reqs \in Seq(Requests) /\ Len(reqs) = n /\ \A i \in 1 .. n : reqs[i] = c.inbox[i]
  BY <1>1, <1>2, SubSeqProperties
<1>4. Replies(reqs) \in Nat
  BY <1>3, RepliesNat
<1>5. quits \in BOOLEAN
  OBVIOUS
<1>6. <<>> \in Seq(Requests) /\ Len(<<>>) = 0
  OBVIOUS
<1>7. p = [c EXCEPT !.inbox = <<>>, !.out = c.out + Replies(reqs),
                    !.answers = c.answers + Replies(reqs), !.ran = c.ran + n,
                    !.quit = quits]
  BY <1>3 DEF RunParsed, Connection
<1> HIDE DEF p, quits, reqs, n
<1>8. p \in Connection
  <2>1. c.out \in Nat /\ c.answers \in Nat /\ c.ran \in Nat
    BY DEF Connection
  <2>2. c.out + Replies(reqs) \in Nat /\ c.answers + Replies(reqs) \in Nat /\ c.ran + n \in Nat
    BY <1>2, <1>4, <2>1
  <2> QED BY <1>5, <1>6, <1>7, <2>2 DEF Connection
<1>9. /\ p.inbox = <<>> /\ p.out = c.out + Replies(reqs) /\ p.answers = c.answers + Replies(reqs)
      /\ p.ran = c.ran + n /\ p.got = c.got /\ p.unread = c.unread /\ p.taken = c.taken
      /\ p.filter = c.filter /\ p.want_write = c.want_write
      /\ p.quit = quits
  BY <1>7 DEF Connection
<1>10. ASSUME StopAfter(c, st) = "no", ~p.quit
       PROVE  p.got = p.ran + Len(p.inbox)
  <2>0. ~quits
    BY <1>9, <1>10
  <2>1. st = "no" /\ ~c.quit
    BY <1>10, <2>0, StopAfterStays DEF quits
  <2>2. c.got = c.ran + Len(c.inbox) /\ c.ran \in Nat
    BY <2>1 DEF Counted, Connection
  <2>3. n = Len(c.inbox)
    <3>1. CASE c.inbox = <<>>
      BY <1>2, <3>1
    <3>2. CASE c.inbox # <<>>
      <4>1. SUFFICES ASSUME n \in 1 .. Len(c.inbox), c.inbox[n] # "cmd" PROVE FALSE
        BY <2>1, <3>2, RunLengthRange DEF n
      <4>2. c.inbox[n] \in {"cmd", "quit", "save", "nosave", "bad"}
        <5>1. c.inbox[n] \in Requests
          BY <1>1, <4>1
        <5> QED BY <5>1, ReactorAssumption
      <4>3. c.inbox[n] # "bad"
        BY <1>1, <4>1 DEF Malformed
      <4>4. c.inbox[n] \notin {"save", "nosave"}
        BY <1>10, <4>1 DEF StopAfter, n
      <4>5. c.inbox[n] # "quit"
        <5>1. n \in DOMAIN reqs /\ reqs[n] = c.inbox[n]
          BY <1>1, <1>2, <1>3, <4>1
        <5> QED BY <2>0, <5>1 DEF quits
      <4> QED BY <4>1, <4>2, <4>3, <4>4, <4>5
    <3> QED BY <3>1, <3>2
  <2> QED BY <1>6, <1>9, <2>2, <2>3
<1>11. p.answers = p.out + p.unread + p.taken
  <2>1. c.out \in Nat /\ c.unread \in Nat /\ c.taken \in Nat /\ c.answers = c.out + c.unread + c.taken
    BY ReactorAssumption DEF Connection, Counted
  <2> QED BY <1>4, <1>9, <2>1
<1>12. p.out >= c.out
  BY <1>4, <1>9 DEF Connection
<1> QED BY <1>8, <1>9, <1>10, <1>11, <1>12 DEF Counted, p

LEMMA FinishSound ==
  ASSUME NEW c \in Connection, NEW st \in Stops, Counted(c, st),
         st = "no" => (c.filter => c.out > 0)
  PROVE  LET r == Finish(c, st)
         IN  r.c \in Connection /\ Counted(r.c, st) /\ (st = "no" => Armed(r.c)) /\ r.freed \in BOOLEAN
<1> DEFINE w == OnWritable(c)
<1>1. w \in Connection /\ Counted(w, st) /\ Armed(w)
  BY WriteSound
<1> HIDE DEF w
<1>2. CASE st # "no"
  BY <1>2 DEF Finish
<1>3. CASE st = "no" /\ c.quit
  <2>1. Finish(c, st) = [c |-> IF w.open /\ w.want_write THEN w ELSE CloseConn(w), freed |-> ~w.open]
    BY <1>3 DEF Finish, w
  <2>2. (~w.open) \in BOOLEAN
    OBVIOUS
  <2> QED BY <1>1, <2>1, <2>2, BlankSound DEF CloseConn
<1>4. CASE st = "no" /\ ~c.quit
  <2>1. Finish(c, st) = [c |-> IF c.out > 0 THEN w ELSE c, freed |-> FALSE]
    BY <1>4 DEF Finish, w
  <2>2. ~(c.out > 0) => Armed(c)
    BY <1>4 DEF Armed
  <2> QED BY <1>1, <2>1, <2>2
<1> QED BY <1>2, <1>3, <1>4

LEMMA ReadSound ==
  ASSUME NEW c \in Connection, NEW st \in Stops, Counted(c, st), st = "no" => Armed(c)
  PROVE  LET r == OnReadable(c, st)
             after == StopAfterRead(c, st)
         IN  /\ r.c \in Connection /\ r.freed \in BOOLEAN
             /\ after \in Stops /\ (after = "no" => st = "no")
             /\ Counted(r.c, after) /\ (after = "no" => Armed(r.c))
<1>1. CASE Malformed(c)
  <2>1. OnReadable(c, st).c = Blank /\ OnReadable(c, st).freed \in BOOLEAN /\ StopAfterRead(c, st) = st
    BY <1>1 DEF OnReadable, StopAfterRead, Dispatches
  <2> QED BY <2>1, BlankSound
<1>2. CASE ~Malformed(c) /\ SeesEnd(c)
  <2>1. OnReadable(c, st).c = Blank /\ OnReadable(c, st).freed \in BOOLEAN /\ StopAfterRead(c, st) = st
    BY <1>2 DEF OnReadable, StopAfterRead, Dispatches, CloseConn
  <2> QED BY <2>1, BlankSound
<1>3. CASE ~Malformed(c) /\ ~SeesEnd(c)
  <2> DEFINE p == RunParsed(c, st)
             after == StopAfter(c, st)
  <2>1. OnReadable(c, st) = Finish(p, after) /\ StopAfterRead(c, st) = after
    BY <1>3 DEF OnReadable, StopAfterRead, Dispatches
  <2>2. p \in Connection /\ Counted(p, after) /\ p.filter = c.filter /\ p.out >= c.out
    BY <1>3, RunSound
  <2>3. after \in Stops /\ (after = "no" => st = "no")
    BY StopAfterStays
  <2> HIDE DEF p, after
  <2>4. after = "no" => (p.filter => p.out > 0)
    <3>1. c.out \in Nat /\ p.out \in Nat
      BY <2>2 DEF Connection
    <3> QED BY <2>2, <2>3, <3>1 DEF Armed
  <2>5. LET r == Finish(p, after)
        IN  r.c \in Connection /\ Counted(r.c, after) /\ (after = "no" => Armed(r.c)) /\ r.freed \in BOOLEAN
    BY <2>2, <2>3, <2>4, FinishSound
  <2> QED BY <2>1, <2>3, <2>5
<1> QED BY <1>1, <1>2, <1>3

-----------------------------------------------------------------------------
\* One connection changes, and perhaps a shutdown is requested.
LEMMA UpdateSound ==
  ASSUME IInv, NEW f, NEW c \in Connection, NEW st \in Stops, st = "no" => stop = "no",
         Counted(c, st), st = "no" => Armed(c)
  PROVE  LET new == [conns EXCEPT ![f] = c]
         IN  /\ new \in [Fds -> Connection]
             /\ \A g \in Fds : Counted(new[g], st) /\ (st = "no" => Armed(new[g]))
<1>1. conns \in [Fds -> Connection]
  BY DEF IInv, TypeOK
<1>2. \A g \in Fds : Counted(conns[g], st) /\ (st = "no" => Armed(conns[g]))
  BY DEF IInv, Counted
<1>3. \A g \in Fds : [conns EXCEPT ![f] = c][g] = IF g = f THEN c ELSE conns[g]
  BY <1>1
<1> QED BY <1>1, <1>2, <1>3

LEMMA InitIInv == Init => IInv
<1> SUFFICES ASSUME Init PROVE IInv
  OBVIOUS
<1>1. conns \in [Fds -> Connection]
  BY BlankSound DEF Init
<1>2. \A f \in Fds : Counted(conns[f], stop) /\ Armed(conns[f])
  BY BlankSound DEF Init
<1> QED BY <1>1, <1>2 DEF Init, IInv, TypeOK

LEMMA PollIInv == ASSUME IInv, Poll PROVE IInv'
<1> DEFINE Events == [kind : {"accept", "signal", "read", "write"}, fd : Fds \cup {0}, id : Nat]
<1>1. conns \in [Fds -> Connection] /\ conns' = conns /\ stop' = stop
  BY DEF IInv, TypeOK, Poll
<1>2. \A f \in Fds : conns[f].id \in Nat
  BY <1>1 DEF Connection
<1>3. Ready \subseteq Events
  BY <1>2 DEF Ready, Event, Accept, Signal, Open
<1>4. \A e \in Ready : e.kind \in {"read", "write"} => e.fd \in Fds
  BY DEF Ready, Event, Accept, Signal, Open
<1>5. batch' \subseteq Ready
  BY DEF Poll
<1>6. TypeOK'
  <2>1. batch' \subseteq Events
    BY <1>3, <1>5
  <2>2. signal' \in BOOLEAN
    BY DEF Poll, IInv, TypeOK
  <2> QED BY <2>1, <2>2 DEF Poll, IInv, TypeOK, Connection
<1> QED BY <1>1, <1>4, <1>5, <1>6 DEF IInv, Poll, Counted, Armed

LEMMA SignalIInv == ASSUME IInv, HandleSignal PROVE IInv'
<1>1. TypeOK'
  BY DEF IInv, TypeOK, HandleSignal, Take, Connection
<1>2. \A f \in Fds : Counted(conns[f], stop)'
  BY DEF IInv, HandleSignal, Counted
<1> QED BY <1>1, <1>2 DEF IInv, HandleSignal, Take

LEMMA AcceptIInv == ASSUME IInv, OnAccept PROVE IInv'
<1>1. PICK new \in SUBSET (Fds \ Open) :
        LET first(f) == Cardinality({g \in new : g < f}) IN
        /\ Cardinality(new) = Min({backlog, Cardinality(Fds \ Open)})
        /\ conns' = [f \in Fds |-> IF f \in new
                        THEN [Blank EXCEPT !.open = TRUE, !.id = nextId + first(f)]
                        ELSE conns[f]]
        /\ nextId' = nextId + Cardinality(new)
        /\ backlog' = backlog - Cardinality(new)
  BY DEF OnAccept
<1> DEFINE first(f) == Cardinality({g \in new : g < f})
           fresh(f) == [Blank EXCEPT !.open = TRUE, !.id = nextId + first(f)]
<1>2. IsFiniteSet(Fds) /\ new \subseteq Fds /\ Fds \ Open \subseteq Fds
  BY ReactorAssumption
<1>3. Cardinality(new) \in Nat /\ Cardinality(Fds \ Open) \in Nat
  BY <1>2, FS_Subset, FS_CardinalityType
<1>4. \A f \in Fds : first(f) \in Nat
  <2> TAKE f \in Fds
  <2>1. {g \in new : g < f} \subseteq Fds
    BY <1>2
  <2>2. IsFiniteSet({g \in new : g < f})
    BY <1>2, <2>1, FS_Subset
  <2> QED BY <2>2, FS_CardinalityType
<1> HIDE DEF first
<1>5. nextId \in Nat /\ backlog \in Nat /\ conns \in [Fds -> Connection]
  BY DEF IInv, TypeOK
<1>6. nextId' \in Nat /\ backlog' \in Nat
  <2> DEFINE free == Cardinality(Fds \ Open)
             n == Cardinality(new)
  <2>1. free \in Int /\ n \in Nat
    BY <1>3
  <2>2. n = Min({backlog, free}) /\ nextId' = nextId + n /\ backlog' = backlog - n
    BY <1>1
  <2> HIDE DEF free, n
  <2>3. Min({backlog, free}) = IF backlog <= free THEN backlog ELSE free
    BY <1>5, <2>1, MinOfTwo
  <2> QED BY <1>5, <2>1, <2>2, <2>3
<1>7. \A f \in Fds : fresh(f) \in Connection /\ Counted(fresh(f), stop) /\ Armed(fresh(f))
  <2> TAKE f \in Fds
  <2>1. nextId + first(f) \in Nat
    BY <1>4, <1>5
  <2>2. fresh(f) \in Connection
    BY <2>1, BlankSound DEF Connection
  <2>3. fresh(f) = [Blank EXCEPT !.open = TRUE, !.id = nextId + first(f)]
    OBVIOUS
  <2>4. Counted(Blank, stop) /\ Armed(Blank)
    BY BlankSound
  <2>5. /\ fresh(f).filter = Blank.filter /\ fresh(f).want_write = Blank.want_write
        /\ fresh(f).quit = Blank.quit /\ fresh(f).got = Blank.got /\ fresh(f).ran = Blank.ran
        /\ fresh(f).inbox = Blank.inbox /\ fresh(f).answers = Blank.answers
        /\ fresh(f).out = Blank.out /\ fresh(f).unread = Blank.unread /\ fresh(f).taken = Blank.taken
    BY <2>3 DEF Blank
  <2> HIDE DEF fresh
  <2> QED BY <2>2, <2>4, <2>5 DEF Counted, Armed
<1>8. conns' = [f \in Fds |-> IF f \in new THEN fresh(f) ELSE conns[f]]
  BY <1>1 DEF first
<1> HIDE DEF fresh
<1>9. conns' \in [Fds -> Connection]
  BY <1>5, <1>7, <1>8
<1>10. UNCHANGED <<stop, phase, signal, touched, late>> /\ batch' \subseteq batch
  BY DEF OnAccept, Take
<1>11. TypeOK'
  BY <1>6, <1>9, <1>10 DEF IInv, TypeOK, Connection
<1>12. \A f \in Fds : Counted(conns'[f], stop') /\ (stop' = "no" => Armed(conns'[f]))
  <2> TAKE f \in Fds
  <2>1. CASE f \in new
    BY <1>7, <1>8, <1>10, <2>1
  <2>2. CASE f \notin new
    BY <1>8, <1>10, <2>2 DEF IInv
  <2> QED BY <2>1, <2>2
<1>13. \A e \in batch' : e.kind \in {"read", "write"} => e.fd \in Fds
  BY <1>10 DEF IInv
<1>14. phase' = "wait" => stop' = "no"
  BY <1>10 DEF IInv
<1> QED BY <1>11, <1>12, <1>13, <1>14 DEF IInv, Counted, Armed

\* The dispatch loop runs at most one request after a shutdown that was requested
\* before, and none after one that it has just run itself.
LEMMA LateRunsBound ==
  ASSUME NEW c \in Connection, NEW st
  PROVE  LateRuns(c, st) \in {0, 1} /\ (st = "no" => LateRuns(c, st) = 0)
<1> DEFINE n == RunLength(c, st)
           runs == {i \in 1 .. n : st # "no" \/ \E j \in 1 .. i - 1 : c.inbox[j] \in {"save", "nosave"}}
<1>1. n \in Nat /\ c.inbox \in Seq(Requests) /\ Len(c.inbox) \in Nat
  BY RunLengthRange DEF Connection
<1>2. LateRuns(c, st) = Cardinality(runs)
  BY DEF LateRuns
<1>3. CASE st # "no"
  <2>1. n \in {0, 1}
    BY <1>3 DEF RunLength
  <2> HIDE DEF n
  <2>2. runs \subseteq {1}
    BY <2>1
  <2> HIDE DEF runs
  <2>3. IsFiniteSet({1}) /\ Cardinality({1}) = 1
    BY FS_Singleton, Zenon
  <2>4. IsFiniteSet(runs) /\ Cardinality(runs) <= 1
    BY <2>2, <2>3, FS_Subset, Zenon
  <2>5. Cardinality(runs) \in Nat
    BY <2>4, FS_CardinalityType
  <2> QED BY <1>2, <1>3, <2>4, <2>5
<1>4. CASE st = "no"
  <2>1. \A i \in 1 .. n : \A j \in 1 .. i - 1 : c.inbox[j] \notin {"save", "nosave"}
    <3>1. CASE c.inbox = <<>>
      BY <3>1 DEF RunLength
    <3>2. CASE c.inbox # <<>> /\ c.quit
      <4>1. n = 1
        BY <3>2 DEF RunLength
      <4> QED BY <4>1
    <3>3. CASE c.inbox # <<>> /\ ~c.quit
      <4> DEFINE ends == {i \in DOMAIN c.inbox : c.inbox[i] # "cmd"}
      <4>1. n = Min(ends \cup {Len(c.inbox)})
        BY <1>4, <3>3 DEF RunLength
      <4>2. ends \cup {Len(c.inbox)} \subseteq Nat /\ ends \cup {Len(c.inbox)} # {}
        BY <1>1
      <4>3. n \in ends \cup {Len(c.inbox)} /\ \A y \in ends \cup {Len(c.inbox)} : n <= y
        BY <4>1, <4>2, MinOfSet, Zenon
      <4> HIDE DEF n
      <4>4. n <= Len(c.inbox)
        BY <4>3
      <4>5. \A j \in 1 .. Len(c.inbox) : j < n => c.inbox[j] = "cmd"
        BY <1>1, <4>3
      <4> HIDE DEF ends
      <4>6. \A i \in 1 .. n : \A j \in 1 .. i - 1 : j \in 1 .. Len(c.inbox) /\ j < n
        BY <1>1, <4>4
      <4>7. \A i \in 1 .. n : \A j \in 1 .. i - 1 : c.inbox[j] = "cmd"
        BY <4>5, <4>6, Zenon
      <4> QED BY <4>7
    <3> QED BY <3>1, <3>2, <3>3
  <2> HIDE DEF n
  <2>2. runs = {}
    BY <1>4, <2>1
  <2> QED BY <1>2, <1>4, <2>2, FS_EmptySet
<1> QED BY <1>3, <1>4

LEMMA ReadIInv == ASSUME IInv, NEW e \in batch, HandleRead(e) PROVE IInv'
<1> DEFINE c == conns[e.fd]
           r == OnReadable(c, stop)
           after == StopAfterRead(c, stop)
<1>1. e.fd \in Fds /\ e.kind = "read"
  BY DEF HandleRead, IInv
<1>2. c \in Connection /\ stop \in Stops /\ Counted(c, stop) /\ (stop = "no" => Armed(c))
  BY <1>1 DEF IInv, TypeOK, Stops
<1>3. /\ r.c \in Connection /\ r.freed \in BOOLEAN
      /\ after \in Stops /\ (after = "no" => stop = "no")
      /\ Counted(r.c, after) /\ (after = "no" => Armed(r.c))
  BY <1>2, ReadSound
<1>4. /\ conns' = [conns EXCEPT ![e.fd] = r.c] /\ stop' = after /\ Touch(r.freed)
      /\ batch' \subseteq batch /\ nextId' = nextId /\ backlog' = backlog /\ signal' = signal
      /\ phase = "batch"
  BY DEF HandleRead, Take
<1> HIDE DEF c, r, after
<1>5. /\ conns' \in [Fds -> Connection]
      /\ \A g \in Fds : Counted(conns'[g], stop') /\ (stop' = "no" => Armed(conns'[g]))
  BY <1>3, <1>4, UpdateSound
<1>6. touched' \in BOOLEAN /\ phase' \in {"batch", "crashed"}
  BY <1>3, <1>4 DEF Touch, IInv, TypeOK
<1>7. stop' \in {"no", "save", "nosave"}
  BY <1>3, <1>4 DEF Stops
<1>8. TypeOK'
  <2>1. late' \in Nat
    <3>1. late' = late + (IF Dispatches(conns[e.fd]) THEN LateRuns(conns[e.fd], stop) ELSE 0)
      BY DEF HandleRead
    <3>2. LateRuns(conns[e.fd], stop) \in Nat /\ late \in Nat
      BY <1>2, LateRunsBound DEF c, IInv, TypeOK
    <3> QED BY <3>1, <3>2
  <2> QED BY <1>4, <1>5, <1>6, <1>7, <2>1 DEF IInv, TypeOK, Connection
<1>9. \A d \in batch' : d.kind \in {"read", "write"} => d.fd \in Fds
  BY <1>4 DEF IInv
<1> QED BY <1>5, <1>6, <1>8, <1>9 DEF IInv, Counted, Armed

LEMMA WriteIInv == ASSUME IInv, NEW e \in batch, HandleWrite(e) PROVE IInv'
<1> DEFINE w == OnWritable(conns[e.fd])
<1>1. e.fd \in Fds /\ e.kind = "write"
  BY DEF HandleWrite, IInv
<1>2. stop \in Stops /\ conns[e.fd] \in Connection /\ Counted(conns[e.fd], stop)
  BY <1>1 DEF IInv, TypeOK, Stops
<1>3. w \in Connection /\ Counted(w, stop) /\ Armed(w)
  BY <1>2, WriteSound
<1>4. /\ conns' = [conns EXCEPT ![e.fd] = w] /\ batch' \subseteq batch
      /\ UNCHANGED <<nextId, backlog, signal, phase, stop, touched, late>>
  BY DEF HandleWrite, Take
<1> HIDE DEF w
<1>5. /\ conns' \in [Fds -> Connection]
      /\ \A g \in Fds : Counted(conns'[g], stop) /\ (stop = "no" => Armed(conns'[g]))
  BY <1>2, <1>3, <1>4, UpdateSound
<1>6. TypeOK'
  BY <1>4, <1>5 DEF IInv, TypeOK, Connection
<1> QED BY <1>4, <1>5, <1>6 DEF IInv, Counted, Armed

LEMMA StaleIInv == ASSUME IInv, NEW e \in batch, HandleStale(e) PROVE IInv'
<1>1. UNCHANGED <<conns, nextId, backlog, signal, stop, late>> /\ batch' \subseteq batch /\ phase = "batch"
  BY DEF HandleStale, Take
<1>2. touched' \in BOOLEAN /\ phase' \in {"batch", "crashed"}
  BY DEF HandleStale, Take, Touch
<1>3. TypeOK'
  BY <1>1, <1>2 DEF IInv, TypeOK, Connection
<1> QED BY <1>1, <1>2, <1>3 DEF IInv, Counted, Armed

LEMMA LoopIInv == ASSUME IInv, EndBatch \/ Exit PROVE IInv'
<1>1. CASE EndBatch
  BY <1>1 DEF EndBatch, IInv, TypeOK, Connection, Counted, Armed
<1>2. CASE Exit
  <2>1. conns' = [f \in Fds |-> Blank] /\ phase' = "stopped"
    BY <1>2 DEF Exit
  <2>2. conns' \in [Fds -> Connection] /\ \A f \in Fds : Counted(conns'[f], stop) /\ Armed(conns'[f])
    BY <2>1, BlankSound
  <2>3. UNCHANGED <<nextId, backlog, signal, batch, stop, touched, late>>
    BY <1>2 DEF Exit
  <2>4. TypeOK'
    BY <2>1, <2>2, <2>3 DEF IInv, TypeOK, Connection
  <2> QED BY <2>1, <2>2, <2>3, <2>4 DEF IInv, Counted, Armed
<1> QED BY <1>1, <1>2

LEMMA SocketIInv ==
  ASSUME IInv, NEW f \in Fds, NEW c \in Connection, Counted(c, stop), stop = "no" => Armed(c),
         OnSocket(f, c)
  PROVE  IInv'
<1>1. /\ conns' = [conns EXCEPT ![f] = c]
      /\ UNCHANGED <<nextId, backlog, signal, phase, batch, stop, touched, late>>
  BY DEF OnSocket
<1>2. stop \in Stops
  BY DEF IInv, TypeOK, Stops
<1>3. /\ conns' \in [Fds -> Connection]
      /\ \A g \in Fds : Counted(conns'[g], stop) /\ (stop = "no" => Armed(conns'[g]))
  BY <1>1, <1>2, UpdateSound
<1>4. TypeOK'
  BY <1>1, <1>3 DEF IInv, TypeOK, Connection
<1> QED BY <1>1, <1>3, <1>4 DEF IInv, Counted, Armed

LEMMA ClientIInv == ASSUME IInv, Client PROVE IInv'
<1>1. CASE Connect
  BY <1>1 DEF Connect, IInv, TypeOK, Connection, Counted, Armed
<1>2. CASE Interrupt
  BY <1>2 DEF Interrupt, IInv, TypeOK, Connection, Counted, Armed
<1>3. ASSUME NEW f \in Fds, NEW q \in Requests, Send(f, q) PROVE IInv'
  <2> DEFINE c == conns[f]
             d == [c EXCEPT !.inbox = Append(@, q), !.got = @ + 1]
  <2>1. c \in Connection /\ Counted(c, stop) /\ (stop = "no" => Armed(c))
    BY <1>3 DEF IInv, TypeOK
  <2>2. c.got < MaxRequests /\ OnSocket(f, d)
    BY <1>3 DEF Send
  <2>3. /\ c.inbox \in Seq(Requests) /\ c.got \in Nat /\ c.ran \in Nat
        /\ c.got + 1 \in 0 .. MaxRequests
    <3>1. c.inbox \in Seq(Requests) /\ c.got \in 0 .. MaxRequests /\ c.ran \in Nat
      BY <2>1 DEF Connection
    <3>2. c.got < MaxRequests
      BY <2>2
    <3> HIDE DEF c, d
    <3> QED BY <3>1, <3>2, ReactorAssumption
  <2>4. Append(c.inbox, q) \in Seq(Requests) /\ Len(Append(c.inbox, q)) = Len(c.inbox) + 1
    BY <1>3, <2>3
  <2>5. d \in Connection
    BY <2>1, <2>3, <2>4 DEF Connection
  <2>6. /\ d.inbox = Append(c.inbox, q) /\ d.got = c.got + 1 /\ d.ran = c.ran /\ d.quit = c.quit
        /\ d.filter = c.filter /\ d.want_write = c.want_write /\ d.out = c.out
        /\ d.unread = c.unread /\ d.taken = c.taken /\ d.answers = c.answers
    BY <2>1 DEF Connection
  <2>7. Len(c.inbox) \in Nat
    BY <2>3
  <2> HIDE DEF c, d
  <2>8. Counted(d, stop)
    BY <2>1, <2>3, <2>4, <2>6, <2>7 DEF Counted
  <2>9. stop = "no" => Armed(d)
    BY <2>1, <2>6 DEF Armed
  <2> QED BY <1>3, <2>2, <2>5, <2>8, <2>9, SocketIInv
<1>4. ASSUME NEW f \in Fds, Receive(f) PROVE IInv'
  <2> DEFINE c == conns[f]
             d == [c EXCEPT !.unread = @ - 1, !.taken = @ + 1]
  <2>1. c \in Connection /\ Counted(c, stop) /\ (stop = "no" => Armed(c))
    BY <1>4 DEF IInv, TypeOK
  <2>2. c.unread > 0 /\ OnSocket(f, d)
    BY <1>4 DEF Receive
  <2>3. c.unread \in Nat /\ c.unread - 1 \in 0 .. SockBuf /\ c.taken \in Nat /\ c.out \in Nat
    <3>1. c.unread \in 0 .. SockBuf /\ c.taken \in Nat /\ c.out \in Nat
      BY <2>1 DEF Connection
    <3>2. c.unread > 0
      BY <2>2
    <3> HIDE DEF c, d
    <3> QED BY <3>1, <3>2, ReactorAssumption
  <2>4. d \in Connection
    <3>1. c.taken + 1 \in Nat
      BY <2>3
    <3>2. d = [c EXCEPT !.unread = c.unread - 1, !.taken = c.taken + 1]
      BY <2>1 DEF Connection
    <3> QED BY <2>1, <2>3, <3>1, <3>2 DEF Connection
  <2>5. /\ d.inbox = c.inbox /\ d.got = c.got /\ d.ran = c.ran /\ d.quit = c.quit
        /\ d.filter = c.filter /\ d.want_write = c.want_write /\ d.out = c.out
        /\ d.unread = c.unread - 1 /\ d.taken = c.taken + 1 /\ d.answers = c.answers
    BY <2>1 DEF Connection
  <2> HIDE DEF c, d
  <2>6. Counted(d, stop) /\ (stop = "no" => Armed(d))
    BY <2>1, <2>3, <2>5 DEF Counted, Armed
  <2> QED BY <1>4, <2>2, <2>4, <2>6, SocketIInv
<1>5. ASSUME NEW f \in Fds, NEW how \in {"half", "gone"}, Leave(f, how) PROVE IInv'
  <2> DEFINE c == conns[f]
             d == [c EXCEPT !.peer = how]
  <2>1. c \in Connection /\ Counted(c, stop) /\ (stop = "no" => Armed(c)) /\ OnSocket(f, d)
    BY <1>5 DEF IInv, TypeOK, Leave
  <2>2. d \in Connection
    BY <1>5, <2>1 DEF Connection
  <2>3. Counted(d, stop) /\ (stop = "no" => Armed(d))
    BY <2>1 DEF Counted, Armed, Connection
  <2> QED BY <1>5, <2>1, <2>2, <2>3, SocketIInv
<1> QED BY <1>1, <1>2, <1>3, <1>4, <1>5 DEF Client

LEMMA NextIInv == IInv /\ [Next]_vars => IInv'
<1> SUFFICES ASSUME IInv, [Next]_vars PROVE IInv'
  OBVIOUS
<1>1. CASE Handle
  BY <1>1, SignalIInv, AcceptIInv, ReadIInv, WriteIInv, StaleIInv DEF Handle
<1>2. CASE UNCHANGED vars
  BY <1>2 DEF vars, IInv, TypeOK, Connection, Counted, Armed
<1> QED BY <1>1, <1>2, PollIInv, LoopIInv, ClientIInv DEF Next

-----------------------------------------------------------------------------
\* The state of the event loop stays well formed: socket buffers within their size,
\* counters natural, events of the batch those of kevent.
THEOREM ReactorTyped == Spec => []TypeOK
<1>1. IInv => TypeOK
  BY DEF IInv
<1> QED BY <1>1, InitIInv, NextIInv, PTL DEF Spec

\* Whenever the loop sleeps in kevent, the write filter of a connection is registered
\* exactly if replies are waiting for it, whatever was written short before.
THEOREM RepliesNotStranded == Spec => []NoStrandedReply
<1>1. IInv => NoStrandedReply
  BY DEF IInv, NoStrandedReply, Counted, Armed, Open
<1> QED BY <1>1, InitIInv, NextIInv, PTL DEF Spec

\* Every request is waiting or was dispatched once, and every reply is in out, in the
\* socket or with the client.
THEOREM RequestsNotLost == Spec => []NothingLost
<1>1. IInv => NothingLost
  BY DEF IInv, NothingLost, Counted, Open
<1> QED BY <1>1, InitIInv, NextIInv, PTL DEF Spec

-----------------------------------------------------------------------------
(* After the request to shut down.                                         *)

\* Each event still in the batch may run one late request, so the room that is left for
\* late requests shrinks with the batch.
SInv ==
    /\ IInv
    /\ IsFiniteSet(batch) /\ Cardinality(batch) <= MaxEvents
    /\ stop = "no" => late = 0
    /\ stop # "no" => late + Cardinality(batch) < MaxEvents

LEMMA ReadyFinite == IsFiniteSet(Ready)
<1> DEFINE R == {g \in Open : conns[g].inbox # <<>> \/ conns[g].peer # "open"}
           W == {g \in Open : /\ conns[g].filter
                              /\ \/ conns[g].unread < SockBuf
                                 \/ conns[g].peer = "gone"}
           Rs == {Event("read", f) : f \in R}
           Ws == {Event("write", f) : f \in W}
           A == IF backlog > 0 THEN {Accept} ELSE {}
           S == IF signal THEN {Signal} ELSE {}
<1>1. IsFiniteSet(R) /\ IsFiniteSet(W)
  <2>1. R \in SUBSET Fds /\ W \in SUBSET Fds
    BY DEF Open
  <2> HIDE DEF R, W
  <2> QED BY <2>1, ReactorAssumption, FS_Subset
<1>2. Ready = ((Rs \cup Ws) \cup A) \cup S
  BY DEF Ready
<1> HIDE DEF R, W
<1>3. IsFiniteSet(Rs)
  <2>1. [f \in R |-> Event("read", f)] \in Surjection(R, Rs)
    BY DEF Surjection
  <2> HIDE DEF Rs
  <2> QED BY <1>1, <2>1, FS_Surjection
<1>4. IsFiniteSet(Ws)
  <2>1. [f \in W |-> Event("write", f)] \in Surjection(W, Ws)
    BY DEF Surjection
  <2> HIDE DEF Ws
  <2> QED BY <1>1, <2>1, FS_Surjection
<1>5. IsFiniteSet(A) /\ IsFiniteSet(S)
  BY FS_EmptySet, FS_Singleton
<1> HIDE DEF Rs, Ws, A, S
<1>6. IsFiniteSet(Rs \cup Ws)
  BY <1>3, <1>4, FS_Union
<1>7. IsFiniteSet((Rs \cup Ws) \cup A)
  BY <1>5, <1>6, FS_Union
<1>8. IsFiniteSet(((Rs \cup Ws) \cup A) \cup S)
  BY <1>5, <1>7, FS_Union
<1> QED BY <1>2, <1>8

LEMMA PollSInv == ASSUME SInv, Poll PROVE SInv'
<1>1. IInv'
  BY PollIInv DEF SInv
<1>2. stop' = stop /\ late' = late /\ stop = "no"
  BY DEF Poll, SInv, IInv
<1>3. batch' \in SUBSET Ready /\ Cardinality(batch') = Min({Cardinality(Ready), MaxEvents})
  BY DEF Poll
<1>4. IsFiniteSet(batch') /\ Cardinality(Ready) \in Nat
  BY <1>3, ReadyFinite, FS_Subset, FS_CardinalityType
<1>5. Cardinality(batch') <= MaxEvents
  <2> DEFINE k == Cardinality(Ready)
  <2>1. k \in Int /\ MaxEvents \in Int
    BY <1>4, ReactorAssumption
  <2> HIDE DEF k
  <2>2. Min({k, MaxEvents}) <= MaxEvents
    BY <2>1, MinOfTwo
  <2> QED BY <1>3, <2>2 DEF k
<1> QED BY <1>1, <1>2, <1>4, <1>5 DEF SInv

LEMMA TakeShrinks ==
  ASSUME SInv, NEW e, Take(e)
  PROVE  /\ IsFiniteSet(batch') /\ Cardinality(batch) \in Nat
         /\ Cardinality(batch') = Cardinality(batch) - 1
<1>1. IsFiniteSet(batch) /\ e \in batch /\ batch' = batch \ {e}
  BY DEF SInv, Take
<1> QED BY <1>1, FS_RemoveElement, FS_CardinalityType

\* Handling an event that adds at most one late request, and none if it is the first to
\* see the shutdown.
LEMMA HandledSInv ==
  ASSUME SInv, IInv', NEW e, Take(e), NEW d \in {0, 1}, late' = late + d,
         stop = "no" => d = 0, stop' = "no" => stop = "no"
  PROVE  SInv'
<1> DEFINE k == Cardinality(batch)
<1>1. IsFiniteSet(batch') /\ k \in Nat /\ Cardinality(batch') = k - 1
  BY TakeShrinks
<1>2. late \in Nat /\ MaxEvents \in Nat
  BY ReactorAssumption DEF SInv, IInv, TypeOK
<1>3. k <= MaxEvents /\ (stop = "no" => late = 0) /\ (stop # "no" => late + k < MaxEvents)
  BY DEF SInv
<1> HIDE DEF k
<1>4. k - 1 <= MaxEvents /\ (stop' = "no" => late' = 0) /\ (stop' # "no" => late' + (k - 1) < MaxEvents)
  <2>1. k - 1 <= MaxEvents /\ k - 1 < MaxEvents
    BY <1>1, <1>2, <1>3
  <2>2. CASE stop = "no"
    BY <1>1, <1>2, <1>3, <2>1, <2>2
  <2>3. CASE stop # "no"
    BY <1>1, <1>2, <1>3, <2>1, <2>3
  <2> QED BY <2>2, <2>3
<1> QED BY <1>1, <1>4 DEF SInv

LEMMA HandleSInv == ASSUME SInv, Handle PROVE SInv'
<1>0. IInv' /\ late \in Nat
  BY SignalIInv, AcceptIInv, ReadIInv, WriteIInv, StaleIInv DEF SInv, Handle, IInv, TypeOK
<1>1. late + 0 = late
  BY <1>0
<1>2. ASSUME NEW e, Take(e), late' = late, stop' = "no" => stop = "no" PROVE SInv'
  BY <1>0, <1>1, <1>2, HandledSInv
<1>3. CASE HandleSignal
  BY <1>2, <1>3 DEF HandleSignal
<1>4. CASE OnAccept
  BY <1>2, <1>4 DEF OnAccept
<1>5. ASSUME NEW e \in batch, HandleRead(e) PROVE SInv'
  <2> DEFINE c == conns[e.fd]
             d == IF Dispatches(c) THEN LateRuns(c, stop) ELSE 0
  <2>1. e.fd \in Fds
    BY <1>5 DEF HandleRead, SInv, IInv
  <2>2. c \in Connection /\ stop \in Stops
    BY <2>1 DEF SInv, IInv, TypeOK, Stops
  <2>3. Take(e) /\ late' = late + d /\ stop' = StopAfterRead(c, stop)
    BY <1>5 DEF HandleRead
  <2>4. d \in {0, 1} /\ (stop = "no" => d = 0)
    BY <2>2, LateRunsBound
  <2>5. stop' = "no" => stop = "no"
    BY <2>2, <2>3, StopAfterStays DEF StopAfterRead
  <2> HIDE DEF c, d
  <2> QED BY <1>0, <2>3, <2>4, <2>5, HandledSInv
<1>6. ASSUME NEW e \in batch, HandleWrite(e) \/ HandleStale(e) PROVE SInv'
  BY <1>2, <1>6 DEF HandleWrite, HandleStale
<1> QED BY <1>3, <1>4, <1>5, <1>6 DEF Handle

LEMMA NextSInv == SInv /\ [Next]_vars => SInv'
<1> SUFFICES ASSUME SInv, [Next]_vars PROVE SInv'
  OBVIOUS
<1>1. IInv'
  BY NextIInv DEF SInv
<1>2. CASE UNCHANGED <<batch, stop, late>>
  BY <1>1, <1>2 DEF SInv
<1>3. Client => UNCHANGED <<batch, stop, late>>
  BY DEF Client, Connect, Send, Receive, Leave, Interrupt, OnSocket
<1> QED BY <1>2, <1>3, PollSInv, HandleSInv DEF Next, EndBatch, Exit, vars

\* From the request to shut down to the end of the loop the server dispatches fewer
\* requests than a batch has events, for any number of connections, pipelined requests
\* and batch sizes: no further batch is fetched, and each event left in this one runs at
\* most one.
THEOREM ServingStops == Spec => []StopsServing
<1>1. Init => SInv
  <2>1. Init => IsFiniteSet(batch) /\ Cardinality(batch) = 0 /\ stop = "no" /\ late = 0
    BY FS_EmptySet DEF Init
  <2> QED BY <2>1, InitIInv, ReactorAssumption DEF SInv
<1>2. SInv => StopsServing
  <2> SUFFICES ASSUME SInv PROVE late < MaxEvents
    BY DEF StopsServing
  <2>1. late \in Nat /\ MaxEvents \in Nat \ {0} /\ Cardinality(batch) \in Nat
    BY ReactorAssumption, FS_CardinalityType DEF SInv, IInv, TypeOK
  <2>2. CASE stop = "no"
    BY <2>1, <2>2 DEF SInv
  <2>3. CASE stop # "no"
    BY <2>1, <2>3 DEF SInv
  <2> QED BY <2>2, <2>3
<1> QED BY <1>1, <1>2, NextSInv, PTL DEF Spec
================================================================================
