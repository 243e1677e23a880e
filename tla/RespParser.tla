------------------------------ MODULE RespParser ------------------------------
(***************************************************************************)
(* class RequestParser (resp.cpp) and the read loop of OnReadable that     *)
(* feeds it (server.cpp).  A client has sent a sequence of requests, whose *)
(* bytes arrive in portions of any size; read takes up to ReadSize of      *)
(* them.                                                                   *)
(*                                                                         *)
(* A byte is one of the strings "*", "$", "-", "CR", "LF", "SP" (space or  *)
(* tab), a digit, or a letter.  A position i of this model is i - 1 in the *)
(* code.                                                                   *)
(***************************************************************************)
EXTENDS Integers, Sequences, SequencesExt

CONSTANTS
    kMaxInlineBytes, kMaxBulkBytes, kMaxMultiBulkElements,
    kMaxHeader,      \* 32, the longest header without its end
    ReadSize,        \* the buffer of OnReadable
    Streams          \* the sequences of requests that the client may send

ASSUME RespParserAssumption ==
    /\ {kMaxInlineBytes, kMaxBulkBytes, kMaxMultiBulkElements, kMaxHeader, ReadSize} \subseteq Nat \ {0}
    /\ ReadSize <= kMaxBulkBytes

Digit == [d \in {"0", "1", "2", "3", "4", "5", "6", "7", "8", "9"} |->
             CHOOSE n \in 0 .. 9 : ToString(n) = d]

\* What a parse of the front of the buffer gives: rc, and the arguments and the
\* position behind them, or the error.
Incomplete == [rc |-> 0]
Refuse(why) == [rc |-> -1, err |-> why]
Parsed(argv, next) == [rc |-> 1, argv |-> argv, next |-> next]

\* Mutant of Line: a line ends at CR LF only.
LineCrLf(b, from) ==
    LET lfs == {i \in from + 1 .. Len(b) : b[i] = "LF" /\ b[i - 1] = "CR"}
    IN  IF lfs = {} THEN [text |-> <<>>, next |-> 0]
        ELSE [text |-> SubSeq(b, from, Min(lfs) - 2), next |-> Min(lfs) + 1]

\* PeekLine, and the same scan for a bulk length: the line that starts at from, without
\* its LF or CR LF, and the position behind it, or 0 if no LF has come.
Line(b, from) ==
    LET lfs == {i \in from .. Len(b) : b[i] = "LF"}
        lf == Min(lfs)
        crlf == lf > from /\ b[lf - 1] = "CR"
    IN  IF lfs = {} THEN [text |-> <<>>, next |-> 0]
        ELSE [text |-> SubSeq(b, from, IF crlf THEN lf - 2 ELSE lf - 1), next |-> lf + 1]

\* std::stoll of digits only.  A number that does not fit is above every limit.
Value(text) == FoldLeft(LAMBDA n, d : 10 * n + Digit[d], 0, text)

Tokens(text) ==
    LET Step(acc, c) == IF c # "SP" THEN [acc EXCEPT !.word = Append(@, c)]
                        ELSE IF acc.word = <<>> THEN acc
                        ELSE [words |-> Append(acc.words, acc.word), word |-> <<>>]
    IN  FoldLeft(Step, [words |-> <<>>, word |-> <<>>], Append(text, "SP")).words

TryParseInline(b) ==
    LET line == Line(b, 1)
    IN  IF line.next # 0 THEN Parsed(Tokens(line.text), line.next)
        ELSE IF Len(b) > kMaxInlineBytes THEN Refuse("inline") ELSE Incomplete

\* The number behind the first byte of a header line.  Only digits will do, so "*-1" is
\* refused here and the test count <= 0 behind it (resp.cpp:124) never sees it.
NumberIn(line, max) ==
    LET digits == Tail(line.text)
    IN  digits # <<>> /\ ToSet(digits) \subseteq DOMAIN Digit /\ Value(digits) <= max

\* Mutant of PayloadEnds: the two bytes are skipped unseen.
PayloadEndsAny(b, tail) == TRUE

PayloadEnds(b, tail) == b[tail] = "CR" /\ b[tail + 1] = "LF"

\* One turn of the loop over the bulks: the argument at pos and the position behind it.
BulkAt(b, pos) ==
    LET line == Line(b, pos)
        tail == line.next + Value(Tail(line.text))
    IN  IF pos > Len(b) THEN Incomplete
        ELSE IF b[pos] # "$" THEN Refuse("dollar")
        ELSE IF line.next = 0 THEN IF Len(b) - pos + 1 > kMaxHeader THEN Refuse("bulk") ELSE Incomplete
        ELSE IF ~NumberIn(line, kMaxBulkBytes) THEN Refuse("bulk")
        ELSE IF Len(b) < tail + 1 THEN Incomplete
        ELSE IF ~PayloadEnds(b, tail) THEN Refuse("crlf")
        ELSE Parsed(SubSeq(b, line.next, tail - 1), tail + 2)

\* k more bulks from position pos on, behind the arguments argv.
RECURSIVE Bulks(_, _, _, _)
Bulks(b, pos, k, argv) ==
    IF k = 0 THEN Parsed(argv, pos)
    ELSE LET bulk == BulkAt(b, pos)
         IN  IF bulk.rc # 1 THEN bulk ELSE Bulks(b, bulk.next, k - 1, Append(argv, bulk.argv))

TryParseMultiBulk(b) ==
    LET line == Line(b, 1)
    IN  IF line.next = 0 THEN IF Len(b) > kMaxHeader THEN Refuse("multibulk") ELSE Incomplete
        ELSE IF ~NumberIn(line, kMaxMultiBulkElements) THEN Refuse("multibulk")
        ELSE Bulks(b, line.next, Value(Tail(line.text)), <<>>)

TryParseOne(b) ==
    IF b = <<>> THEN Incomplete ELSE IF b[1] = "*" THEN TryParseMultiBulk(b) ELSE TryParseInline(b)

\* Commands as long as there are complete ones; what is left stays in the buffer.
RECURSIVE ParseBuffered(_)
ParseBuffered(b) ==
    LET one == TryParseOne(b)
        more == ParseBuffered(SubSeq(b, one.next, Len(b)))
    IN  CASE one.rc = 1  -> [more EXCEPT !.cmds = <<one.argv>> \o @]
          [] one.rc = 0  -> [cmds |-> <<>>, buf |-> b, err |-> "none"]
          [] one.rc = -1 -> [cmds |-> <<>>, buf |-> b, err |-> one.err]

\* Mutant of Feed: the limit counts the byte that just fits.
FeedTight(b, data) ==
    LET whole == b \o data
    IN  IF Len(whole) >= kMaxBulkBytes THEN [cmds |-> <<>>, buf |-> whole, err |-> "buffer"]
        ELSE ParseBuffered(whole)

\* Feed on a parser without an error; OnReadable never feeds one with an error.
Feed(b, data) ==
    LET whole == b \o data
    IN  IF Len(whole) > kMaxBulkBytes THEN [cmds |-> <<>>, buf |-> whole, err |-> "buffer"]
        ELSE ParseBuffered(whole)

-----------------------------------------------------------------------------
(* The encoders of arrays of strings, which have the form of a request.    *)

RECURSIVE Numeral(_)
Numeral(n) == IF n < 10 THEN <<ToString(n)>> ELSE Append(Numeral(n \div 10), ToString(n % 10))

AppendBulkReply(s) == <<"$">> \o Numeral(Len(s)) \o <<"CR", "LF">> \o s \o <<"CR", "LF">>
AppendArrayReply(n) == <<"*">> \o Numeral(n) \o <<"CR", "LF">>
AppendBulkArray(items) ==
    FoldLeft(LAMBDA out, s : out \o AppendBulkReply(s), AppendArrayReply(Len(items)), items)

-----------------------------------------------------------------------------
(* A request is [bytes, argv, flaw, wait].  flaw is 0 when it is well formed  *)
(* and otherwise the number of its bytes that show that it is not.  wait is   *)
(* the length of its longest line that the parser has to wait for.            *)

VARIABLES
    reqs,      \* what the client sends
    taken,     \* the number of bytes that were read
    buf,       \* buf_
    parsed,    \* parsed_cmds, and after the end those that were dropped
    ran,       \* history: the commands that were dispatched
    reading,   \* OnReadable is in its loop, after a read that filled its buffer
    end        \* "none", or the parser's error, "eof" or "reset" once it is closed

vars == <<reqs, taken, buf, parsed, ran, reading, end>>

Wire == FlattenSeq([i \in DOMAIN reqs |-> reqs[i].bytes])

\* The dispatch loop skips empty commands.
NonEmpty(cmds) == SelectSeq(cmds, LAMBDA argv : argv # <<>>)

Init ==
    /\ reqs \in Streams
    /\ taken = 0 /\ buf = <<>> /\ parsed = <<>> /\ ran = <<>>
    /\ reading = FALSE /\ end = "none"

\* read returns n bytes.  An error closes the connection and drops what was parsed in
\* this call of OnReadable; a short read ends the loop, and the commands run.
Read(n) ==
    LET fed == Feed(buf, SubSeq(Wire, taken + 1, taken + n))
        cmds == parsed \o fed.cmds
        runs == fed.err = "none" /\ n < ReadSize
    IN  /\ end = "none" /\ taken + n <= Len(Wire)
        /\ taken' = taken + n
        /\ buf' = fed.buf
        /\ end' = fed.err
        /\ reading' = (fed.err = "none" /\ n = ReadSize)
        /\ ran' = IF runs THEN ran \o NonEmpty(cmds) ELSE ran
        /\ parsed' = IF runs THEN <<>> ELSE cmds
        /\ UNCHANGED reqs

\* Mutant of Drained: the commands wait for the next event.
DrainedLazy ==
    /\ end = "none" /\ reading
    /\ reading' = FALSE
    /\ UNCHANGED <<reqs, taken, buf, parsed, ran, end>>

\* read finds nothing (EAGAIN).
Drained ==
    /\ end = "none" /\ reading
    /\ reading' = FALSE
    /\ ran' = ran \o NonEmpty(parsed)
    /\ parsed' = <<>>
    /\ UNCHANGED <<reqs, taken, buf, end>>

\* read reports the end of the stream or fails; what was parsed in this call is dropped.
Close(why) ==
    /\ end = "none"
    /\ why = "eof" => taken = Len(Wire)
    /\ end' = why
    /\ reading' = FALSE
    /\ UNCHANGED <<reqs, taken, buf, parsed, ran>>

Next == (\E n \in 1 .. ReadSize : Read(n)) \/ Drained \/ \E why \in {"eof", "reset"} : Close(why)

\* The loop of OnReadable goes on until read has nothing more to give.
Spec == Init /\ [][Next]_vars /\ WF_vars(Drained)

-----------------------------------------------------------------------------
\* Where request i starts, and the requests that lie within the first n bytes.
Start(i) == Len(FlattenSeq([j \in 1 .. i - 1 |-> reqs[j].bytes]))
Complete(n) == {i \in DOMAIN reqs : /\ Start(i) + Len(reqs[i].bytes) <= n
                                    /\ \A j \in 1 .. i : reqs[j].flaw = 0}
Whole(n) == LET k == Cardinality(Complete(n)) IN NonEmpty([i \in 1 .. k |-> reqs[i].argv])

\* However the bytes are cut into reads, the commands that were run or are about to run
\* are the requests that have arrived whole, each once, in order and with the arguments
\* that the client sent, and the buffer holds the part of the next one.  Only the limit
\* on the buffer gives up requests that are in it.
RequestsExact ==
    LET got == ran \o NonEmpty(parsed)
        k == Cardinality(Complete(taken))
    IN  IF end = "buffer" THEN IsPrefix(got, Whole(taken))
        ELSE got = Whole(taken) /\ buf = SubSeq(Wire, Start(k + 1) + 1, taken)

\* A request that is not well formed is refused as soon as its bytes show it.
FlawsCaught ==
    end \in {"none", "eof", "reset"} =>
       \A i \in DOMAIN reqs : reqs[i].flaw # 0 => taken < Start(i) + reqs[i].flaw

\* A request that keeps to the limits, however it is cut: no line too long to wait for,
\* and room for a whole read besides the part that has arrived.
Modest(r) ==
    /\ r.flaw = 0
    /\ r.wait <= IF r.bytes[1] = "*" THEN kMaxHeader ELSE kMaxInlineBytes
    /\ Len(r.bytes) - 1 + ReadSize <= kMaxBulkBytes

\* No connection is closed for a protocol error unless a request that is not well formed
\* or that exceeds the limits has begun to arrive.  A count of -1 is not well formed
\* here: the comment at resp.cpp:125 calls "*-1" an empty command to be dropped like
\* "*0", and the check for digits (107-111) refuses it, so that the connection is closed.
NoFalseAlarm ==
    end \notin {"none", "eof", "reset"} =>
       \E i \in DOMAIN reqs : ~Modest(reqs[i]) /\ Start(i) < taken

\* A command that was parsed is run, unless the connection is closed first.
ParsedRuns == (parsed # <<>>) ~> (parsed = <<>> \/ end # "none")
=============================================================================
