----------------------------- MODULE MCRespParser -----------------------------
(* Small sets of requests for RespParser. *)
EXTENDS RespParser

CrLf == <<"CR", "LF">>

Request(bytes, argv, wait) == [bytes |-> bytes, argv |-> argv, flaw |-> 0, wait |-> wait]
Multi(argv) == Request(AppendBulkArray(argv), argv, 3)
Inline(line, eol, argv) == Request(line \o eol, argv, Len(line) + Len(eol) - 1)
Flawed(bytes) == [bytes |-> bytes, argv |-> <<>>, flaw |-> Len(bytes), wait |-> 0]

One == <<"*", "1">> \o CrLf

\* Arguments that are empty or hold bytes of the protocol, headers that end in LF only,
\* a header and a line that are too long to wait for, a request just below the limit of
\* the buffer and one just above it.
Proper ==
    {Multi(<< <<"a">> >>), Multi(<< <<>>, CrLf >>), Multi(<< <<"*">>, <<"$", "1">> >>), Multi(<<>>),
     Request(<<"*", "1", "LF", "$", "1", "LF", "a">> \o CrLf, << <<"a">> >>, 2),
     Request(One \o <<"$", "0", "0", "1">> \o CrLf \o <<"a">> \o CrLf, << <<"a">> >>, 5),
     Inline(<<"SP", "a", "SP", "SP", "b">>, CrLf, << <<"a">>, <<"b">> >>),
     Inline(<<"$", "1">>, <<"LF">>, << <<"$", "1">> >>),
     Inline(<<"a", "CR">>, CrLf, << <<"a", "CR">> >>),
     Inline(<<"SP">>, <<"LF">>, <<>>),
     Inline(<<"a", "a", "a", "a", "a", "a">>, CrLf, << <<"a", "a", "a", "a", "a", "a">> >>)}

\* Each is refused from its last byte on, "*-1" too.
Improper ==
    {Flawed(<<"*", "a">> \o CrLf), Flawed(<<"*", "-", "1">> \o CrLf), Flawed(<<"*", "LF">>),
     Flawed(<<"*", "3">> \o CrLf), Flawed(One \o <<"*">>), Flawed(One \o <<"$", "-", "1">> \o CrLf),
     Flawed(One \o <<"$", "a">> \o CrLf), Flawed(One \o <<"$", "2", "2">> \o CrLf),
     Flawed(One \o <<"$", "1">> \o CrLf \o <<"a", "CR", "a">>),
     Flawed(One \o <<"$", "1">> \o CrLf \o <<"a", "a", "LF">>)}

MCStreams ==
    {<<r>> : r \in Improper} \cup {<<q, r, s>> : q, r \in Proper, s \in Proper \cup Improper}
=============================================================================
