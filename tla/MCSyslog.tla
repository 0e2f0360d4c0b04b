------------------------------ MODULE MCSyslog ------------------------------
(* Syslog for TLC: streams of both framings.                               *)
EXTENDS Syslog

\* Two lines, the first with a continuation, and an unfinished third.
LineStream ==
  [bytes |-> <<"a", "\n", " ", "b", "\n", "a">>, octets |-> FALSE,
   from |-> << >>, to |-> << >>]

\* The messages "a" and "b LF", then a count without its message.
OctetStream ==
  [bytes |-> <<"1", " ", "a", "2", " ", "b", "\n", "3">>, octets |-> TRUE,
   from |-> <<3, 6>>, to |-> <<3, 7>>]

\* One message, then text.
MixedStream ==
  [bytes |-> <<"1", " ", "a", "b", " ", "\n", "a">>, octets |-> FALSE,
   from |-> << >>, to |-> << >>]

MCStreams == {LineStream, OctetStream, MixedStream}
=============================================================================
