------------------------------- MODULE Syslog -------------------------------
(***************************************************************************)
(* The syslog listeners of `serve` (crates/ulpf/src/syslog.rs): one UDP    *)
(* thread that batches datagrams per peer, a TCP acceptor, and one thread  *)
(* per TCP connection that frames a stream by octet counting or by the     *)
(* line rule of module Framer.                                             *)
(*                                                                         *)
(* A stream is the bytes a device will send; how many of them one read     *)
(* returns is the network's choice.  Handing a batch to the engine either  *)
(* succeeds or fails; what the engine then does is module Engine.          *)
(***************************************************************************)
EXTENDS Framer, FiniteSets

CONSTANTS
  Conns,       \* connections devices will make
  Streams,     \* what a device may send: records, see Stream
  Peers,       \* senders of datagrams
  MaxConns,    \* MAX_TCP_CONNECTIONS
  FlushEvents, \* FLUSH_EVENTS
  MaxDigits,   \* digits of an octet count that are looked at (10)
  MaxRead,     \* bound: bytes of one read
  MaxGrams,    \* bound: datagrams of one peer
  MaxFails     \* bound: flushes that fail

\* A stream: its bytes, and for a stream of octet-counted messages where each
\* payload lies.
Stream ==
  [bytes : Seq(STRING), octets : BOOLEAN, from : Seq(Nat), to : Seq(Nat)]

ASSUME SyslogAssumption ==
  /\ Streams \subseteq Stream /\ Conns \cap Peers = {}
  /\ {MaxConns, FlushEvents, MaxDigits, MaxRead} \subseteq Nat \ {0}
  /\ MaxGrams \in Nat /\ MaxFails \in Nat

VARIABLES
  stream,  \* stream[c]: what c's device sends
  at,      \* at[c]: how much of it has been read
  conn,    \* conn[c]: "none", "open", "closed", "done", "failed", "refused"
  mode,    \* octet_counting: "unknown", "octets", "lines"
  pending, \* bytes read and not yet framed
  pb,      \* PeerBuf of each connection and each peer: events to hand over
  tcp, udp,\* the acceptor's and the UDP thread's state
  grams,   \* grams[p]: the datagrams received from p
  stored,  \* stored[s]: the events of source s in the raw store, in id order
  stop,    \* Live::stop has been called
  fails

vars == <<stream, at, conn, mode, pending, pb, tcp, udp, grams, stored, stop,
          fails>>

Init ==
  /\ stream \in [Conns -> Streams]
  /\ at = [c \in Conns |-> 0] /\ conn = [c \in Conns |-> "none"]
  /\ mode = [c \in Conns |-> "unknown"] /\ pending = [c \in Conns |-> << >>]
  /\ pb = [s \in Conns \cup Peers |-> << >>]
  /\ tcp = "up" /\ udp = "up" /\ grams = [p \in Peers |-> 0]
  /\ stored = [s \in Conns \cup Peers |-> << >>]
  /\ stop = FALSE /\ fails = 0
-----------------------------------------------------------------------------
(* Octet counting.                                                         *)

Digit == [d \in {"0", "1", "2", "3"} |->
            CASE d = "0" -> 0 [] d = "1" -> 1 [] d = "2" -> 2 [] d = "3" -> 3]

IsNumber(s) == s # << >> /\ \A i \in DOMAIN s : s[i] \in DOMAIN Digit

\* str::parse::<usize> of a number.
Value(s) ==
  LET Upto[i \in 0 .. Len(s)] ==
        IF i = 0 THEN 0 ELSE 10 * Upto[i - 1] + Digit[s[i]]
  IN  Upto[Len(s)]

\* The bytes of the first n messages of a stream of counted messages.
After(s, n) == IF n = 0 THEN 0 ELSE s.to[n]

\* The digits in front of its i-th payload.
Count(s, i) == SubSeq(s.bytes, After(s, i - 1) + 1, s.from[i] - 2)

\* b is the beginning of a counted message and not all of it.
Unfinished(b) ==
  \/ \A i \in DOMAIN b : b[i] \in DOMAIN Digit
  \/ \E i \in 1 .. MaxDigits :
       /\ i < Len(b) /\ IsNumber(SubSeq(b, 1, i)) /\ b[i + 1] = " "
       /\ Len(b) < i + 1 + Value(SubSeq(b, 1, i))

\* Stream s is messages `count SP payload`, each payload where from and to say,
\* and then perhaps the beginning of one.
Labelled(s) ==
  /\ Len(s.from) = Len(s.to)
  /\ \A i \in DOMAIN s.to :
       /\ After(s, i - 1) + 2 < s.from[i]
       /\ s.from[i] <= After(s, i - 1) + 2 + MaxDigits
       /\ IsNumber(Count(s, i)) /\ s.bytes[s.from[i] - 1] = " "
       /\ s.to[i] = s.from[i] - 1 + Value(Count(s, i))
       /\ s.from[i] <= s.to[i] + 1 /\ s.to[i] <= Len(s.bytes)
  /\ Unfinished(SubSeq(s.bytes, After(s, Len(s.to)) + 1, Len(s.bytes)))

ASSUME StreamsAreLabelled == \A s \in Streams : s.octets => Labelled(s)

\* looks_octet_counted: `digits SP`, at most MaxDigits of them, no leading 0.
LooksOctetCounted(b) ==
  \E i \in 1 .. MaxDigits :
    /\ i < Len(b) /\ IsNumber(SubSeq(b, 1, i)) /\ b[1] # "0"
    /\ b[i + 1] = " "

\* take_octet_counted: the events of the complete frames in b, and how many
\* bytes were consumed.  A prefix that is no length falls back to the line
\* rule; without a space among the first MaxDigits + 1 bytes it waits.
TakeOctetCounted(b) ==
  LET From[pos \in 0 .. Len(b)] ==
        LET rest == SubSeq(b, pos + 1, Len(b))
            spaces == {i \in 1 .. MaxDigits + 1 :
                         i <= Len(rest) /\ rest[i] = " "}
            sp == Min(spaces)
            end == sp + Value(SubSeq(rest, 1, sp - 1))
            more == From[pos + end]
        IN  IF spaces = {} THEN [events |-> << >>, used |-> pos]
            ELSE IF ~IsNumber(SubSeq(rest, 1, sp - 1))
            THEN [events |-> Frames(rest, FALSE),
                  used |-> pos + Framed(rest, FALSE)]
            ELSE IF Len(rest) < end THEN [events |-> << >>, used |-> pos]
            ELSE [events |-> <<SubSeq(rest, sp + 1, end)>> \o more.events,
                  used |-> more.used]
  IN  From[0]

TakeLines(b) == [events |-> Frames(b, FALSE), used |-> Framed(b, FALSE)]
-----------------------------------------------------------------------------
(* Handing a buffer over.                                                  *)

\* due() is FALSE: too few events, and the first of them is younger than
\* FLUSH_AFTER.
Keep(s, events) ==
  /\ Len(events) < FlushEvents
  /\ pb' = [pb EXCEPT ![s] = events]
  /\ UNCHANGED <<stored, stop, fails>>

\* PeerBuf::flush.
Flush(s, events) ==
  /\ stored' = [stored EXCEPT ![s] = @ \o events]
  /\ pb' = [pb EXCEPT ![s] = << >>]
  /\ UNCHANGED <<stop, fails>>

\* PeerBuf::flush fails: in the store after some of the events, or in the
\* queue after all of them.
FlushFails(s, events) ==
  /\ events # << >> /\ fails < MaxFails
  /\ \E n \in 0 .. Len(events) :
       stored' = [stored EXCEPT ![s] = @ \o SubSeq(events, 1, n)]
  /\ pb' = [pb EXCEPT ![s] = << >>]
  /\ fails' = fails + 1
-----------------------------------------------------------------------------
(* TCP.                                                                    *)

Open == {c \in Conns : conn[c] \in {"open", "closed"}}

\* The acceptor: beyond the cap a connection is closed at once.
Accept(c) ==
  /\ tcp = "up" /\ ~stop /\ conn[c] = "none"
  /\ conn' = [conn EXCEPT ![c] = IF Cardinality(Open) >= MaxConns
                                 THEN "refused" ELSE "open"]
  /\ UNCHANGED <<stream, at, mode, pending, pb, tcp, udp, grams, stored, stop,
                 fails>>

\* One turn of tcp_connection's loop in which read returns n bytes.
Read(c, n) ==
  /\ conn[c] = "open" /\ ~stop
  /\ at[c] + n <= Len(stream[c].bytes)
  /\ LET b == pending[c] \o SubSeq(stream[c].bytes, at[c] + 1, at[c] + n)
         m == IF mode[c] # "unknown" THEN mode[c]
              ELSE IF LooksOctetCounted(b) THEN "octets" ELSE "lines"
         took == IF m = "octets" THEN TakeOctetCounted(b) ELSE TakeLines(b)
         events == pb[c] \o took.events
     IN  /\ at' = [at EXCEPT ![c] = @ + n]
         /\ mode' = [mode EXCEPT ![c] = m]
         /\ pending' = [pending EXCEPT ![c] = SubSeq(b, took.used + 1, Len(b))]
         /\ \/ (Keep(c, events) \/ Flush(c, events)) /\ UNCHANGED conn
            \/ /\ FlushFails(c, events)
               /\ stop' = TRUE /\ conn' = [conn EXCEPT ![c] = "failed"]
  /\ UNCHANGED <<stream, tcp, udp, grams>>

\* Mutant: a turn without bytes goes on to the next read at once.
TimeOutIdle(c) ==
  /\ conn[c] = "open" /\ ~stop /\ pb[c] # << >>
  /\ UNCHANGED vars

\* A turn in which read times out, which takes FLUSH_AFTER: what is buffered
\* is due.
TimeOut(c) ==
  /\ conn[c] = "open" /\ ~stop /\ pb[c] # << >>
  /\ \/ Flush(c, pb[c]) /\ UNCHANGED conn
     \/ /\ FlushFails(c, pb[c])
        /\ stop' = TRUE /\ conn' = [conn EXCEPT ![c] = "failed"]
  /\ UNCHANGED <<stream, at, mode, pending, tcp, udp, grams>>

\* A turn in which read finds the connection closed or reset.
Close(c) ==
  /\ conn[c] = "open" /\ ~stop
  /\ \/ /\ Keep(c, pb[c]) \/ Flush(c, pb[c])
        /\ conn' = [conn EXCEPT ![c] = "closed"]
     \/ /\ FlushFails(c, pb[c])
        /\ stop' = TRUE /\ conn' = [conn EXCEPT ![c] = "failed"]
  /\ UNCHANGED <<stream, at, mode, pending, tcp, udp, grams>>

\* What is left when the connection is over is final input.
Leftover(c) ==
  IF pending[c] = << >> THEN << >>
  ELSE IF mode[c] = "octets" THEN <<pending[c]>>
  ELSE Frames(pending[c], TRUE)

\* The end of tcp_connection, after a close or a stop.  This last flush does
\* not go through flush_or_stop.
Finish(c) ==
  /\ conn[c] = "closed" \/ (conn[c] = "open" /\ stop)
  /\ LET events == pb[c] \o Leftover(c) IN
     \/ Flush(c, events) /\ conn' = [conn EXCEPT ![c] = "done"]
     \/ /\ FlushFails(c, events) /\ UNCHANGED stop
        /\ conn' = [conn EXCEPT ![c] = "failed"]
  /\ pending' = [pending EXCEPT ![c] = << >>]
  /\ UNCHANGED <<stream, at, mode, tcp, udp, grams>>

\* The acceptor sees the stop and joins every connection's thread.
TcpExit ==
  /\ tcp = "up" /\ stop /\ Open = {}
  /\ tcp' = "done"
  /\ UNCHANGED <<stream, at, conn, mode, pending, pb, udp, grams, stored, stop,
                 fails>>
-----------------------------------------------------------------------------
(* UDP.                                                                    *)

Gram(p, n) == <<p, n>>

\* A turn of udp_listener with a datagram from p.
Receive(p) ==
  /\ udp = "up" /\ ~stop /\ grams[p] < MaxGrams
  /\ grams' = [grams EXCEPT ![p] = @ + 1]
  /\ LET events == Append(pb[p], Gram(p, grams[p] + 1)) IN
     \/ (Keep(p, events) \/ Flush(p, events)) /\ UNCHANGED udp
     \/ FlushFails(p, events) /\ stop' = TRUE /\ udp' = "failed"
  /\ UNCHANGED <<stream, at, conn, mode, pending, tcp>>

\* The sweep over all peers at the end of a turn, and after the loop.
Sweep(p) ==
  /\ udp = "up" /\ pb[p] # << >>
  /\ \/ Flush(p, pb[p]) /\ UNCHANGED udp
     \/ FlushFails(p, pb[p]) /\ stop' = TRUE /\ udp' = "failed"
  /\ UNCHANGED <<stream, at, conn, mode, pending, tcp, grams>>

\* Mutant: the thread ends without the last sweep.
UdpExitUnswept ==
  /\ udp = "up" /\ stop
  /\ udp' = "done"
  /\ UNCHANGED <<stream, at, conn, mode, pending, pb, tcp, grams, stored, stop,
                 fails>>

UdpExit ==
  /\ udp = "up" /\ stop /\ \A p \in Peers : pb[p] = << >>
  /\ udp' = "done"
  /\ UNCHANGED <<stream, at, conn, mode, pending, pb, tcp, grams, stored, stop,
                 fails>>

\* Live::stop from elsewhere.
Stop ==
  /\ ~stop /\ stop' = TRUE
  /\ UNCHANGED <<stream, at, conn, mode, pending, pb, tcp, udp, grams, stored,
                 fails>>

ConnStep(c) == TimeOut(c) \/ Finish(c)

UdpStep == UdpExit \/ \E p \in Peers : Sweep(p)

Next ==
  \/ Stop \/ TcpExit \/ UdpStep
  \/ \E p \in Peers : Receive(p)
  \/ \E c \in Conns :
       \/ Accept(c) \/ Close(c) \/ ConnStep(c)
       \/ \E n \in 1 .. MaxRead : Read(c, n)

Spec == Init /\ [][Next]_vars

\* The threads run: a read of a silent connection times out, the sweep and the
\* exits happen.  Nothing obliges a device to send, connect or close.
FairSpec ==
  /\ Spec /\ WF_vars(TcpExit) /\ WF_vars(UdpStep)
  /\ \A p \in Peers : WF_vars(Sweep(p))
  /\ \A c \in Conns : WF_vars(ConnStep(c))
-----------------------------------------------------------------------------
(* Properties.                                                             *)

\* The types of the listeners' state; a buffer that is full is handed over
\* in the same turn (PeerBuf::due).
TypeOK ==
  /\ stream \in [Conns -> Streams] /\ at \in [Conns -> Nat]
  /\ conn \in [Conns -> {"none", "open", "closed", "done", "failed", "refused"}]
  /\ mode \in [Conns -> {"unknown", "octets", "lines"}]
  /\ tcp \in {"up", "done"} /\ udp \in {"up", "done", "failed"}
  /\ grams \in [Peers -> 0 .. MaxGrams] /\ fails \in 0 .. MaxFails
  /\ stop \in BOOLEAN
  /\ \A s \in Conns \cup Peers : Len(pb[s]) < FlushEvents

BytesRead(c) == SubSeq(stream[c].bytes, 1, at[c])

\* What a connection framed by lines has stored when it is over is what the
\* framer makes of everything read from it, had it come in one piece: not a
\* byte is lost or added, and no event depends on where the reads fell
\* (take_lines, the leftover, Framer; "every event is appended byte for byte").
LinesFramedOnce ==
  \A c \in Conns :
    conn[c] = "done" /\ mode[c] = "lines" =>
      stored[c] = Frames(BytesRead(c), TRUE)

\* The payloads of the first n octet-counted messages, and what follows them.
Payloads(c, n) ==
  [i \in 1 .. n |-> SubSeq(stream[c].bytes, stream[c].from[i], stream[c].to[i])]

Complete(c) ==
  Cardinality({i \in DOMAIN stream[c].to : stream[c].to[i] <= at[c]})

\* A connection framed by octet counting has stored every message that was
\* read whole, and one event more with what was left of an incomplete one
\* (take_octet_counted, the leftover).
OctetsFramedOnce ==
  \A c \in Conns :
    conn[c] = "done" /\ mode[c] = "octets" /\ stream[c].octets =>
      LET n == Complete(c)
          rest == SubSeq(BytesRead(c), After(stream[c], n) + 1, at[c])
      IN  stored[c] =
            Payloads(c, n) \o (IF rest = << >> THEN << >> ELSE <<rest>>)

\* Every datagram received is stored once, in order, when the UDP thread is
\* done, however the peers' batches interleaved (udp_listener).
DatagramsStoredOnce ==
  udp = "done" =>
    \A p \in Peers : stored[p] = [i \in 1 .. grams[p] |-> Gram(p, i)]

\* Never more connection threads than the cap (tcp_listener).
ConnectionsCapped == Cardinality(Open) <= MaxConns

\* An event that was framed reaches the store without another byte from its
\* device (FLUSH_AFTER: PeerBuf::due, the read timeout).
BufferedIsStored ==
  \A s \in Conns \cup Peers : (pb[s] # << >>) ~> (pb[s] = << >>)

\* After a stop both listeners end (tcp_listener's joins, udp_listener).
ListenersEnd == stop ~> (tcp = "done" /\ udp # "up")

\* The types, the datagrams and the cap on connections (udp_listener,
\* tcp_listener).
ListenersSound == TypeOK /\ DatagramsStoredOnce /\ ConnectionsCapped

\* What a connection stores depends on the bytes its device sent and not on
\* how they were cut into reads, whichever way it is framed (tcp_connection).
StreamsFramedOnce == LinesFramedOnce /\ OctetsFramedOnce

\* Events do not stay in a buffer, and listeners do not outlive a stop
\* (PeerBuf::due, tcp_listener, udp_listener).
ListenersLive == BufferedIsStored /\ ListenersEnd
=============================================================================
