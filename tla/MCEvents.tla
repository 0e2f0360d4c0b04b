------------------------------ MODULE MCEvents ------------------------------
(* Four parsers in two registries, a dozen messages, eight ways to stamp.  *)
EXTENDS Events

K(a) == <<a>>
F(a, v) == [key |-> <<a>>, value |-> v]

Yes(fields) == [ok |-> TRUE, fields |-> fields]
No == [ok |-> FALSE, fields |-> <<>>]

\* What the strategies read.  `tail` splits the rest of a line, `pair` reads
\* it only when it is a pair, `six` only an address of version 6.
MCYields ==
    [kv |->
       [full   |-> Yes(<<F("act", "deny"), F("ver", "4"), F("rest", "p1"),
                         F("user", "u1"), F("user", "u2"), F("uid", "0x10"),
                         F("user", "u1"),
                         [key |-> <<"user", 2>>, value |-> "u3"],
                         F("user", "u2")>>),
        failed |-> Yes(<<F("ver", "4"), F("rest", "junk"), F("act", "odd")>>),
        six    |-> Yes(<<F("ver", "6"), F("rest", "p6"), F("user", "-")>>),
        other  |-> Yes(<<F("ver", "9"), F("rest", "p1"), F("level", "deny"),
                         F("name", "u1"), F("user", "u1")>>),
        plain  |-> Yes(<<F("act", "warn"), F("name", "u2")>>),
        timed  |-> Yes(<<F("t", "s1"), F("d", "s2"), F("h", "s3")>>),
        blank  |-> No],
     pair |-> [p1 |-> Yes(<<F("src", "a1"), F("more", "m1")>>),
               p6 |-> No, junk |-> No, m1 |-> No, m6 |-> No],
     six  |-> [p6 |-> Yes(<<F("src", "a6"), F("more", "m6")>>),
               p1 |-> No, junk |-> No, m1 |-> No, m6 |-> No],
     more |-> [m1 |-> Yes(<<F("code", "7")>>), m6 |-> No,
               p1 |-> No, p6 |-> No, junk |-> No]]

Sub(f, w, s, cs) == [field |-> K(f), when |-> w, strategy |-> s,
                     constants |-> cs]
Gate(f, vs) == [key |-> K(f), values |-> vs]

\* The tail is read by version; what the tail leaves is read in its turn.
Subs == <<Sub("rest", {Gate("ver", {"4"})}, "pair", <<F("kind", "v4")>>),
          Sub("rest", {Gate("ver", {"6"})}, "six", <<>>),
          Sub("more", {}, "more", <<>>)>>

Stamp(f, fs) == [format |-> f, fields |-> [i \in DOMAIN fs |-> K(fs[i])]]

P(pri, sig, env, subs, ts) ==
    [priority |-> pri, sig |-> sig, syslog |-> env, strategy |-> "kv",
     subs |-> subs, timestamps |-> ts]

Firewall == P(50, {"fw"}, TRUE, Subs, <<Stamp("syslog", <<"t">>)>>)
Proxy    == P(50, {"px"}, FALSE, <<>>, <<>>)
Stamped  == P(30, {"st"}, TRUE, <<>>,
              <<Stamp("ctime", <<"t">>), Stamp("auto", <<"d", "h">>)>>)
Learned  == P(10, {"any"}, FALSE, Subs, <<>>)

MCRegistries == <<<<Firewall, Learned, Proxy, Stamped>>,
                  <<Learned, Stamped>>>>

Msg(marks, text) == [marks |-> marks \cup {"any"}, whole |-> text,
                     body |-> text, header |-> <<>>]
Headed(marks, text, v) ==
    [marks |-> marks \cup {"any"}, whole |-> "blank", body |-> text,
     header |-> <<F("syslog_timestamp", v), F("host", "h1")>>]

MCTimed == {"s0", "s1", "s2", "s3", "s4", "s5", "s6"}

MCMessages ==
    [full |-> Msg({"fw"}, "full"), failed |-> Msg({"fw"}, "failed"),
     six |-> Msg({"fw"}, "six"), other |-> Msg({"fw"}, "other"),
     plain |-> Msg({"px"}, "plain"), both |-> Msg({"fw", "px"}, "plain"),
     learned |-> Msg({}, "full"), none |-> [Msg({}, "plain") EXCEPT
                                              !.marks = {"zz"}],
     blank |-> Headed({"fw"}, "blank", "bad"),
     headed |-> Headed({"fw"}, "six", ""),
     joined |-> Headed({"st"}, "timed", "s0"),
     late |-> Headed({"st"}, "plain", "junk")]
    @@ [s \in MCTimed |-> Headed({"st"}, "plain", s)]

NoZone == [t |-> "none", offset |-> 0, name |-> ""]
At(o)  == [t |-> "offset", offset |-> o, name |-> ""]
In(n)  == [t |-> "name", offset |-> 0, name |-> n]

Way(f, z, dated) ==
    [format |-> f, zone |-> z, dated |-> dated, yday |-> FALSE,
     twelve |-> FALSE, epoch |-> FALSE, bad |-> FALSE]

MCStamps ==
    <<"s0">> :> Way("syslog", NoZone, FALSE) @@
    <<"s1">> :> Way("syslog", At(-11), FALSE) @@
    <<"s2">> :> [Way("ctime", At(9), FALSE) EXCEPT !.twelve = TRUE] @@
    <<"s3">> :> [Way("auto", In("CST"), FALSE) EXCEPT !.yday = TRUE] @@
    <<"s4">> :> Way("rfc3339", At(9), TRUE) @@
    <<"s5">> :> [Way("auto", In("XYZ"), TRUE) EXCEPT !.yday = TRUE,
                                                     !.twelve = TRUE] @@
    <<"s6">> :> [Way("epoch", NoZone, FALSE) EXCEPT !.epoch = TRUE] @@
    <<"bad">> :> [Way("syslog", NoZone, FALSE) EXCEPT !.bad = TRUE] @@
    <<"s2", "s3">> :> Way("auto", NoZone, FALSE)

MCZones == [UTC |-> [offset |-> 0, ambiguous |-> FALSE],
            CST |-> [offset |-> -6, ambiguous |-> TRUE]]

D(y, m, d) == [year |-> y, month |-> m, day |-> d]
MCStarts == {<<D(1970, 1, 1), 0>>, <<D(1999, 12, 20), 10945>>,
             <<D(2023, 12, 20), 19711>>, <<D(2099, 12, 20), 47470>>}
MCDates == {<<12, 24>>, <<12, 31>>, <<1, 1>>, <<1, 7>>, <<2, 28>>, <<2, 29>>,
            <<3, 1>>}
MCLags == {-169, -168, -20, 0, 13, 1440, 8591, 8592, 8760}

V(n, i) == [name |-> n, id |-> i]
Enum(id, unknown, other, raw, by) ==
    [id |-> id, unknown |-> unknown, other |-> other, raw |-> raw,
     rawBy |-> by]
Fld(p, names, int, enum) ==
    [path |-> p, names |-> [i \in DOMAIN names |-> K(names[i])], int |-> int,
     enum |-> enum]
Class(uid, when, cs) == [uid |-> uid, when |-> when, constants |-> cs]

\* `level` may say deny and mean another thing than `act` does.
MCMapping ==
    [fields |-> <<Fld("actor", <<"user", "name">>, FALSE, 0),
                  Fld("uid", <<"uid">>, TRUE, 0),
                  Fld("action", <<"act">>, FALSE, 1),
                  Fld("severity", <<"level">>, FALSE, 2),
                  Fld("src", <<"src", "host">>, FALSE, 0)>>,
     absent |-> {"-", ""},
     enums |-> <<Enum("action_id", V("unknown", 0), V("other", 99),
                      [deny |-> V("denied", 2)], <<>>),
                 Enum("severity_id", Nil, Nil,
                      [deny |-> V("high", 4)],
                      (<<K("level"), "deny">> :> V("low", 1)))>>,
     ints |-> ("0x10" :> "16"),
     classes |-> <<Class(4001, {{[key |-> K("src"), values |-> {"*"}]}},
                         ("category" :> "network"))>>,
     default |-> Class(0, {}, <<>>)]
=============================================================================
