------------------------------ MODULE MCInfer ------------------------------
EXTENDS Infer

Sp == [kind |-> "space", text |-> " "]
W(x) == [kind |-> "word", text |-> x]
I(x) == [kind |-> "int", text |-> x]
P(x) == [kind |-> "punct", text |-> x]
Ip(x) == [kind |-> "ipv4", text |-> x]

\* Lines of one device: logins with one of three outcomes and one without; a
\* message with none, one or two arguments; two interfaces; a line that is too
\* long, the header of a file of two columns and an empty line.
Shapes ==
    << <<W("login"), Sp, W("ok"), Sp, I("1")>>,
       <<W("up"), Sp, I("2"), Sp, Ip("a")>>,
       <<W("login"), Sp, W("bad"), Sp, I("2")>>,
       <<W("up"), Sp, I("2")>>,
       <<W("login"), Sp, W("x1"), P(":"), W("up")>>,
       <<W("x1")>>,
       <<W("x2")>>,
       <<W("login"), Sp, W("up"), Sp, I("1")>>,
       <<W("up")>>,
       <<W("login"), Sp, W("ok"), Sp, W("disk"), Sp, W("full")>>,
       <<P("#"), W("fields"), Sp, W("a"), Sp, W("b")>>,
       <<>> >>

N == Len(Shapes)

\* Six lines of up to four shapes; two of the shapes come back, so that a
\* keyword splits, a column is optional and a cluster has support.
MCInputs == {<<Shapes[q[1]], Shapes[q[2]], Shapes[q[3]], Shapes[q[1]],
               Shapes[q[2]], Shapes[q[4]]>> :
               q \in {p \in (1..N) \X (1..N) \X (1..N) \X (1..N) :
                        p[1] <= p[2]}}

Const(t) == [t |-> "const", tok |-> t]
Slotted(k) == [t |-> "slot", kind |-> k, col |-> 5]

MCNoPrior == [kind |-> "absent", sig |-> {}, patterns |-> <<>>]

\* A pattern parser for logins that succeed, and a parser of another strategy
\* that still parses nearly everything its signature misses.
MCPriors ==
    {MCNoPrior,
     [kind |-> "pattern", sig |-> {[all |-> <<<<W("login")>>, <<W("ok")>>>>,
                                  columns |-> 0]},
      patterns |-> <<<<Const(W("login")), Const(Sp), Const(W("ok")),
                       Const(Sp), Slotted("int")>>>>],
     [kind |-> "kv", sig |-> {Text(<<W("ok")>>)},
      patterns |-> <<<<Slotted("word"), Const(Sp), Slotted("rest")>>>>]}

MCPlain == {"login", "ok", "bad", "up", "disk", "full"}
=============================================================================
