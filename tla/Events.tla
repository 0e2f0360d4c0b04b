------------------------------- MODULE Events -------------------------------
(***************************************************************************)
(* One event through Pipeline::process (ulpf/src/pipeline.rs): a worker    *)
(* takes the events of a batch one by one through detection, the parser,   *)
(* its subs, its timestamp candidates and the normalizer, with one Parsed  *)
(* for the batch and one hint for the thread.  The clock of receipt runs   *)
(* by days; the registry is swapped between two batches.                   *)
(***************************************************************************)
EXTENDS Calendar, Parser, Normalize

CONSTANTS Registries,   \* the sequence of registries a reload may load
          Messages,     \* name -> [marks, header, body, whole]
          Timed,        \* the messages that differ by when they were sent
          Stamps,       \* text -> how a device writes its time there
          Starts,       \* pairs of a civil date and its day since 1970
          Span,         \* how many days the clock runs
          Dates, Hours, \* when events are received: <<month, day>> and hour
          Lags          \* hours from sending to receipt; negative: clock ahead

VARIABLES start, day, date, \* the receipt clock: a day count, a civil date
          reg, hint,        \* the worker's registry and its hint, 0 for none
          stage, ev,        \* the event in hand: [msg, receipt, sent]
          first,            \* it is the first event of its batch
          idx, parsed, ok,  \* its parser, the Parsed, the strategy's answer
          k, groups, tried, \* subs done, their states, what each one did
          c,                \* timestamp candidates read
          out               \* the emitted line

vars == <<start, day, date, reg, hint, stage, ev, first, idx, parsed, ok, k,
          groups, tried, c, out>>

clock == <<start, day, date>>

Registry == Registries[reg]
Owner == Registry[idx]
Message == Messages[ev.msg]

NoEvent == [msg |-> "none", receipt |-> 0, sent |-> 0]

Cleared == [fields |-> <<>>, at |-> Never, policies |-> {}, text |-> <<>>,
            err |-> "none", sub |-> "not_applicable"]

NoLine == [msg |-> "none", parser |-> 0]

Init ==
    /\ start \in Starts
    /\ date = start[1] /\ day = start[2]
    /\ reg = 1 /\ hint = 0
    /\ stage = "idle" /\ ev = NoEvent /\ first = TRUE
    /\ idx = 0 /\ parsed = Cleared /\ ok = FALSE
    /\ k = 0 /\ groups = <<>> /\ tried = <<>> /\ c = 0
    /\ out = NoLine

----------------------------------------------------------------------------
(* The world: days pass, devices send *)

NextDate(d) ==
    IF d.day < DaysInMonth(d.year, d.month) THEN [d EXCEPT !.day = @ + 1]
    ELSE IF d.month < 12 THEN [d EXCEPT !.month = @ + 1, !.day = 1]
    ELSE [year |-> d.year + 1, month |-> 1, day |-> 1]

Tick ==
    /\ stage = "idle" /\ day < start[2] + Span
    /\ day' = day + 1 /\ date' = NextDate(date)
    /\ UNCHANGED <<start, reg, hint, stage, ev, first, idx, parsed, ok, k,
                   groups, tried, c, out>>

\* The next event of the batch.  What is the same whenever it was sent is
\* received at one hour of one date only.
Receive(m, h, lag) ==
    /\ stage = "idle" \/ (stage = "done" /\ first /\ m \notin Timed)
    /\ <<date.month, date.day>> \in Dates
    /\ m \notin Timed => /\ date.month = 1 /\ date.day = 1
                         /\ h = 0 /\ lag = 0
    /\ day * 24 + h - lag >= 0
    /\ ev' = [msg |-> m, receipt |-> day * 24 + h,
              sent |-> day * 24 + h - lag]
    /\ first' = (stage = "idle")
    /\ stage' = "detect"
    /\ UNCHANGED <<clock, reg, hint, idx, parsed, ok, k, groups, tried, c,
                   out>>

\* What the device wrote where it is, and how it is taken apart.  A stamp of
\* the thirty-first of February is one no calendar has.
PartsAt(s, sent, d, yday, h) ==
    [epoch |-> IF s.epoch THEN sent ELSE Never,
     month |-> IF s.bad THEN 2 ELSE d.month,
     day   |-> IF s.bad THEN 31 ELSE d.day,
     yday  |-> IF s.yday THEN yday ELSE 0,
     hour  |-> IF ~s.twelve THEN h ELSE IF h % 12 = 0 THEN 12 ELSE h % 12,
     pm    |-> IF ~s.twelve THEN "none" ELSE IF h < 12 THEN "am" ELSE "pm",
     year  |-> IF s.dated THEN d.year ELSE 0,
     zone  |-> s.zone]

PartsOf(s, sent) ==
    LET local == sent + OffsetOf(s.zone)
    IN PartsAt(s, sent, CivilFromDays(local \div 24),
               local \div 24 - DaysFromCivil(YearOf(local), 1, 1) + 1,
               local % 24)

----------------------------------------------------------------------------
(* Reading one stamp: ulpf_time::parse *)

Unread(reason) == [err |-> reason, at |-> Never, policies |-> {}]

Answer(r) ==
    IF r.at = Never THEN Unread("out_of_range")
    ELSE [err |-> "none", at |-> r.at, policies |-> r.policies]

ReadStamp(format, text, sent, receipt) ==
    IF text = <<"">> THEN Unread("empty")
    ELSE IF text \notin DOMAIN Stamps THEN Unread("no_match")
    ELSE IF format \notin {"auto", Stamps[text].format}
    THEN Unread("no_match")
    ELSE Answer(Resolve(PartsOf(Stamps[text], sent), receipt))

----------------------------------------------------------------------------
(* process *)

\* Trailing line ends do not count.
RawMessage(m) == <<[key |-> <<"raw_message">>, value |-> Messages[m].whole]>>

DetectEvent ==
    /\ stage = "detect"
    /\ idx' = Detect(Registry, Message.marks, hint)
    /\ IF idx' = 0
       THEN /\ parsed' = [Cleared EXCEPT !.fields = RawMessage(ev.msg)]
            /\ stage' = "normalize" /\ UNCHANGED hint
       ELSE /\ hint' = idx' /\ stage' = "parse" /\ UNCHANGED parsed
    /\ UNCHANGED <<clock, reg, ev, first, ok, k, groups, tried, c, out>>

\* A mutant: only the fields of the event before are cleared.
ParseEventStale ==
    /\ stage = "parse"
    /\ LET y == Apply(Owner.strategy, TextFor(Owner, Message))
       IN /\ parsed' = [parsed EXCEPT
                          !.fields = Stripped(Owner, Message) \o y.fields]
          /\ ok' = y.ok
          /\ stage' = IF y.ok /\ Owner.subs # <<>> THEN "subs" ELSE "stamp"
    /\ k' = 0 /\ groups' = [j \in DOMAIN Owner.subs |-> 0] /\ tried' = <<>>
    /\ c' = 0
    /\ UNCHANGED <<clock, reg, hint, ev, first, idx, out>>

ParseEvent ==
    /\ stage = "parse"
    /\ LET y == Apply(Owner.strategy, TextFor(Owner, Message))
       IN /\ parsed' = [Cleared EXCEPT
                          !.fields = Stripped(Owner, Message) \o y.fields]
          /\ ok' = y.ok
          /\ stage' = IF y.ok /\ Owner.subs # <<>> THEN "subs" ELSE "stamp"
    /\ k' = 0 /\ groups' = [j \in DOMAIN Owner.subs |-> 0] /\ tried' = <<>>
    /\ c' = 0
    /\ UNCHANGED <<clock, reg, hint, ev, first, idx, out>>

\* What the sub does, for the record: `tried` is no part of the program.
DidOf(sub, fields) ==
    IF ~Has(fields, sub.field) THEN "absent"
    ELSE IF ~Gated(sub, fields) THEN "not_gated"
    ELSE IF Apply(sub.strategy, Get(fields, sub.field)).ok THEN "matched"
    ELSE "failed"

TrySub ==
    /\ stage = "subs" /\ k < Len(Owner.subs)
    /\ LET r == RunSub(Owner, k + 1, parsed.fields, groups)
       IN /\ parsed' = [parsed EXCEPT !.fields = r.fields]
          /\ groups' = r.state
    /\ tried' = Append(tried, DidOf(Owner.subs[k + 1], parsed.fields))
    /\ k' = k + 1
    /\ UNCHANGED <<clock, reg, hint, stage, ev, first, idx, ok, c, out>>

SubsDone ==
    /\ stage = "subs" /\ k = Len(Owner.subs)
    /\ parsed' = [parsed EXCEPT !.sub = SubStatus(groups)]
    /\ stage' = "stamp"
    /\ UNCHANGED <<clock, reg, hint, ev, first, idx, ok, k, groups, tried, c,
                   out>>

\* The error is kept aside until no candidate is left; the first stamp that
\* can be read ends the search.
Noted(p, cand, r) ==
    [p EXCEPT !.at = r.at, !.policies = r.policies,
              !.text = IF r.err = "none" THEN cand.text ELSE <<>>,
              !.err = r.err]

ReadCandidate ==
    /\ stage = "stamp" /\ c < Len(Candidates(Owner, parsed.fields))
    /\ LET cand == Candidates(Owner, parsed.fields)[c + 1]
       IN parsed' = Noted(parsed, cand, ReadStamp(cand.format, cand.text,
                                                  ev.sent, ev.receipt))
    /\ stage' = IF parsed'.err = "none" THEN "normalize" ELSE "stamp"
    /\ c' = c + 1
    /\ UNCHANGED <<clock, reg, hint, ev, first, idx, ok, k, groups, tried,
                   out>>

NoMoreCandidates ==
    /\ stage = "stamp" /\ c = Len(Candidates(Owner, parsed.fields))
    /\ stage' = "normalize"
    /\ UNCHANGED <<clock, reg, hint, ev, first, idx, parsed, ok, k, groups,
                   tried, c, out>>

\* The time of a line without a stamp is that of its receipt.
Line(e, i, answer, p) ==
    [msg |-> e.msg, parser |-> i,
     status |-> IF i = 0 THEN "no_parser"
                ELSE IF answer THEN "parsed" ELSE "parse_failed",
     sub |-> p.sub,
     time |-> IF p.at = Never THEN e.receipt ELSE p.at,
     policies |-> IF p.at = Never THEN {"receipt_fallback"} ELSE p.policies,
     original |-> p.text, error |-> p.err,
     line |-> Normalized(p.fields)]

NormalizeEvent ==
    /\ stage = "normalize"
    /\ out' = Line(ev, idx, ok, parsed)
    /\ stage' = "done"
    /\ UNCHANGED <<clock, reg, hint, ev, first, idx, parsed, ok, k, groups,
                   tried, c>>

\* Parsed goes with the batch, the hint stays with the worker.
EndBatch ==
    /\ stage = "done"
    /\ stage' = "idle" /\ ev' = NoEvent /\ first' = TRUE
    /\ idx' = 0 /\ parsed' = Cleared /\ ok' = FALSE
    /\ k' = 0 /\ groups' = <<>> /\ tried' = <<>> /\ c' = 0
    /\ out' = NoLine
    /\ UNCHANGED <<clock, reg, hint>>

\* The worker finds another pipeline when it takes its next batch.
Reload ==
    /\ stage = "idle"
    /\ reg' \in DOMAIN Registries \ {reg}
    /\ hint' = 0
    /\ UNCHANGED <<clock, stage, ev, first, idx, parsed, ok, k, groups,
                   tried, c, out>>

Next ==
    \/ Tick
    \/ \E m \in DOMAIN Messages, h \in Hours, lag \in Lags :
         Receive(m, h, lag)
    \/ DetectEvent \/ ParseEvent \/ TrySub \/ SubsDone
    \/ ReadCandidate \/ NoMoreCandidates \/ NormalizeEvent
    \/ EndBatch \/ Reload

Spec == Init /\ [][Next]_vars

----------------------------------------------------------------------------
(* The traceback: the same event again, from nothing and with no hint *)

RECURSIVE RunSubs(_, _, _)
RunSubs(p, j, acc) ==
    IF j > Len(p.subs) THEN acc
    ELSE RunSubs(p, j + 1, RunSub(p, j, acc.fields, acc.state))

\* Candidate after candidate until one could be read.
RECURSIVE ReadFrom(_, _, _, _)
ReadFrom(cands, j, p, e) ==
    IF j > Len(cands) \/ (j > 1 /\ p.err = "none") THEN p
    ELSE ReadFrom(cands, j + 1,
                  Noted(p, cands[j], ReadStamp(cands[j].format, cands[j].text,
                                               e.sent, e.receipt)), e)

SubsFrom(p, fields, answer) ==
    IF answer THEN RunSubs(p, 1, [fields |-> fields,
                                  state |-> [j \in DOMAIN p.subs |-> 0]])
    ELSE [fields |-> fields, state |-> <<>>]

StampFrom(p, subs, e) ==
    ReadFrom(Candidates(p, subs.fields), 1,
             [Cleared EXCEPT !.fields = subs.fields,
                             !.sub = SubStatus(subs.state)], e)

TracedBy(e, i, p, y) ==
    Line(e, i, y.ok,
         StampFrom(p, SubsFrom(p, Stripped(p, Messages[e.msg]) \o y.fields,
                               y.ok), e))

Traced(e) ==
    LET i == Detect(Registry, Messages[e.msg].marks, 0)
        p == Registry[i]
    IN IF i = 0
       THEN Line(e, 0, TRUE, [Cleared EXCEPT !.fields = RawMessage(e.msg)])
       ELSE TracedBy(e, i, p,
                     Apply(p.strategy, TextFor(p, Messages[e.msg])))

----------------------------------------------------------------------------
(* Properties *)

\* The hint is an index into the registry the worker holds (engine.rs: "the
\* hint is an index into the old registry and is dropped with it").
TypeOK ==
    /\ day \in start[2]..(start[2] + Span)
    /\ reg \in DOMAIN Registries /\ hint \in 0..Len(Registry)
    /\ stage \in {"idle", "detect", "parse", "subs", "stamp", "normalize",
                  "done"}
    /\ idx \in 0..Len(Registry)
    /\ ok \in BOOLEAN /\ first \in BOOLEAN
    /\ k = Len(tried) /\ c \in 0..4

\* Counting days is counting dates: days_from_civil and civil_from_days are
\* each other's inverse and agree with the calendar, day after day, over
\* leap years, the century that is one and the century that is not.
CalendarIsExact ==
    /\ DaysFromCivil(date.year, date.month, date.day) = day
    /\ CivilFromDays(day) = date

Tie(marks) ==
    Cardinality(Highest(Registry, Matching(Registry, marks))) > 1

\* The line a traceback shows for an event (Live::traceback: no hint, a new
\* Parsed) is the line the worker emitted in the middle of a batch, whatever
\* it had just parsed, unless two parsers of one priority both match.
TracebackAgrees ==
    stage = "done" /\ ~Tie(Message.marks) => out = Traced(ev)

GroupDid(g) == {tried[j] : j \in {j \in DOMAIN tried : GroupOf(Owner, j) = g}}

\* sub_status says what the doc of SubStatus says: no_match when a gate let a
\* sub at a field and none could read it, else uncovered when a field with
\* subs is there and no sub was gated for it, else matched; and a strategy
\* that failed ran no sub.
SubsAreHonest ==
    stage = "done" /\ idx # 0 =>
      LET did == {GroupDid(g) : g \in {GroupOf(Owner, j) :
                                         j \in DOMAIN tried}}
      IN IF ~ok THEN out.sub = "not_applicable"
         ELSE IF \E d \in did : "failed" \in d /\ "matched" \notin d
         THEN out.sub = "no_match"
         ELSE IF \E d \in did : "not_gated" \in d
                                /\ d \cap {"failed", "matched"} = {}
         THEN out.sub = "uncovered"
         ELSE IF \E d \in did : "matched" \in d
         THEN out.sub = "matched" ELSE out.sub = "not_applicable"

\* time_error means "device time present, unreadable" (resolve_timestamp): it
\* never stands beside a resolved time, it is there whenever a candidate was
\* and none could be read, and a line without either has the receipt's time.
TimeErrorMeansUnreadable ==
    stage = "done" /\ idx # 0 =>
      LET cands == Candidates(Owner, parsed.fields)
          readable == {j \in DOMAIN cands :
                         ReadStamp(cands[j].format, cands[j].text, ev.sent,
                                   ev.receipt).err = "none"}
      IN /\ (out.error # "none") <=> (cands # <<>> /\ readable = {})
         /\ (out.original = <<>>) <=> (readable = {})
         /\ "receipt_fallback" \in out.policies <=> readable = {}
         /\ readable = {} => out.time = ev.receipt

\* A stamp resolves to the very hour the device sent it, whatever it leaves
\* out, in whichever zone, in twelve hours or twenty-four, by month or by day
\* of the year.  One without a year does so as long as the device is not yet
\* in the next year, at most a week ahead, and less than 358 days behind.
StampIsWhenSent ==
    stage = "done" /\ out.original # <<>> =>
      LET s     == Stamps[out.original]
          off   == OffsetOf(s.zone)
          near  == /\ YearOf(ev.sent + off) <= YearOf(ev.receipt + off)
                   /\ ev.sent <= ev.receipt + RolloverSlack
                   /\ ev.receipt - ev.sent < 358 * 24
      IN s.dated \/ s.epoch \/ near => out.time = ev.sent

Kept(u, key) == u = key \/ (Len(u) = Len(key) + 1
                            /\ SubSeq(u, 1, Len(key)) = key)

\* What a value becomes at schema field x.
Canonical(x, key, v) ==
    IF Schema[x].enum = 0 THEN Plain(x, v)
    ELSE Lookup(Mapping.enums[Schema[x].enum], key, v).name

\* Nothing is dropped: each value a parser found and the mapping does not
\* call absent is at a path of the schema, or under `unmapped` by its name or
\* a numbered one, as many times as it was found.
NothingDropped ==
    stage = "done" =>
      \A i \in DOMAIN parsed.fields :
        LET f    == parsed.fields[i]
            same == {j \in DOMAIN parsed.fields : parsed.fields[j] = f}
            at   == {x \in DOMAIN Schema :
                       /\ \E r \in DOMAIN Schema[x].names :
                            Schema[x].names[r] = f.key
                       /\ Schema[x].path \in DOMAIN out.line.root
                       /\ out.line.root[Schema[x].path]
                            = Canonical(x, f.key, f.value)}
            left == {u \in DOMAIN out.line.unmapped :
                       Kept(u, f.key) /\ out.line.unmapped[u] = f.value}
        IN Absent(f.value)
           \/ Cardinality(same) <= Cardinality(at) + Cardinality(left)

\* Provenance and the emitted line cannot disagree (Mapping::choose): each
\* entry shows the value at its path, and every path a field of the event
\* set has one.
ProvenanceAgrees ==
    stage = "done" =>
      LET prov == ProvenanceOf(parsed.fields)
          fed  == {x \in DOMAIN Schema :
                     /\ WinnerOf(parsed.fields, x) # 0
                     /\ Schema[x].path \in DOMAIN out.line.root}
      IN /\ {e.path : e \in prov} = {Schema[x].path : x \in fed}
         /\ \A e \in prov : out.line.root[e.path] = e.value

\* The types, and the statuses on a line say what happened (compile.rs).
EventsSound == TypeOK /\ SubsAreHonest /\ TimeErrorMeansUnreadable

\* The calendar is exact and a stamp resolves to when it was sent
\* (ulpf-time/src/lib.rs).
TimesAreExact == CalendarIsExact /\ StampIsWhenSent

\* No field is dropped, and provenance says where each went (mapping.rs).
FieldsAreKept == NothingDropped /\ ProvenanceAgrees
=============================================================================
