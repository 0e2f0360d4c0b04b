------------------------------- MODULE Tailer -------------------------------
(***************************************************************************)
(* The file tailer of `serve` (poll_loop and ingest_file in                *)
(* crates/ulpf/src/engine.rs): each tick looks at every watched file once, *)
(* by its size alone, and ingests a file that has stopped growing, or that *)
(* never stops.  What a restart has already taken of a file is read off    *)
(* the raw store, per source name.                                         *)
(*                                                                         *)
(* A file is a prefix of one of its Texts: devices append to it, and an    *)
(* operator may truncate it and begin the next text.  Framing is module    *)
(* Framer; what happens to a stored batch is module Engine.                *)
(***************************************************************************)
EXTENDS Framer, FiniteSetsExt

CONSTANTS
  Files,
  Texts,       \* Texts[f]: the successive contents of f, sequences of bytes
  SourceName,  \* SourceName[f]: f's name, see source_name
  BatchEvents, \* batch_events
  StableTicks, \* ticks without growth before the rest is final (2)
  GrowTicks,   \* ticks of growth before a file is streamed (4)
  MaxAppend,   \* bound: bytes of one append
  MaxLives,    \* bound: starts of the process
  MaxFails     \* bound: opens that fail

ASSUME TailerAssumption ==
  /\ Texts \in [Files -> Seq(Seq(STRING))]
  /\ \A f \in Files : Texts[f] # << >>
  /\ DOMAIN SourceName = Files
  /\ {BatchEvents, StableTicks, GrowTicks} \subseteq Nat \ {0}
  /\ {MaxAppend, MaxLives, MaxFails} \subseteq Nat

VARIABLES
  text, size,  \* text[f], size[f]: f is the first size[f] bytes of a text
  up,          \* the process runs
  resume,      \* what poll_loop read off the store when it began
  entry,       \* entry[f]: what it knows of f, or NoEntry
  todo,        \* the files this tick has not looked at
  job,         \* the ingest_file call under way, or NoJob
  stored,      \* stored[f]: the events of f in the raw store, in id order
  lives, fails,
  spoiled      \* history: files that were truncated, or could not be opened

vars == <<text, size, up, resume, entry, todo, job, stored, lives, fails,
          spoiled>>

NoEntry == [consumed |-> 0, last |-> 0, stable |-> 0, growing |-> 0,
            seen |-> FALSE]

NoJob == [file |-> "none", at |-> "none", seen |-> 0, final |-> FALSE,
          left |-> << >>]

Content(f) == SubSeq(Texts[f][text[f]], 1, size[f])

Init ==
  /\ text = [f \in Files |-> 1] /\ size = [f \in Files |-> 0]
  /\ up = FALSE /\ resume = [f \in Files |-> 0]
  /\ entry = [f \in Files |-> NoEntry] /\ todo = {} /\ job = NoJob
  /\ stored = [f \in Files |-> << >>] /\ lives = 0 /\ fails = 0
  /\ spoiled = {}
-----------------------------------------------------------------------------
(* The world.                                                              *)

\* A device writes; a line may arrive in pieces.
Write(f, n) ==
  /\ size[f] + n <= Len(Texts[f][text[f]])
  /\ size' = [size EXCEPT ![f] = @ + n]
  /\ UNCHANGED <<text, up, resume, entry, todo, job, stored, lives, fails,
                 spoiled>>

\* The file is emptied and begun again (copytruncate).  A file that is mapped
\* at that moment is left out: the process would be killed by the fault.
Truncate(f) ==
  /\ text[f] < Len(Texts[f]) /\ job.file # f
  /\ text' = [text EXCEPT ![f] = @ + 1] /\ size' = [size EXCEPT ![f] = 0]
  /\ spoiled' = spoiled \cup {f}
  /\ UNCHANGED <<up, resume, entry, todo, job, stored, lives, fails>>

\* A stop, between two batches, or a kill: either way the store keeps what it
\* was given and everything else is forgotten.
Down ==
  /\ up /\ up' = FALSE /\ job' = NoJob /\ todo' = {}
  /\ entry' = [f \in Files |-> NoEntry]
  /\ UNCHANGED <<text, size, resume, stored, lives, fails, spoiled>>
-----------------------------------------------------------------------------
(* poll_loop.                                                              *)

Bytes(events) == Len(FlattenSeq(events))

\* RawStore::ingested_bytes: per source name, summed over the records.
IngestedBytes(f) ==
  MapThenSumSet(LAMBDA g : Bytes(stored[g]),
                {g \in Files : SourceName[g] = SourceName[f]})

Start ==
  /\ ~up /\ lives < MaxLives
  /\ up' = TRUE /\ lives' = lives + 1
  /\ resume' = [f \in Files |-> IngestedBytes(f)]
  /\ UNCHANGED <<text, size, entry, todo, job, stored, fails, spoiled>>

Tick ==
  /\ up /\ todo = {} /\ job = NoJob
  /\ todo' = Files
  /\ UNCHANGED <<text, size, up, resume, entry, job, stored, lives, fails,
                 spoiled>>

\* The entry of a file of s bytes: made when it is first seen, taken back to
\* the start when the file shrank.
Entry(f, s) ==
  LET e == IF entry[f].seen THEN entry[f]
           ELSE [NoEntry EXCEPT !.consumed = resume[f], !.last = s,
                                !.seen = TRUE]
  IN  IF s < e.consumed THEN [e EXCEPT !.consumed = 0] ELSE e

\* Mutant: a file that waits for its second quiet tick loses count.
TickedNever(e, s) ==
  IF s = e.consumed
  THEN [e EXCEPT !.stable = 0, !.growing = 0, !.last = s]
  ELSE [e EXCEPT !.stable = 0, !.growing = IF s = e.last THEN @ ELSE @ + 1,
                 !.last = s]

\* The tick counters of an entry when the file has s bytes.
Ticked(e, s) ==
  IF s = e.consumed
  THEN [e EXCEPT !.stable = 0, !.growing = 0, !.last = s]
  ELSE IF s = e.last THEN [e EXCEPT !.stable = @ + 1]
  ELSE [e EXCEPT !.stable = 0, !.growing = @ + 1, !.last = s]

\* Turn of the loop over the paths: stat one file.
Look(f) ==
  /\ up /\ job = NoJob /\ f \in todo
  /\ todo' = todo \ {f}
  /\ LET e == Ticked(Entry(f, size[f]), size[f])
         final == e.stable >= StableTicks
     IN  /\ entry' = [entry EXCEPT ![f] = e]
         /\ job' = IF e.consumed # size[f] /\ (final \/ e.growing >= GrowTicks)
                   THEN [NoJob EXCEPT !.file = f, !.at = "open",
                                      !.seen = size[f], !.final = final]
                   ELSE NoJob
  /\ UNCHANGED <<text, size, up, resume, stored, lives, fails, spoiled>>
-----------------------------------------------------------------------------
(* ingest_file.                                                            *)

\* Where reading begins: never behind the file's end as it is at the open.
StartOffset(f) == Min({entry[f].consumed, size[f]})

\* Mutant: the last event of a file that still grows is taken as it stands.
FramedFinal(f) ==
  Frames(SubSeq(Content(f), StartOffset(f) + 1, size[f]), TRUE)

\* The events between the offset and the end, as long as the file is now: it
\* may have grown since it was looked at.
FramedFrom(f) ==
  Frames(SubSeq(Content(f), StartOffset(f) + 1, size[f]), job.final)

Opening == job.at = "open"

\* The file is opened and mapped.
Open ==
  LET f == job.file IN
  /\ Opening
  /\ entry' = [entry EXCEPT ![f].consumed = StartOffset(f)]
  /\ job' = [job EXCEPT !.at = "store", !.left = FramedFrom(f)]
  /\ UNCHANGED <<text, size, up, resume, todo, stored, lives, fails, spoiled>>

\* It cannot be: the offset becomes the size the tick saw.
OpenFails ==
  LET f == job.file IN
  /\ Opening /\ fails < MaxFails
  /\ fails' = fails + 1 /\ spoiled' = spoiled \cup {f}
  /\ entry' = [entry EXCEPT ![f].consumed = job.seen]
  /\ job' = NoJob
  /\ UNCHANGED <<text, size, up, resume, todo, stored, lives>>

\* One batch is appended and flushed under the store's lock and sent.
StoreBatch ==
  LET f == job.file
      n == Min({BatchEvents, Len(job.left)})
      batch == SubSeq(job.left, 1, n)
  IN  /\ job.at = "store" /\ job.left # << >>
      /\ stored' = [stored EXCEPT ![f] = @ \o batch]
      /\ entry' = [entry EXCEPT ![f].consumed = @ + Bytes(batch)]
      /\ job' = [job EXCEPT !.left = SubSeq(@, n + 1, Len(@))]
      /\ UNCHANGED <<text, size, up, resume, todo, lives, fails, spoiled>>

\* It returns the new offset.
Ingested ==
  LET f == job.file IN
  /\ job.at = "store" /\ job.left = << >>
  /\ entry' = [entry EXCEPT ![f] = IF job.final
                 THEN [@ EXCEPT !.stable = 0, !.growing = 0] ELSE @]
  /\ job' = NoJob
  /\ UNCHANGED <<text, size, up, resume, todo, stored, lives, fails, spoiled>>

PollStep == Tick \/ (\E f \in Files : Look(f)) \/ Open \/ StoreBatch \/ Ingested

Next ==
  \/ PollStep \/ OpenFails \/ Start \/ Down
  \/ \E f \in Files : Truncate(f) \/ \E n \in 1 .. MaxAppend : Write(f, n)

Spec == Init /\ [][Next]_vars

\* The poll thread runs while the process does; nobody has to write, or to
\* start the process again.
FairSpec == Spec /\ WF_vars(PollStep)
-----------------------------------------------------------------------------
(* Properties.                                                             *)

\* The types of the tailer's state; an offset is within the file, as it was
\* when it was last looked at.
TypeOK ==
  /\ \A f \in Files : text[f] \in DOMAIN Texts[f]
                      /\ size[f] \in 0 .. Len(Texts[f][text[f]])
  /\ up \in BOOLEAN /\ todo \subseteq Files /\ spoiled \subseteq Files
  /\ job.file \in Files \cup {"none"}
  /\ \A f \in Files \ spoiled :
       /\ entry[f].consumed <= size[f]
       /\ entry[f].stable <= StableTicks

\* A file that was only appended to, and could always be opened, is in the
\* store byte for byte once, from its start: after any stops and kills between
\* batches, however it grew while it was read (store.rs, "a source's records
\* concatenate to the exact prefix of its input already consumed").
TailedOnce ==
  \A f \in Files \ spoiled : IsPrefix(FlattenSeq(stored[f]), Content(f))

\* The offset of such a file is what the store holds of it, so that the
\* restart after a stop at any batch boundary continues behind it.
OffsetIsStored ==
  \A f \in Files \ spoiled :
    entry[f].seen /\ ~(job.file = f /\ Opening) =>
      entry[f].consumed = Bytes(stored[f])

\* While a file is streamed no event is cut: a job that is not final leaves an
\* event the next byte may still belong to ("without it the last line is
\* withheld until more bytes arrive").
StreamCutsNothing ==
  job.at = "store" /\ ~job.final /\ job.left # << >> =>
    LET f == job.file
        end == Bytes(stored[f]) + Bytes(job.left)
    IN  f \notin spoiled =>
          end < size[f] /\ ~IsContinuation(Content(f)[end + 1])

\* What is written is stored, the unfinished last line included, once the
\* device is silent and the process stays up (the stable ticks).
SilentIsStored ==
  \A f \in Files :
    <>[](up /\ f \notin spoiled) => []<>(FlattenSeq(stored[f]) = Content(f))

\* A watched file is stored once, from the offset the store implies, and cut
\* only at ends of events (poll_loop, ingest_file).
TailerSound == TypeOK /\ TailedOnce /\ OffsetIsStored /\ StreamCutsNothing
=============================================================================
