------------------------------- MODULE Drift --------------------------------
(***************************************************************************)
(* The drift judgement of one source (SourceStats in                       *)
(* crates/ulpf/src/engine.rs): a window of events is judged against the    *)
(* miss rate of the windows before it.  Rates are compared as fractions.   *)
(***************************************************************************)
EXTENDS Integers

CONSTANTS
  Window,       \* DRIFT_WINDOW
  Established,  \* DRIFT_ESTABLISHED
  MinMisses,    \* DRIFT_MIN_MISSES
  CleanWindows  \* clean windows that clear an alert (4)

ASSUME DriftAssumption ==
  {Window, Established, MinMisses, CleanWindows} \subseteq Nat \ {0}

NoStats ==
  [drift |-> "none", events |-> 0, misses |-> 0, baseEvents |-> 0,
   baseMisses |-> 0, clean |-> 0, parser |-> FALSE]

\* rate >= baseline + DRIFT_DELTA, with DRIFT_DELTA = 1/4.
Jumped(s) ==
  IF s.baseEvents = 0 THEN 4 * s.misses >= s.events
  ELSE 4 * s.misses * s.baseEvents
         >= s.events * (4 * s.baseMisses + s.baseEvents)

\* A baseline of some length with a rate below DRIFT_BASELINE_MAX = 1/5, and
\* events some parser took.
IsEstablished(s) ==
  /\ s.baseEvents >= Established /\ s.parser
  /\ 5 * s.baseMisses < s.baseEvents

Routing(s) == s.drift \in {"tripped", "proposed"}

Trips(s) ==
  ~Routing(s) /\ IsEstablished(s) /\ s.misses >= MinMisses /\ Jumped(s)

Emptied(s) == [s EXCEPT !.events = 0, !.misses = 0]

\* SourceStats::judge.
Judge(s) ==
  Emptied(
    IF s.events = 0 THEN s
    ELSE IF Trips(s) THEN [s EXCEPT !.drift = "tripped", !.clean = 0]
    ELSE IF ~Routing(s)
    THEN [s EXCEPT !.drift = IF IsEstablished(s) THEN "watching" ELSE @,
                   !.baseEvents = @ + s.events, !.baseMisses = @ + s.misses]
    ELSE IF Jumped(s) THEN [s EXCEPT !.clean = 0]
    ELSE IF s.clean + 1 < CleanWindows THEN [s EXCEPT !.clean = @ + 1]
    ELSE [s EXCEPT !.drift = "cleared", !.clean = @ + 1,
                   !.baseEvents = 0, !.baseMisses = 0])

\* A batch of n events is folded in; detected: some parser took one of them.
Counted(s, n, misses, detected) ==
  [s EXCEPT !.events = @ + n, !.misses = @ + misses,
            !.parser = @ \/ detected]

\* SourceStats::observe.
Observe(s, n, misses, detected) ==
  LET c == Counted(s, n, misses, detected) IN
  IF c.events < Window THEN c ELSE Judge(c)

\* Mutant: a review leaves the baseline.
ClearDriftOnly(s) ==
  IF Routing(s) THEN [Emptied(s) EXCEPT !.drift = "cleared"] ELSE s

\* Live::clear_drift.
ClearDrift(s) ==
  IF Routing(s) THEN [Emptied(s) EXCEPT !.drift = "cleared", !.baseEvents = 0,
                                        !.baseMisses = 0]
  ELSE s
=============================================================================
