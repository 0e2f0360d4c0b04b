---------------------------- MODULE EngineProofs ----------------------------
(***************************************************************************)
(* What module Engine promises over any number of lives, that is after any *)
(* number of kills, torn writes, failed output stages and restarts.        *)
(* With and without listeners: the types of its state, that no sequence    *)
(* number that was taken goes missing while the output thread runs, and    *)
(* that every event of a file is stored once, in file order.  Without      *)
(* listeners (`run`, and `serve` over files alone): the lines of the       *)
(* output carry consecutive raw ids, a clean stop has written every record *)
(* the output answers for, and the engine implements the abstract log of   *)
(* module EventLog.  With listeners, in the first life of `serve`: the     *)
(* ids ascend and nothing that is stored is lost.                          *)
(***************************************************************************)
EXTENDS Engine, FiniteSetTheorems, SequenceTheorems, TLAPS

-----------------------------------------------------------------------------
(* Sequences of lines.                                                     *)

\* The lines of a batch are a sequence of natural numbers, as long as the
\* batch (process_batch writes one line per event).
LEMMA IdsType ==
  ASSUME NEW first \in Nat, NEW n \in Nat
  PROVE  /\ Ids(first, n) \in Seq(Nat)
         /\ Len(Ids(first, n)) = n
         /\ \A i \in 1 .. n : Ids(first, n)[i] = first + i - 1
BY DEF Ids

\* Lines that reach the file leave it a sequence of lines, torn or not, and no
\* shorter (BufWriter's writes in output_thread).
LEMMA AppendedType ==
  ASSUME output \in Seq(Nat \cup {Glued}), NEW lines \in Seq(Nat)
  PROVE  /\ Appended(lines) \in Seq(Nat \cup {Glued})
         /\ Len(Appended(lines)) = Len(output) + Len(lines)
<1>1. CASE torn /\ lines # << >>
  <2>1. /\ Tail(lines) \in Seq(Nat \cup {Glued})
        /\ Len(Tail(lines)) = Len(lines) - 1
    BY <1>1
  <2>2. <<Glued>> \in Seq(Nat \cup {Glued}) /\ Len(<<Glued>>) = 1
    OBVIOUS
  <2>3. /\ <<Glued>> \o Tail(lines) \in Seq(Nat \cup {Glued})
        /\ Len(<<Glued>> \o Tail(lines)) = Len(lines)
    BY <2>1, <2>2
  <2> QED BY <1>1, <2>3 DEF Appended
<1>2. CASE ~(torn /\ lines # << >>)
  BY <1>2 DEF Appended
<1> QED BY <1>1, <1>2

\* A write that stops early leaves a sequence of lines, no shorter
\* (OutputFails, Kill).
LEMMA PartWrittenType ==
  ASSUME TypeOK, NEW k \in 0 .. Len(wbuf), NEW cut \in BOOLEAN,
         PartWritten(k, cut)
  PROVE  /\ output' \in Seq(Nat \cup {Glued}) /\ torn' \in BOOLEAN
         /\ Len(output') >= Len(output)
<1>1. SubSeq(wbuf, 1, k) \in Seq(Nat) /\ Len(SubSeq(wbuf, 1, k)) = k
  BY DEF TypeOK, TypeFiles
<1>2. output' \in Seq(Nat \cup {Glued}) /\ Len(output') = Len(output) + k
  BY <1>1, AppendedType DEF PartWritten, TypeOK, TypeFiles
<1>3. torn' \in BOOLEAN
  BY DEF PartWritten, TypeOK, TypeFlags
<1> QED BY <1>2, <1>3 DEF TypeOK, TypeFiles

-----------------------------------------------------------------------------
(* Types.                                                                  *)

\* recover_output truncates the file to a length it has: what the types need
\* to be inductive.
KeepInFile == main = "truncate" => rec.keep <= Len(output)

TypeInv == TypeOK /\ KeepInFile

\* What the store holds of a file is a number of records (ingested_bytes).
LEMMA IngestedType ==
  ASSUME TypeFiles, NEW f
  PROVE  Ingested(f) \in Nat
<1>1. IsFiniteSet(1 .. Len(store))
  <2>1. Len(store) \in Int
    BY DEF TypeFiles
  <2> QED BY <2>1, FS_Interval
<1>2. {i \in DOMAIN store : store[i].src = f} \subseteq 1 .. Len(store)
  BY DEF TypeFiles
<1>3. IsFiniteSet({i \in DOMAIN store : store[i].src = f})
  BY <1>1, <1>2, FS_Subset
<1> QED BY <1>3, FS_CardinalityType DEF Ingested

\* The types hold in a state where nothing has been started.
LEMMA TypeInit == Init => TypeInv
<1> SUFFICES ASSUME Init PROVE TypeInv
  OBVIOUS
<1>1. TypeFiles
  BY DEF Init, TypeFiles
<1>2. TypeFlags
  BY DEF Init, TypeFlags
<1>3. TypeThreads
  BY DEF Init, TypeThreads, NoRec
<1>4. KeepInFile
  BY DEF Init, KeepInFile
<1> QED BY <1>1, <1>2, <1>3, <1>4 DEF TypeInv, TypeOK

\* A store that an interrupted append has grown is still a sequence of records
\* (HalfStored), no shorter.
LEMMA HalfStoredType ==
  ASSUME TypeOK, NEW p \in Producers, HalfStored(p)
  PROVE  /\ store' \in Seq([src : Files \cup Listeners, at : Nat])
         /\ Len(store') >= Len(store)
<1> DEFINE Records == Seq([src : Files \cup Listeners, at : Nat])
<1>1. \A f \in Files, n \in 1 .. BatchMax : FileEvents(f, n) \in Records
  BY EngineAssumption DEF FileEvents, TypeOK, TypeThreads
<1>2. \A l \in Listeners, n \in 1 .. BatchMax : ListenerEvents(l, n) \in Records
  BY EngineAssumption DEF ListenerEvents
<1>3. \/ store' = store
      \/ \E f \in Files, n \in 1 .. BatchMax :
           store' = store \o FileEvents(f, n)
      \/ \E l \in Listeners, n \in 1 .. BatchMax :
           store' = store \o ListenerEvents(l, n)
  BY DEF HalfStored, TypeOK, TypeThreads
<1>4. ASSUME NEW e \in Records
      PROVE  store \o e \in Records /\ Len(store \o e) >= Len(store)
  BY DEF TypeOK, TypeFiles
<1>5. store \in Records /\ Len(store) >= Len(store)
  BY DEF TypeOK, TypeFiles
<1> HIDE DEF Records
<1>6. store' \in Records /\ Len(store') >= Len(store)
  BY <1>1, <1>2, <1>3, <1>4, <1>5, Zenon
<1> QED BY <1>6 DEF Records

\* Every step of the engine keeps the types of its state.
LEMMA TypeStep == TypeInv /\ [Next]_vars => TypeInv'
<1> SUFFICES ASSUME TypeInv, [Next]_vars PROVE TypeInv'
  OBVIOUS
<1> USE EngineAssumption DEF TypeInv, TypeOK, disk, chans, writer, ingestV
<1>1. CASE Start
  <2>1. TypeFiles'
    BY <1>1 DEF Start, TypeFiles
  <2>2. TypeFlags'
    BY <1>1 DEF Start, TypeFlags
  <2>3. TypeThreads'
    BY <1>1 DEF Start, TypeThreads
  <2>4. KeepInFile'
    BY <1>1 DEF Start, KeepInFile
  <2> QED BY <2>1, <2>2, <2>3, <2>4
<1>2. CASE NewOutput
  <2>1. TypeFiles'
    BY <1>2 DEF NewOutput, TypeFiles
  <2>2. TypeFlags'
    BY <1>2 DEF NewOutput, TypeFlags
  <2>3. TypeThreads'
    BY <1>2 DEF NewOutput, TypeThreads
  <2>4. KeepInFile'
    BY <1>2 DEF NewOutput, KeepInFile
  <2> QED BY <2>1, <2>2, <2>3, <2>4
<1>3. CASE Stop
  <2>1. TypeFiles'
    BY <1>3 DEF Stop, TypeFiles
  <2>2. TypeFlags'
    BY <1>3 DEF Stop, TypeFlags
  <2>3. TypeThreads'
    BY <1>3 DEF Stop, TypeThreads
  <2>4. KeepInFile'
    BY <1>3 DEF Stop, KeepInFile
  <2> QED BY <2>1, <2>2, <2>3, <2>4
<1>4. CASE RecoverScan
  <2>1. TypeFiles'
    BY <1>4 DEF RecoverScan, TypeFiles
  <2>2. TypeFlags'
    BY <1>4 DEF RecoverScan, TypeFlags
  <2>3. TypeThreads'
    <3>1. \A id \in RawIdOf(output[Len(output)]) :
            output # << >> => id + 1 \in Nat
      BY DEF RawIdOf, TypeFiles, Glued
    <3>2. rec' \in [keep : Nat, first : Nat, next : Nat, total : Nat]
      <4>1. CASE ~prior
        BY <1>4, <4>1 DEF RecoverScan, TypeThreads
      <4>2. CASE prior
        <5>1. PICK x \in Nat : rec' = [keep |-> Len(output), first |-> x,
                                       next |-> 0, total |-> 0]
          BY <1>4, <3>1, <4>2 DEF RecoverScan
        <5> QED BY <5>1 DEF TypeFiles
      <4> QED BY <4>1, <4>2
    <3>3. consumed' \in [Files -> Nat]
      BY <1>4, IngestedType DEF RecoverScan, BeginIngest, TypeThreads
    <3> QED BY <1>4, <3>2, <3>3 DEF RecoverScan, BeginIngest, TypeThreads
  <2>4. KeepInFile'
    <3>1. CASE ~prior
      BY <1>4, <3>1 DEF RecoverScan, BeginIngest, KeepInFile
    <3>2. CASE prior
      BY <1>4, <3>2 DEF RecoverScan, KeepInFile, TypeFiles
    <3> QED BY <3>1, <3>2
  <2> QED BY <2>1, <2>2, <2>3, <2>4
<1>5. CASE RecoverTruncate
  <2>1. TypeFiles'
    <3>1. rec.keep \in 0 .. Len(output)
      BY <1>5 DEF RecoverTruncate, KeepInFile, TypeFiles, TypeThreads
    <3> QED BY <1>5, <3>1 DEF RecoverTruncate, TypeFiles
  <2>2. TypeFlags'
    BY <1>5 DEF RecoverTruncate, TypeFlags
  <2>3. TypeThreads'
    BY <1>5 DEF RecoverTruncate, TypeThreads
  <2>4. KeepInFile'
    BY <1>5 DEF RecoverTruncate, KeepInFile
  <2> QED BY <2>1, <2>2, <2>3, <2>4
<1>6. CASE RecoverPlan
  <2>1. TypeFiles'
    BY <1>6 DEF RecoverPlan, TypeFiles
  <2>2. TypeFlags'
    BY <1>6 DEF RecoverPlan, TypeFlags
  <2>3. TypeThreads'
    <3>1. rec' \in [keep : Nat, first : Nat, next : Nat, total : Nat]
      <4>1. Len(store) \in Nat
        BY DEF TypeFiles
      <4>2. \/ rec' = rec
            \/ rec' = [rec EXCEPT !.next = rec.first, !.total = Len(store)]
        BY <1>6 DEF RecoverPlan
      <4> QED BY <4>1, <4>2 DEF TypeThreads
    <3>2. consumed' \in [Files -> Nat]
      BY SMTT(30), <1>6, IngestedType DEF RecoverPlan, BeginIngest, TypeThreads
    <3> QED BY <1>6, <3>1, <3>2 DEF RecoverPlan, BeginIngest, TypeThreads
  <2>4. KeepInFile'
    BY <1>6 DEF RecoverPlan, BeginIngest, KeepInFile
  <2> QED BY <2>1, <2>2, <2>3, <2>4
<1>7. CASE RecoverBatch
  <2>1. TypeFiles'
    BY <1>7 DEF RecoverBatch, TypeFiles
  <2>2. TypeFlags'
    BY <1>7 DEF RecoverBatch, TypeFlags
  <2>3. TypeThreads'
    <3>1. PICK n \in Nat :
            /\ hold' = [hold EXCEPT ![Main] =
                          {[seq |-> seq, first |-> rec.next, n |-> n]}]
            /\ rec' = [rec EXCEPT !.next = rec.next + n]
      <4>1. rec.total - rec.next \in Nat
        BY SMTT(30), <1>7 DEF RecoverBatch, TypeThreads
      <4> QED BY <1>7, <4>1 DEF RecoverBatch
    <3>2. [seq |-> seq, first |-> rec.next, n |-> n] \in Batch
      BY DEF Batch, TypeThreads
    <3>3. hold' \in [Producers -> SUBSET Batch]
      BY <3>1, <3>2 DEF TypeThreads
    <3>4. rec' \in [keep : Nat, first : Nat, next : Nat, total : Nat]
      <4>1. rec.next + n \in Nat
        BY DEF TypeThreads
      <4> QED BY <3>1, <4>1 DEF TypeThreads
    <3>5. seq' \in Nat
      BY SMTT(30), <1>7 DEF RecoverBatch, TypeThreads
    <3> QED BY <1>7, <3>3, <3>4, <3>5 DEF RecoverBatch, TypeThreads
  <2>4. KeepInFile'
    BY <1>7 DEF RecoverBatch, KeepInFile
  <2> QED BY <2>1, <2>2, <2>3, <2>4
<1>8. CASE RecoverDone
  <2>1. TypeFiles'
    BY <1>8 DEF RecoverDone, TypeFiles
  <2>2. TypeFlags'
    BY <1>8 DEF RecoverDone, TypeFlags
  <2>3. TypeThreads'
    BY <1>8, IngestedType DEF RecoverDone, BeginIngest, TypeThreads
  <2>4. KeepInFile'
    BY <1>8 DEF RecoverDone, BeginIngest, KeepInFile
  <2> QED BY <2>1, <2>2, <2>3, <2>4
<1>9. CASE IngestDone
  <2>1. TypeFiles'
    BY <1>9 DEF IngestDone, TypeFiles
  <2>2. TypeFlags'
    BY <1>9 DEF IngestDone, TypeFlags
  <2>3. TypeThreads'
    BY <1>9 DEF IngestDone, TypeThreads
  <2>4. KeepInFile'
    BY <1>9 DEF IngestDone, KeepInFile
  <2> QED BY <2>1, <2>2, <2>3, <2>4
<1>10. CASE JoinListeners
  <2>1. TypeFiles'
    BY <1>10 DEF JoinListeners, TypeFiles
  <2>2. TypeFlags'
    BY <1>10 DEF JoinListeners, TypeFlags
  <2>3. TypeThreads'
    BY <1>10 DEF JoinListeners, TypeThreads
  <2>4. KeepInFile'
    BY <1>10 DEF JoinListeners, KeepInFile
  <2> QED BY <2>1, <2>2, <2>3, <2>4
<1>11. CASE Finish
  <2>1. TypeFiles'
    BY <1>11 DEF Finish, TypeFiles
  <2>2. TypeFlags'
    BY <1>11 DEF Finish, TypeFlags
  <2>3. TypeThreads'
    BY <1>11 DEF Finish, NoRec, TypeThreads
  <2>4. KeepInFile'
    BY <1>11 DEF Finish, KeepInFile
  <2> QED BY <2>1, <2>2, <2>3, <2>4
<1>12. ASSUME NEW f \in Files, NEW n \in 1 .. BatchMax, IngestBatch(f, n)
       PROVE  TypeInv'
  <2>1. TypeFiles'
    <3>1. FileEvents(f, n) \in Seq([src : Files \cup Listeners, at : Nat])
      BY <1>12 DEF FileEvents, TypeThreads
    <3> QED BY <1>12, <3>1 DEF IngestBatch, StoreBatch, TypeFiles
  <2>2. TypeFlags'
    BY <1>12 DEF IngestBatch, TypeFlags
  <2>3. TypeThreads'
    <3>1. /\ Len(store) \in Nat
          /\ Len(FileEvents(f, n)) = n
      BY <1>12 DEF FileEvents, TypeFiles
    <3>2. [seq |-> seq, first |-> Len(store), n |-> Len(FileEvents(f, n))]
            \in Batch
      BY <1>12, <3>1 DEF Batch, TypeThreads
    <3>3. hold' \in [Producers -> SUBSET Batch]
      BY <1>12, <3>2 DEF IngestBatch, StoreBatch, TypeThreads
    <3>4. seq' \in Nat /\ consumed' \in [Files -> Nat]
      BY <1>12 DEF IngestBatch, StoreBatch, TypeThreads
    <3> QED BY <1>12, <3>3, <3>4 DEF IngestBatch, TypeThreads
  <2>4. KeepInFile'
    BY <1>12 DEF IngestBatch, KeepInFile
  <2> QED BY <2>1, <2>2, <2>3, <2>4
<1>13. ASSUME NEW p \in Producers, Send(p)
       PROVE  TypeInv'
  <2>1. TypeFiles'
    BY <1>13 DEF Send, TypeFiles
  <2>2. TypeFlags'
    BY <1>13 DEF Send, TypeFlags
  <2>3. TypeThreads'
    BY <1>13 DEF Send, TypeThreads
  <2>4. KeepInFile'
    BY <1>13 DEF Send, KeepInFile
  <2> QED BY <2>1, <2>2, <2>3, <2>4
<1>14. ASSUME NEW p \in Producers, SendFails(p)
       PROVE  TypeInv'
  <2>1. TypeFiles'
    BY <1>14 DEF SendFails, TypeFiles
  <2>2. TypeFlags'
    BY <1>14 DEF SendFails, TypeFlags
  <2>3. TypeThreads'
    BY <1>14 DEF SendFails, TypeThreads
  <2>4. KeepInFile'
    BY <1>14 DEF SendFails, KeepInFile
  <2> QED BY <2>1, <2>2, <2>3, <2>4
<1>15. ASSUME NEW l \in Listeners, NEW n \in 1 .. BatchMax, ListenerBatch(l, n)
       PROVE  TypeInv'
  <2>1. TypeFiles'
    <3>1. ListenerEvents(l, n) \in Seq([src : Files \cup Listeners, at : Nat])
      BY <1>15 DEF ListenerEvents
    <3> QED BY <1>15, <3>1 DEF ListenerBatch, StoreBatch, TypeFiles
  <2>2. TypeFlags'
    BY <1>15 DEF ListenerBatch, TypeFlags
  <2>3. TypeThreads'
    <3>1. /\ Len(store) \in Nat
          /\ Len(ListenerEvents(l, n)) = n
      BY <1>15 DEF ListenerEvents, TypeFiles
    <3>2. [seq |-> seq, first |-> Len(store), n |-> Len(ListenerEvents(l, n))]
            \in Batch
      BY <1>15, <3>1 DEF Batch, TypeThreads
    <3>3. hold' \in [Producers -> SUBSET Batch]
      BY <1>15, <3>2 DEF ListenerBatch, StoreBatch, TypeThreads
    <3>4. seq' \in Nat
      BY <1>15 DEF ListenerBatch, StoreBatch, TypeThreads
    <3> QED BY <1>15, <3>3, <3>4 DEF ListenerBatch, TypeThreads
  <2>4. KeepInFile'
    BY <1>15 DEF ListenerBatch, KeepInFile
  <2> QED BY <2>1, <2>2, <2>3, <2>4
<1>16. ASSUME NEW l \in Listeners, ListenerExit(l)
       PROVE  TypeInv'
  <2>1. TypeFiles'
    BY <1>16 DEF ListenerExit, TypeFiles
  <2>2. TypeFlags'
    BY <1>16 DEF ListenerExit, TypeFlags
  <2>3. TypeThreads'
    BY <1>16 DEF ListenerExit, TypeThreads
  <2>4. KeepInFile'
    BY <1>16 DEF ListenerExit, KeepInFile
  <2> QED BY <2>1, <2>2, <2>3, <2>4
<1>17. ASSUME NEW w \in Workers, Take(w)
       PROVE  TypeInv'
  <2>1. TypeFiles'
    BY <1>17 DEF Take, TypeFiles
  <2>2. TypeFlags'
    BY <1>17 DEF Take, TypeFlags
  <2>3. TypeThreads'
    BY <1>17 DEF Take, TypeThreads
  <2>4. KeepInFile'
    BY <1>17 DEF Take, KeepInFile
  <2> QED BY <2>1, <2>2, <2>3, <2>4
<1>18. ASSUME NEW w \in Workers, Emit(w)
       PROVE  TypeInv'
  <2>1. TypeFiles'
    BY <1>18 DEF Emit, TypeFiles
  <2>2. TypeFlags'
    BY <1>18 DEF Emit, TypeFlags
  <2>3. TypeThreads'
    BY <1>18 DEF Emit, TypeThreads
  <2>4. KeepInFile'
    BY <1>18 DEF Emit, KeepInFile
  <2> QED BY <2>1, <2>2, <2>3, <2>4
<1>19. ASSUME NEW w \in Workers, WorkerExit(w)
       PROVE  TypeInv'
  <2>1. TypeFiles'
    BY <1>19 DEF WorkerExit, TypeFiles
  <2>2. TypeFlags'
    BY <1>19 DEF WorkerExit, TypeFlags
  <2>3. TypeThreads'
    BY <1>19 DEF WorkerExit, TypeThreads
  <2>4. KeepInFile'
    BY <1>19 DEF WorkerExit, KeepInFile
  <2> QED BY <2>1, <2>2, <2>3, <2>4
<1>20. CASE Receive
  <2>1. TypeFiles'
    BY <1>20 DEF Receive, TypeFiles
  <2>2. TypeFlags'
    BY <1>20 DEF Receive, TypeFlags
  <2>3. TypeThreads'
    BY <1>20 DEF Receive, TypeThreads
  <2>4. KeepInFile'
    BY <1>20 DEF Receive, KeepInFile
  <2> QED BY <2>1, <2>2, <2>3, <2>4
<1>21. CASE Write
  <2>1. TypeFiles'
    <3>1. PICK b \in Batch :
            \/ wbuf' = wbuf \o Ids(b.first, b.n) /\ output' = output
            \/ output' = Appended(wbuf) /\ wbuf' = Ids(b.first, b.n)
            \/ output' = Appended(wbuf \o Ids(b.first, b.n)) /\ wbuf' = << >>
      BY <1>21 DEF Write, InTurn, TypeThreads
    <3>2. Ids(b.first, b.n) \in Seq(Nat)
      BY IdsType DEF Batch
    <3>3. wbuf \o Ids(b.first, b.n) \in Seq(Nat)
      BY <3>2 DEF TypeFiles
    <3>4. /\ Appended(wbuf) \in Seq(Nat \cup {Glued})
          /\ Appended(wbuf \o Ids(b.first, b.n)) \in Seq(Nat \cup {Glued})
      BY <3>3, AppendedType DEF TypeFiles
    <3>5. output' \in Seq(Nat \cup {Glued}) /\ wbuf' \in Seq(Nat)
      <4>1. output \in Seq(Nat \cup {Glued}) /\ << >> \in Seq(Nat)
        BY DEF TypeFiles
      <4> QED BY <4>1, <3>1, <3>2, <3>3, <3>4, Zenon
    <3> QED BY <1>21, <3>5 DEF Write, TypeFiles
  <2>2. TypeFlags'
    BY <1>21 DEF Write, TypeFlags
  <2>3. TypeThreads'
    BY <1>21 DEF Write, TypeThreads
  <2>4. KeepInFile'
    <3>1. CASE main = "truncate"
      <4>1. PICK b \in Batch :
              \/ output' = output
              \/ output' = Appended(wbuf)
              \/ output' = Appended(wbuf \o Ids(b.first, b.n))
        BY <1>21 DEF Write, InTurn, TypeThreads
      <4>2. wbuf \o Ids(b.first, b.n) \in Seq(Nat)
        BY IdsType DEF Batch, TypeFiles
      <4>3. ASSUME NEW t \in Seq(Nat)
            PROVE  Len(Appended(t)) >= Len(output)
        <5>1. Len(Appended(t)) = Len(output) + Len(t)
          BY AppendedType DEF TypeFiles
        <5> QED BY <5>1 DEF TypeFiles
      <4>4. Len(output') >= Len(output)
        <5>1. Len(output) >= Len(output) /\ wbuf \in Seq(Nat)
          BY DEF TypeFiles
        <5> QED BY <4>1, <4>2, <4>3, <5>1, Zenon
      <4> QED BY <1>21, <4>4, <2>1 DEF Write, KeepInFile, TypeFiles, TypeThreads
    <3> QED BY <1>21, <3>1 DEF Write, KeepInFile
  <2> QED BY <2>1, <2>2, <2>3, <2>4
<1>22. CASE Flush
  <2>1. TypeFiles'
    BY <1>22, AppendedType DEF Flush, TypeFiles
  <2>2. TypeFlags'
    BY <1>22 DEF Flush, TypeFlags
  <2>3. TypeThreads'
    BY <1>22 DEF Flush, TypeThreads
  <2>4. KeepInFile'
    BY <1>22, AppendedType DEF Flush, KeepInFile, TypeFiles, TypeThreads
  <2> QED BY <2>1, <2>2, <2>3, <2>4
<1>23. CASE OutputFails
  <2>1. TypeFiles'
    BY <1>23, PartWrittenType DEF OutputFails, TypeFiles
  <2>2. TypeFlags'
    BY <1>23, PartWrittenType DEF OutputFails, TypeFlags
  <2>3. TypeThreads'
    BY <1>23 DEF OutputFails, TypeThreads
  <2>4. KeepInFile'
    BY <1>23, <2>1, PartWrittenType
       DEF OutputFails, KeepInFile, TypeFiles, TypeThreads
  <2> QED BY <2>1, <2>2, <2>3, <2>4
<1>24. CASE OutputDone
  <2>1. TypeFiles'
    BY <1>24, AppendedType DEF OutputDone, TypeFiles
  <2>2. TypeFlags'
    BY <1>24 DEF OutputDone, TypeFlags
  <2>3. TypeThreads'
    BY <1>24 DEF OutputDone, TypeThreads
  <2>4. KeepInFile'
    BY <1>24, AppendedType DEF OutputDone, KeepInFile, TypeFiles, TypeThreads
  <2> QED BY <2>1, <2>2, <2>3, <2>4
<1>25. CASE Kill
  <2>1. TypeFiles'
    <3>1. output' \in Seq(Nat \cup {Glued})
      BY <1>25, PartWrittenType DEF Kill, TypeFiles
    <3>2. store' \in Seq([src : Files \cup Listeners, at : Nat])
      BY <1>25, HalfStoredType DEF Kill
    <3> QED BY <1>25, <3>1, <3>2 DEF Kill, TypeFiles
  <2>2. TypeFlags'
    BY <1>25, PartWrittenType DEF Kill, TypeFlags
  <2>3. TypeThreads'
    <3>1. /\ hold' \in [Producers -> SUBSET Batch]
          /\ work' \in [Workers -> SUBSET Batch]
      BY <1>25 DEF Kill
    <3>2. rec' \in [keep : Nat, first : Nat, next : Nat, total : Nat]
      BY <1>25 DEF Kill, NoRec
    <3> QED BY <1>25, <3>1, <3>2 DEF Kill, TypeThreads
  <2>4. KeepInFile'
    BY <1>25 DEF Kill, KeepInFile
  <2> QED BY <2>1, <2>2, <2>3, <2>4
<1>26. CASE MainFails
  <2>1. TypeFiles'
    BY <1>26, HalfStoredType DEF MainFails, TypeFiles, Producers
  <2>2. TypeFlags'
    BY <1>26 DEF MainFails, TypeFlags
  <2>3. TypeThreads'
    BY <1>26 DEF MainFails, TypeThreads
  <2>4. KeepInFile'
    BY <1>26 DEF MainFails, KeepInFile
  <2> QED BY <2>1, <2>2, <2>3, <2>4
<1>27. ASSUME NEW l \in Listeners, ListenerFails(l)
       PROVE  TypeInv'
  <2>1. TypeFiles'
    BY <1>27, HalfStoredType DEF ListenerFails, TypeFiles, Producers
  <2>2. TypeFlags'
    BY <1>27 DEF ListenerFails, TypeFlags
  <2>3. TypeThreads'
    BY <1>27 DEF ListenerFails, TypeThreads
  <2>4. KeepInFile'
    BY <1>27 DEF ListenerFails, KeepInFile
  <2> QED BY <2>1, <2>2, <2>3, <2>4
<1>28. CASE UNCHANGED vars
  BY <1>28 DEF vars, TypeFiles, TypeFlags, TypeThreads, KeepInFile
<1> QED
  BY <1>1, <1>2, <1>3, <1>4, <1>5, <1>6, <1>7, <1>8, <1>9, <1>10, <1>11, <1>12,
     <1>13, <1>14, <1>15, <1>16, <1>17, <1>18, <1>19, <1>20, <1>21, <1>22,
     <1>23, <1>24, <1>25, <1>26, <1>27, <1>28
     DEF Next, MainStep, OutputStep, WorkerStep, ListenerStep, Producers

\* The types of the engine's state hold in every reachable state.
THEOREM TypeCorrect == Spec => []TypeOK
<1>1. Spec => []TypeInv
  BY TypeInit, TypeStep, PTL DEF Spec
<1>2. TypeInv => TypeOK
  BY DEF TypeInv
<1> QED BY <1>1, <1>2, PTL
-----------------------------------------------------------------------------
(* No sequence number goes missing.                                        *)

\* Who may still hold a batch.  While the output thread runs the workers leave
\* only once every sender is gone and the channel is empty; a producer that is
\* gone holds nothing, and nobody holds two batches.
Held ==
  /\ main = "down" <=> out = "off"
  /\ out = "running" /\ main # "finish" => alive = Workers
  /\ out = "running" /\ alive # Workers => queue = << >>
  /\ main \in {"join", "finish", "down"} => hold[Main] = {}
  /\ main \in {"finish", "down"} => listening = {}
  /\ \A l \in Listeners : l \notin listening => hold[l] = {}
  /\ \A p \in Producers : \A b, c \in hold[p] : b = c
  /\ \A w \in Workers : \A b, c \in work[w] : b = c
  /\ \A w \in Workers : w \notin alive => work[w] = {}

\* Batch b is between a producer and the output thread.
Placed(b) ==
  \/ \E p \in Producers : b \in hold[p]
  \/ \E w \in Workers : b \in work[w]
  \/ \E i \in 1 .. Len(queue) : b = queue[i]
  \/ \E i \in 1 .. Len(outq) : b = outq[i]
  \/ b \in pending

\* NoSequenceHole, place by place.
Tracked ==
  out = "running" =>
    \A s \in next .. seq - 1 : \E b \in Batch : Placed(b) /\ b.seq = s

FlowInv == TypeInv /\ Held /\ Tracked

\* Every step keeps Held (start, finish, send_batch, worker_thread).
LEMMA HeldStep ==
  ASSUME TypeInv, Held, [Next]_vars
  PROVE  Held'
<1> USE EngineAssumption
    DEF TypeInv, TypeOK, TypeThreads, Held, Producers, disk, chans, writer,
        ingestV
<1>1. CASE Start
  BY <1>1 DEF Start
<1>2. CASE NewOutput
  BY <1>2 DEF NewOutput
<1>3. CASE Stop
  BY <1>3 DEF Stop
<1>4. CASE RecoverScan
  BY <1>4 DEF RecoverScan, BeginIngest
<1>5. CASE RecoverTruncate
  BY <1>5 DEF RecoverTruncate
<1>6. CASE RecoverPlan
  BY <1>6 DEF RecoverPlan, BeginIngest
<1>7. CASE RecoverBatch
  BY <1>7 DEF RecoverBatch
<1>8. CASE RecoverDone
  BY <1>8 DEF RecoverDone, BeginIngest
<1>9. CASE IngestDone
  BY <1>9 DEF IngestDone
<1>10. CASE JoinListeners
  BY <1>10 DEF JoinListeners
<1>11. CASE Finish
  BY <1>11 DEF Finish
<1>12. ASSUME NEW f \in Files, NEW n \in 1 .. BatchMax, IngestBatch(f, n)
       PROVE  Held'
  BY <1>12 DEF IngestBatch, StoreBatch
<1>13. ASSUME NEW p \in Producers, Send(p)
       PROVE  Held'
  BY <1>13 DEF Send
<1>14. ASSUME NEW p \in Producers, SendFails(p)
       PROVE  Held'
  BY <1>14 DEF SendFails
<1>15. ASSUME NEW l \in Listeners, NEW n \in 1 .. BatchMax, ListenerBatch(l, n)
       PROVE  Held'
  BY <1>15 DEF ListenerBatch, StoreBatch
<1>16. ASSUME NEW l \in Listeners, ListenerExit(l)
       PROVE  Held'
  BY <1>16 DEF ListenerExit
<1>17. ASSUME NEW w \in Workers, Take(w)
       PROVE  Held'
  BY <1>17 DEF Take
<1>18. ASSUME NEW w \in Workers, Emit(w)
       PROVE  Held'
  BY <1>18 DEF Emit
<1>19. ASSUME NEW w \in Workers, WorkerExit(w)
       PROVE  Held'
  BY <1>19 DEF WorkerExit
<1>20. CASE Receive
  BY <1>20 DEF Receive
<1>21. CASE Write
  BY <1>21 DEF Write
<1>22. CASE Flush
  BY <1>22 DEF Flush
<1>23. CASE OutputFails
  BY <1>23 DEF OutputFails
<1>24. CASE OutputDone
  BY <1>24 DEF OutputDone
<1>25. CASE Kill
  BY <1>25 DEF Kill
<1>26. CASE MainFails
  BY <1>26 DEF MainFails
<1>27. ASSUME NEW l \in Listeners, ListenerFails(l)
       PROVE  Held'
  BY <1>27 DEF ListenerFails
<1>28. CASE UNCHANGED vars
  BY <1>28 DEF vars
<1> QED
  BY <1>1, <1>2, <1>3, <1>4, <1>5, <1>6, <1>7, <1>8, <1>9, <1>10, <1>11, <1>12,
     <1>13, <1>14, <1>15, <1>16, <1>17, <1>18, <1>19, <1>20, <1>21, <1>22,
     <1>23, <1>24, <1>25, <1>26, <1>27, <1>28
     DEF Next, MainStep, OutputStep, WorkerStep, ListenerStep

\* A step that takes no number, writes nothing and drops no batch keeps every
\* number on its way.
LEMMA NoneDropped ==
  ASSUME Tracked, out' = "running" => out = "running",
         UNCHANGED <<seq, next>>,
         out' = "running" => \A b \in Batch : Placed(b) => Placed(b)'
  PROVE  Tracked'
BY DEF Tracked

\* A number is taken under the store lock together with the batch it is for
\* (ingest_file, recover_output, the listeners' flush).
LEMMA NumberTaken ==
  ASSUME TypeThreads, TypeThreads', Tracked, NEW p \in Producers, NEW b,
         b.seq = seq, hold' = [hold EXCEPT ![p] = {b}], hold[p] = {},
         seq' = seq + 1, UNCHANGED <<out, next, queue, work, outq, pending>>
  PROVE  Tracked'
<1>0. seq \in Nat /\ next \in Nat
  BY DEF TypeThreads
<1> SUFFICES ASSUME out = "running", NEW s \in next .. seq
             PROVE  \E c \in Batch : Placed(c)' /\ c.seq = s
  <2>1. seq' - 1 = seq
    BY <1>0
  <2> QED BY <2>1 DEF Tracked
<1>1. b \in hold'[p] /\ b \in Batch
  BY DEF TypeThreads
<1>2. Placed(b)'
  BY <1>1 DEF Placed
<1>3. ASSUME NEW c \in Batch, Placed(c)
      PROVE  Placed(c)'
  <2>1. CASE \E q \in Producers : c \in hold[q]
    <3>1. PICK q \in Producers : c \in hold[q]
      BY <2>1
    <3>2. c \in hold'[q]
      BY <3>1 DEF TypeThreads
    <3> QED BY <3>2 DEF Placed
  <2>2. CASE ~\E q \in Producers : c \in hold[q]
    BY <1>3, <2>2 DEF Placed
  <2> QED BY <2>1, <2>2
<1>4. CASE s = seq
  BY <1>1, <1>2, <1>4
<1>5. CASE s < seq
  <2>1. s \in next .. seq - 1
    BY <1>5 DEF TypeThreads
  <2>2. PICK c \in Batch : Placed(c) /\ c.seq = s
    BY <2>1 DEF Tracked
  <2> QED BY <1>3, <2>2
<1> QED BY <1>4, <1>5 DEF TypeThreads

\* Every step keeps every number that was taken on its way to the output.
LEMMA HoleStep ==
  ASSUME TypeInv, TypeInv', Held, Tracked, [Next]_vars
  PROVE  Tracked'
<1>a. TypeThreads /\ TypeThreads' /\ TypeFiles
  BY DEF TypeInv, TypeOK
<1> DEFINE Kept == out' = "running" => \A b \in Batch : Placed(b) => Placed(b)'
<1> USE DEF disk, chans, writer, ingestV
<1>1. CASE Start
  BY <1>1 DEF Start, Tracked
<1>2. CASE NewOutput \/ Stop \/ RecoverScan \/ RecoverTruncate \/ RecoverPlan
           \/ RecoverDone \/ IngestDone \/ JoinListeners \/ Flush
           \/ OutputDone \/ MainFails
  <2>1. UNCHANGED <<seq, next, hold, queue, work, outq, pending>>
        /\ (out' = "running" => out = "running")
    BY <1>2 DEF NewOutput, Stop, RecoverScan, RecoverTruncate, RecoverPlan,
                RecoverDone, IngestDone, JoinListeners, Flush, OutputDone,
                MainFails
  <2>2. Kept
    BY <2>1 DEF Placed
  <2> QED BY <2>1, <2>2, NoneDropped
<1>3. CASE RecoverBatch
  <2> DEFINE left == rec.total - rec.next
             n == IF left < BatchMax THEN left ELSE BatchMax
             b == [seq |-> seq, first |-> rec.next, n |-> n]
  <2>1. hold' = [hold EXCEPT ![Main] = {b}] /\ hold[Main] = {} /\ b.seq = seq
    <3>1. hold' = [hold EXCEPT ![Main] = {b}] /\ hold[Main] = {}
      BY <1>3, Zenon DEF RecoverBatch
    <3>2. b.seq = seq
      BY Zenon
    <3> QED BY <3>1, <3>2
  <2> HIDE DEF b
  <2>2. /\ UNCHANGED <<out, next, queue, work, outq, pending>>
        /\ seq' = seq + 1
    BY <1>3 DEF RecoverBatch
  <2> QED BY <1>a, <2>1, <2>2, NumberTaken DEF Producers
<1>4. ASSUME NEW p \in Producers, NEW records, StoreBatch(p, records),
             UNCHANGED <<out, next, queue, work, outq, pending>>
      PROVE  Tracked'
  <2> DEFINE b == [seq |-> seq, first |-> Len(store), n |-> Len(records)]
  <2>1. hold' = [hold EXCEPT ![p] = {b}] /\ hold[p] = {} /\ b.seq = seq
    BY <1>4 DEF StoreBatch
  <2> HIDE DEF b
  <2>2. seq' = seq + 1
    BY <1>4 DEF StoreBatch
  <2> QED BY <1>4, <1>a, <2>1, <2>2, NumberTaken
<1>5. ASSUME NEW f \in Files, NEW n \in 1 .. BatchMax, IngestBatch(f, n)
      PROVE  Tracked'
  BY <1>4, <1>5 DEF IngestBatch, Producers
<1>6. ASSUME NEW l \in Listeners, NEW n \in 1 .. BatchMax, ListenerBatch(l, n)
      PROVE  Tracked'
  BY <1>4, <1>6 DEF ListenerBatch, Producers
<1>7. ASSUME NEW p \in Producers, Send(p)
      PROVE  Tracked'
  <2>1. PICK b \in hold[p] : queue' = Append(queue, b)
    BY <1>7 DEF Send
  <2>2. /\ hold' = [hold EXCEPT ![p] = {}]
        /\ UNCHANGED <<seq, next, out, work, outq, pending>>
    BY <1>7 DEF Send
  <2>3. ASSUME NEW c \in Batch, Placed(c)
        PROVE  Placed(c)'
    <3>1. Placed(b)'
      <4>1. queue'[Len(queue')] = b /\ Len(queue') \in 1 .. Len(queue')
        BY SMTT(30), <1>a, <2>1 DEF TypeThreads
      <4> QED BY <1>a, <4>1 DEF Placed
    <3>2. CASE \E q \in Producers : c \in hold[q]
      <4>1. PICK q \in Producers : c \in hold[q]
        BY <3>2
      <4>2. CASE q = p
        BY <2>1, <3>1, <4>1, <4>2 DEF Held
      <4>3. CASE q # p
        BY <1>a, <2>2, <4>1, <4>3 DEF TypeThreads, Placed
      <4> QED BY <4>2, <4>3
    <3>3. CASE \E i \in 1 .. Len(queue) : c = queue[i]
      BY <1>a, <2>1, <3>3 DEF TypeThreads, Placed
    <3>4. CASE \/ \E w \in Workers : c \in work[w]
               \/ \E i \in 1 .. Len(outq) : c = outq[i]
               \/ c \in pending
      BY <1>a, <2>2, <3>4 DEF TypeThreads, Placed
    <3> QED BY <1>a, <2>3, <3>2, <3>3, <3>4 DEF Placed
  <2> QED BY <2>2, <2>3, NoneDropped
<1>8. ASSUME NEW p \in Producers, SendFails(p)
      PROVE  Tracked'
  <2>1. alive = {} /\ hold[p] # {} /\ UNCHANGED <<out, seq, next>>
    BY <1>8 DEF SendFails
  <2>2. out' # "running"
    BY <1>a, <2>1, EngineAssumption DEF Held, Producers
  <2> QED BY <2>2 DEF Tracked
<1>9. ASSUME NEW w \in Workers, Take(w)
      PROVE  Tracked'
  <2>1. /\ work' = [work EXCEPT ![w] = {Head(queue)}] /\ queue' = Tail(queue)
        /\ queue # << >> /\ work[w] = {}
        /\ UNCHANGED <<seq, next, out, hold, outq, pending>>
    BY <1>9 DEF Take
  <2>a. PICK h : h = Head(queue)
    OBVIOUS
  <2>2. Placed(h)'
    BY <1>a, <2>1, <2>a DEF TypeThreads, Placed
  <2>3. ASSUME NEW c \in Batch, Placed(c)
        PROVE  Placed(c)'
    <3>1. CASE \E v \in Workers : c \in work[v]
      <4>1. PICK v \in Workers : c \in work[v]
        BY <3>1
      <4>2. c \in work'[v]
        BY <1>a, <2>1, <4>1 DEF TypeThreads
      <4> QED BY <4>2 DEF Placed
    <3>2. CASE \E i \in 1 .. Len(queue) : c = queue[i]
      <4>1. PICK i \in 1 .. Len(queue) : c = queue[i]
        BY <3>2
      <4>2. CASE i = 1
        BY <1>a, <2>1, <2>2, <2>a, <4>1, <4>2 DEF TypeThreads
      <4>3. CASE i # 1
        <5>1. i - 1 \in 1 .. Len(queue') /\ c = queue'[i - 1]
          BY <1>a, <2>1, <4>1, <4>3 DEF TypeThreads
        <5> QED BY <1>a, <5>1 DEF TypeThreads, Placed
      <4> QED BY <4>2, <4>3
    <3>3. CASE \/ \E q \in Producers : c \in hold[q]
               \/ \E i \in 1 .. Len(outq) : c = outq[i]
               \/ c \in pending
      BY <1>a, <2>1, <3>3 DEF TypeThreads, Placed
    <3> QED BY <1>a, <2>3, <3>1, <3>2, <3>3 DEF Placed
  <2> QED BY <2>1, <2>3, NoneDropped
<1>10. ASSUME NEW w \in Workers, Emit(w)
       PROVE  Tracked'
  <2>1. PICK b \in work[w] : outq' = Append(outq, b)
    BY <1>10 DEF Emit
  <2>2. /\ work' = [work EXCEPT ![w] = {}]
        /\ UNCHANGED <<seq, next, out, hold, queue, pending>>
    BY <1>10 DEF Emit
  <2>3. ASSUME NEW c \in Batch, Placed(c)
        PROVE  Placed(c)'
    <3>1. Placed(b)'
      <4>1. outq'[Len(outq')] = b /\ Len(outq') \in 1 .. Len(outq')
        BY SMTT(30), <1>a, <2>1 DEF TypeThreads
      <4> QED BY <1>a, <4>1 DEF TypeThreads, Placed
    <3>2. CASE \E v \in Workers : c \in work[v]
      <4>1. PICK v \in Workers : c \in work[v]
        BY <3>2
      <4>2. CASE v = w
        BY <2>1, <3>1, <4>1, <4>2 DEF Held
      <4>3. CASE v # w
        BY <1>a, <2>2, <4>1, <4>3 DEF TypeThreads, Placed
      <4> QED BY <4>2, <4>3
    <3>3. CASE \E i \in 1 .. Len(outq) : c = outq[i]
      BY <1>a, <2>1, <3>3 DEF TypeThreads, Placed
    <3>4. CASE \/ \E q \in Producers : c \in hold[q]
               \/ \E i \in 1 .. Len(queue) : c = queue[i]
               \/ c \in pending
      BY <1>a, <2>2, <3>4 DEF TypeThreads, Placed
    <3> QED BY <1>a, <2>3, <3>2, <3>3, <3>4 DEF Placed
  <2> QED BY <2>2, <2>3, NoneDropped
<1>11. ASSUME NEW w \in Workers, WorkerExit(w)
       PROVE  Tracked'
  <2>1. UNCHANGED <<seq, next, out, hold, queue, outq, pending>>
    BY <1>11 DEF WorkerExit
  <2>2. out = "running" => work' = work
    BY <1>11, <1>a DEF WorkerExit, TypeThreads
  <2> QED BY <2>1, <2>2, NoneDropped DEF Placed
<1>12. CASE Receive
  <2>1. /\ pending' = pending \cup {Head(outq)} /\ outq' = Tail(outq)
        /\ outq # << >> /\ UNCHANGED <<seq, next, out, hold, queue, work>>
    BY <1>12 DEF Receive
  <2>2. ASSUME NEW c \in Batch, Placed(c)
        PROVE  Placed(c)'
    <3>1. CASE \E i \in 1 .. Len(outq) : c = outq[i]
      <4>1. PICK i \in 1 .. Len(outq) : c = outq[i]
        BY <3>1
      <4>2. CASE i = 1
        BY <1>a, <2>1, <4>1, <4>2 DEF TypeThreads, Placed
      <4>3. CASE i # 1
        <5>1. i - 1 \in 1 .. Len(outq') /\ c = outq'[i - 1]
          BY <1>a, <2>1, <4>1, <4>3 DEF TypeThreads
        <5> QED BY <1>a, <5>1 DEF TypeThreads, Placed
      <4> QED BY <4>2, <4>3
    <3>2. CASE \/ \E q \in Producers : c \in hold[q]
               \/ \E v \in Workers : c \in work[v]
               \/ \E i \in 1 .. Len(queue) : c = queue[i]
               \/ c \in pending
      BY <1>a, <2>1, <3>2 DEF TypeThreads, Placed
    <3> QED BY <1>a, <2>2, <3>1, <3>2 DEF Placed
  <2> QED BY <2>1, <2>2, NoneDropped
<1>13. CASE Write
  <2>1. PICK b \in pending : b.seq = next /\ pending' = pending \ {b}
    BY <1>13 DEF Write, InTurn
  <2>2. /\ next' = next + 1 /\ out = "running"
        /\ UNCHANGED <<seq, out, hold, queue, work, outq>>
    BY <1>13 DEF Write
  <2> SUFFICES ASSUME NEW s \in next + 1 .. seq - 1
               PROVE  \E c \in Batch : Placed(c)' /\ c.seq = s
    BY <2>2 DEF Tracked
  <2>3. PICK c \in Batch : Placed(c) /\ c.seq = s
    <3>1. seq \in Nat /\ next \in Nat
      BY <1>a DEF TypeThreads
    <3>2. s \in next .. seq - 1
      BY <3>1
    <3> QED BY <2>2, <3>2 DEF Tracked
  <2>4. c # b
    BY SMTT(30), <1>a, <2>1, <2>3 DEF TypeThreads
  <2>5. Placed(c)'
    BY <2>1, <2>2, <2>3, <2>4 DEF Placed
  <2> QED BY <2>3, <2>5
<1>14. CASE OutputFails \/ Kill \/ Finish
  BY <1>14 DEF OutputFails, Kill, Finish, Tracked
<1>15. ASSUME NEW l \in Listeners, ListenerExit(l) \/ ListenerFails(l)
       PROVE  Tracked'
  <2>1. UNCHANGED <<seq, next, out, hold, queue, work, outq, pending>>
    BY <1>15 DEF ListenerExit, ListenerFails
  <2> QED BY <2>1, NoneDropped DEF Placed
<1>16. CASE UNCHANGED vars
  <2>1. UNCHANGED <<seq, next, out, hold, queue, work, outq, pending>>
    BY <1>16 DEF vars
  <2> QED BY <2>1, NoneDropped DEF Placed
<1> QED
  BY <1>1, <1>2, <1>3, <1>5, <1>6, <1>7, <1>8, <1>9, <1>10, <1>11, <1>12,
     <1>13, <1>14, <1>15, <1>16
     DEF Next, MainStep, OutputStep, WorkerStep, ListenerStep, Producers

\* The places a batch can be in, as Engine's InFlight collects them.
LEMMA PlacedInFlight ==
  ASSUME TypeThreads, NEW b, Placed(b)
  PROVE  b \in InFlight
<1> DEFINE H == UNION {hold[p] : p \in Producers}
           W == UNION {work[w] : w \in Workers}
           Q == {queue[i] : i \in DOMAIN queue}
           O == {outq[i] : i \in DOMAIN outq}
<1>1. (\E p \in Producers : b \in hold[p]) => b \in H
  BY Zenon
<1>2. (\E w \in Workers : b \in work[w]) => b \in W
  BY Zenon
<1>3. (\E i \in 1 .. Len(queue) : b = queue[i]) => b \in Q
  BY DEF TypeThreads
<1>4. (\E i \in 1 .. Len(outq) : b = outq[i]) => b \in O
  BY DEF TypeThreads
<1>5. InFlight = H \cup W \cup Q \cup O \cup pending
  BY DEF InFlight
<1> HIDE DEF H, W, Q, O
<1> QED BY <1>1, <1>2, <1>3, <1>4, <1>5 DEF Placed

\* The invariant holds before the first start.
LEMMA FlowInit == Init => FlowInv
<1> SUFFICES ASSUME Init PROVE FlowInv
  OBVIOUS
<1>1. TypeInv
  BY TypeInit
<1>2. Held
  BY EngineAssumption DEF Init, Held, Producers
<1>3. Tracked
  BY DEF Init, Tracked
<1> QED BY <1>1, <1>2, <1>3 DEF FlowInv

\* Every step keeps the invariant.
LEMMA FlowStep == FlowInv /\ [Next]_vars => FlowInv'
BY TypeStep, HeldStep, HoleStep DEF FlowInv

\* The invariant says that no number is missing.
LEMMA FlowMeansNoHole == FlowInv => NoSequenceHole
<1> SUFFICES ASSUME FlowInv, out = "running", NEW s \in next .. seq - 1
             PROVE  \E b \in InFlight : b.seq = s
  BY DEF NoSequenceHole
<1>1. TypeThreads
  BY DEF FlowInv, TypeInv, TypeOK
<1>2. PICK b \in Batch : Placed(b) /\ b.seq = s
  BY DEF FlowInv, Tracked
<1>3. b \in InFlight
  BY <1>1, <1>2, PlacedInFlight
<1> QED BY <1>2, <1>3

\* A sequence number that was taken is on its way to the output thread for as
\* long as that thread runs, whatever the listeners, the workers and the
\* channels do and whichever of them fail (output_thread's `next`).
THEOREM NoNumberGoesMissing == Spec => []NoSequenceHole
BY FlowInit, FlowStep, FlowMeansNoHole, PTL DEF Spec

-----------------------------------------------------------------------------
(* Every event of a file is stored once.                                   *)

\* The positions up to i at which s holds a record of source f.
Of(s, f, i) == {j \in 1 .. i : s[j].src = f}

Record == [src : Files \cup Listeners, at : Nat]

\* While ingest runs, its offset into a file is what the store holds of it.
Resumed == main = "ingest" => \A f \in Files : consumed[f] = Ingested(f)

FileInv == TypeInv /\ Resumed /\ FileStoredOnce

\* There are finitely many positions.
LEMMA OfFinite ==
  ASSUME NEW s, NEW f, NEW i \in Nat
  PROVE  IsFiniteSet(Of(s, f, i)) /\ Cardinality(Of(s, f, i)) \in Nat
<1>1. IsFiniteSet(1 .. i)
  BY FS_Interval
<1>2. Of(s, f, i) \in SUBSET (1 .. i)
  BY DEF Of
<1>3. IsFiniteSet(Of(s, f, i))
  BY <1>1, <1>2, FS_Subset
<1> QED BY <1>3, FS_CardinalityType

\* An append leaves the positions before it as they were.
LEMMA OfOld ==
  ASSUME NEW s \in Seq(Record), NEW e \in Seq(Record), NEW f,
         NEW i \in 0 .. Len(s)
  PROVE  Of(s \o e, f, i) = Of(s, f, i)
<1>1. \A j \in 1 .. i : (s \o e)[j] = s[j]
  OBVIOUS
<1> QED BY <1>1 DEF Of

\* An append of f's records adds one position for each.
LEMMA OfGrows ==
  ASSUME NEW s \in Seq(Record), NEW e \in Seq(Record), NEW f,
         \A j \in 1 .. Len(e) : e[j].src = f, NEW k \in 0 .. Len(e)
  PROVE  Cardinality(Of(s \o e, f, Len(s) + k))
           = Cardinality(Of(s, f, Len(s))) + k
<1>0. Len(s) \in Nat /\ k \in Nat
  OBVIOUS
<1> DEFINE New == Len(s) + 1 .. Len(s) + k
           Old == Of(s, f, Len(s))
<1>1. Of(s \o e, f, Len(s) + k) = Old \cup New
  <2>1. ASSUME NEW j \in 1 .. Len(s)
        PROVE  (s \o e)[j] = s[j]
    OBVIOUS
  <2>2. ASSUME NEW j \in New
        PROVE  (s \o e)[j].src = f
    <3>1. j - Len(s) \in 1 .. Len(e) /\ (s \o e)[j] = e[j - Len(s)]
      BY <1>0
    <3> QED BY <3>1
  <2>3. 1 .. Len(s) + k = (1 .. Len(s)) \cup New
    BY <1>0
  <2> QED BY <2>1, <2>2, <2>3 DEF Of
<1>2. Old \cap New = {}
  BY <1>0 DEF Of
<1>3. IsFiniteSet(New) /\ Cardinality(New) = k
  <2>1. PICK a \in Int, b \in Int : a = Len(s) + 1 /\ b = Len(s) + k
    BY <1>0
  <2>2. /\ IsFiniteSet(a .. b)
        /\ Cardinality(a .. b) = IF a > b THEN 0 ELSE b - a + 1
    BY FS_Interval
  <2>3. (IF a > b THEN 0 ELSE b - a + 1) = k
    BY <1>0, <2>1
  <2> QED BY <2>1, <2>2, <2>3
<1>4. IsFiniteSet(Old) /\ Cardinality(Old) \in Nat
  BY <1>0, OfFinite
<1> HIDE DEF New, Old
<1>5. Cardinality(Old \cup New) = Cardinality(Old) + k - Cardinality({})
  BY <1>2, <1>3, <1>4, FS_Union
<1>6. Cardinality({}) = 0
  BY FS_EmptySet
<1>7. Cardinality(Old \cup New) = Cardinality(Old) + k
  BY <1>0, <1>4, <1>5, <1>6
<1> QED BY <1>1, <1>7 DEF Old

\* An append of other sources' records adds none.
LEMMA OfOthers ==
  ASSUME NEW s \in Seq(Record), NEW e \in Seq(Record), NEW f,
         \A j \in 1 .. Len(e) : e[j].src # f
  PROVE  Of(s \o e, f, Len(s \o e)) = Of(s, f, Len(s))
<1>0. Len(s) \in Nat /\ Len(s \o e) = Len(s) + Len(e) /\ Len(e) \in Nat
  OBVIOUS
<1>1. ASSUME NEW j \in 1 .. Len(s)
      PROVE  (s \o e)[j] = s[j] /\ j \in 1 .. Len(s \o e)
  BY <1>0
<1>2. ASSUME NEW j \in 1 .. Len(s \o e), j \notin 1 .. Len(s)
      PROVE  (s \o e)[j].src # f
  <2>1. j - Len(s) \in 1 .. Len(e) /\ (s \o e)[j] = e[j - Len(s)]
    BY <1>0, <1>2
  <2> QED BY <2>1
<1> QED BY <1>1, <1>2 DEF Of

\* The resume offset counts the file's positions in the store.
LEMMA IngestedIsOf ==
  ASSUME TypeFiles, NEW f
  PROVE  Ingested(f) = Cardinality(Of(store, f, Len(store)))
<1>1. DOMAIN store = 1 .. Len(store)
  BY DEF TypeFiles
<1> QED BY <1>1 DEF Ingested, Of

\* The same in the next state.
LEMMA IngestedIsOfNext ==
  ASSUME TypeFiles', NEW f
  PROVE  Ingested(f)' = Cardinality(Of(store', f, Len(store')))
<1>1. DOMAIN store' = 1 .. Len(store')
  BY DEF TypeFiles
<1> QED BY <1>1 DEF Ingested, Of

\* One source appends: the records before stay where they were, and of the
\* appended ones those of a file are numbered on from what was stored.
LEMMA StoredOn ==
  ASSUME TypeFiles, TypeFiles', FileStoredOnce, NEW g, NEW e \in Seq(Record),
         store' = store \o e, \A j \in 1 .. Len(e) : e[j].src = g,
         g \in Files => \A j \in 1 .. Len(e) : e[j].at = Ingested(g) + j
  PROVE  /\ FileStoredOnce'
         /\ Ingested(g)' = Ingested(g) + Len(e)
         /\ \A f \in Files \ {g} : Ingested(f)' = Ingested(f)
<1>0. /\ store \in Seq(Record) /\ Len(store) \in Nat /\ Len(e) \in Nat
      /\ Len(store') = Len(store) + Len(e)
      /\ DOMAIN store = 1 .. Len(store) /\ DOMAIN store' = 1 .. Len(store')
  BY DEF TypeFiles, Record
<1>1. Ingested(g)' = Ingested(g) + Len(e)
  <2>1. Cardinality(Of(store \o e, g, Len(store) + Len(e)))
          = Cardinality(Of(store, g, Len(store))) + Len(e)
    <3>1. Len(e) \in 0 .. Len(e)
      BY <1>0
    <3> QED BY <1>0, <3>1, OfGrows
  <2> QED BY <1>0, <2>1, IngestedIsOf, IngestedIsOfNext
<1>2. ASSUME NEW f \in Files \ {g}
      PROVE  Ingested(f)' = Ingested(f)
  <2>1. Of(store \o e, f, Len(store \o e)) = Of(store, f, Len(store))
    BY <1>0, OfOthers
  <2> QED BY <2>1, IngestedIsOf, IngestedIsOfNext
<1>3. ASSUME NEW i \in 1 .. Len(store'), store'[i].src \in Files
      PROVE  store'[i].at = Cardinality(Of(store', store'[i].src, i))
  <2>1. CASE i <= Len(store)
    <3>1. store'[i] = store[i] /\ i \in DOMAIN store /\ i \in 0 .. Len(store)
      BY <1>0, <2>1
    <3>2. store[i].at = Cardinality(Of(store, store[i].src, i))
      BY <1>3, <3>1 DEF FileStoredOnce, Of
    <3>3. Of(store', store[i].src, i) = Of(store, store[i].src, i)
      BY <1>0, <3>1, OfOld
    <3> QED BY <3>1, <3>2, <3>3
  <2>2. CASE i > Len(store)
    <3>1. PICK k \in 1 .. Len(e) : i = Len(store) + k /\ store'[i] = e[k]
      <4>1. i - Len(store) \in 1 .. Len(e) /\ store'[i] = e[i - Len(store)]
        BY <1>0, <2>2
      <4> QED BY <1>0, <4>1
    <3>2. store'[i].src = g /\ store'[i].at = Ingested(g) + k
      BY <1>3, <3>1
    <3>3. Cardinality(Of(store', g, i))
            = Cardinality(Of(store, g, Len(store))) + k
      <4>1. k \in 0 .. Len(e)
        BY <1>0
      <4> QED BY <1>0, <3>1, <4>1, OfGrows
    <3> QED BY <3>2, <3>3, IngestedIsOf
  <2> QED BY <1>0, <2>1, <2>2
<1>4. FileStoredOnce'
  BY <1>0, <1>3 DEF FileStoredOnce, Of
<1> QED BY <1>1, <1>2, <1>4

\* One file's batch, whole or cut short (ingest_file).
LEMMA FileStored ==
  ASSUME TypeInv, TypeFiles', Resumed, FileStoredOnce, main = "ingest",
         NEW f \in Files, NEW n \in 1 .. BatchMax,
         store' = store \o FileEvents(f, n)
  PROVE  /\ FileStoredOnce' /\ Ingested(f)' = consumed[f] + n
         /\ \A g \in Files \ {f} : Ingested(g)' = consumed[g]
<1>0. TypeFiles /\ TypeThreads
  BY DEF TypeInv, TypeOK
<1>1. n \in Nat /\ consumed[f] \in Nat /\ consumed[f] = Ingested(f)
  BY <1>0, EngineAssumption DEF TypeThreads, Resumed
<1>2. PICK e : e = FileEvents(f, n)
  OBVIOUS
<1>3. /\ e \in Seq(Record) /\ Len(e) = n
      /\ \A j \in 1 .. Len(e) : e[j].src = f /\ e[j].at = Ingested(f) + j
  BY <1>1, <1>2 DEF FileEvents, Record
<1>4. /\ FileStoredOnce' /\ Ingested(f)' = Ingested(f) + Len(e)
      /\ \A g \in Files \ {f} : Ingested(g)' = Ingested(g)
  BY <1>0, <1>2, <1>3, StoredOn
<1> QED BY <1>1, <1>3, <1>4 DEF Resumed

\* A listener's batch, whole or cut short: no file's records among it.
LEMMA ListenerStored ==
  ASSUME TypeFiles, TypeFiles', FileStoredOnce, NEW l \in Listeners,
         NEW n \in 1 .. BatchMax, store' = store \o ListenerEvents(l, n)
  PROVE  FileStoredOnce' /\ \A f \in Files : Ingested(f)' = Ingested(f)
<1>1. n \in Nat /\ l \notin Files
  BY EngineAssumption
<1>2. PICK e : e = ListenerEvents(l, n)
  OBVIOUS
<1>3. e \in Seq(Record) /\ \A j \in 1 .. Len(e) : e[j].src = l
  BY <1>1, <1>2 DEF ListenerEvents, Record
<1>4. FileStoredOnce' /\ \A f \in Files \ {l} : Ingested(f)' = Ingested(f)
  BY <1>1, <1>2, <1>3, StoredOn
<1> QED BY <1>1, <1>4

\* An append that is cut short stores a prefix of what was next.
LEMMA HalfStoredOnce ==
  ASSUME TypeInv, TypeFiles', Resumed, FileStoredOnce, NEW p \in Producers,
         HalfStored(p)
  PROVE  /\ FileStoredOnce'
         /\ p # Main => \A f \in Files : Ingested(f)' = Ingested(f)
<1>0. TypeFiles /\ TypeThreads
  BY DEF TypeInv, TypeOK
<1>1. CASE UNCHANGED store
  BY <1>1 DEF FileStoredOnce, Ingested
<1>2. ASSUME NEW f \in Files, NEW n \in 1 .. BatchMax, p = Main,
             main = "ingest", store' = store \o FileEvents(f, n)
      PROVE  FileStoredOnce'
  BY <1>2, FileStored
<1>3. ASSUME NEW n \in 1 .. BatchMax, p \in listening,
             store' = store \o ListenerEvents(p, n)
      PROVE  FileStoredOnce' /\ \A f \in Files : Ingested(f)' = Ingested(f)
  BY <1>0, <1>3, ListenerStored DEF TypeThreads
<1> QED BY <1>1, <1>2, <1>3 DEF HalfStored

\* Every step of the engine stores what comes next in a file.
LEMMA FileStep ==
  ASSUME TypeInv, TypeInv', Resumed, FileStoredOnce, [Next]_vars
  PROVE  Resumed' /\ FileStoredOnce'
<1>a. TypeFiles /\ TypeFiles' /\ TypeThreads
  BY DEF TypeInv, TypeOK
<1> USE DEF disk, chans, writer, ingestV
<1>b. ASSUME UNCHANGED store
      PROVE  FileStoredOnce' /\ \A f \in Files : Ingested(f)' = Ingested(f)
  BY <1>b DEF FileStoredOnce, Ingested
<1>1. CASE RecoverScan \/ RecoverPlan \/ RecoverDone
  <2>1. /\ UNCHANGED store
        /\ main' = "ingest" =>
             consumed' = [f \in Files |-> Ingested(f)] \/ main = "ingest"
    BY <1>1 DEF RecoverScan, RecoverPlan, RecoverDone, BeginIngest
  <2>2. main # "ingest"
    BY <1>1 DEF RecoverScan, RecoverPlan, RecoverDone
  <2> QED BY <1>b, <2>1, <2>2 DEF Resumed
<1>2. CASE Start \/ NewOutput \/ Stop \/ RecoverTruncate \/ RecoverBatch
           \/ IngestDone \/ JoinListeners \/ Finish \/ Receive \/ Write
           \/ Flush \/ OutputFails \/ OutputDone \/ UNCHANGED vars
  <2>1. UNCHANGED store /\ (main' = "ingest" => UNCHANGED <<main, consumed>>)
    BY <1>2 DEF Start, NewOutput, Stop, RecoverTruncate, RecoverBatch,
                IngestDone, JoinListeners, Finish, Receive, Write, Flush,
                OutputFails, OutputDone, vars
  <2> QED BY <1>b, <2>1 DEF Resumed
<1>3. ASSUME NEW f \in Files, NEW n \in 1 .. BatchMax, IngestBatch(f, n)
      PROVE  Resumed' /\ FileStoredOnce'
  <2>1. /\ main = "ingest" /\ store' = store \o FileEvents(f, n)
        /\ consumed' = [consumed EXCEPT ![f] = @ + n]
    BY <1>3 DEF IngestBatch, StoreBatch
  <2>2. /\ FileStoredOnce' /\ Ingested(f)' = consumed[f] + n
        /\ \A g \in Files \ {f} : Ingested(g)' = consumed[g]
    BY <1>a, <2>1, FileStored
  <2>3. \A g \in Files : consumed'[g] = Ingested(g)'
    BY <1>a, <2>1, <2>2 DEF TypeThreads
  <2> QED BY <2>2, <2>3 DEF Resumed
<1>4. ASSUME NEW l \in Listeners, NEW n \in 1 .. BatchMax, ListenerBatch(l, n)
      PROVE  Resumed' /\ FileStoredOnce'
  <2>1. /\ store' = store \o ListenerEvents(l, n)
        /\ UNCHANGED <<main, consumed>>
    BY <1>4 DEF ListenerBatch, StoreBatch
  <2>2. FileStoredOnce' /\ \A f \in Files : Ingested(f)' = Ingested(f)
    BY <1>a, <2>1, ListenerStored
  <2> QED BY <2>1, <2>2 DEF Resumed
<1>5. ASSUME NEW p \in Producers, Send(p) \/ SendFails(p)
      PROVE  Resumed' /\ FileStoredOnce'
  <2>1. UNCHANGED store /\ (main' = "ingest" => UNCHANGED <<main, consumed>>)
    BY <1>5 DEF Send, SendFails
  <2> QED BY <1>b, <2>1 DEF Resumed
<1>6. ASSUME NEW l \in Listeners, ListenerExit(l)
      PROVE  Resumed' /\ FileStoredOnce'
  BY <1>6, <1>b DEF ListenerExit, Resumed
<1>7. ASSUME NEW w \in Workers, Take(w) \/ Emit(w) \/ WorkerExit(w)
      PROVE  Resumed' /\ FileStoredOnce'
  BY <1>7, <1>b DEF Take, Emit, WorkerExit, Resumed
<1>8. CASE Kill
  <2>1. main' # "ingest" /\ \E p \in Producers : HalfStored(p)
    BY <1>8 DEF Kill
  <2> QED BY <1>a, <2>1, HalfStoredOnce DEF Resumed
<1>9. CASE MainFails
  <2>1. main' # "ingest" /\ HalfStored(Main) /\ Main \in Producers
    BY <1>9 DEF MainFails, Producers
  <2> QED BY <1>a, <2>1, HalfStoredOnce DEF Resumed
<1>10. ASSUME NEW l \in Listeners, ListenerFails(l)
       PROVE  Resumed' /\ FileStoredOnce'
  <2>1. HalfStored(l) /\ UNCHANGED <<main, consumed>>
    BY <1>10 DEF ListenerFails
  <2>2. l \in Producers /\ l # Main
    BY EngineAssumption DEF Producers
  <2>3. FileStoredOnce' /\ \A f \in Files : Ingested(f)' = Ingested(f)
    BY <1>a, <2>1, <2>2, HalfStoredOnce
  <2> QED BY <2>1, <2>3 DEF Resumed
<1> QED
  BY <1>1, <1>2, <1>3, <1>4, <1>5, <1>6, <1>7, <1>8, <1>9, <1>10
     DEF Next, MainStep, OutputStep, WorkerStep, ListenerStep, Producers

\* Every event of a file is stored once and in file order, whatever was killed
\* or failed inside an append and whoever appends beside ingest (the resume
\* offset of ingest_file and ingested_bytes).
THEOREM EventsStoredOnce == Spec => []FileStoredOnce
<1>1. Init => FileInv
  <2> SUFFICES ASSUME Init PROVE FileInv
    OBVIOUS
  <2>1. Resumed
    BY DEF Init, Resumed
  <2>2. FileStoredOnce
    BY DEF Init, FileStoredOnce
  <2> QED BY <2>1, <2>2, TypeInit DEF FileInv
<1>2. FileInv /\ [Next]_vars => FileInv'
  BY TypeStep, FileStep DEF FileInv
<1>3. FileInv => FileStoredOnce
  BY DEF FileInv
<1> QED BY <1>1, <1>2, <1>3, PTL DEF Spec

-----------------------------------------------------------------------------
(* The order of the output (without listeners).                            *)
(*                                                                         *)
(* OutputInOrder speaks of the file only.  What makes it inductive is the  *)
(* hand-over from issue to output: a function F gives for every sequence   *)
(* number the raw id its batch starts at, so that a batch wherever it is   *)
(* covers F[seq] up to F[seq + 1], the file and the BufWriter end where    *)
(* the batch in turn starts, and the next batch issued starts at F[seq].   *)
(* The invariant also says where the output begins, which a clean stop's   *)
(* completeness needs.                                                     *)


\* s is the ids from, from + 1, ...
Consecutive(s, from) == \A i \in 1 .. Len(s) : s[i] = from + i - 1

Early == {"scan", "truncate", "plan"}

Late == {"recover", "ingest", "join", "finish"}

\* No batch is on its way and no line is buffered.
Empty ==
  /\ hold[Main] = {} /\ queue = << >> /\ outq = << >> /\ pending = {}
  /\ wbuf = << >> /\ \A w \in Workers : work[w] = {}

\* Where the threads are: nothing moves before recovery has planned, a worker
\* that is gone holds nothing, and neither does an output thread that is gone.
Idle ==
  /\ main = "down" <=> out = "off"
  /\ main \in Early \cup {"down"} => Empty /\ seq = 0 /\ next = 0
  /\ \A w \in Workers : w \notin alive => work[w] = {}
  /\ out \in {"failed", "done"} => outq = << >> /\ wbuf = << >>
  /\ main \in {"join", "finish"} => hold[Main] = {}

\* What recovery relies on and establishes: a fresh output is empty, the plan
\* continues behind the last line, and no batch is written behind a torn one
\* (a run that failed before it removed the torn line has no batch to write).
Recovery ==
  /\ meta = FALSE => main = "down" /\ output = << >> /\ torn = FALSE
  /\ main = "scan" /\ prior = FALSE =>
       output = << >> /\ torn = FALSE /\ base = Len(store)
  /\ main = "truncate" => rec.keep = Len(output)
  /\ main \in {"truncate", "plan"} =>
       rec.first = IF output = << >> THEN 0 ELSE output[Len(output)] + 1
  /\ main = "plan" => torn = FALSE
  /\ main \in {"recover", "ingest"} /\ out = "running" => torn = FALSE
  /\ main \in Late /\ out = "running" => torn = FALSE \/ Empty
  /\ main = "recover" => rec.next <= rec.total /\ rec.total = Len(store)

\* The file and the BufWriter are one run of ids that starts at o.
Stream(o) ==
  /\ Consecutive(output, o)
  /\ Consecutive(wbuf, o + Len(output))
  /\ o + Len(output) + Len(wbuf) <= Len(store)

\* Batch b is on its way to the file.
OnWay(b) ==
  \/ b \in hold[Main] \/ b \in pending
  \/ \E w \in Workers : b \in work[w]
  \/ \E i \in 1 .. Len(queue) : b = queue[i]
  \/ \E i \in 1 .. Len(outq) : b = outq[i]

\* Batch b covers the ids F assigns to its sequence number.
Covers(b, F) ==
  b.seq < seq /\ F[b.seq] = b.first /\ F[b.seq + 1] = b.first + b.n

Chain(F, o) ==
  /\ next <= seq
  /\ F[next] = o + Len(output) + Len(wbuf)
  /\ main = "recover" => F[seq] = rec.next
  /\ main = "ingest" \/ (main \in {"join", "finish"} /\ failed = FALSE) =>
       F[seq] = Len(store)
  /\ \A b \in Batch : OnWay(b) => Covers(b, F)

\* The run of ids starts no later than the first id the output answers for.
Anchored(o) ==
  output # << >> \/ (main \in Late /\ out = "running") => o <= base

Ordered ==
  \E o \in 0 .. Len(store) :
    /\ Stream(o) /\ Anchored(o)
    /\ main \in Late /\ out = "running" =>
         \E F \in [0 .. seq -> 0 .. Len(store)] : Chain(F, o)

OrderInv == TypeInv /\ Idle /\ Recovery /\ Ordered

\* A step that writes: the file goes on by the ids that follow, of records that
\* were stored before.
Extended ==
  \E o \in Nat : /\ Consecutive(output, o) /\ Consecutive(output', o)
                 /\ Len(output) <= Len(output')
                 /\ o + Len(output') <= Len(store)
-----------------------------------------------------------------------------
(* The invariant is inductive.                                             *)

\* A write of nothing changes nothing, on a whole file or a torn one.
LEMMA NothingWritten ==
  ASSUME TypeFiles, TypeFlags, wbuf = << >>
  PROVE  /\ Appended(wbuf) = output
         /\ \A k \in 0 .. Len(wbuf), cut \in BOOLEAN :
              PartWritten(k, cut) => output' = output /\ torn' = torn
<1>1. Appended(<< >>) = output
  <2>1. output \o << >> = output
    BY DEF TypeFiles
  <2> QED BY <2>1 DEF Appended
<1>2. ASSUME NEW k \in 0 .. Len(wbuf), NEW cut \in BOOLEAN, PartWritten(k, cut)
      PROVE  output' = output /\ torn' = torn
  <2>1. k = 0 /\ SubSeq(wbuf, 1, k) = << >>
    OBVIOUS
  <2>2. output' = output
    BY <1>1, <1>2, <2>1 DEF PartWritten
  <2>3. torn' = (torn \/ (cut /\ wbuf # << >>))
    BY <1>2, <2>1 DEF PartWritten
  <2>4. torn' = torn
    BY <2>3 DEF TypeFlags
  <2> QED BY <2>2, <2>4
<1> QED BY <1>1, <1>2

\* Every step keeps the threads as Idle has them (start, finish, send_batch,
\* worker_thread, output_thread).
LEMMA IdleStep ==
  ASSUME Listeners = {}, TypeInv, Idle, [Next]_vars
  PROVE  Idle'
<1> USE DEF TypeInv, TypeOK, TypeThreads, Idle, disk, chans, writer, ingestV
<1>1. CASE Start
  BY <1>1 DEF Start, Empty, Early
<1>2. CASE NewOutput
  BY <1>2 DEF NewOutput, Empty, Early
<1>3. CASE Stop
  BY <1>3 DEF Stop, Empty, Early
<1>4. CASE RecoverScan
  BY <1>4 DEF RecoverScan, BeginIngest, Empty, Early
<1>5. CASE RecoverTruncate
  BY <1>5 DEF RecoverTruncate, Empty, Early
<1>6. CASE RecoverPlan
  BY <1>6 DEF RecoverPlan, BeginIngest, Empty, Early
<1>7. CASE RecoverBatch
  BY <1>7 DEF RecoverBatch, Empty, Early
<1>8. CASE RecoverDone
  BY <1>8 DEF RecoverDone, BeginIngest, Empty, Early
<1>9. CASE IngestDone
  BY <1>9 DEF IngestDone, Empty, Early
<1>10. CASE JoinListeners
  BY <1>10 DEF JoinListeners, Empty, Early
<1>11. CASE Finish
  BY <1>11 DEF Finish, Empty, Early
<1>12. ASSUME NEW f \in Files, NEW n \in 1 .. BatchMax, IngestBatch(f, n)
       PROVE  Idle'
  BY <1>12 DEF IngestBatch, StoreBatch, Empty, Early
<1>13. CASE Send(Main)
  BY <1>13 DEF Send, Empty, Early
<1>14. CASE SendFails(Main)
  BY <1>14 DEF SendFails, Empty, Early, Producers
<1>15. ASSUME NEW w \in Workers, Take(w)
       PROVE  Idle'
  BY <1>15 DEF Take, Empty, Early
<1>16. ASSUME NEW w \in Workers, Emit(w)
       PROVE  Idle'
  BY <1>16 DEF Emit, Empty, Early
<1>17. ASSUME NEW w \in Workers, WorkerExit(w)
       PROVE  Idle'
  BY <1>17 DEF WorkerExit, Empty, Early
<1>18. CASE Receive
  BY <1>18 DEF Receive, Empty, Early
<1>19. CASE Write
  BY <1>19 DEF Write, InTurn, Empty, Early
<1>20. CASE Flush
  BY <1>20 DEF Flush, Empty, Early
<1>21. CASE OutputFails
  BY <1>21 DEF OutputFails, Empty, Early
<1>22. CASE OutputDone
  BY <1>22 DEF OutputDone, Empty, Early
<1>23. CASE Kill
  BY <1>23 DEF Kill, Empty, Early, Producers
<1>24. CASE MainFails
  BY <1>24 DEF MainFails, Empty, Early
<1>25. CASE UNCHANGED vars
  BY <1>25 DEF vars, Empty, Early
<1> QED
  BY <1>1, <1>2, <1>3, <1>4, <1>5, <1>6, <1>7, <1>8, <1>9, <1>10, <1>11, <1>12,
     <1>13, <1>14, <1>15, <1>16, <1>17, <1>18, <1>19, <1>20, <1>21, <1>22,
     <1>23, <1>24, <1>25
     DEF Next, MainStep, OutputStep, WorkerStep

\* A recovered batch takes some of the records that are left.
LEMMA RecoverBatchStep ==
  ASSUME TypeOK, Recovery, RecoverBatch
  PROVE  /\ main' = "recover" /\ rec'.next <= rec'.total
         /\ rec'.total = Len(store')
         /\ \E n \in Nat :
              /\ hold' = [hold EXCEPT ![Main] =
                            {[seq |-> seq, first |-> rec.next, n |-> n]}]
              /\ rec'.next = rec.next + n
<1>1. /\ rec \in [keep : Nat, first : Nat, next : Nat, total : Nat]
      /\ rec.next \in Nat /\ rec.total \in Nat
  BY DEF TypeOK, TypeThreads
<1>2. rec.next < rec.total /\ main = "recover" /\ rec.total = Len(store)
  BY DEF RecoverBatch, Recovery
<1>3. rec.total - rec.next \in Nat
  BY <1>1, <1>2
<1>4. PICK n \in Nat :
        /\ n <= rec.total - rec.next
        /\ hold' = [hold EXCEPT ![Main] =
                      {[seq |-> seq, first |-> rec.next, n |-> n]}]
        /\ rec' = [rec EXCEPT !.next = rec.next + n]
  <2> DEFINE left == rec.total - rec.next
             m == IF left < BatchMax THEN left ELSE BatchMax
  <2>1. m \in Nat /\ m <= left
    BY <1>3, EngineAssumption
  <2>2. /\ hold' = [hold EXCEPT ![Main] =
                      {[seq |-> seq, first |-> rec.next, n |-> m]}]
        /\ rec' = [rec EXCEPT !.next = rec.next + m]
    BY DEF RecoverBatch
  <2> HIDE DEF m
  <2> QED BY <2>1, <2>2
<1>5. rec'.next = rec.next + n /\ rec'.total = rec.total
  BY <1>1, <1>4
<1>6. rec'.next <= rec'.total
  BY <1>1, <1>4, <1>5
<1> QED BY <1>2, <1>4, <1>5, <1>6 DEF RecoverBatch, disk

\* Every step keeps what recovery relies on (Live::open, recover_output,
\* output_thread).
LEMMA RecoveryStep ==
  ASSUME Listeners = {}, TypeInv, Idle, Recovery, Ordered, [Next]_vars
  PROVE  Recovery'
<1> USE DEF TypeInv, TypeOK, TypeFiles, TypeThreads, Recovery, Early, Late,
            disk, chans, writer, ingestV
<1>1. CASE Start
  BY <1>1 DEF Start, Idle, Empty
<1>2. CASE NewOutput
  BY <1>2 DEF NewOutput, Idle, Empty
<1>3. CASE Stop
  BY <1>3 DEF Stop, Idle, Empty
<1>4. CASE RecoverScan
  <2>1. CASE prior = FALSE
    BY <1>4, <2>1 DEF RecoverScan, BeginIngest, Idle, Empty
  <2>2. CASE prior = TRUE
    <3>1. output # << >> => RawIdOf(output[Len(output)]) = {output[Len(output)]}
      <4>1. SUFFICES ASSUME output # << >>
                     PROVE  output[Len(output)] # Glued
        BY DEF RawIdOf
      <4>2. PICK o \in Nat : Consecutive(output, o)
        BY DEF Ordered, Stream
      <4>3. output[Len(output)] = o + Len(output) - 1 /\ Len(output) >= 1
        BY <4>1, <4>2 DEF Consecutive
      <4> QED BY <4>3 DEF Glued
    <3>2. /\ rec'.keep = Len(output)
          /\ rec'.first = IF output = << >> THEN 0 ELSE output[Len(output)] + 1
      BY <1>4, <2>2, <3>1 DEF RecoverScan
    <3>3. main' = "truncate" \/ (main' = "plan" /\ torn = FALSE)
      BY <1>4, <2>2 DEF RecoverScan, TypeFlags
    <3> QED BY <1>4, <3>2, <3>3 DEF RecoverScan
  <2> QED BY <2>1, <2>2 DEF TypeFlags
<1>5. CASE RecoverTruncate
  BY <1>5 DEF RecoverTruncate, Idle, Empty
<1>6. CASE RecoverPlan
  <2>1. CASE rec.first >= Len(store)
    BY <1>6, <2>1 DEF RecoverPlan, BeginIngest
  <2>2. CASE rec.first < Len(store)
    <3>1. /\ main' = "recover"
          /\ rec' = [rec EXCEPT !.next = rec.first, !.total = Len(store)]
      BY SMTT(30), <1>6, <2>2 DEF RecoverPlan
    <3>2. rec'.next = rec.first /\ rec'.total = Len(store)
      BY <3>1
    <3> QED BY <1>6, <2>2, <3>1, <3>2 DEF RecoverPlan
  <2>3. rec.first >= Len(store) \/ rec.first < Len(store)
    OBVIOUS
  <2> QED BY <2>1, <2>2, <2>3, Zenon
<1>7. CASE RecoverBatch
  <2>1. main' = "recover" /\ rec'.next <= rec'.total /\ rec'.total = Len(store')
    BY <1>7, RecoverBatchStep
  <2> QED BY <1>7, <2>1 DEF RecoverBatch
<1>8. CASE RecoverDone
  BY <1>8 DEF RecoverDone, BeginIngest, Idle, Empty
<1>9. CASE IngestDone
  BY <1>9 DEF IngestDone, Idle, Empty
<1>10. CASE JoinListeners
  BY <1>10 DEF JoinListeners, Idle, Empty
<1>11. CASE Finish
  BY <1>11 DEF Finish, Idle, Empty
<1>12. ASSUME NEW f \in Files, NEW n \in 1 .. BatchMax, IngestBatch(f, n)
       PROVE  Recovery'
  BY <1>12 DEF IngestBatch, StoreBatch, Idle, Empty
<1>13. CASE Send(Main)
  BY <1>13 DEF Send, Idle, Empty
<1>14. CASE SendFails(Main)
  BY <1>14 DEF SendFails, Idle, Empty
<1>15. ASSUME NEW w \in Workers, Take(w)
       PROVE  Recovery'
  BY <1>15 DEF Take, Idle, Empty
<1>16. ASSUME NEW w \in Workers, Emit(w)
       PROVE  Recovery'
  BY <1>16 DEF Emit, Idle, Empty
<1>17. ASSUME NEW w \in Workers, WorkerExit(w)
       PROVE  Recovery'
  BY <1>17 DEF WorkerExit, Idle, Empty
<1>18. CASE Receive
  BY <1>18 DEF Receive, Idle, Empty
<1>19. CASE Write
  BY <1>19 DEF Write, InTurn, Idle, Empty
<1>20. CASE Flush
  BY <1>20 DEF Flush, Idle, Empty
<1>21. CASE OutputFails
  <2>1. CASE main \in Late
    BY <1>21, <2>1 DEF OutputFails
  <2>2. CASE main \in Early
    <3>1. output' = output /\ torn' = torn
      BY <1>21, <2>2, NothingWritten DEF OutputFails, Idle, Empty
    <3> QED BY <1>21, <2>2, <3>1 DEF OutputFails
  <2> QED BY <1>21, <2>1, <2>2 DEF OutputFails, Idle
<1>22. CASE OutputDone
  <2>1. CASE main \in Late
    BY <1>22, <2>1 DEF OutputDone
  <2>2. CASE main \in Early
    <3>1. output' = output /\ torn' = torn
      BY <1>22, <2>2, NothingWritten DEF OutputDone, Idle, Empty
    <3> QED BY <1>22, <2>2, <3>1 DEF OutputDone
  <2> QED BY <1>22, <2>1, <2>2 DEF OutputDone, Idle
<1>23. CASE Kill
  BY <1>23 DEF Kill, Idle, Empty
<1>24. CASE MainFails
  <2>1. torn' = torn /\ output' = output /\ main' = "join" /\ meta' = meta
    BY <1>24 DEF MainFails
  <2>2. CASE main \in Early
    BY <1>24, <2>1, <2>2 DEF MainFails, Idle, Empty
  <2>3. CASE main \in {"recover", "ingest"}
    BY <1>24, <2>1, <2>3 DEF MainFails
  <2> QED BY <1>24, <2>2, <2>3 DEF MainFails
<1>25. CASE UNCHANGED vars
  BY <1>25 DEF vars, Idle, Empty
<1> QED
  BY <1>1, <1>2, <1>3, <1>4, <1>5, <1>6, <1>7, <1>8, <1>9, <1>10, <1>11, <1>12,
     <1>13, <1>14, <1>15, <1>16, <1>17, <1>18, <1>19, <1>20, <1>21, <1>22,
     <1>23, <1>24, <1>25
     DEF Next, MainStep, OutputStep, WorkerStep

-----------------------------------------------------------------------------
(* Lines in order.                                                         *)

\* Consecutive ids, then the ids that follow.
LEMMA ConsecutiveConcat ==
  ASSUME NEW S, NEW s \in Seq(S), NEW t \in Seq(S), NEW o \in Nat,
         Consecutive(s, o), Consecutive(t, o + Len(s))
  PROVE  Consecutive(s \o t, o) /\ Len(s \o t) = Len(s) + Len(t)
<1>1. Len(s \o t) = Len(s) + Len(t)
  OBVIOUS
<1>2. ASSUME NEW i \in 1 .. Len(s) + Len(t)
      PROVE  (s \o t)[i] = o + i - 1
  <2>1. CASE i <= Len(s)
    <3>1. (s \o t)[i] = s[i]
      BY <2>1
    <3> QED BY <2>1, <3>1 DEF Consecutive
  <2>2. CASE i > Len(s)
    <3>1. (s \o t)[i] = t[i - Len(s)] /\ i - Len(s) \in 1 .. Len(t)
      BY <2>2
    <3> QED BY <3>1 DEF Consecutive
  <2> QED BY <2>1, <2>2
<1> QED BY <1>1, <1>2 DEF Consecutive

\* A prefix of consecutive ids.
LEMMA ConsecutivePrefix ==
  ASSUME NEW S, NEW s \in Seq(S), NEW k \in 0 .. Len(s), NEW o \in Nat,
         Consecutive(s, o)
  PROVE  /\ SubSeq(s, 1, k) \in Seq(S) /\ Len(SubSeq(s, 1, k)) = k
         /\ Consecutive(SubSeq(s, 1, k), o)
BY DEF Consecutive

\* The lines of a batch.
LEMMA IdsConsecutive ==
  ASSUME NEW first \in Nat, NEW n \in Nat
  PROVE  Consecutive(Ids(first, n), first)
BY IdsType DEF Consecutive

\* What a write of the lines that follow the file's leaves, on a whole file.
LEMMA AppendedInOrder ==
  ASSUME TypeFiles, NEW o \in Nat, NEW lines \in Seq(Nat),
         torn = FALSE \/ lines = << >>,
         Consecutive(output, o), Consecutive(lines, o + Len(output))
  PROVE  /\ Consecutive(Appended(lines), o)
         /\ Len(Appended(lines)) = Len(output) + Len(lines)
<1>1. Appended(lines) = output \o lines
  BY DEF Appended
<1>2. output \in Seq(Int) /\ lines \in Seq(Int)
  BY DEF TypeFiles, Glued
<1> QED BY <1>1, <1>2, ConsecutiveConcat

\* A write that stops early leaves lines in order (OutputFails, Kill).
LEMMA PartWrittenInOrder ==
  ASSUME TypeFiles, NEW o \in Nat, Stream(o), torn = FALSE \/ wbuf = << >>,
         NEW k \in 0 .. Len(wbuf), NEW cut \in BOOLEAN, PartWritten(k, cut)
  PROVE  /\ Consecutive(output', o)
         /\ o + Len(output') <= Len(store)
<1>1. wbuf \in Seq(Nat) /\ Len(output) \in Nat /\ Len(wbuf) \in Nat
      /\ Len(store) \in Nat
  BY DEF TypeFiles
<1>2. /\ SubSeq(wbuf, 1, k) \in Seq(Nat) /\ Len(SubSeq(wbuf, 1, k)) = k
      /\ Consecutive(SubSeq(wbuf, 1, k), o + Len(output))
  BY <1>1, ConsecutivePrefix DEF Stream
<1>3. torn = FALSE \/ SubSeq(wbuf, 1, k) = << >>
  BY <1>1, <1>2
<1>4. /\ Consecutive(Appended(SubSeq(wbuf, 1, k)), o)
      /\ Len(Appended(SubSeq(wbuf, 1, k))) = Len(output) + k
  BY <1>2, <1>3, AppendedInOrder DEF Stream
<1>5. output' = Appended(SubSeq(wbuf, 1, k))
  BY DEF PartWritten
<1> QED BY <1>1, <1>4, <1>5 DEF Stream

-----------------------------------------------------------------------------
(* Batches on their way.                                                   *)

\* While nothing is issued or written, only the stream has to be shown.
LEMMA StreamOnly ==
  ASSUME TypeFiles', NEW o \in Nat, Stream(o)', Anchored(o)',
         ~(main' \in Late /\ out' = "running")
  PROVE  Ordered'
<1>1. o \in 0 .. Len(store')
  BY DEF Stream, TypeFiles
<1> QED BY <1>1 DEF Ordered

\* Batches move on or are dropped and everything else that Chain speaks of
\* stays.
LEMMA Carried ==
  ASSUME TypeFiles, Ordered, UNCHANGED <<store, output, wbuf, seq, next, base>>,
         \A b \in Batch : OnWay(b)' => OnWay(b),
         main' \in Late /\ out' = "running" =>
           /\ main \in Late /\ out = "running"
           /\ main' = "recover" => main = "recover" /\ rec' = rec
           /\ main' = "ingest" =>
                main = "ingest" \/ (main = "recover" /\ rec.next = Len(store))
           /\ main' \in {"join", "finish"} /\ failed' = FALSE =>
                \/ main = "ingest"
                \/ main \in {"join", "finish"} /\ failed = FALSE
  PROVE  Ordered'
<1>1. PICK o \in 0 .. Len(store) :
        /\ Stream(o) /\ Anchored(o)
        /\ main \in Late /\ out = "running" =>
             \E F \in [0 .. seq -> 0 .. Len(store)] : Chain(F, o)
  BY DEF Ordered
<1>2. Stream(o)' /\ Anchored(o)'
  BY <1>1 DEF Stream, Anchored
<1>3. ASSUME main' \in Late, out' = "running"
      PROVE  \E F \in [0 .. seq' -> 0 .. Len(store')] : Chain(F, o)'
  <2>1. PICK F \in [0 .. seq -> 0 .. Len(store)] : Chain(F, o)
    BY <1>1, <1>3
  <2>2. \A b \in Batch : OnWay(b)' => Covers(b, F)'
    BY <2>1 DEF Chain, Covers
  <2>3. Chain(F, o)'
    BY <1>3, <2>1, <2>2 DEF Chain
  <2> QED BY <2>1, <2>3
<1> QED BY <1>1, <1>2, <1>3 DEF Ordered

\* Ingest has failed, perhaps inside an append: the store has grown, and no
\* batch is issued any more (MainFails).
LEMMA Grown ==
  ASSUME TypeFiles, TypeFiles', Ordered,
         UNCHANGED <<output, wbuf, seq, next, base>>,
         Len(store') >= Len(store), main \in Late, out' = out, main' = "join",
         failed' = TRUE,
         \A b \in Batch : OnWay(b)' => OnWay(b)
  PROVE  Ordered'
<1>0. /\ Len(store) \in Nat /\ Len(store') \in Nat
      /\ Len(output) \in Nat /\ Len(wbuf) \in Nat
  BY DEF TypeFiles
<1>1. PICK o \in 0 .. Len(store) :
        /\ Stream(o) /\ Anchored(o)
        /\ main \in Late /\ out = "running" =>
             \E F \in [0 .. seq -> 0 .. Len(store)] : Chain(F, o)
  BY DEF Ordered
<1>2. Stream(o)' /\ Anchored(o)' /\ o \in 0 .. Len(store')
  BY <1>0, <1>1 DEF Stream, Anchored, Late
<1>3. ASSUME out' = "running"
      PROVE  \E F \in [0 .. seq' -> 0 .. Len(store')] : Chain(F, o)'
  <2>1. PICK F \in [0 .. seq -> 0 .. Len(store)] : Chain(F, o)
    BY <1>1, <1>3
  <2>2. F \in [0 .. seq' -> 0 .. Len(store')]
    BY <1>0
  <2>3. \A b \in Batch : OnWay(b)' => Covers(b, F)'
    BY <2>1 DEF Chain, Covers
  <2>4. Chain(F, o)'
    BY <2>1, <2>3 DEF Chain
  <2> QED BY <2>2, <2>4
<1> QED BY <1>2, <1>3 DEF Ordered

\* Recovery is over or was not needed: the first batch starts behind the last
\* line.
LEMMA EnterLate ==
  ASSUME TypeFiles', NEW o \in Nat, Consecutive(output', o), wbuf' = << >>,
         \A b \in Batch : ~OnWay(b)', seq' = 0, next' = 0, o <= base',
         main' \in {"join", "finish"} => failed' = TRUE,
         o + Len(output') <= Len(store'),
         main' = "recover" => rec'.next = o + Len(output'),
         main' = "ingest" => Len(store') = o + Len(output')
  PROVE  Ordered'
<1>1. Len(output') \in Nat /\ Len(store') \in Nat /\ Len(wbuf') = 0
  BY DEF TypeFiles
<1>2. Stream(o)' /\ Anchored(o)'
  BY <1>1 DEF Stream, Consecutive, Anchored
<1>3. PICK e \in Nat : e = o + Len(output')
  BY <1>1
<1>4. PICK F \in [0 .. 0 -> {e}] : TRUE
  <2>1. [i \in 0 .. 0 |-> e] \in [0 .. 0 -> {e}]
    OBVIOUS
  <2> QED BY <2>1
<1>5. F \in [0 .. seq' -> 0 .. Len(store')] /\ F[0] = e
  BY <1>1, <1>3, <1>4
<1>6. Chain(F, o)'
  BY <1>1, <1>3, <1>5 DEF Chain
<1>7. o \in 0 .. Len(store')
  BY <1>1
<1> QED BY <1>2, <1>5, <1>6, <1>7 DEF Ordered

\* Batches that only move, or are dropped.
LEMMA Moves ==
  ASSUME TypeThreads, TypeThreads', NEW b \in Batch, OnWay(b)',
         \/ Send(Main) \/ SendFails(Main) \/ Receive
         \/ \E w \in Workers : Take(w) \/ Emit(w) \/ WorkerExit(w)
  PROVE  OnWay(b)
<1> USE DEF TypeThreads, Producers, OnWay
<1>3. CASE Send(Main)
  BY <1>3 DEF Send
<1>4. CASE SendFails(Main)
  BY <1>4 DEF SendFails
<1>5. CASE Receive
  BY <1>5 DEF Receive
<1>6. ASSUME NEW w \in Workers, Take(w)
      PROVE  OnWay(b)
  BY <1>6 DEF Take
<1>7. ASSUME NEW w \in Workers, Emit(w)
      PROVE  OnWay(b)
  BY <1>7 DEF Emit
<1>8. ASSUME NEW w \in Workers, WorkerExit(w)
      PROVE  OnWay(b)
  BY <1>8 DEF WorkerExit
<1> QED BY <1>3, <1>4, <1>5, <1>6, <1>7, <1>8

\* A number below m and its successor are at most m (the domain of F).
LEMMA Below ==
  ASSUME NEW k \in Nat, NEW m \in Nat, k < m
  PROVE  k \in 0 .. m /\ k + 1 \in 0 .. m
OBVIOUS

\* A batch is issued: it starts where the last one ended (ingest_file,
\* recover_output under the store lock).
LEMMA Issued ==
  ASSUME TypeFiles, TypeFiles', TypeThreads, Ordered,
         NEW e \in Nat, NEW n \in Nat, main \in {"recover", "ingest"},
         main' = main, out' = out, seq' = seq + 1,
         UNCHANGED <<output, wbuf, next, base>>,
         main = "recover" => rec.next = e /\ rec'.next = e + n,
         main = "ingest" => Len(store) = e /\ Len(store') = e + n,
         Len(store) <= Len(store'), e + n <= Len(store'),
         \A b \in Batch : OnWay(b)' =>
           OnWay(b) \/ (b.seq = seq /\ b.first = e /\ b.n = n)
  PROVE  Ordered'
<1>0. /\ seq \in Nat /\ next \in Nat /\ Len(store) \in Nat
      /\ Len(store') \in Nat /\ Len(output) \in Nat /\ Len(wbuf) \in Nat
  BY SMTT(30) DEF TypeFiles, TypeThreads
<1>1. PICK o \in 0 .. Len(store) :
        /\ Stream(o) /\ Anchored(o)
        /\ main \in Late /\ out = "running" =>
             \E F \in [0 .. seq -> 0 .. Len(store)] : Chain(F, o)
  BY DEF Ordered
<1>2. Stream(o)' /\ Anchored(o)' /\ o \in 0 .. Len(store')
  BY <1>0, <1>1 DEF Stream, Anchored, Late
<1>3. ASSUME out' = "running"
      PROVE  \E F \in [0 .. seq' -> 0 .. Len(store')] : Chain(F, o)'
  <2>1. PICK F \in [0 .. seq -> 0 .. Len(store)] : Chain(F, o)
    BY <1>1, <1>3 DEF Late
  <2>2. PICK G \in [0 .. seq + 1 -> 0 .. Len(store')] :
          G[seq + 1] = e + n /\ \A i \in 0 .. seq : G[i] = F[i]
    <3> DEFINE H == [i \in 0 .. seq + 1 |-> IF i = seq + 1 THEN e + n ELSE F[i]]
    <3>1. H \in [0 .. seq + 1 -> 0 .. Len(store')]
      BY <1>0
    <3>2. H[seq + 1] = e + n /\ \A i \in 0 .. seq : H[i] = F[i]
      BY <1>0
    <3> HIDE DEF H
    <3> QED BY <3>1, <3>2
  <2>3. F[seq] = e
    BY <2>1 DEF Chain
  <2>4. ASSUME NEW b \in Batch, OnWay(b)'
        PROVE  Covers(b, G)'
    <3>1. CASE OnWay(b)
      <4>1. b.seq \in Nat /\ Covers(b, F)
        BY <2>1, <3>1 DEF Chain, Batch
      <4>2. b.seq < seq
        BY <4>1 DEF Covers
      <4>3. b.seq \in 0 .. seq /\ b.seq + 1 \in 0 .. seq
        BY <1>0, <4>1, <4>2, Below
      <4>4. G[b.seq] = F[b.seq] /\ G[b.seq + 1] = F[b.seq + 1]
        BY <2>2, <4>3
      <4>5. F[b.seq] = b.first /\ F[b.seq + 1] = b.first + b.n
        BY <4>1 DEF Covers
      <4>6. b.seq < seq + 1
        BY <1>0, <4>1, <4>2
      <4> QED BY <4>4, <4>5, <4>6 DEF Covers
    <3>2. CASE b.seq = seq /\ b.first = e /\ b.n = n
      BY <1>0, <2>2, <2>3, <3>2 DEF Covers
    <3> QED BY <2>4, <3>1, <3>2
  <2>5. next <= seq /\ G[next] = o + Len(output) + Len(wbuf)
    BY <1>0, <2>1, <2>2 DEF Chain
  <2>6. Chain(G, o)'
    BY <1>0, <2>2, <2>4, <2>5 DEF Chain
  <2> QED BY <2>2, <2>6
<1> QED BY <1>2, <1>3 DEF Ordered

\* The batch in turn is written, and the file and the BufWriter end where the
\* next one starts (output_thread).
LEMMA WriteOrdered ==
  ASSUME TypeFiles, TypeThreads, TypeFiles', TypeThreads',
         Ordered, main \in Late, torn = FALSE, Write
  PROVE  Ordered' /\ Extended
<1>0. /\ seq \in Nat /\ next \in Nat /\ Len(store) \in Nat
      /\ Len(output) \in Nat /\ Len(wbuf) \in Nat /\ wbuf \in Seq(Nat)
  <2>1. seq \in Nat /\ next \in Nat
    BY DEF TypeThreads
  <2>2. /\ Len(store) \in Nat /\ Len(output) \in Nat /\ Len(wbuf) \in Nat
        /\ wbuf \in Seq(Nat)
    BY DEF TypeFiles
  <2> QED BY <2>1, <2>2
<1>1. PICK o \in 0 .. Len(store) :
        /\ Stream(o) /\ Anchored(o)
        /\ \E F \in [0 .. seq -> 0 .. Len(store)] : Chain(F, o)
  BY DEF Ordered, Write
<1>2. PICK F \in [0 .. seq -> 0 .. Len(store)] : Chain(F, o)
  BY <1>1
<1>3. PICK b \in pending :
        /\ b.seq = next /\ pending' = pending \ {b}
        /\ \/ wbuf' = wbuf \o Ids(b.first, b.n) /\ output' = output
           \/ output' = Appended(wbuf) /\ wbuf' = Ids(b.first, b.n)
           \/ output' = Appended(wbuf \o Ids(b.first, b.n)) /\ wbuf' = << >>
  BY DEF Write, InTurn
<1>4. b \in Batch /\ Covers(b, F)
  <2>1. b \in Batch /\ OnWay(b)
    BY <1>3 DEF OnWay, TypeThreads
  <2> QED BY <1>2, <2>1 DEF Chain
<1>5. b.first \in Nat /\ b.n \in Nat
  BY <1>4 DEF Batch
<1>6. /\ next + 1 <= seq /\ b.first = o + Len(output) + Len(wbuf)
      /\ F[next + 1] = b.first + b.n
  BY <1>0, <1>2, <1>3, <1>4 DEF Covers, Chain
<1>7. b.first + b.n <= Len(store)
  <2>1. F[next + 1] \in 0 .. Len(store)
    BY <1>0, <1>2, <1>6
  <2> QED BY <1>0, <1>5, <1>6, <2>1
<1> DEFINE lines == Ids(b.first, b.n)
<1>8. lines \in Seq(Nat) /\ Len(lines) = b.n /\ Consecutive(lines, b.first)
  BY <1>5, IdsType, IdsConsecutive
<1> HIDE DEF lines
<1>9. /\ wbuf \o lines \in Seq(Nat)
      /\ Consecutive(wbuf \o lines, o + Len(output))
      /\ Len(wbuf \o lines) = Len(wbuf) + b.n
  <2>1. o + Len(output) \in Nat
    BY <1>0
  <2>2. Consecutive(wbuf, o + Len(output))
    BY <1>1 DEF Stream
  <2>3. Consecutive(lines, o + Len(output) + Len(wbuf))
    BY <1>6, <1>8
  <2>4. /\ Consecutive(wbuf \o lines, o + Len(output))
        /\ Len(wbuf \o lines) = Len(wbuf) + Len(lines)
    BY <1>0, <1>8, <2>1, <2>2, <2>3, ConsecutiveConcat
  <2> QED BY <1>0, <1>8, <2>4
<1>10. /\ Consecutive(Appended(wbuf), o)
       /\ Len(Appended(wbuf)) = Len(output) + Len(wbuf)
  <2>1. /\ o \in Nat /\ Consecutive(output, o)
        /\ Consecutive(wbuf, o + Len(output))
    BY <1>1 DEF Stream
  <2> QED BY <1>0, <2>1, AppendedInOrder
<1>11. /\ Consecutive(Appended(wbuf \o lines), o)
       /\ Len(Appended(wbuf \o lines)) = Len(output) + Len(wbuf) + b.n
  <2>1. Consecutive(output, o) /\ o \in Nat
    BY <1>1 DEF Stream
  <2>2. /\ Consecutive(Appended(wbuf \o lines), o)
        /\ Len(Appended(wbuf \o lines)) = Len(output) + Len(wbuf \o lines)
    BY <1>9, <2>1, AppendedInOrder
  <2> QED BY SMTT(30), <1>0, <1>5, <1>9, <2>2
<1>12. /\ Consecutive(output', o) /\ Consecutive(wbuf', o + Len(output'))
       /\ o + Len(output') + Len(wbuf') = b.first + b.n
       /\ Len(output) <= Len(output')
  <2>0. /\ o \in Nat /\ Consecutive(output, o)
        /\ Consecutive(wbuf, o + Len(output))
    BY <1>1 DEF Stream
  <2>1. CASE wbuf' = wbuf \o lines /\ output' = output
    <3>1. Len(output') = Len(output) /\ Len(wbuf') = Len(wbuf) + b.n
      BY <1>9, <2>1
    <3>2. o + Len(output') + Len(wbuf') = b.first + b.n
      BY SMTT(30), <1>0, <1>5, <1>6, <2>0, <3>1
    <3>3. Len(output) <= Len(output')
      BY <1>0, <3>1
    <3> QED BY <1>9, <2>0, <2>1, <3>2, <3>3
  <2>2. CASE output' = Appended(wbuf) /\ wbuf' = lines
    <3>1. Len(output') = Len(output) + Len(wbuf) /\ Len(wbuf') = b.n
      BY <1>8, <1>10, <2>2
    <3>2. o + Len(output') = b.first /\ Len(output) <= Len(output')
      BY <1>0, <1>6, <2>0, <3>1
    <3> QED BY <1>8, <1>10, <2>2, <3>1, <3>2
  <2>3. CASE output' = Appended(wbuf \o lines) /\ wbuf' = << >>
    <3>1. Len(output') = Len(output) + Len(wbuf) + b.n /\ Len(wbuf') = 0
      BY <1>11, <2>3
    <3>2. o + Len(output') + Len(wbuf') = b.first + b.n
      BY SMTT(30), <1>0, <1>5, <1>6, <2>0, <3>1
    <3>3. Consecutive(wbuf', o + Len(output'))
      BY <3>1 DEF Consecutive
    <3>4. Len(output) <= Len(output')
      BY <1>0, <1>5, <3>1
    <3> QED BY <1>11, <2>3, <3>2, <3>3, <3>4
  <2> QED BY <1>3, <2>1, <2>2, <2>3 DEF lines
<1>13. UNCHANGED <<store, main, rec, seq, out, hold, queue, work, outq, base,
                   failed>>
  BY DEF Write, ingestV
<1>14. \A c \in Batch : OnWay(c)' => OnWay(c)
  BY <1>3, <1>13 DEF OnWay
<1>15. Stream(o)' /\ Anchored(o)'
  <2>1. Stream(o)'
    BY <1>7, <1>12, <1>13 DEF Stream
  <2>2. Anchored(o)'
    BY <1>1, <1>13 DEF Anchored, Write
  <2> QED BY <2>1, <2>2
<1>16. Chain(F, o)'
  <2>1. \A c \in Batch : OnWay(c)' => Covers(c, F)'
    BY <1>2, <1>13, <1>14 DEF Chain, Covers
  <2>2. next' = next + 1
    BY DEF Write
  <2>3. F[next'] = o + Len(output') + Len(wbuf') /\ next' <= seq'
    BY <1>6, <1>12, <1>13, <2>2
  <2>4. /\ main' = "recover" => F[seq'] = rec'.next
        /\ main' = "ingest" \/ (main' \in {"join", "finish"} /\ failed' = FALSE)
             => F[seq'] = Len(store')
    BY <1>2, <1>13 DEF Chain
  <2> QED BY <2>1, <2>3, <2>4 DEF Chain
<1>17. Extended
  <2>1. o + Len(output') <= Len(store)
    BY <1>0, <1>5, <1>7, <1>12 DEF TypeFiles
  <2>2. o \in Nat
    BY <1>0
  <2> QED BY <1>1, <1>12, <2>1, <2>2 DEF Extended, Stream
<1> QED BY <1>1, <1>2, <1>13, <1>15, <1>16, <1>17 DEF Ordered

\* The half-second flush moves lines from the BufWriter to the file.
LEMMA FlushOrdered ==
  ASSUME TypeFiles, TypeFiles', TypeThreads, Ordered, main \in Late,
         torn = FALSE, Flush
  PROVE  Ordered' /\ Extended
<1>0. /\ Len(store) \in Nat /\ Len(output) \in Nat /\ Len(wbuf) \in Nat
      /\ wbuf \in Seq(Nat)
  BY DEF TypeFiles
<1>1. PICK o \in 0 .. Len(store) :
        /\ Stream(o) /\ Anchored(o)
        /\ \E F \in [0 .. seq -> 0 .. Len(store)] : Chain(F, o)
  BY DEF Ordered, Flush
<1>2. PICK F \in [0 .. seq -> 0 .. Len(store)] : Chain(F, o)
  BY <1>1
<1>3. /\ o \in Nat /\ Consecutive(output, o)
      /\ Consecutive(wbuf, o + Len(output))
  BY <1>1 DEF Stream
<1>4. output' = Appended(wbuf) /\ wbuf' = << >>
  BY DEF Flush
<1>5. /\ Consecutive(output', o) /\ Len(output') = Len(output) + Len(wbuf)
      /\ Consecutive(wbuf', o + Len(output')) /\ Len(wbuf') = 0
  <2>1. Consecutive(output', o) /\ Len(output') = Len(output) + Len(wbuf)
    BY <1>0, <1>3, <1>4, AppendedInOrder
  <2>2. Len(wbuf') = 0
    BY <1>4
  <2> QED BY <2>1, <2>2 DEF Consecutive
<1>6. o + Len(output') + Len(wbuf') = o + Len(output) + Len(wbuf)
  BY <1>0, <1>3, <1>5
<1>7. UNCHANGED <<store, main, rec, seq, next, out, hold, queue, work, outq,
                  pending, base, failed>>
  BY DEF Flush, ingestV, chans
<1>8. Stream(o)' /\ Anchored(o)'
  <2>1. Stream(o)'
    BY <1>1, <1>5, <1>6, <1>7 DEF Stream
  <2>2. Anchored(o)'
    BY <1>1, <1>7 DEF Anchored, Flush
  <2> QED BY <2>1, <2>2
<1>9. \A b \in Batch : OnWay(b)' => OnWay(b)
  BY <1>7 DEF OnWay
<1>10. \A b \in Batch : OnWay(b)' => Covers(b, F)'
  BY <1>2, <1>7, <1>9 DEF Chain, Covers
<1>11. Chain(F, o)'
  BY <1>2, <1>6, <1>7, <1>10 DEF Chain
<1>12. Extended
  <2>1. o + Len(output') <= Len(store) /\ Len(output) <= Len(output')
    BY <1>0, <1>1, <1>3, <1>5 DEF Stream
  <2> QED BY <1>3, <1>5, <2>1 DEF Extended
<1> QED BY <1>1, <1>2, <1>7, <1>8, <1>11, <1>12 DEF Ordered

\* Every step keeps the output in order.
LEMMA OrderedStep ==
  ASSUME Listeners = {}, TypeInv, TypeInv', Idle, Recovery, Ordered, [Next]_vars
  PROVE  Ordered'
<1>a. TypeFiles /\ TypeFlags /\ TypeThreads /\ TypeFiles' /\ TypeThreads'
  BY DEF TypeInv, TypeOK
<1>b. PICK o \in Nat : Stream(o) /\ Anchored(o)
  BY DEF Ordered
<1>c. /\ Len(store) \in Nat /\ Len(output) \in Nat /\ Len(wbuf) \in Nat
      /\ wbuf \in Seq(Nat)
  BY <1>a DEF TypeFiles
<1>d. main \in Early \cup {"down"} => Empty /\ \A b \in Batch : ~OnWay(b)
  <2>1. Empty => \A b \in Batch : ~OnWay(b)
    BY DEF Empty, OnWay
  <2> QED BY <2>1 DEF Idle
<1>e. main \in Early \cup Late \cup {"down"}
  BY <1>a DEF Early, Late, TypeThreads
<1>1. CASE Start
  <2>1. Stream(o)'
    BY <1>1, <1>b DEF Start, Stream
  <2>2. main' \notin Late /\ Anchored(o)'
    BY <1>1, <1>b DEF Start, Late, Anchored, Recovery
  <2> QED BY <1>a, <2>1, <2>2, StreamOnly
<1>2. CASE NewOutput
  <2>1. output' = << >> /\ wbuf' = << >> /\ main' \notin Late /\ store' = store
    BY <1>2, <1>d DEF NewOutput, Empty, writer, Late
  <2>2. Stream(0)' /\ Anchored(0)'
    BY <1>c, <2>1 DEF Stream, Consecutive, Anchored
  <2> QED BY <1>a, <2>1, <2>2, StreamOnly
<1>3. CASE Stop
  <2>1. \A b \in Batch : OnWay(b)' => OnWay(b)
    BY <1>3 DEF Stop, OnWay, chans
  <2> QED BY <1>3, <1>a, <2>1, Carried DEF Stop, disk, writer
<1>4. CASE RecoverScan
  <2>1. CASE prior = FALSE
    <3>1. /\ output' = << >> /\ wbuf' = << >> /\ main' = "ingest"
          /\ store' = store /\ seq' = 0 /\ next' = 0
      BY <1>4, <1>d, <2>1
         DEF RecoverScan, BeginIngest, Recovery, Idle, Empty, Early, disk,
             writer
    <3>2. \A b \in Batch : ~OnWay(b)'
      BY <1>4, <1>d DEF RecoverScan, Early, OnWay, chans
    <3>3. PICK e \in Nat : e = Len(store)
      BY <1>c
    <3>4. Consecutive(output', e) /\ e + Len(output') = Len(store')
      BY <3>1, <3>3 DEF Consecutive
    <3>5. e + Len(output') <= Len(store')
      BY <1>c, <3>1, <3>4
    <3>6. e <= base'
      BY <1>4, <1>a, <2>1, <3>3 DEF RecoverScan, Recovery, TypeThreads
    <3> QED BY <1>a, <3>1, <3>2, <3>4, <3>5, <3>6, EnterLate
  <2>2. CASE prior = TRUE
    <3>1. Stream(o)' /\ main' \notin Late /\ Anchored(o)'
      BY <1>4, <1>b, <2>2
         DEF RecoverScan, Stream, Late, Anchored, disk, writer
    <3> QED BY <1>a, <3>1, StreamOnly
  <2> QED BY <1>a, <2>1, <2>2 DEF TypeFlags
<1>5. CASE RecoverTruncate
  <2>1. SubSeq(output, 1, Len(output)) = output
    BY <1>a DEF TypeFiles
  <2>2. output' = output
    BY <1>5, <2>1 DEF RecoverTruncate, Recovery
  <2>3. Stream(o)' /\ main' \notin Late /\ Anchored(o)'
    BY <1>5, <1>b, <2>2 DEF RecoverTruncate, Stream, Late, Anchored, writer
  <2> QED BY <1>a, <2>3, StreamOnly
<1>6. CASE RecoverPlan
  <2>1. /\ wbuf' = << >> /\ store' = store /\ output' = output
        /\ seq' = 0 /\ next' = 0 /\ base' = base
    BY <1>6, <1>d DEF RecoverPlan, Idle, Empty, Early, disk, writer
  <2>2. \A b \in Batch : ~OnWay(b)'
    BY <1>6, <1>d DEF RecoverPlan, Early, OnWay, chans
  <2>3. PICK e \in Nat : /\ Consecutive(output, e)
                         /\ e + Len(output) = rec.first /\ e <= base
                         /\ e + Len(output) <= Len(store)
    <3>1. CASE output = << >>
      <4>1. rec.first = 0
        BY <1>6, <3>1 DEF RecoverPlan, Recovery
      <4>2. 0 <= base
        BY <1>a DEF TypeThreads
      <4> QED BY <1>c, <3>1, <4>1, <4>2 DEF Consecutive
    <3>2. CASE output # << >>
      <4>1. rec.first = output[Len(output)] + 1
        BY <1>6, <3>2 DEF RecoverPlan, Recovery
      <4>2. Len(output) >= 1
        BY <1>a, <3>2 DEF TypeFiles
      <4>3. output[Len(output)] = o + Len(output) - 1
        BY <1>b, <1>c, <4>2 DEF Stream, Consecutive
      <4>4. o + Len(output) = rec.first /\ o + Len(output) <= Len(store)
        BY <1>b, <1>c, <4>1, <4>3 DEF Stream
      <4> QED BY <1>b, <3>2, <4>4 DEF Stream, Anchored
    <3> QED BY <3>1, <3>2
  <2>4. CASE rec.first >= Len(store)
    <3>1. main' = "ingest"
      BY <1>6, <2>4 DEF RecoverPlan, BeginIngest
    <3>2. e + Len(output) = Len(store)
      BY <1>c, <2>3, <2>4
    <3> QED BY <1>a, <2>1, <2>2, <2>3, <3>1, <3>2, EnterLate
  <2>5. CASE ~(rec.first >= Len(store))
    <3>1. /\ main' = "recover"
          /\ rec' = [rec EXCEPT !.next = rec.first, !.total = Len(store)]
      BY <1>6, <2>5 DEF RecoverPlan
    <3>2. rec'.next = rec.first
      BY <1>a, <3>1 DEF TypeThreads
    <3> QED BY <1>a, <2>1, <2>2, <2>3, <3>1, <3>2, EnterLate
  <2> QED BY <2>4, <2>5
<1>7. CASE RecoverBatch
  <2>1. PICK n \in Nat :
          /\ hold' = [hold EXCEPT ![Main] =
                        {[seq |-> seq, first |-> rec.next, n |-> n]}]
          /\ rec'.next = rec.next + n /\ main' = "recover"
          /\ rec'.next <= Len(store')
    BY <1>7, RecoverBatchStep DEF TypeInv, TypeOK
  <2>2. PICK e \in Nat : e = rec.next
    BY <1>a DEF TypeThreads
  <2>3. \A b \in Batch : OnWay(b)' =>
          OnWay(b) \/ (b.seq = seq /\ b.first = e /\ b.n = n)
    <3>1. hold'[Main] = {[seq |-> seq, first |-> e, n |-> n]}
      BY <1>a, <2>1, <2>2 DEF TypeThreads, Producers
    <3>2. UNCHANGED <<pending, work, queue, outq>>
      BY <1>7 DEF RecoverBatch
    <3> QED BY <3>1, <3>2 DEF OnWay
  <2>4. /\ main = "recover" /\ store' = store /\ out' = out /\ seq' = seq + 1
        /\ UNCHANGED <<output, wbuf, next, base>>
    BY <1>7 DEF RecoverBatch, disk, writer
  <2>5. Len(store) <= Len(store') /\ e + n <= Len(store')
    BY <1>c, <2>1, <2>2, <2>4
  <2> QED BY <1>a, <2>1, <2>2, <2>3, <2>4, <2>5, Issued
<1>8. CASE RecoverDone
  <2>1. \A b \in Batch : OnWay(b)' => OnWay(b)
    BY <1>8 DEF RecoverDone, OnWay, chans
  <2>2. rec.next = Len(store)
    BY <1>8 DEF RecoverDone, Recovery
  <2> QED BY <1>8, <1>a, <2>1, <2>2, Carried
             DEF RecoverDone, BeginIngest, Late, disk, writer
<1>9. CASE IngestDone
  <2>1. \A b \in Batch : OnWay(b)' => OnWay(b)
    BY <1>9 DEF IngestDone, OnWay, chans
  <2> QED BY <1>9, <1>a, <2>1, Carried DEF IngestDone, Late, disk, writer
<1>10. CASE JoinListeners
  <2>1. \A b \in Batch : OnWay(b)' => OnWay(b)
    BY <1>10 DEF JoinListeners, OnWay, chans
  <2> QED BY <1>10, <1>a, <2>1, Carried
             DEF JoinListeners, Late, disk, writer, ingestV
<1>11. CASE Finish
  <2>1. Stream(o)' /\ main' \notin Late /\ Anchored(o)'
    BY <1>11, <1>b DEF Finish, Stream, Late, Anchored, disk
  <2> QED BY <1>a, <2>1, StreamOnly
<1>12. ASSUME NEW f \in Files, NEW n \in 1 .. BatchMax, IngestBatch(f, n)
       PROVE  Ordered'
  <2>1. PICK e \in Nat : e = Len(store)
    BY <1>c
  <2>2. /\ n \in Nat /\ Len(FileEvents(f, n)) = n
        /\ FileEvents(f, n) \in Seq([src : Files \cup Listeners, at : Nat])
    <3>1. n \in Nat /\ consumed[f] \in Nat
      BY <1>12, <1>a, EngineAssumption DEF TypeThreads
    <3> QED BY <1>12, <3>1 DEF FileEvents
  <2>3. /\ hold' = [hold EXCEPT ![Main] =
                      {[seq |-> seq, first |-> e, n |-> n]}]
        /\ store' = store \o FileEvents(f, n) /\ seq' = seq + 1
    BY <1>12, <2>1, <2>2 DEF IngestBatch, StoreBatch
  <2>4. Len(store') = e + n
    <3>1. store \in Seq([src : Files \cup Listeners, at : Nat])
      BY <1>a DEF TypeFiles
    <3>a. PICK ev : ev = FileEvents(f, n)
      OBVIOUS
    <3>b. Len(store \o ev) = Len(store) + Len(ev)
      BY <2>2, <3>1, <3>a
    <3>2. Len(store \o FileEvents(f, n)) = Len(store) + Len(FileEvents(f, n))
      BY <3>a, <3>b
    <3> QED BY <2>1, <2>2, <2>3, <3>2
  <2>5. \A b \in Batch : OnWay(b)' =>
          OnWay(b) \/ (b.seq = seq /\ b.first = e /\ b.n = n)
    BY <1>12, <1>a, <2>3 DEF IngestBatch, OnWay, TypeThreads, Producers
  <2>6. /\ main = "ingest" /\ main' = "ingest" /\ out' = out
        /\ UNCHANGED <<output, wbuf, next, base>>
    BY <1>12 DEF IngestBatch, writer
  <2>7. Len(store) <= Len(store') /\ e + n <= Len(store')
    BY <1>c, <2>1, <2>2, <2>4
  <2> QED BY <1>a, <2>1, <2>2, <2>3, <2>4, <2>5, <2>6, <2>7, Issued
<1>13. CASE Send(Main)
  <2>1. \A b \in Batch : OnWay(b)' => OnWay(b)
    BY <1>13, <1>a, Moves
  <2> QED BY <1>13, <1>a, <2>1, Carried DEF Send, disk, writer, ingestV
<1>14. CASE SendFails(Main)
  <2>1. \A b \in Batch : OnWay(b)' => OnWay(b)
    BY <1>14, <1>a, Moves
  <2>2. main \in Late
    BY <1>14, <1>d, <1>e DEF SendFails, Empty
  <2> QED BY <1>14, <1>a, <2>1, <2>2, Carried DEF SendFails, Late, disk, writer
<1>15. ASSUME NEW w \in Workers, Take(w)
       PROVE  Ordered'
  <2>1. \A b \in Batch : OnWay(b)' => OnWay(b)
    BY <1>15, <1>a, Moves
  <2> QED BY <1>15, <1>a, <2>1, Carried DEF Take, disk, writer, ingestV
<1>16. ASSUME NEW w \in Workers, Emit(w)
       PROVE  Ordered'
  <2>1. \A b \in Batch : OnWay(b)' => OnWay(b)
    BY <1>16, <1>a, Moves
  <2> QED BY <1>16, <1>a, <2>1, Carried DEF Emit, disk, writer, ingestV
<1>17. ASSUME NEW w \in Workers, WorkerExit(w)
       PROVE  Ordered'
  <2>1. \A b \in Batch : OnWay(b)' => OnWay(b)
    BY <1>17, <1>a, Moves
  <2> QED BY <1>17, <1>a, <2>1, Carried DEF WorkerExit, disk, writer, ingestV
<1>18. CASE Receive
  <2>1. \A b \in Batch : OnWay(b)' => OnWay(b)
    BY <1>18, <1>a, Moves
  <2> QED BY <1>18, <1>a, <2>1, Carried DEF Receive, disk, writer, ingestV
<1>19. CASE Write
  <2>1. main \in Late
    BY <1>19, <1>d, <1>e DEF Write, InTurn, Empty
  <2>2. torn = FALSE
    BY <1>19, <2>1 DEF Write, InTurn, Empty, Recovery
  <2> QED BY <1>19, <1>a, <2>1, <2>2, WriteOrdered
<1>20. CASE Flush
  <2>1. main \in Late
    BY <1>20, <1>d, <1>e DEF Flush, Empty
  <2>2. torn = FALSE
    BY <1>20, <2>1 DEF Flush, Empty, Recovery
  <2> QED BY <1>20, <1>a, <2>1, <2>2, FlushOrdered
<1>21. CASE OutputFails
  <2>1. torn = FALSE \/ wbuf = << >>
    BY <1>21, <1>d, <1>e DEF OutputFails, Empty, Recovery
  <2>2. Consecutive(output', o) /\ o + Len(output') <= Len(store)
    BY <1>21, <1>a, <1>b, <2>1, PartWrittenInOrder DEF OutputFails
  <2>3. wbuf' = << >> /\ store' = store /\ out' # "running"
    BY <1>21 DEF OutputFails
  <2>4. Stream(o)'
    BY <1>a, <2>2, <2>3 DEF Stream, Consecutive, TypeFiles
  <2>5. Anchored(o)'
    <3>1. CASE main \in Late
      BY <1>21, <1>b, <2>3, <3>1 DEF Anchored, OutputFails
    <3>2. CASE main \notin Late
      <4>1. output' = output
        BY <1>21, <1>a, <1>d, <1>e, <3>2, NothingWritten
           DEF OutputFails, Empty
      <4> QED BY <1>21, <1>b, <2>3, <4>1 DEF Anchored, OutputFails
    <3> QED BY <3>1, <3>2
  <2> QED BY <1>a, <2>3, <2>4, <2>5, StreamOnly
<1>22. CASE OutputDone
  <2>1. torn = FALSE \/ wbuf = << >>
    BY <1>22, <1>d, <1>e DEF OutputDone, Empty, Recovery
  <2>2. output' = Appended(wbuf) /\ wbuf' = << >> /\ store' = store
        /\ out' # "running"
    BY <1>22 DEF OutputDone
  <2>3. Consecutive(output, o) /\ Consecutive(wbuf, o + Len(output))
    BY <1>b DEF Stream
  <2>4. Consecutive(output', o) /\ Len(output') = Len(output) + Len(wbuf)
    BY <1>a, <1>c, <2>1, <2>2, <2>3, AppendedInOrder
  <2>5. Stream(o)'
    BY <1>b, <1>c, <2>2, <2>4 DEF Stream, Consecutive
  <2>6. Anchored(o)'
    <3>1. CASE main \in Late
      BY <1>22, <1>b, <2>2, <3>1 DEF Anchored, OutputDone
    <3>2. CASE main \notin Late
      <4>1. output' = output
        BY <1>22, <1>a, <1>d, <1>e, <3>2, NothingWritten DEF OutputDone, Empty
      <4> QED BY <1>22, <1>b, <2>2, <4>1 DEF Anchored, OutputDone
    <3> QED BY <3>1, <3>2
  <2> QED BY <1>a, <2>2, <2>5, <2>6, StreamOnly
<1>23. CASE Kill
  <2>1. Len(store') >= Len(store)
    BY <1>23, HalfStoredType DEF Kill, TypeInv
  <2>2. Consecutive(output', o) /\ o + Len(output') <= Len(store)
    <3>1. CASE out = "running"
      <4>1. torn = FALSE \/ wbuf = << >>
        BY <1>23, <1>d, <1>e, <3>1 DEF Kill, Empty, Recovery
      <4> QED BY <1>23, <1>a, <1>b, <3>1, <4>1, PartWrittenInOrder DEF Kill
    <3>2. CASE out # "running"
      <4>1. output' = output
        BY <1>23, <3>2 DEF Kill
      <4> QED BY <1>b, <1>c, <4>1 DEF Stream
    <3> QED BY <3>1, <3>2
  <2>3. wbuf' = << >> /\ main' \notin Late
    BY <1>23 DEF Kill, Late
  <2>4. o + Len(output') <= Len(store')
    BY <1>a, <1>c, <2>1, <2>2 DEF TypeFiles
  <2>5. Stream(o)'
    BY <1>a, <2>2, <2>3, <2>4 DEF Stream, Consecutive, TypeFiles
  <2>6. Anchored(o)'
    <3>1. CASE main \in Late /\ out = "running"
      BY <1>23, <1>b, <2>3, <3>1 DEF Anchored, Kill
    <3>2. CASE ~(main \in Late /\ out = "running")
      <4>1. output' = output
        BY <1>23, <1>a, <1>d, <1>e, <3>2, NothingWritten DEF Kill, Empty
      <4> QED BY <1>23, <1>b, <2>3, <4>1 DEF Anchored, Kill
    <3> QED BY <3>1, <3>2
  <2> QED BY <1>a, <2>3, <2>5, <2>6, StreamOnly
<1>24. CASE MainFails
  <2>1. /\ UNCHANGED <<output, wbuf, seq, next, base>> /\ out' = out
        /\ main' = "join" /\ failed' = TRUE /\ Len(store') >= Len(store)
    BY <1>24, HalfStoredType DEF MainFails, TypeInv, Producers, writer
  <2>2. \A b \in Batch : OnWay(b)' => OnWay(b)
    BY <1>24 DEF MainFails, OnWay, chans
  <2>3. CASE main \in Early
    <3>1. /\ wbuf' = << >> /\ seq' = 0 /\ next' = 0
          /\ \A b \in Batch : ~OnWay(b)'
      BY <1>d, <2>1, <2>2, <2>3 DEF Idle, Empty
    <3>2. Consecutive(output', o) /\ o + Len(output') <= Len(store')
      BY <1>a, <1>b, <1>c, <2>1 DEF Stream, TypeFiles
    <3>3. CASE output = << >>
      <4>1. /\ Consecutive(output', 0) /\ 0 + Len(output') <= Len(store')
            /\ 0 <= base'
        BY <1>a, <2>1, <3>3 DEF Consecutive, TypeFiles, TypeThreads
      <4> QED BY <1>a, <2>1, <3>1, <4>1, EnterLate
    <3>4. CASE output # << >>
      <4>1. o <= base'
        BY <1>b, <2>1, <3>4 DEF Anchored
      <4> QED BY <1>a, <2>1, <3>1, <3>2, <4>1, EnterLate
    <3> QED BY <3>3, <3>4
  <2>4. CASE main \in Late
    BY <1>24, <1>a, <2>1, <2>2, <2>4, Grown DEF MainFails
  <2> QED BY <1>24, <2>3, <2>4 DEF MainFails, Early, Late
<1>25. CASE UNCHANGED vars
  <2>1. \A b \in Batch : OnWay(b)' => OnWay(b)
    BY <1>25 DEF vars, OnWay, chans
  <2> QED BY <1>25, <1>a, <2>1, Carried DEF vars, disk, writer, ingestV
<1> QED
  BY <1>1, <1>2, <1>3, <1>4, <1>5, <1>6, <1>7, <1>8, <1>9, <1>10, <1>11, <1>12,
     <1>13, <1>14, <1>15, <1>16, <1>17, <1>18, <1>19, <1>20, <1>21, <1>22,
     <1>23, <1>24, <1>25
     DEF Next, MainStep, OutputStep, WorkerStep

\* The invariant holds before the first start.
LEMMA OrderInit == Init => OrderInv
<1> SUFFICES ASSUME Init PROVE OrderInv
  OBVIOUS
<1>1. Idle
  BY DEF Init, Idle, Empty, Producers
<1>2. Recovery
  BY DEF Init, Recovery, Late
<1>3. Ordered
  <2>1. /\ Stream(0) /\ Anchored(0) /\ 0 \in 0 .. Len(store)
        /\ main \notin Late
    BY DEF Init, Stream, Consecutive, Late, Anchored
  <2> QED BY <2>1 DEF Ordered
<1> QED BY TypeInit, <1>1, <1>2, <1>3 DEF OrderInv

\* Every step keeps the invariant.
LEMMA OrderStep ==
  ASSUME Listeners = {}, OrderInv, [Next]_vars
  PROVE  OrderInv'
<1>1. TypeInv'
  BY TypeStep DEF OrderInv
<1>2. Idle'
  BY IdleStep DEF OrderInv
<1>3. Recovery'
  BY RecoveryStep DEF OrderInv
<1>4. Ordered'
  BY <1>1, OrderedStep DEF OrderInv
<1> QED BY <1>1, <1>2, <1>3, <1>4 DEF OrderInv

\* The invariant says that the lines are in order and name stored records.
LEMMA OrderMeansInOrder == OrderInv => OutputInOrder
<1> SUFFICES ASSUME OrderInv PROVE OutputInOrder
  OBVIOUS
<1>1. PICK o \in Nat : /\ Consecutive(output, o)
                       /\ o + Len(output) + Len(wbuf) <= Len(store)
  BY DEF OrderInv, Ordered, Stream
<1>2. /\ output \in Seq(Nat \cup {Glued}) /\ Len(output) \in Nat
      /\ Len(wbuf) \in Nat /\ Len(store) \in Nat
  BY DEF OrderInv, TypeInv, TypeOK, TypeFiles
<1>3. Contiguous(output)
  BY SMTT(30), <1>1, <1>2 DEF Consecutive, Contiguous
<1>4. ASSUME output # << >>
      PROVE  output[Len(output)] < Len(store)
  <2>1. Len(output) >= 1
    BY <1>2, <1>4
  <2>2. output[Len(output)] = o + Len(output) - 1
    BY <1>1, <1>2, <2>1 DEF Consecutive
  <2> QED BY <1>1, <1>2, <2>2
<1> QED BY <1>3, <1>4 DEF OutputInOrder

\* Without listeners, the whole lines of the output carry consecutive raw ids
\* of stored records in every reachable state: raw id order, no duplicate and
\* no gap, after any number of kills, torn writes, failed output stages and
\* restarts, for every number of files, workers and events and every batch
\* size and queue length (ingest_file, recover_output, worker_thread,
\* output_thread).
THEOREM OutputStaysInOrder ==
  ASSUME Listeners = {}
  PROVE  Spec => []OutputInOrder
<1>1. OrderInv /\ [Next]_vars => OrderInv'
  BY OrderStep
<1> QED BY <1>1, OrderInit, OrderMeansInOrder, PTL DEF Spec
-----------------------------------------------------------------------------
(* A clean stop is complete.                                               *)

\* An output thread that has ended well has written every record that is
\* stored, from the first this output answers for, unless ingest failed.
Complete ==
  out = "done" =>
    /\ main = "finish"
    /\ failed = FALSE => \E o \in 0 .. base : /\ Consecutive(output, o)
                                              /\ o + Len(output) = Len(store)

LogInv == OrderInv /\ FlowInv /\ Complete

\* When the output thread ends, no number is left between it and the last one
\* taken: every batch has been written (output_thread's last flush).
LEMMA AllWritten ==
  ASSUME Listeners = {}, OrderInv, FlowInv, OutputDone
  PROVE  next = seq /\ main = "finish"
<1>0. /\ TypeThreads /\ seq \in Nat /\ next \in Nat
      /\ out = "running" /\ alive = {} /\ outq = << >> /\ InTurn = {}
  BY DEF FlowInv, TypeInv, TypeOK, TypeThreads, OutputDone
<1>1. main = "finish" /\ queue = << >>
  BY <1>0, EngineAssumption DEF FlowInv, Held
<1>2. /\ hold[Main] = {} /\ \A w \in Workers : work[w] = {}
      /\ Producers = {Main}
  BY <1>0, <1>1 DEF FlowInv, Held, Producers
<1>3. next <= seq
  BY <1>0, <1>1 DEF OrderInv, Ordered, Chain, Late
<1>4. ASSUME next < seq
      PROVE  FALSE
  <2>1. next \in next .. seq - 1
    BY <1>0, <1>4
  <2>2. PICK b \in Batch : Placed(b) /\ b.seq = next
    BY <1>0, <2>1 DEF FlowInv, Tracked
  <2>3. b \in pending
    BY <1>0, <1>1, <1>2, <2>2 DEF Placed
  <2> QED BY <1>0, <2>2, <2>3 DEF InTurn
<1> QED BY <1>0, <1>1, <1>3, <1>4

\* The last flush leaves the file complete.
LEMMA DoneComplete ==
  ASSUME Listeners = {}, OrderInv, FlowInv, OutputDone
  PROVE  Complete'
<1>0. /\ TypeFiles /\ wbuf \in Seq(Nat) /\ Len(output) \in Nat
      /\ Len(wbuf) \in Nat /\ Len(store) \in Nat /\ base \in Nat
  BY DEF OrderInv, TypeInv, TypeOK, TypeFiles, TypeThreads
<1>1. next = seq /\ main = "finish"
  BY AllWritten
<1>2. /\ out = "running" /\ output' = Appended(wbuf)
      /\ UNCHANGED <<store, main, failed, base>>
  BY DEF OutputDone, ingestV
<1>3. PICK o \in 0 .. Len(store) :
        /\ Stream(o) /\ o <= base
        /\ \E F \in [0 .. seq -> 0 .. Len(store)] : Chain(F, o)
  BY <1>1, <1>2 DEF OrderInv, Ordered, Anchored, Late
<1>4. failed = FALSE => o + Len(output) + Len(wbuf) = Len(store)
  BY <1>1, <1>3 DEF Chain
<1>5. torn = FALSE \/ wbuf = << >>
  BY <1>1, <1>2 DEF OrderInv, Recovery, Empty, Late
<1>6. /\ Consecutive(output', o) /\ Len(output') = Len(output) + Len(wbuf)
  <2>1. Consecutive(output, o) /\ Consecutive(wbuf, o + Len(output))
    BY <1>3 DEF Stream
  <2>2. o \in Nat
    BY <1>0
  <2> QED BY <1>0, <1>2, <1>5, <2>1, <2>2, AppendedInOrder
<1>7. o \in 0 .. base' /\ (failed' = FALSE => o + Len(output') = Len(store'))
  BY <1>0, <1>2, <1>3, <1>4, <1>6
<1> QED BY <1>1, <1>2, <1>6, <1>7 DEF Complete

\* Every step keeps a finished output complete.
LEMMA CompleteStep ==
  ASSUME Listeners = {}, OrderInv, FlowInv, Complete, [Next]_vars
  PROVE  Complete'
<1> USE DEF disk, chans, writer, ingestV
<1>a. ASSUME out' = out, main = "finish" => UNCHANGED <<store, output, base>>,
             main = "finish" => main' = "finish" /\ failed' = failed
      PROVE  Complete'
  BY <1>a DEF Complete
<1>b. main = "finish" => hold[Main] = {}
  BY DEF FlowInv, Held
<1>1. CASE Start \/ Finish \/ OutputFails \/ Kill
  BY <1>1 DEF Start, Finish, OutputFails, Kill, Complete
<1>2. CASE NewOutput \/ Stop \/ RecoverScan \/ RecoverTruncate \/ RecoverPlan
           \/ RecoverBatch \/ RecoverDone \/ IngestDone \/ JoinListeners
           \/ Receive \/ MainFails \/ UNCHANGED vars
  BY <1>2, <1>a
     DEF NewOutput, Stop, RecoverScan, RecoverTruncate, RecoverPlan,
         RecoverBatch, RecoverDone, IngestDone, JoinListeners, Receive,
         MainFails, vars
<1>3. ASSUME NEW f \in Files, NEW n \in 1 .. BatchMax, IngestBatch(f, n)
      PROVE  Complete'
  BY <1>3, <1>a DEF IngestBatch
<1>4. CASE Send(Main) \/ SendFails(Main)
  BY <1>4, <1>a, <1>b DEF Send, SendFails
<1>5. ASSUME NEW w \in Workers, Take(w) \/ Emit(w) \/ WorkerExit(w)
      PROVE  Complete'
  BY <1>5, <1>a DEF Take, Emit, WorkerExit
<1>6. CASE Write \/ Flush
  BY <1>6 DEF Write, Flush, Complete
<1>7. CASE OutputDone
  BY <1>7, DoneComplete
<1> QED
  BY <1>1, <1>2, <1>3, <1>4, <1>5, <1>6, <1>7
     DEF Next, MainStep, OutputStep, WorkerStep

\* The invariant holds before the first start.
LEMMA LogInit == Init => LogInv
<1> SUFFICES ASSUME Init PROVE LogInv
  OBVIOUS
<1>1. FlowInv
  BY FlowInit
<1>2. Complete
  BY DEF Init, Complete
<1> QED BY OrderInit, <1>1, <1>2 DEF LogInv

\* Every step keeps the invariant.
LEMMA LogStep ==
  ASSUME Listeners = {}, LogInv, [Next]_vars
  PROVE  LogInv'
BY OrderStep, FlowStep, CompleteStep DEF LogInv

\* The invariant says that a clean stop is complete.
LEMMA CompleteMeansAll == LogInv => CleanStopIsComplete
<1> SUFFICES ASSUME LogInv, out = "done", ~failed,
                    NEW id \in base .. Len(store) - 1
             PROVE  \E i \in DOMAIN output : output[i] = id
  BY DEF CleanStopIsComplete
<1>a. failed = FALSE
  BY DEF LogInv, OrderInv, TypeInv, TypeOK, TypeFlags
<1>0. /\ Len(output) \in Nat /\ DOMAIN output = 1 .. Len(output)
      /\ Len(store) \in Nat /\ base \in Nat
  BY DEF LogInv, OrderInv, TypeInv, TypeOK, TypeFiles, TypeThreads
<1>1. PICK o \in 0 .. base : Consecutive(output, o)
                             /\ o + Len(output) = Len(store)
  BY <1>a DEF LogInv, Complete
<1>2. id - o + 1 \in 1 .. Len(output)
  BY <1>0, <1>1
<1>3. output[id - o + 1] = id
  BY <1>0, <1>1, <1>2 DEF Consecutive
<1> QED BY <1>0, <1>2, <1>3

\* Without listeners nothing that is stored is lost on its way to the output:
\* when neither ingest nor the output thread has failed, every record from the
\* first this output answers for is a line of it at the end, what earlier lives
\* stored and never wrote included, and until then every number taken is on
\* its way (finish, recover_output, output_thread).
THEOREM NothingIsLost ==
  ASSUME Listeners = {}
  PROVE  Spec => []NothingLost
<1>1. LogInv /\ [Next]_vars => LogInv'
  BY LogStep
<1>2. LogInv => NothingLost
  BY CompleteMeansAll, FlowMeansNoHole DEF NothingLost, LogInv
<1> QED BY <1>1, <1>2, LogInit, PTL DEF Spec
-----------------------------------------------------------------------------
(* The engine implements EventLog.                                         *)

\* Two runs of ids from the same start, one no longer than the other: the
\* longer is the shorter and the ids that follow it.
LEMMA LongerRun ==
  ASSUME NEW s \in Seq(Int), NEW t \in Seq(Int), NEW o \in Nat,
         Consecutive(s, o), Consecutive(t, o), Len(s) <= Len(t)
  PROVE  LET u == SubSeq(t, Len(s) + 1, Len(t)) IN
         /\ u \in Seq(Int) /\ Len(u) = Len(t) - Len(s) /\ t = s \o u
         /\ Consecutive(u, o + Len(s))
<1> DEFINE u == SubSeq(t, Len(s) + 1, Len(t))
<1>0. Len(s) \in Nat /\ Len(t) \in Nat
  OBVIOUS
<1>1. /\ u \in Seq(Int) /\ Len(u) = Len(t) - Len(s)
      /\ \A i \in 1 .. Len(u) : u[i] = t[Len(s) + i]
  BY <1>0
<1> HIDE DEF u
<1>2. Consecutive(u, o + Len(s))
  <2>1. ASSUME NEW i \in 1 .. Len(u)
        PROVE  u[i] = o + Len(s) + i - 1
    <3>1. Len(s) + i \in 1 .. Len(t) /\ i \in Nat
      BY <1>0, <1>1
    <3>2. t[Len(s) + i] = o + (Len(s) + i) - 1
      BY <3>1 DEF Consecutive
    <3>3. u[i] = t[Len(s) + i]
      BY <1>1
    <3> QED BY <1>0, <3>1, <3>2, <3>3
  <2> QED BY <2>1 DEF Consecutive
<1>3. s \o u \in Seq(Int) /\ Len(s \o u) = Len(t)
  BY <1>0, <1>1
<1>4. ASSUME NEW i \in 1 .. Len(t)
      PROVE  t[i] = (s \o u)[i]
  <2>1. CASE i <= Len(s)
    <3>1. (s \o u)[i] = s[i]
      BY <1>0, <1>1, <2>1
    <3> QED BY <1>0, <2>1, <3>1 DEF Consecutive
  <2>2. CASE i > Len(s)
    <3>1. (s \o u)[i] = u[i - Len(s)] /\ i - Len(s) \in 1 .. Len(u)
      BY <1>0, <1>1, <2>2
    <3> QED BY <1>0, <1>1, <3>1
  <2>3. i <= Len(s) \/ i > Len(s)
    BY <1>0
  <2> QED BY <2>1, <2>2, <2>3, Zenon
<1>5. t = s \o u
  BY <1>3, <1>4, SeqEqual
<1> QED BY <1>1, <1>2, <1>5 DEF u

\* A step that extends the output and stores what it stores is a step of the
\* abstract log.
LEMMA ExtendedIsEmitted ==
  ASSUME TypeFiles, TypeFiles', Len(store') >= Len(store), Extended
  PROVE  Log!Next
<1>0. /\ output \in Seq(Int) /\ output' \in Seq(Int) /\ Len(store) \in Nat
      /\ Len(store') \in Nat /\ Len(output) \in Nat /\ Len(output') \in Nat
  BY DEF TypeFiles, Glued
<1>1. PICK o \in Nat : /\ Consecutive(output, o) /\ Consecutive(output', o)
                       /\ Len(output) <= Len(output')
                       /\ o + Len(output') <= Len(store)
  BY DEF Extended
<1>2. PICK u : u = SubSeq(output', Len(output) + 1, Len(output'))
  OBVIOUS
<1>3. /\ u \in Seq(Int) /\ Len(u) = Len(output') - Len(output)
      /\ output' = output \o u /\ Consecutive(u, o + Len(output))
  <2>1. PICK s \in Seq(Int), t \in Seq(Int) : s = output /\ t = output'
    BY <1>0
  <2>2. /\ u \in Seq(Int) /\ Len(u) = Len(t) - Len(s) /\ t = s \o u
        /\ Consecutive(u, o + Len(s))
    <3>1. /\ Consecutive(s, o) /\ Consecutive(t, o) /\ Len(s) <= Len(t)
          /\ u = SubSeq(t, Len(s) + 1, Len(t))
      BY <1>1, <1>2, <2>1
    <3> QED BY <3>1, LongerRun, Zenon
  <2> QED BY <2>1, <2>2
<1>4. \A i \in 1 .. Len(u) - 1 : u[i + 1] = u[i] + 1
  <2>1. o + Len(output) \in Nat /\ Len(u) \in Nat
    BY <1>0, <1>3
  <2>2. ASSUME NEW i \in 1 .. Len(u) - 1
        PROVE  u[i + 1] = u[i] + 1
    <3>1. i \in 1 .. Len(u) /\ i + 1 \in 1 .. Len(u) /\ i \in Nat
      BY <2>1
    <3>2. u[i] = o + Len(output) + i - 1 /\ u[i + 1] = o + Len(output) + i
      BY <1>3, <2>1, <3>1 DEF Consecutive
    <3> QED BY <2>1, <3>1, <3>2
  <2> QED BY <2>2
<1>5. ASSUME output # << >>, u # << >>
      PROVE  u[1] = output[Len(output)] + 1
  <2>1. Len(output) >= 1 /\ Len(u) >= 1
    BY <1>0, <1>3, <1>5
  <2> QED BY <1>0, <1>1, <1>3, <2>1 DEF Consecutive
<1>6. ASSUME u # << >>
      PROVE  u[Len(u)] < Len(store)
  <2>1. Len(u) >= 1
    BY <1>3, <1>6
  <2>2. u[Len(u)] = o + Len(output) + Len(u) - 1
    BY <1>3, <2>1 DEF Consecutive
  <2> QED BY <1>0, <1>1, <1>3, <2>2
<1>7. Log!Emitted(u)
  BY <1>3, <1>4, <1>5, <1>6 DEF Log!Emitted
<1> QED BY <1>0, <1>1, <1>2, <1>7 DEF Log!Next

\* A write that stops early extends the output (OutputFails, Kill).
LEMMA PartIsExtended ==
  ASSUME OrderInv, out = "running",
         \E k \in 0 .. Len(wbuf), cut \in BOOLEAN : PartWritten(k, cut)
  PROVE  Extended
<1>0. TypeOK /\ TypeFiles /\ TypeThreads
  BY DEF OrderInv, TypeInv, TypeOK
<1>1. PICK k \in 0 .. Len(wbuf), cut \in BOOLEAN : PartWritten(k, cut)
  OBVIOUS
<1>2. PICK o \in Nat : Stream(o)
  BY DEF OrderInv, Ordered
<1>3. torn = FALSE \/ wbuf = << >>
  <2>1. main \in Early \cup Late \cup {"down"}
    BY <1>0 DEF Early, Late, TypeThreads
  <2> QED BY <2>1 DEF OrderInv, Recovery, Idle, Empty
<1>4. Consecutive(output', o) /\ o + Len(output') <= Len(store)
  BY <1>0, <1>1, <1>2, <1>3, PartWrittenInOrder
<1>5. Len(output) <= Len(output')
  BY <1>0, <1>1, PartWrittenType DEF TypeFiles
<1> QED BY <1>2, <1>4, <1>5 DEF Extended, Stream

\* Every step of the engine is a step of the abstract log or leaves it as it
\* is.
LEMMA LogRefines ==
  ASSUME Listeners = {}, OrderInv, OrderInv', [Next]_vars
  PROVE  [Log!Next]_<<Len(store), output>>
<1>0. /\ TypeInv /\ TypeOK /\ TypeFiles /\ TypeFiles' /\ TypeThreads
      /\ TypeThreads' /\ TypeFlags
  BY DEF OrderInv, TypeInv, TypeOK
<1>a. /\ Len(store) \in Nat /\ Len(output) \in Nat /\ Len(wbuf) \in Nat
      /\ wbuf \in Seq(Nat) /\ Len(store') \in Nat
  BY <1>0 DEF TypeFiles
<1>b. PICK o \in Nat : Stream(o)
  BY DEF OrderInv, Ordered
<1>c. ASSUME output' = output, Len(store') >= Len(store)
      PROVE  Log!Next
  <2>1. Extended
    BY <1>a, <1>b, <1>c DEF Extended, Stream
  <2> QED BY <1>0, <1>c, <2>1, ExtendedIsEmitted
<1>d. ASSUME store' = store, Extended
      PROVE  Log!Next
  BY <1>0, <1>a, <1>d, ExtendedIsEmitted
<1>e. main \in Early \cup Late \cup {"down"}
  BY <1>0 DEF Early, Late, TypeThreads
<1> USE DEF disk, chans, writer, ingestV
<1>1. CASE Start \/ Stop \/ RecoverScan \/ RecoverPlan \/ RecoverBatch
           \/ RecoverDone \/ IngestDone \/ JoinListeners \/ Finish \/ Receive
           \/ UNCHANGED vars
  BY <1>1 DEF Start, Stop, RecoverScan, RecoverPlan, RecoverBatch, RecoverDone,
              IngestDone, JoinListeners, Finish, Receive, vars
<1>2. CASE NewOutput
  <2>1. output' = << >> /\ store' = store
    BY <1>2 DEF NewOutput
  <2> QED BY <2>1 DEF Log!Next, Log!NewOutput
<1>3. CASE RecoverTruncate
  <2>1. SubSeq(output, 1, Len(output)) = output
    BY <1>0 DEF TypeFiles
  <2> QED BY <1>3, <2>1 DEF RecoverTruncate, OrderInv, Recovery
<1>4. ASSUME NEW f \in Files, NEW n \in 1 .. BatchMax, IngestBatch(f, n)
      PROVE  Log!Next
  <2>1. output' = output /\ store' = store \o FileEvents(f, n)
    BY <1>4 DEF IngestBatch, StoreBatch
  <2>2. PICK ev : ev = FileEvents(f, n)
    OBVIOUS
  <2>3. ev \in Seq([src : Files \cup Listeners, at : Nat])
    <3>1. n \in Nat /\ consumed[f] \in Nat
      BY <1>0, EngineAssumption DEF TypeThreads
    <3> QED BY <2>2, <3>1 DEF FileEvents
  <2>4. Len(store \o ev) >= Len(store)
    BY <1>0, <2>3 DEF TypeFiles
  <2> QED BY <1>c, <2>1, <2>2, <2>4
<1>5. CASE Send(Main) \/ SendFails(Main)
  BY <1>5 DEF Send, SendFails
<1>6. ASSUME NEW w \in Workers, Take(w) \/ Emit(w) \/ WorkerExit(w)
      PROVE  UNCHANGED <<Len(store), output>>
  BY <1>6 DEF Take, Emit, WorkerExit
<1>7. CASE Write
  <2>1. main \in Late
    BY <1>7, <1>e DEF Write, InTurn, Empty, OrderInv, Idle
  <2>2. torn = FALSE
    BY <1>7, <2>1 DEF Write, InTurn, Empty, OrderInv, Recovery
  <2>3. Extended
    BY <1>7, <1>0, <2>1, <2>2, WriteOrdered DEF OrderInv
  <2> QED BY <1>7, <1>d, <2>3 DEF Write
<1>8. CASE Flush
  <2>1. main \in Late
    BY <1>8, <1>e DEF Flush, Empty, OrderInv, Idle
  <2>2. torn = FALSE
    BY <1>8, <2>1 DEF Flush, Empty, OrderInv, Recovery
  <2>3. Extended
    BY <1>8, <1>0, <2>1, <2>2, FlushOrdered DEF OrderInv
  <2> QED BY <1>8, <1>d, <2>3 DEF Flush
<1>9. CASE OutputFails
  <2>1. Extended
    BY <1>9, PartIsExtended DEF OutputFails
  <2> QED BY <1>9, <1>d, <2>1 DEF OutputFails
<1>10. CASE OutputDone
  <2>1. torn = FALSE \/ wbuf = << >>
    BY <1>10, <1>e DEF OutputDone, OrderInv, Recovery, Idle, Empty
  <2>2. output' = Appended(wbuf) /\ store' = store
    BY <1>10 DEF OutputDone
  <2>3. Consecutive(output, o) /\ Consecutive(wbuf, o + Len(output))
    BY <1>b DEF Stream
  <2>4. Consecutive(output', o) /\ Len(output') = Len(output) + Len(wbuf)
    BY <1>0, <1>a, <2>1, <2>2, <2>3, AppendedInOrder
  <2>5. Len(output) <= Len(output') /\ o + Len(output') <= Len(store)
    BY <1>a, <1>b, <2>4 DEF Stream
  <2>6. Extended
    BY <2>3, <2>4, <2>5 DEF Extended
  <2> QED BY <1>d, <2>2, <2>6
<1>11. CASE Kill
  <2>1. Len(store') >= Len(store)
    BY <1>11, <1>0, HalfStoredType DEF Kill
  <2>2. CASE out = "running"
    <3>1. Extended
      BY <1>11, <2>2, PartIsExtended DEF Kill
    <3> QED BY <1>0, <2>1, <3>1, ExtendedIsEmitted
  <2>3. CASE out # "running"
    BY <1>11, <1>c, <2>1, <2>3 DEF Kill
  <2> QED BY <2>2, <2>3
<1>12. CASE MainFails
  <2>1. Len(store') >= Len(store) /\ output' = output
    BY <1>12, <1>0, HalfStoredType DEF MainFails, Producers
  <2> QED BY <1>c, <2>1
<1> QED
  BY <1>1, <1>2, <1>3, <1>4, <1>5, <1>6, <1>7, <1>8, <1>9, <1>10, <1>11, <1>12
     DEF Next, MainStep, OutputStep, WorkerStep

\* Without listeners the engine implements the abstract log: whatever is killed
\* or fails, the output file only grows at its end, by the ids that follow its
\* last line, of records that were stored before (recover_output: "with no
\* duplicate and no gap").
THEOREM EngineImplementsLog ==
  ASSUME Listeners = {}
  PROVE  Spec => ImplementsEventLog
<1>1. Init => Log!Init
  BY DEF Init, Log!Init
<1>2. OrderInv /\ [Next]_vars => OrderInv'
  BY OrderStep
<1>3. OrderInv /\ OrderInv' /\ [Next]_vars => [Log!Next]_<<Len(store), output>>
  BY LogRefines
<1> QED BY <1>1, <1>2, <1>3, OrderInit, PTL
           DEF Spec, ImplementsEventLog, Log!Spec
-----------------------------------------------------------------------------
(* The first life of `serve`, listeners and tailer racing.                 *)
(*                                                                         *)
(* Without recovery a batch starts at the end of the store it was appended *)
(* to, whoever appended it.  F again gives for every sequence number the   *)
(* id its batch starts at; once ingest has failed it is only a bound,      *)
(* because a failed append stores records no batch carries.  The invariant *)
(* speaks of the lines of the file and of the BufWriter together: a flush  *)
(* leaves them, a write adds a batch, a write that stops early keeps a     *)
(* prefix.                                                                 *)

\* The lines written, in the file and still in the BufWriter.
Lines == output \o wbuf

\* The ids of s ascend.
Rising(s) == \A i, j \in 1 .. Len(s) : i < j => s[i] < s[j]

\* The ids of s are below m.
Under(s, m) == \A i \in 1 .. Len(s) : s[i] < m

\* Nothing is stored, written or on its way before the first start, and the
\* first life recovers nothing: its output is whole while it is written.
FirstLife ==
  /\ lives = 0 =>
       /\ main = "down" /\ meta = FALSE /\ torn = FALSE
       /\ store = << >> /\ output = << >> /\ wbuf = << >>
       /\ \A b \in Batch : ~Placed(b)
  /\ prior = FALSE /\ base = 0
  /\ main \notin {"truncate", "plan", "recover"}
  /\ main # "down" /\ out = "running" => torn = FALSE
  /\ out # "running" => wbuf = << >>

\* Batch b lies in what F assigns to its sequence number, and fills it unless
\* ingest has failed.
Fits(b, F) ==
  /\ b.seq < seq
  /\ F[b.seq] <= b.first /\ b.first + b.n <= F[b.seq + 1]
  /\ failed = FALSE => F[b.seq] = b.first /\ F[b.seq + 1] = b.first + b.n

\* The lines written end where the batch in turn starts, the batches follow
\* one another, and the last one taken ends at the end of the store.
Chained(F) ==
  /\ next <= seq
  /\ Under(Lines, F[next])
  /\ failed = FALSE => F[next] = Len(Lines) /\ F[seq] = Len(store)
  /\ \A b \in Batch : Placed(b) => Fits(b, F)

InLife ==
  /\ Rising(Lines)
  /\ main # "down" /\ failed = FALSE => Consecutive(Lines, 0)
  /\ main # "down" /\ out = "running" =>
       \E F \in [0 .. seq -> 0 .. Len(store)] : Chained(F)
  /\ out = "done" => /\ main = "finish"
                     /\ failed = FALSE => Len(output) = Len(store)

ServeInv == FlowInv /\ (lives <= 1 => FirstLife /\ InLife)

\* The written lines are a sequence of numbers that begins with the file.
LEMMA LinesType ==
  ASSUME TypeFiles
  PROVE  /\ output \in Seq(Int) /\ wbuf \in Seq(Int) /\ Lines \in Seq(Int)
         /\ Len(Lines) = Len(output) + Len(wbuf)
         /\ Len(output) \in Nat /\ Len(wbuf) \in Nat /\ Len(store) \in Nat
         /\ \A i \in 1 .. Len(output) : Lines[i] = output[i]
<1>1. output \in Seq(Int) /\ wbuf \in Seq(Int)
  BY DEF TypeFiles, Glued
<1>2. Len(output) \in Nat /\ Len(wbuf) \in Nat /\ Len(store) \in Nat
  BY DEF TypeFiles
<1> QED BY <1>1, <1>2 DEF Lines

\* Ascending ids below m, then a batch that starts at m or later.
LEMMA RisingConcat ==
  ASSUME NEW s \in Seq(Int), NEW m \in Nat, NEW first \in Nat, NEW n \in Nat,
         NEW e \in Nat, Rising(s), Under(s, m), m <= first, first + n <= e
  PROVE  /\ s \o Ids(first, n) \in Seq(Int)
         /\ Len(s \o Ids(first, n)) = Len(s) + n
         /\ Rising(s \o Ids(first, n)) /\ Under(s \o Ids(first, n), e)
<1> DEFINE t == Ids(first, n)
<1>1. t \in Seq(Nat) /\ Len(t) = n /\ \A i \in 1 .. n : t[i] = first + i - 1
  BY IdsType
<1>2. t \in Seq(Int)
  BY <1>1
<1> HIDE DEF t
<1>3. /\ s \o t \in Seq(Int) /\ Len(s \o t) = Len(s) + n /\ Len(s) \in Nat
      /\ \A i \in 1 .. Len(s) : (s \o t)[i] = s[i]
      /\ \A i \in Len(s) + 1 .. Len(s) + n :
           (s \o t)[i] = first + (i - Len(s)) - 1
  <2>1. ASSUME NEW i \in Len(s) + 1 .. Len(s) + n
        PROVE  (s \o t)[i] = first + (i - Len(s)) - 1
    <3>1. i - Len(s) \in 1 .. n /\ (s \o t)[i] = t[i - Len(s)]
      BY <1>1, <1>2
    <3> QED BY <1>1, <3>1
  <2>2. /\ s \o t \in Seq(Int) /\ Len(s \o t) = Len(s) + Len(t)
        /\ Len(s) \in Nat
        /\ \A i \in 1 .. Len(s) : (s \o t)[i] = s[i]
    BY <1>2
  <2> QED BY <1>1, <2>1, <2>2
<1>4. \A i \in 1 .. Len(s) : s[i] \in Int /\ s[i] < m
  BY DEF Under
<1> DEFINE u == s \o t
<1> HIDE DEF u
<1>5. /\ \A i \in 1 .. Len(s) : u[i] = s[i]
      /\ \A i \in Len(s) + 1 .. Len(s) + n : u[i] = first + (i - Len(s)) - 1
      /\ Len(u) = Len(s) + n /\ u \in Seq(Int)
  BY <1>3 DEF u
<1>6. Under(u, e)
  <2>1. ASSUME NEW i \in 1 .. Len(s) + n
        PROVE  u[i] < e
    <3>1. CASE i <= Len(s)
      <4>1. i \in 1 .. Len(s)
        BY <1>3, <3>1
      <4> QED BY <1>4, <1>5, <4>1
    <3>2. CASE i > Len(s)
      <4>1. i \in Len(s) + 1 .. Len(s) + n
        BY <1>3, <3>2
      <4> QED BY <1>3, <1>5, <4>1
    <3> QED BY <1>3, <3>1, <3>2
  <2> QED BY <1>5, <2>1 DEF Under
<1>7. Rising(u)
  <2>1. ASSUME NEW i \in 1 .. Len(s) + n, NEW j \in 1 .. Len(s) + n, i < j
        PROVE  u[i] < u[j]
    <3>1. CASE j <= Len(s)
      <4>1. i \in 1 .. Len(s) /\ j \in 1 .. Len(s)
        BY <1>3, <2>1, <3>1
      <4> QED BY <1>5, <2>1, <4>1 DEF Rising
    <3>2. CASE i <= Len(s) /\ j > Len(s)
      <4>1. i \in 1 .. Len(s) /\ j \in Len(s) + 1 .. Len(s) + n
        BY <1>3, <3>2
      <4>2. u[i] \in Int /\ u[i] < m
        BY <1>4, <1>5, <4>1
      <4>3. u[j] = first + (j - Len(s)) - 1
        BY <1>5, <4>1
      <4> QED BY <1>3, <4>1, <4>2, <4>3
    <3>3. CASE i > Len(s)
      <4>1. /\ i \in Len(s) + 1 .. Len(s) + n
            /\ j \in Len(s) + 1 .. Len(s) + n
        BY <1>3, <2>1, <3>3
      <4> QED BY <1>3, <1>5, <2>1, <4>1
    <3> QED BY <1>3, <2>1, <3>1, <3>2, <3>3
  <2> QED BY <1>5, <2>1 DEF Rising
<1> QED BY <1>5, <1>6, <1>7 DEF u, t

\* What a write that stops early leaves is a prefix of the written lines
\* (OutputFails, Kill).
LEMMA PartIsPrefix ==
  ASSUME TypeFiles, torn = FALSE, NEW k \in 0 .. Len(wbuf),
         NEW cut \in BOOLEAN, PartWritten(k, cut)
  PROVE  /\ Len(output') = Len(output) + k /\ Len(output') <= Len(Lines)
         /\ \A i \in 1 .. Len(output') : output'[i] = Lines[i]
<1>1. /\ output \in Seq(Int) /\ wbuf \in Seq(Int) /\ Len(output) \in Nat
      /\ Len(wbuf) \in Nat /\ Len(Lines) = Len(output) + Len(wbuf)
  BY LinesType
<1>2. output' = output \o SubSeq(wbuf, 1, k)
  BY DEF PartWritten, Appended
<1>3. PICK t : t = SubSeq(wbuf, 1, k)
  OBVIOUS
<1>4. /\ t \in Seq(Int) /\ Len(t) = k /\ \A i \in 1 .. k : t[i] = wbuf[i]
  BY <1>1, <1>3
<1>5. Len(output') = Len(output) + k
  BY <1>1, <1>2, <1>3, <1>4
<1>6. ASSUME NEW i \in 1 .. Len(output) + k
      PROVE  (output \o t)[i] = (output \o wbuf)[i]
  <2>0. i \in Int /\ Len(output) \in Nat /\ k \in Nat
    BY <1>1
  <2>1. CASE i <= Len(output)
    <3>1. i \in 1 .. Len(output)
      BY <2>0, <2>1
    <3>2. (output \o t)[i] = output[i] /\ (output \o wbuf)[i] = output[i]
      BY <1>1, <1>4, <3>1
    <3> QED BY <3>2
  <2>2. CASE i > Len(output)
    <3>1. /\ i - Len(output) \in 1 .. k
          /\ (output \o t)[i] = t[i - Len(output)]
          /\ (output \o wbuf)[i] = wbuf[i - Len(output)]
      BY <1>1, <1>4, <2>2
    <3> QED BY <1>4, <3>1
  <2>3. i <= Len(output) \/ i > Len(output)
    BY <2>0
  <2> QED BY <2>1, <2>2, <2>3, Zenon
<1> QED BY <1>1, <1>2, <1>3, <1>5, <1>6 DEF Lines

\* Before the first start nothing but the start happens.
LEMMA ColdStep ==
  ASSUME TypeInv, Held, FirstLife, lives = 0, [Next]_vars
  PROVE  Start \/ UNCHANGED vars
<1>0. /\ main = "down" /\ meta = FALSE /\ out = "off" /\ listening = {}
      /\ \A b \in Batch : ~Placed(b)
  BY DEF FirstLife, Held
<1>1. TypeThreads
  BY DEF TypeInv, TypeOK
<1>2. /\ \A p \in Producers : hold[p] = {}
      /\ \A w \in Workers : work[w] = {} /\ queue = << >>
  <2>1. /\ \A p \in Producers : hold[p] \subseteq Batch
        /\ \A w \in Workers : work[w] \subseteq Batch
    BY <1>1 DEF TypeThreads
  <2>2. /\ \A p \in Producers : hold[p] = {}
        /\ \A w \in Workers : work[w] = {}
    BY <1>0, <2>1, Zenon DEF Placed
  <2>3. queue = << >>
    <3>1. ASSUME queue # << >>
          PROVE  FALSE
      <4>1. queue[1] \in Batch /\ 1 \in 1 .. Len(queue)
        BY <1>1, <3>1 DEF TypeThreads
      <4> QED BY <1>0, <4>1 DEF Placed
    <3> QED BY <3>1
  <2> QED BY <2>2, <2>3
<1>3. ~NewOutput /\ ~Stop /\ ~MainFails /\ ~Kill
  BY <1>0 DEF NewOutput, Stop, MainFails, Kill
<1>4. ~OutputStep /\ ~OutputFails
  BY <1>0 DEF OutputStep, Receive, Write, Flush, OutputDone, OutputFails
<1>5. \A p \in Producers : ~Send(p) /\ ~SendFails(p)
  BY <1>2 DEF Send, SendFails
<1>6. ~MainStep
  BY <1>0, <1>5
     DEF MainStep, RecoverScan, RecoverTruncate, RecoverPlan, RecoverBatch,
         RecoverDone, IngestDone, JoinListeners, Finish, IngestBatch, Producers
<1>7. \A w \in Workers : ~WorkerStep(w)
  BY <1>0, <1>2 DEF WorkerStep, Take, Emit, WorkerExit
<1>8. \A l \in Listeners : ~ListenerStep(l) /\ ~ListenerFails(l)
  BY <1>0, <1>5
     DEF ListenerStep, ListenerBatch, ListenerExit, ListenerFails, Producers
<1> QED BY <1>3, <1>4, <1>6, <1>7, <1>8 DEF Next

\* The first life stays one that recovers nothing (start, recover_output).
LEMMA FirstLifeStep ==
  ASSUME TypeInv, Held, FirstLife, lives' <= 1, [Next]_vars
  PROVE  FirstLife'
<1> USE DEF disk, chans, writer, ingestV
<1>0. /\ TypeThreads /\ lives \in Nat
      /\ out \in {"off", "running", "failed", "done"}
  BY DEF TypeInv, TypeOK, TypeThreads
<1>1. CASE lives = 0
  <2>1. CASE Start
    BY <1>0, <1>1, <2>1 DEF Start, FirstLife
  <2>2. CASE UNCHANGED vars
    BY <2>2 DEF FirstLife, Placed, vars
  <2> QED BY <1>1, <2>1, <2>2, ColdStep
<1>2. CASE lives # 0
  <2> DEFINE Still == /\ lives' # 0 /\ prior' = FALSE /\ base' = 0
                      /\ main' \notin {"truncate", "plan", "recover"}
                      /\ main' # "down" /\ out' = "running" => torn' = FALSE
                      /\ out' # "running" => wbuf' = << >>
  <2> SUFFICES Still
    BY DEF FirstLife
  <2>0. /\ prior = FALSE /\ base = 0
        /\ main \notin {"truncate", "plan", "recover"}
        /\ main # "down" /\ out = "running" => torn = FALSE
        /\ out # "running" => wbuf = << >>
    BY DEF FirstLife
  <2>1. ~Start
    BY <1>0, <1>2 DEF Start
  <2>2. CASE NewOutput \/ Stop \/ MainFails \/ Kill \/ OutputFails
    BY <1>2, <2>0, <2>2 DEF NewOutput, Stop, MainFails, Kill, OutputFails, Held
  <2>3. CASE MainStep
    <3>1. CASE RecoverScan \/ RecoverTruncate \/ RecoverPlan \/ RecoverBatch
               \/ RecoverDone
      BY <1>2, <2>0, <3>1
         DEF RecoverScan, RecoverTruncate, RecoverPlan, RecoverBatch,
             RecoverDone, BeginIngest
    <3>2. CASE IngestDone \/ JoinListeners \/ Finish
      BY <1>2, <2>0, <3>2 DEF IngestDone, JoinListeners, Finish
    <3>3. ASSUME NEW f \in Files, NEW n \in 1 .. BatchMax, IngestBatch(f, n)
          PROVE  Still
      BY <1>2, <2>0, <3>3 DEF IngestBatch
    <3>4. CASE Send(Main)
      BY <1>2, <2>0, <3>4 DEF Send
    <3>5. CASE SendFails(Main)
      <4>1. main' = "join"
        BY <3>5 DEF SendFails
      <4> QED BY <1>2, <2>0, <3>5, <4>1 DEF SendFails, Held
    <3> QED BY <2>3, <3>1, <3>2, <3>3, <3>4, <3>5 DEF MainStep
  <2>4. CASE OutputStep
    BY <1>2, <2>0, <2>4
       DEF OutputStep, Receive, Write, Flush, OutputDone, Held
  <2>5. ASSUME NEW w \in Workers, WorkerStep(w)
        PROVE  Still
    BY <1>2, <2>0, <2>5 DEF WorkerStep, Take, Emit, WorkerExit
  <2>6. ASSUME NEW l \in Listeners, ListenerStep(l) \/ ListenerFails(l)
        PROVE  Still
    <3>1. ASSUME NEW n \in 1 .. BatchMax, ListenerBatch(l, n)
          PROVE  Still
      BY <1>2, <2>0, <3>1 DEF ListenerBatch
    <3>2. CASE Send(l) \/ SendFails(l) \/ ListenerExit(l) \/ ListenerFails(l)
      <4>1. l # Main
        BY EngineAssumption
      <4>2. main' = main
        BY <3>2, <4>1 DEF Send, SendFails, ListenerExit, ListenerFails
      <4> QED
        BY <1>2, <2>0, <3>2, <4>2
           DEF Send, SendFails, ListenerExit, ListenerFails
    <3> QED BY <2>6, <3>1, <3>2 DEF ListenerStep
  <2>7. CASE UNCHANGED vars
    BY <1>2, <2>0, <2>7 DEF vars
  <2> HIDE DEF Still
  <2> QED BY <2>1, <2>2, <2>3, <2>4, <2>5, <2>6, <2>7 DEF Next
<1> QED BY <1>1, <1>2

\* A step that writes nothing and takes no number, and drops batches only when
\* ingest has failed or the process ends.
LEMMA KeptInLife ==
  ASSUME TypeFiles, TypeFiles', InLife, UNCHANGED <<output, wbuf>>,
         Len(store') >= Len(store),
         main' # "down" =>
           /\ main # "down" /\ UNCHANGED <<seq, next>>
           /\ failed' = FALSE => failed = FALSE /\ Len(store') = Len(store),
         main' # "down" /\ out' = "running" =>
           out = "running" /\ \A b \in Batch : Placed(b)' => Placed(b),
         out' = "done" => out = "done" /\ main' = "finish"
  PROVE  InLife'
<1>0. Len(store) \in Nat /\ Len(store') \in Nat
  BY LinesType DEF TypeFiles
<1>1. Lines' = Lines
  BY DEF Lines
<1>2. Rising(Lines)'
  BY <1>1 DEF InLife, Rising
<1>3. main' # "down" /\ failed' = FALSE => Consecutive(Lines, 0)'
  BY <1>1 DEF InLife, Consecutive
<1>4. ASSUME main' # "down", out' = "running"
      PROVE  \E F \in [0 .. seq' -> 0 .. Len(store')] : Chained(F)'
  <2>1. PICK F \in [0 .. seq -> 0 .. Len(store)] : Chained(F)
    BY <1>4 DEF InLife
  <2>2. F \in [0 .. seq' -> 0 .. Len(store')]
    BY <1>0, <1>4
  <2>3. \A b \in Batch : Placed(b)' => Fits(b, F)'
    BY <1>4, <2>1 DEF Chained, Fits
  <2>4. next' <= seq' /\ Under(Lines', F[next'])
    BY <1>1, <1>4, <2>1 DEF Chained
  <2>5. failed' = FALSE => F[next'] = Len(Lines') /\ F[seq'] = Len(store')
    BY <1>1, <1>4, <2>1 DEF Chained
  <2>6. Chained(F)'
    BY <2>3, <2>4, <2>5 DEF Chained, Under
  <2> QED BY <2>2, <2>6
<1>5. out' = "done" => /\ main' = "finish"
                       /\ failed' = FALSE => Len(output') = Len(store')
  BY DEF InLife
<1> QED BY <1>2, <1>3, <1>4, <1>5 DEF InLife

\* A producer appends n records and takes the next number for them, under one
\* store lock (ingest_file, the listeners' flush).
LEMMA IssuedInLife ==
  ASSUME TypeFiles, TypeFiles', TypeThreads, InLife, NEW n \in Nat,
         main # "down", out # "done", Len(store') = Len(store) + n,
         seq' = seq + 1,
         UNCHANGED <<output, wbuf, next, out, main, failed>>,
         \A b \in Batch : Placed(b)' =>
           Placed(b) \/ (b.seq = seq /\ b.first = Len(store) /\ b.n = n)
  PROVE  InLife'
<1>0. /\ Len(store) \in Nat /\ Len(store') \in Nat
      /\ seq \in Nat /\ next \in Nat
  <2>1. seq \in Nat /\ next \in Nat
    BY DEF TypeThreads
  <2>2. Len(store) \in Nat /\ Len(store') \in Nat
    BY DEF TypeFiles
  <2> QED BY <2>1, <2>2
<1>1. Lines' = Lines
  BY DEF Lines
<1>2. Rising(Lines)' /\ (failed' = FALSE => Consecutive(Lines, 0)')
  BY <1>1 DEF InLife, Rising, Consecutive
<1>3. ASSUME out = "running"
      PROVE  \E F \in [0 .. seq' -> 0 .. Len(store')] : Chained(F)'
  <2>1. PICK F \in [0 .. seq -> 0 .. Len(store)] : Chained(F)
    BY <1>3 DEF InLife
  <2>2. PICK G \in [0 .. seq + 1 -> 0 .. Len(store')] :
          G[seq + 1] = Len(store') /\ \A i \in 0 .. seq : G[i] = F[i]
    <3> DEFINE H == [i \in 0 .. seq + 1 |->
                       IF i = seq + 1 THEN Len(store') ELSE F[i]]
    <3>1. H \in [0 .. seq + 1 -> 0 .. Len(store')]
      BY <1>0
    <3>2. H[seq + 1] = Len(store') /\ \A i \in 0 .. seq : H[i] = F[i]
      BY <1>0
    <3> HIDE DEF H
    <3> QED BY <3>1, <3>2
  <2>3. /\ next <= seq /\ Under(Lines, F[next])
        /\ failed = FALSE => F[next] = Len(Lines) /\ F[seq] = Len(store)
        /\ \A b \in Batch : Placed(b) => Fits(b, F)
    BY <2>1 DEF Chained
  <2>4. G[next] = F[next] /\ G[seq] = F[seq] /\ F[seq] \in 0 .. Len(store)
    BY <1>0, <2>2, <2>3
  <2>5. ASSUME NEW b \in Batch, Placed(b)'
        PROVE  Fits(b, G)'
    <3>0. b.seq \in Nat
      BY DEF Batch
    <3>1. CASE Placed(b)
      <4>1. Fits(b, F)
        BY <2>3, <3>1
      <4>2. b.seq < seq
        BY <4>1 DEF Fits
      <4>3. b.seq \in 0 .. seq /\ b.seq + 1 \in 0 .. seq
        BY <1>0, <3>0, <4>2, Below
      <4>4. G[b.seq] = F[b.seq] /\ G[b.seq + 1] = F[b.seq + 1]
        BY <2>2, <4>3
      <4>5. b.seq < seq'
        BY <1>0, <3>0, <4>2
      <4> QED BY <4>1, <4>4, <4>5 DEF Fits
    <3>2. CASE b.seq = seq /\ b.first = Len(store) /\ b.n = n
      <4>1. b.first + b.n = Len(store') /\ G[b.seq + 1] = Len(store')
        BY <2>2, <3>2
      <4>2. G[b.seq] <= b.first /\ (failed = FALSE => G[b.seq] = b.first)
        BY <1>0, <2>3, <2>4, <3>2
      <4>3. b.first + b.n <= G[b.seq + 1] /\ b.seq < seq'
        BY <1>0, <3>2, <4>1
      <4> QED BY <4>1, <4>2, <4>3 DEF Fits
    <3> QED BY <2>5, <3>1, <3>2
  <2>6. next' <= seq' /\ Under(Lines', G[next'])
    BY <1>0, <1>1, <2>3, <2>4
  <2>7. failed' = FALSE => G[next'] = Len(Lines') /\ G[seq'] = Len(store')
    BY <1>1, <2>2, <2>3, <2>4
  <2>8. Chained(G)'
    BY <2>5, <2>6, <2>7 DEF Chained, Under
  <2> QED BY <2>2, <2>8
<1> QED BY <1>2, <1>3 DEF InLife

\* The batch in turn is written behind the lines written before it
\* (output_thread).
LEMMA WriteInLife ==
  ASSUME TypeFiles, TypeFiles', TypeThreads, InLife, torn = FALSE,
         main # "down", Write
  PROVE  InLife'
<1>0. /\ Lines \in Seq(Int) /\ Len(Lines) \in Nat /\ Len(store) \in Nat
      /\ output \in Seq(Int) /\ wbuf \in Seq(Int) /\ Lines' \in Seq(Int)
      /\ seq \in Nat /\ next \in Nat
  <2>1. seq \in Nat /\ next \in Nat
    BY DEF TypeThreads
  <2>2. Lines \in Seq(Int) /\ Len(Lines) \in Nat
    BY LinesType
  <2>3. Lines' \in Seq(Int)
    <3>1. output' \in Seq(Int) /\ wbuf' \in Seq(Int)
      BY DEF TypeFiles, Glued
    <3> QED BY <3>1 DEF Lines
  <2> QED BY <2>1, <2>2, <2>3, LinesType
<1>1. PICK F \in [0 .. seq -> 0 .. Len(store)] : Chained(F)
  BY DEF InLife, Write
<1>2. PICK b \in pending :
        /\ b.seq = next /\ pending' = pending \ {b}
        /\ \/ wbuf' = wbuf \o Ids(b.first, b.n) /\ output' = output
           \/ output' = Appended(wbuf) /\ wbuf' = Ids(b.first, b.n)
           \/ output' = Appended(wbuf \o Ids(b.first, b.n)) /\ wbuf' = << >>
  BY DEF Write, InTurn
<1>3. b \in Batch /\ Fits(b, F)
  <2>1. b \in Batch /\ Placed(b)
    BY <1>2 DEF Placed, TypeThreads
  <2> QED BY <1>1, <2>1 DEF Chained
<1>4. /\ b.first \in Nat /\ b.n \in Nat /\ next + 1 <= seq
      /\ F[next] <= b.first /\ b.first + b.n <= F[next + 1]
      /\ F[next] \in Nat /\ F[next + 1] \in Nat
      /\ failed = FALSE => F[next] = b.first /\ F[next + 1] = b.first + b.n
  <2>1. b.first \in Nat /\ b.n \in Nat
    BY <1>3 DEF Batch
  <2>2. next < seq
    BY <1>2, <1>3 DEF Fits
  <2>3. next \in 0 .. seq /\ next + 1 \in 0 .. seq
    BY <1>0, <2>2, Below
  <2>4. F[next] \in Nat /\ F[next + 1] \in Nat
    BY <1>1, <2>3
  <2>5. next + 1 <= seq
    BY <1>0, <2>2
  <2> QED BY <1>2, <1>3, <2>1, <2>4, <2>5 DEF Fits
<1> DEFINE ids == Ids(b.first, b.n)
<1>5. ids \in Seq(Int)
  <2>1. ids \in Seq(Nat)
    BY <1>4, IdsType
  <2> QED BY <2>1
<1> HIDE DEF ids
<1>6. Lines' = Lines \o ids
  <2>1. \A s : Appended(s) = output \o s
    BY DEF Appended
  <2>2. (output \o wbuf) \o ids = output \o (wbuf \o ids)
    <3>1. \A s, t, u \in Seq(Int) : (s \o t) \o u = s \o (t \o u)
      BY ConcatAssociative
    <3> QED BY <1>0, <1>5, <3>1, Zenon
  <2>a. wbuf \o ids \in Seq(Int)
    BY <1>0, <1>5
  <2>3. \/ wbuf' = wbuf \o ids /\ output' = output
        \/ output' = output \o wbuf /\ wbuf' = ids
        \/ output' = output \o (wbuf \o ids) /\ wbuf' = << >>
    BY <1>2, <2>1 DEF ids
  <2>4. \A s \in Seq(Int) : s \o << >> = s
    OBVIOUS
  <2>5. output \o (wbuf \o ids) \in Seq(Int)
    BY <1>0, <2>a
  <2> QED BY <2>2, <2>3, <2>4, <2>5, Zenon DEF Lines
<1>7. /\ Len(Lines') = Len(Lines) + b.n
      /\ Rising(Lines') /\ Under(Lines', F[next + 1])
  <2>1. Rising(Lines) /\ Under(Lines, F[next])
    BY <1>1 DEF InLife, Chained
  <2>2. PICK m \in Nat, e \in Nat : m = F[next] /\ e = F[next + 1]
    BY <1>4
  <2>3. Under(Lines, m) /\ m <= b.first /\ b.first + b.n <= e
    BY <1>4, <2>1, <2>2
  <2>4. /\ Len(Lines \o ids) = Len(Lines) + b.n
        /\ Rising(Lines \o ids) /\ Under(Lines \o ids, e)
    <3>1. PICK s \in Seq(Int), first \in Nat, n \in Nat :
            s = Lines /\ first = b.first /\ n = b.n
      BY <1>0, <1>4
    <3>2. Rising(s) /\ Under(s, m) /\ m <= first /\ first + n <= e
      BY <2>1, <2>3, <3>1
    <3>3. /\ Len(s \o Ids(first, n)) = Len(s) + n
          /\ Rising(s \o Ids(first, n)) /\ Under(s \o Ids(first, n), e)
      BY <3>2, RisingConcat, Zenon
    <3> QED BY <3>1, <3>3, Zenon DEF ids
  <2> QED BY <1>6, <2>2, <2>4, Zenon
<1>8. ASSUME failed = FALSE
      PROVE  F[next + 1] = Len(Lines') /\ Consecutive(Lines', 0)
  <2>1. F[next] = Len(Lines) /\ Consecutive(Lines, 0)
    BY <1>1, <1>8 DEF InLife, Chained
  <2>2. b.first = 0 + Len(Lines) /\ F[next + 1] = Len(Lines')
    <3>1. b.first = Len(Lines) /\ F[next + 1] = b.first + b.n
      BY <1>4, <1>8, <2>1
    <3>2. b.first = 0 + Len(Lines)
      BY <1>0, <3>1
    <3> QED BY <1>7, <3>1, <3>2
  <2>3. Consecutive(ids, 0 + Len(Lines))
    BY <1>4, <2>2, IdsConsecutive DEF ids
  <2>4. Consecutive(Lines \o ids, 0)
    BY <1>0, <1>5, <2>1, <2>3, ConsecutiveConcat
  <2> QED BY <1>6, <2>2, <2>4
<1>9. UNCHANGED <<store, main, seq, out, hold, queue, work, outq, failed>>
      /\ next' = next + 1 /\ out = "running"
  BY DEF Write, ingestV
<1>10. Chained(F)'
  <2>1. \A c \in Batch : Placed(c)' => Placed(c)
    BY <1>2, <1>9 DEF Placed
  <2>2. \A c \in Batch : Placed(c)' => Fits(c, F)'
    BY <1>1, <1>9, <2>1 DEF Chained, Fits
  <2>3. failed' = FALSE => F[next'] = Len(Lines') /\ F[seq'] = Len(store')
    BY <1>1, <1>8, <1>9 DEF Chained
  <2>4. next' <= seq' /\ Under(Lines', F[next'])
    BY <1>4, <1>7, <1>9
  <2> QED BY <2>2, <2>3, <2>4 DEF Chained, Under
<1>11. Rising(Lines)' /\ (failed' = FALSE => Consecutive(Lines, 0)')
  BY <1>7, <1>8, <1>9 DEF Rising, Consecutive
<1> QED BY <1>1, <1>9, <1>10, <1>11 DEF InLife

\* The half-second flush leaves the written lines what they are.
LEMMA FlushInLife ==
  ASSUME TypeFiles, InLife, torn = FALSE, Flush
  PROVE  InLife'
<1>1. /\ UNCHANGED <<store, main, seq, next, out, hold, queue, work, outq,
                     pending, failed>>
      /\ out = "running" /\ output' = Appended(wbuf) /\ wbuf' = << >>
  BY DEF Flush, ingestV, chans
<1>2. Lines' = Lines
  <2>1. (output \o wbuf) \o << >> = output \o wbuf
    BY LinesType DEF Lines
  <2> QED BY <1>1, <2>1 DEF Lines, Appended
<1>3. \A b \in Batch : Placed(b)' = Placed(b)
  BY <1>1 DEF Placed
<1>4. \A F : Chained(F) => Chained(F)'
  BY <1>1, <1>2, <1>3 DEF Chained, Fits, Under
<1> QED BY <1>1, <1>2, <1>4 DEF InLife, Rising, Consecutive

\* The output thread is gone and what is written is in the file, a prefix of
\* what it had taken: the lines of a failed or killed output thread.
LEMMA CutInLife ==
  ASSUME TypeFiles, TypeFiles', InLife, Len(output') <= Len(Lines),
         \A i \in 1 .. Len(output') : output'[i] = Lines[i],
         wbuf' = << >>, out' \in {"off", "failed"},
         main' # "down" /\ failed' = FALSE => main # "down" /\ failed = FALSE
  PROVE  InLife'
<1>1. Lines' = output'
  <2>1. output' \in Seq(Int)
    BY DEF TypeFiles, Glued
  <2> QED BY <2>1 DEF Lines
<1>2. /\ Len(output') \in Nat /\ Len(Lines) \in Nat
      /\ \A i \in 1 .. Len(output') : i \in 1 .. Len(Lines)
  <2>1. Len(output') \in Nat /\ Len(Lines) \in Nat
    BY LinesType DEF TypeFiles
  <2> QED BY <2>1
<1>3. Rising(Lines)'
  BY <1>1, <1>2 DEF InLife, Rising
<1>4. main' # "down" /\ failed' = FALSE => Consecutive(Lines, 0)'
  BY <1>1, <1>2 DEF InLife, Consecutive
<1> QED BY <1>3, <1>4 DEF InLife

\* The first start finds nothing stored, nothing written and nothing on its
\* way.
LEMMA StartInLife ==
  ASSUME TypeFiles, FirstLife, Start, lives = 0
  PROVE  InLife'
<1>1. /\ store = << >> /\ output = << >> /\ wbuf = << >>
      /\ \A b \in Batch : ~Placed(b)
  BY DEF FirstLife
<1>2. /\ seq' = 0 /\ next' = 0 /\ out' = "running"
      /\ UNCHANGED <<store, output, wbuf, hold, queue, work, outq, pending>>
  BY DEF Start, chans
<1>3. Lines' = << >> /\ Len(store') = 0
  BY <1>1, <1>2 DEF Lines
<1>4. Rising(Lines)' /\ Consecutive(Lines, 0)'
  BY <1>3 DEF Rising, Consecutive
<1>5. PICK F \in [0 .. 0 -> {0}] : TRUE
  <2>1. [i \in 0 .. 0 |-> 0] \in [0 .. 0 -> {0}]
    OBVIOUS
  <2> QED BY <2>1
<1>6. F \in [0 .. seq' -> 0 .. Len(store')] /\ F[0] = 0
  BY <1>2, <1>3, <1>5
<1>7. \A b \in Batch : ~Placed(b)'
  BY <1>1, <1>2 DEF Placed
<1>8. Chained(F)'
  <2>1. Under(Lines, F[next])' /\ Len(Lines') = 0
    BY <1>3 DEF Under
  <2> QED BY <1>2, <1>3, <1>6, <1>7, <2>1 DEF Chained
<1> QED BY <1>2, <1>4, <1>6, <1>8 DEF InLife

\* The output thread ends once every batch is written: the file is all that is
\* stored (output_thread's last flush).
LEMMA DoneInLife ==
  ASSUME TypeInv, Held, Tracked, FirstLife, InLife, OutputDone
  PROVE  InLife'
<1>0. /\ TypeFiles /\ TypeThreads /\ seq \in Nat /\ next \in Nat
      /\ out = "running" /\ alive = {} /\ outq = << >> /\ InTurn = {}
  BY DEF TypeInv, TypeOK, TypeThreads, OutputDone
<1>1. main = "finish" /\ queue = << >>
  BY <1>0, EngineAssumption DEF Held
<1>2. /\ \A p \in Producers : hold[p] = {}
      /\ \A w \in Workers : work[w] = {}
  BY <1>0, <1>1 DEF Held, Producers
<1>3. PICK F \in [0 .. seq -> 0 .. Len(store)] : Chained(F)
  BY <1>0, <1>1 DEF InLife
<1>4. next = seq
  <2>1. next <= seq
    BY <1>3 DEF Chained
  <2>2. ASSUME next < seq
        PROVE  FALSE
    <3>1. next \in next .. seq - 1
      BY <1>0, <2>2
    <3>2. PICK b \in Batch : Placed(b) /\ b.seq = next
      BY <1>0, <3>1 DEF Tracked
    <3>3. b \in pending
      BY <1>0, <1>1, <1>2, <3>2 DEF Placed
    <3> QED BY <1>0, <3>2, <3>3 DEF InTurn
  <2> QED BY <1>0, <2>1, <2>2
<1>5. /\ output' = Appended(wbuf) /\ wbuf' = << >> /\ out' = "done"
      /\ UNCHANGED <<store, main, failed>>
  BY DEF OutputDone, ingestV
<1>6. output' = Lines /\ Lines' = Lines
  <2>1. (output \o wbuf) \o << >> = output \o wbuf
    BY <1>0, LinesType DEF Lines
  <2>2. torn = FALSE
    BY <1>0, <1>1 DEF FirstLife
  <2> QED BY <1>5, <2>1, <2>2 DEF Lines, Appended
<1>7. failed' = FALSE => Len(output') = Len(store')
  BY <1>3, <1>4, <1>5, <1>6 DEF Chained
<1>8. Rising(Lines)' /\ (failed' = FALSE => Consecutive(Lines, 0)')
  BY <1>1, <1>5, <1>6 DEF InLife, Rising, Consecutive
<1> QED BY <1>1, <1>5, <1>7, <1>8 DEF InLife

\* A producer's batch is on its way from the moment it is stored.
LEMMA StoredInLife ==
  ASSUME TypeFiles, TypeFiles', TypeThreads, TypeThreads', InLife,
         NEW p \in Producers,
         NEW records \in Seq([src : Files \cup Listeners, at : Nat]),
         StoreBatch(p, records), main # "down", out # "done",
         UNCHANGED <<output, wbuf, next, out, main, failed, queue, work, outq,
                     pending>>
  PROVE  InLife'
<1>1. PICK n \in Nat : n = Len(records)
  OBVIOUS
<1>2. Len(store') = Len(store) + n
  <2>1. \A s \in Seq([src : Files \cup Listeners, at : Nat]) :
          Len(s \o records) = Len(s) + Len(records)
    OBVIOUS
  <2> QED BY <1>1, <2>1 DEF StoreBatch, TypeFiles
<1>3. /\ hold' = [hold EXCEPT ![p] =
                    {[seq |-> seq, first |-> Len(store), n |-> n]}]
      /\ seq' = seq + 1
  BY <1>1 DEF StoreBatch
<1>4. ASSUME NEW b \in Batch, Placed(b)'
      PROVE  Placed(b) \/ (b.seq = seq /\ b.first = Len(store) /\ b.n = n)
  <2>1. CASE \E q \in Producers : b \in hold'[q]
    <3>1. PICK q \in Producers : b \in hold'[q]
      BY <2>1
    <3>2. CASE q = p
      <4>1. b = [seq |-> seq, first |-> Len(store), n |-> n]
        BY <1>3, <3>1, <3>2 DEF TypeThreads
      <4> QED BY <4>1
    <3>3. CASE q # p
      <4>1. b \in hold[q]
        BY <1>3, <3>1, <3>3 DEF TypeThreads
      <4> QED BY <4>1 DEF Placed
    <3> QED BY <3>2, <3>3
  <2>2. CASE ~\E q \in Producers : b \in hold'[q]
    BY <1>4, <2>2 DEF Placed
  <2> QED BY <2>1, <2>2
<1> QED BY <1>2, <1>3, <1>4, IssuedInLife

\* Whoever sends, a batch only moves on or is dropped.
LEMMA PlacedMoves ==
  ASSUME TypeThreads, TypeThreads', NEW b \in Batch, Placed(b)',
         \/ \E p \in Producers : Send(p) \/ SendFails(p)
         \/ \E w \in Workers : Take(w) \/ Emit(w) \/ WorkerExit(w)
         \/ Receive
  PROVE  Placed(b)
<1> USE DEF TypeThreads, Placed
<1>1. ASSUME NEW p \in Producers, Send(p)
      PROVE  Placed(b)
  BY <1>1 DEF Send
<1>2. ASSUME NEW p \in Producers, SendFails(p)
      PROVE  Placed(b)
  BY <1>2 DEF SendFails
<1>3. CASE Receive
  BY <1>3 DEF Receive
<1>4. ASSUME NEW w \in Workers, Take(w)
      PROVE  Placed(b)
  BY <1>4 DEF Take
<1>5. ASSUME NEW w \in Workers, Emit(w)
      PROVE  Placed(b)
  BY <1>5 DEF Emit
<1>6. ASSUME NEW w \in Workers, WorkerExit(w)
      PROVE  Placed(b)
  BY <1>6 DEF WorkerExit
<1> QED BY <1>1, <1>2, <1>3, <1>4, <1>5, <1>6

\* Every step of the first life keeps its order.
LEMMA InLifeStep ==
  ASSUME FlowInv, FlowInv', FirstLife, InLife, lives' <= 1, [Next]_vars
  PROVE  InLife'
<1> USE DEF disk, chans, writer, ingestV
<1>0. /\ TypeInv /\ Held /\ Tracked /\ TypeOK
      /\ TypeFiles /\ TypeThreads /\ TypeFiles' /\ TypeThreads'
  BY DEF FlowInv, TypeInv, TypeOK
<1>a. /\ Len(store) \in Nat /\ lives \in Nat
      /\ main = "down" <=> out = "off"
      /\ out = "done" => main = "finish"
      /\ main \in {"finish", "down"} => listening = {}
      /\ failed \in BOOLEAN /\ failed' \in BOOLEAN
  BY <1>0, LinesType
     DEF TypeThreads, TypeFlags, TypeOK, Held, InLife, FlowInv, TypeInv
<1>b. /\ prior = FALSE /\ main \notin {"truncate", "plan", "recover"}
      /\ main # "down" /\ out = "running" => torn = FALSE
      /\ out # "running" => wbuf = << >>
  BY DEF FirstLife
<1>c. /\ Len(output) <= Len(Lines)
      /\ \A i \in 1 .. Len(output) : output[i] = Lines[i]
  BY <1>0, LinesType
<1>d. store' = store => Len(store') = Len(store) /\ Len(store') >= Len(store)
  BY <1>a
<1>e. ASSUME UNCHANGED vars
      PROVE  InLife'
  <2>1. UNCHANGED <<output, wbuf, store, seq, next, out, main, failed, hold,
                    queue, work, outq, pending>>
    BY <1>e DEF vars
  <2>2. \A b \in Batch : Placed(b)' => Placed(b)
    BY <2>1 DEF Placed
  <2> QED BY <1>0, <1>a, <1>d, <2>1, <2>2, KeptInLife
<1>1. CASE lives = 0
  <2>1. CASE Start
    BY <1>0, <1>1, <2>1, StartInLife
  <2>2. CASE UNCHANGED vars
    BY <1>e, <2>2
  <2> QED BY <1>0, <1>1, <2>1, <2>2, ColdStep
<1>2. CASE Start /\ lives # 0
  BY <1>a, <1>2 DEF Start
<1>3. CASE NewOutput
  <2>1. output' = << >> /\ wbuf' = << >> /\ out' = "off" /\ main' = "down"
    BY <1>3, <1>a, <1>b DEF NewOutput
  <2>2. Len(output') <= Len(Lines) /\ Len(output') = 0
    BY <1>0, <2>1, LinesType
  <2> QED BY <1>0, <2>1, <2>2, CutInLife
<1>4. CASE Stop \/ IngestDone \/ JoinListeners \/ RecoverScan
  <2>1. UNCHANGED <<output, wbuf, store, seq, next, out, failed, hold, queue,
                    work, outq, pending>>
    BY <1>4 DEF Stop, IngestDone, JoinListeners, RecoverScan
  <2>2. /\ main' # "down" => main # "down"
        /\ out' = "done" => out = "done" /\ main' = "finish"
    BY <1>4, <1>a, <1>b, <2>1
       DEF Stop, IngestDone, JoinListeners, RecoverScan
  <2>3. \A b \in Batch : Placed(b)' => Placed(b)
    BY <2>1 DEF Placed
  <2> QED BY <1>0, <1>a, <1>d, <2>1, <2>2, <2>3, KeptInLife
<1>5. CASE RecoverTruncate \/ RecoverPlan \/ RecoverBatch \/ RecoverDone
  BY <1>5, <1>b DEF RecoverTruncate, RecoverPlan, RecoverBatch, RecoverDone
<1>6. CASE Finish
  <2>1. UNCHANGED <<output, wbuf, store>> /\ main' = "down" /\ out' = "off"
    BY <1>6, <1>b DEF Finish
  <2> QED BY <1>0, <1>a, <1>d, <2>1, KeptInLife
<1>7. ASSUME NEW f \in Files, NEW n \in 1 .. BatchMax, IngestBatch(f, n)
      PROVE  InLife'
  <2>1. FileEvents(f, n) \in Seq([src : Files \cup Listeners, at : Nat])
    <3>1. n \in Nat /\ consumed[f] \in Nat
      BY <1>0, EngineAssumption DEF TypeThreads
    <3> QED BY <3>1 DEF FileEvents
  <2>2. /\ StoreBatch(Main, FileEvents(f, n)) /\ main # "down" /\ out # "done"
        /\ UNCHANGED <<output, wbuf, next, out, main, failed, queue, work,
                       outq, pending>>
    BY <1>7, <1>a DEF IngestBatch
  <2> QED BY <1>0, <2>1, <2>2, StoredInLife DEF Producers
<1>8. ASSUME NEW l \in Listeners, NEW n \in 1 .. BatchMax, ListenerBatch(l, n)
      PROVE  InLife'
  <2>1. ListenerEvents(l, n) \in Seq([src : Files \cup Listeners, at : Nat])
    <3>1. n \in Nat
      BY EngineAssumption
    <3> QED BY <3>1 DEF ListenerEvents
  <2>2. /\ StoreBatch(l, ListenerEvents(l, n)) /\ main # "down" /\ out # "done"
        /\ UNCHANGED <<output, wbuf, next, out, main, failed, queue, work,
                       outq, pending>>
    BY <1>8, <1>a DEF ListenerBatch
  <2> QED BY <1>0, <2>1, <2>2, StoredInLife DEF Producers
<1>9. ASSUME NEW p \in Producers, Send(p) \/ SendFails(p)
      PROVE  InLife'
  <2>1. \A b \in Batch : Placed(b)' => Placed(b)
    BY <1>0, <1>9, PlacedMoves
  <2>2. UNCHANGED <<output, wbuf, store, seq, next, out>>
        /\ (failed' = FALSE => failed = FALSE)
    BY <1>9 DEF Send, SendFails
  <2>3. hold[p] # {}
    BY <1>9 DEF Send, SendFails
  <2>4. main \notin {"finish", "down"}
    BY <1>0, <2>3 DEF Held, Producers
  <2> QED BY <1>0, <1>a, <1>d, <2>1, <2>2, <2>4, KeptInLife
<1>10. ASSUME NEW w \in Workers, Take(w) \/ Emit(w) \/ WorkerExit(w)
       PROVE  InLife'
  <2>1. \A b \in Batch : Placed(b)' => Placed(b)
    BY <1>0, <1>10, PlacedMoves
  <2>2. UNCHANGED <<output, wbuf, store, seq, next, out, main, failed>>
    BY <1>10 DEF Take, Emit, WorkerExit
  <2> QED BY <1>0, <1>a, <1>d, <2>1, <2>2, KeptInLife
<1>11. CASE Receive
  <2>1. \A b \in Batch : Placed(b)' => Placed(b)
    BY <1>0, <1>11, PlacedMoves
  <2>2. UNCHANGED <<output, wbuf, store, seq, next, out, main, failed>>
    BY <1>11 DEF Receive
  <2> QED BY <1>0, <1>a, <1>d, <2>1, <2>2, KeptInLife
<1>12. CASE Write
  <2>1. main # "down" /\ torn = FALSE
    BY <1>12, <1>a, <1>b DEF Write
  <2> QED BY <1>0, <1>12, <2>1, WriteInLife
<1>13. CASE Flush
  <2>1. torn = FALSE
    BY <1>13, <1>a, <1>b DEF Flush
  <2> QED BY <1>0, <1>13, <2>1, FlushInLife
<1>14. CASE OutputFails
  <2>1. torn = FALSE
    BY <1>14, <1>a, <1>b DEF OutputFails
  <2>2. PICK k \in 0 .. Len(wbuf), cut \in BOOLEAN : PartWritten(k, cut)
    BY <1>14 DEF OutputFails
  <2>3. /\ Len(output') <= Len(Lines)
        /\ \A i \in 1 .. Len(output') : output'[i] = Lines[i]
    BY <1>0, <2>1, <2>2, PartIsPrefix
  <2>4. wbuf' = << >> /\ out' = "failed" /\ UNCHANGED <<main, failed>>
    BY <1>14 DEF OutputFails
  <2> QED BY <1>0, <2>3, <2>4, CutInLife
<1>15. CASE OutputDone
  BY <1>0, <1>15, DoneInLife
<1>16. CASE Kill
  <2>1. wbuf' = << >> /\ out' = "off" /\ main' = "down" /\ main # "down"
    BY <1>16 DEF Kill
  <2>2. CASE out = "running"
    <3>1. PICK k \in 0 .. Len(wbuf), cut \in BOOLEAN : PartWritten(k, cut)
      BY <1>16, <2>2 DEF Kill
    <3>2. /\ Len(output') <= Len(Lines)
          /\ \A i \in 1 .. Len(output') : output'[i] = Lines[i]
      BY <1>0, <1>b, <2>1, <2>2, <3>1, PartIsPrefix
    <3> QED BY <1>0, <2>1, <3>2, CutInLife
  <2>3. CASE out # "running"
    <3>1. output' = output
      BY <1>16, <2>3 DEF Kill
    <3> QED BY <1>0, <1>c, <2>1, <3>1, CutInLife
  <2> QED BY <2>2, <2>3
<1>17. ASSUME NEW p \in Producers, HalfStored(p), failed' = TRUE,
              UNCHANGED <<output, wbuf, seq, next, out, hold, queue, work,
                          outq, pending>>,
              main' # "down", main # "down", out # "done"
       PROVE  InLife'
  <2>1. Len(store') >= Len(store)
    BY <1>0, <1>17, HalfStoredType
  <2>2. \A b \in Batch : Placed(b)' => Placed(b)
    BY <1>17 DEF Placed
  <2> QED BY <1>0, <1>a, <1>17, <2>1, <2>2, KeptInLife
<1>18. CASE MainFails
  <2>1. main # "down" /\ out # "done" /\ main' # "down"
    BY <1>18, <1>a DEF MainFails
  <2> QED BY <1>17, <1>18, <2>1 DEF MainFails, Producers
<1>19. ASSUME NEW l \in Listeners, ListenerFails(l)
       PROVE  InLife'
  <2>1. main # "down" /\ out # "done" /\ main' # "down"
    BY <1>19, <1>a DEF ListenerFails
  <2> QED BY <1>17, <1>19, <2>1 DEF ListenerFails, Producers
<1>20. ASSUME NEW l \in Listeners, ListenerExit(l)
       PROVE  InLife'
  <2>1. UNCHANGED <<output, wbuf, store, seq, next, out, main, failed, hold,
                    queue, work, outq, pending>>
    BY <1>20 DEF ListenerExit
  <2>2. \A b \in Batch : Placed(b)' => Placed(b)
    BY <2>1 DEF Placed
  <2> QED BY <1>0, <1>a, <1>d, <2>1, <2>2, KeptInLife
<1>21. CASE UNCHANGED vars
  BY <1>e, <1>21
<1> QED
  BY <1>1, <1>2, <1>3, <1>4, <1>5, <1>6, <1>7, <1>8, <1>9, <1>10, <1>11, <1>12,
     <1>13, <1>14, <1>15, <1>16, <1>18, <1>19, <1>20, <1>21
     DEF Next, MainStep, OutputStep, WorkerStep, ListenerStep, Producers

\* Nothing is stored or on its way before the first start.
LEMMA ServeInit == Init => ServeInv
<1> SUFFICES ASSUME Init PROVE ServeInv
  OBVIOUS
<1>1. Lines = << >>
  BY DEF Init, Lines
<1>2. FirstLife
  BY DEF Init, FirstLife, Placed
<1>3. InLife
  BY <1>1 DEF Init, InLife, Rising
<1> QED BY <1>2, <1>3, FlowInit DEF ServeInv

\* Every step keeps the invariant.
LEMMA ServeStep == ServeInv /\ [Next]_vars => ServeInv'
<1> SUFFICES ASSUME ServeInv, [Next]_vars PROVE ServeInv'
  OBVIOUS
<1>1. FlowInv /\ FlowInv'
  BY FlowStep DEF ServeInv
<1>2. ASSUME lives' <= 1
      PROVE  FirstLife' /\ InLife'
  <2>1. lives <= 1
    <3>1. lives \in Nat /\ lives' \in {lives, lives + 1}
      <4>1. lives \in Nat
        BY <1>1 DEF FlowInv, TypeInv, TypeOK, TypeThreads
      <4>2. lives' \in {lives, lives + 1}
        BY DEF Next, MainStep, OutputStep, WorkerStep, ListenerStep, vars,
               Start, NewOutput, Stop, RecoverScan, RecoverTruncate,
               RecoverPlan, RecoverBatch, RecoverDone, IngestDone,
               JoinListeners, Finish, IngestBatch, Send, SendFails, Receive,
               Write, Flush, OutputDone, MainFails, OutputFails, Kill, Take,
               Emit, WorkerExit, ListenerBatch, ListenerExit, ListenerFails
      <4> QED BY <4>1, <4>2
    <3> QED BY <1>2, <3>1
  <2>2. FirstLife /\ InLife
    BY <2>1 DEF ServeInv
  <2> QED BY <1>1, <1>2, <2>2, FirstLifeStep, InLifeStep DEF FlowInv
<1> QED BY <1>1, <1>2 DEF ServeInv

\* The invariant says that ids ascend, that none is left out unless ingest has
\* failed, and that a clean stop is complete.
LEMMA ServeMeansSound == ServeInv => (lives <= 1 => ServeSound)
<1> SUFFICES ASSUME ServeInv, lives <= 1 PROVE ServeSound
  OBVIOUS
<1>1. FlowInv /\ FirstLife /\ InLife /\ TypeFiles /\ failed \in BOOLEAN
  BY DEF ServeInv, FlowInv, TypeInv, TypeOK, TypeFlags
<1>2. /\ Len(output) \in Nat /\ Len(Lines) \in Nat /\ Len(store) \in Nat
      /\ Len(output) <= Len(Lines)
      /\ \A i \in 1 .. Len(output) : Lines[i] = output[i]
      /\ DOMAIN output = 1 .. Len(output)
  BY <1>1, LinesType
<1>3. \A i \in 1 .. Len(output) - 1 : output[i] < output[i + 1]
  <2> SUFFICES ASSUME NEW i \in 1 .. Len(output) - 1
               PROVE  output[i] < output[i + 1]
    OBVIOUS
  <2>1. /\ i \in 1 .. Len(Lines) /\ i + 1 \in 1 .. Len(Lines) /\ i < i + 1
        /\ i \in 1 .. Len(output) /\ i + 1 \in 1 .. Len(output)
    BY <1>2
  <2>2. Lines[i] < Lines[i + 1]
    BY <1>1, <2>1 DEF InLife, Rising
  <2> QED BY <1>2, <2>1, <2>2
<1>4. ASSUME main # "down", failed = FALSE
      PROVE  \A i \in 1 .. Len(output) : output[i] = i - 1
  BY <1>1, <1>2, <1>4 DEF InLife, Consecutive
<1>5. main # "down" /\ ~failed => Contiguous(output)
  <2> SUFFICES ASSUME main # "down", ~failed, NEW i \in 1 .. Len(output) - 1
               PROVE  output[i + 1] = output[i] + 1
    BY DEF Contiguous
  <2>1. i \in 1 .. Len(output) /\ i + 1 \in 1 .. Len(output)
    BY <1>2
  <2>2. output[i] = i - 1 /\ output[i + 1] = (i + 1) - 1
    BY <1>1, <1>4, <2>1
  <2> QED BY <2>2
<1>6. CleanStopIsComplete
  <2> SUFFICES ASSUME out = "done", ~failed, NEW id \in base .. Len(store) - 1
               PROVE  \E i \in DOMAIN output : output[i] = id
    BY DEF CleanStopIsComplete
  <2>1. /\ main = "finish" /\ failed = FALSE /\ base = 0
        /\ Len(output) = Len(store)
    BY <1>1 DEF InLife, FirstLife
  <2>2. id + 1 \in 1 .. Len(output) /\ (id + 1) - 1 = id
    BY <1>2, <2>1
  <2>3. output[id + 1] = id
    BY <1>4, <2>1, <2>2
  <2> QED BY <1>2, <2>2, <2>3
<1>7. NoSequenceHole
  BY <1>1, FlowMeansNoHole
<1> QED BY <1>3, <1>5, <1>6, <1>7 DEF ServeSound, OutputAscends, NothingLost

\* In the first life of `serve`, whatever number of listeners race the tailer:
\* the ids in the output ascend, as the search by id needs, none is left out
\* unless an append has failed, a clean stop has written every stored record,
\* and until then no sequence number is missing (serve, ingest_file, the
\* listeners' flush, worker_thread, output_thread).
THEOREM ServeIsSound == Spec => [](lives <= 1 => ServeSound)
BY ServeInit, ServeStep, ServeMeansSound, PTL DEF Spec
=============================================================================
