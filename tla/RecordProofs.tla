---------------------------- MODULE RecordProofs -----------------------------
(***************************************************************************)
(* What the service writes down of its work is right: the audit trail for  *)
(* any number of calls and readers, any failures of the disk and a crash   *)
(* at any point; the metrics, which count every run that returns exactly   *)
(* once, for any number of runs, outcomes and classes of findings.         *)
(***************************************************************************)
EXTENDS EventsLog, Telemetry, FiniteSetTheorems, TLAPS
-----------------------------------------------------------------------------
(* The audit trail.                                                        *)

Inside == {"checking", "opening", "writing", "closed"}

Has(c) == \E i \in DOMAIN lines : lines[i] = c

(* The lock: who is inside with_lock is in holder, and is alone there.     *)
Locked ==
  /\ \A c \in Calls : c \in holder <=> call[c] \in Inside
  /\ \A c, d \in holder : c = d

(* What a call has found out about the file is still true when it writes.  *)
FileKnown ==
  /\ ~exists => lines = << >>
  /\ \A c \in Calls : call[c] = "opening" => (new_file[c] <=> ~exists)
  /\ \A c \in Calls : call[c] = "writing" => exists /\ (new_file[c] => lines = << >>)

(* A row is in the file from the close on, and only then.                  *)
Rows ==
  /\ \A c \in Calls : Has(c) => call[c] \in {"closed", "written", "dead"}
  /\ \A c \in Calls : call[c] \in {"closed", "written"} => Has(c)

(* While nothing fails, what is in the file begins with the header, and a  *)
(* file without a line is about to get it.                                 *)
Headed ==
  ~faulty => /\ lines # << >> => lines[1] = Header
             /\ exists /\ lines = << >> =>
                  \E c \in Calls : call[c] = "writing" /\ new_file[c]

(* What a reader is owed stays written while he waits for the lock.        *)
Waiting ==
  \A r \in Reads : read[r] = "waiting" => owed[r] \subseteq {c \in Calls : call[c] = "written"}

IInv ==
  /\ TypeOK
  /\ OneHeaderOneRowEach
  /\ Locked
  /\ FileKnown
  /\ Rows
  /\ Headed
  /\ Waiting
  /\ ReadersMissNothing
-----------------------------------------------------------------------------
(* The lock is free or taken by one call.                                  *)
LEMMA Small == Cardinality({}) <= 1 /\ \A c : Cardinality({c}) <= 1
<1>1. Cardinality({}) <= 1
  <2>1. Cardinality({}) = 0
    BY FS_EmptySet
  <2>2. QED
    BY <2>1
<1>2. ASSUME NEW c PROVE Cardinality({c}) <= 1
  <2>1. Cardinality({c}) = 1
    BY FS_Singleton, Zenon
  <2>2. QED
    BY <2>1
<1>3. QED
  BY <1>1, <1>2

LEMMA Starts == Init => IInv
<1> SUFFICES ASSUME Init PROVE IInv
  OBVIOUS
<1> USE DEF Init
<1>1. TypeOK
  <2>1. Cardinality(holder) <= 1
    BY Small
  <2>2. << >> \in Seq(Calls \cup {Header})
    OBVIOUS
  <2>3. got \in [Reads -> Seq(Calls \cup {Header})]
    BY <2>2
  <2>4. QED
    BY <2>1, <2>2, <2>3 DEF TypeOK, CallStates, Running, ReadStates
<1>2. OneHeaderOneRowEach /\ Locked /\ FileKnown
  BY DEF OneHeaderOneRowEach, Locked, FileKnown, Inside
<1>3. Rows /\ Headed /\ Waiting /\ ReadersMissNothing
  BY DEF Rows, Has, Headed, Waiting, ReadersMissNothing, ReportsWhatWasWritten
<1>4. QED
  BY <1>1, <1>2, <1>3 DEF IInv

(* Steps that leave the file and the readers alone, and only move a call   *)
(* that has not written its row: entering, taking the lock, looking for    *)
(* the file.                                                               *)
LEMMA LogEventStep ==
  ASSUME IInv, NEW c \in Calls, LogEvent(c)
  PROVE  IInv'
<1> USE DEF LogEvent, Goto, IInv
<1>1. TypeOK'
  BY DEF TypeOK, CallStates, Running
<1>2. (OneHeaderOneRowEach /\ Locked /\ FileKnown)'
  BY DEF OneHeaderOneRowEach, Locked, FileKnown, Inside, TypeOK
<1>3. (Rows /\ Headed)'
  BY DEF Rows, Has, Headed, TypeOK
<1>4. (Waiting /\ ReadersMissNothing)'
  BY DEF Waiting, ReadersMissNothing, ReportsWhatWasWritten, RowsOf, TypeOK
<1>5. QED
  BY <1>1, <1>2, <1>3, <1>4

LEMMA AcquireStep ==
  ASSUME IInv, NEW c \in Calls, Acquire(c)
  PROVE  IInv'
<1> USE DEF Acquire, Goto, LockFree, IInv
<1>1. holder' = {c}
  OBVIOUS
<1>2. TypeOK'
  <2>1. Cardinality(holder') <= 1
    BY <1>1, Small
  <2>2. QED
    BY <2>1, <1>1 DEF TypeOK, CallStates, Running
<1>3. (OneHeaderOneRowEach /\ Locked /\ FileKnown)'
  BY <1>1 DEF OneHeaderOneRowEach, Locked, FileKnown, Inside, TypeOK
<1>4. (Rows /\ Headed)'
  BY DEF Rows, Has, Headed, TypeOK
<1>5. (Waiting /\ ReadersMissNothing)'
  BY DEF Waiting, ReadersMissNothing, ReportsWhatWasWritten, RowsOf, TypeOK
<1>6. QED
  BY <1>2, <1>3, <1>4, <1>5

LEMMA CheckExistsStep ==
  ASSUME IInv, NEW c \in Calls, CheckExists(c)
  PROVE  IInv'
<1> USE DEF CheckExists, Goto, IsNew, IInv
<1>1. TypeOK'
  BY DEF TypeOK, CallStates, Running
<1>2. (OneHeaderOneRowEach /\ Locked /\ FileKnown)'
  BY DEF OneHeaderOneRowEach, Locked, FileKnown, Inside, TypeOK
<1>3. (Rows /\ Headed)'
  BY DEF Rows, Has, Headed, TypeOK
<1>4. (Waiting /\ ReadersMissNothing)'
  BY DEF Waiting, ReadersMissNothing, ReportsWhatWasWritten, RowsOf, TypeOK
<1>5. QED
  BY <1>1, <1>2, <1>3, <1>4

(* Opening creates the file; the only call that may know of it as new is   *)
(* the one inside.                                                         *)
LEMMA OpenAppendStep ==
  ASSUME IInv, NEW c \in Calls, OpenAppend(c)
  PROVE  IInv'
<1> USE DEF OpenAppend, Goto, KeptByOpen, IInv
<1>1. TypeOK'
  BY DEF TypeOK, CallStates, Running
<1>2. (OneHeaderOneRowEach /\ Locked)'
  BY DEF OneHeaderOneRowEach, Locked, Inside, TypeOK
<1>3. FileKnown'
  BY DEF FileKnown, Locked, Inside, TypeOK
<1>4. Rows'
  BY DEF Rows, Has, TypeOK
<1>5. Headed'
  BY DEF Headed, FileKnown, Locked, Inside, TypeOK
<1>6. (Waiting /\ ReadersMissNothing)'
  BY DEF Waiting, ReadersMissNothing, ReportsWhatWasWritten, RowsOf, TypeOK
<1>7. QED
  BY <1>1, <1>2, <1>3, <1>4, <1>5, <1>6
-----------------------------------------------------------------------------
(* The line or two lines that a closing call adds at the end.              *)
LEMMA CloseStep ==
  ASSUME IInv, NEW c \in Calls, Close(c)
  PROVE  IInv'
<1> USE DEF Close, Goto, IInv
<1> USE CallsAssumption
<1>1. lines \in Seq(Calls \cup {Header}) /\ c # Header
  BY DEF TypeOK
<1>2. ~Has(c)
  BY DEF Rows
<1>3. \A d \in Calls : d # c => call[d] \notin Inside
  BY DEF Locked, Inside, TypeOK
<1>4. CASE new_file[c]
  <2>1. lines = << >> /\ lines' = << Header, c >>
    <3>1. lines = << >>
      BY <1>4 DEF FileKnown
    <3>2. lines' = << >> \o << Header, c >>
      BY <1>4, <3>1
    <3>3. << >> \o << Header, c >> = << Header, c >>
      OBVIOUS
    <3>4. QED
      BY <3>1, <3>2, <3>3
  <2>2. TypeOK'
    <3>1. << Header, c >> \in Seq(Calls \cup {Header})
      OBVIOUS
    <3>2. QED
      BY <2>1, <3>1 DEF TypeOK, CallStates, Running
  <2>3. OneHeaderOneRowEach'
    BY <2>1, <1>1 DEF OneHeaderOneRowEach
  <2>4. Locked' /\ FileKnown'
    BY <1>3, <2>1 DEF Locked, FileKnown, Inside, TypeOK
  <2>5. \A d \in Calls : Has(d)' <=> d = c
    BY <2>1 DEF Has
  <2>6. \A d \in Calls : ~Has(d)
    BY <2>1 DEF Has
  <2>7. Rows'
    BY <2>5, <2>6 DEF Rows, TypeOK
  <2>8. Headed'
    BY <2>1 DEF Headed
  <2>9. QED
    BY <2>2, <2>3, <2>4, <2>7, <2>8
       DEF Waiting, ReadersMissNothing, ReportsWhatWasWritten, RowsOf, TypeOK
<1>5. CASE ~new_file[c]
  <2>1. lines' = Append(lines, c)
    BY <1>5, <1>1
  <2>2. /\ Len(lines') = Len(lines) + 1
        /\ lines'[Len(lines) + 1] = c
        /\ \A i \in DOMAIN lines : lines'[i] = lines[i]
        /\ DOMAIN lines' = DOMAIN lines \cup {Len(lines) + 1}
        /\ DOMAIN lines = 1..Len(lines)
        /\ Len(lines) \in Nat
    BY <2>1, <1>1
  <2>3. TypeOK'
    <3>1. Append(lines, c) \in Seq(Calls \cup {Header})
      BY <1>1
    <3>2. QED
      BY <2>1, <3>1 DEF TypeOK, CallStates, Running
  <2>4. OneHeaderOneRowEach'
    BY <2>2, <1>1, <1>2 DEF OneHeaderOneRowEach, Has
  <2>5. Locked' /\ FileKnown'
    BY <1>3 DEF Locked, FileKnown, Inside, TypeOK
  <2>6. \A d \in Calls : Has(d)' <=> Has(d) \/ d = c
    BY <2>2 DEF Has
  <2>7. Rows'
    BY <2>6 DEF Rows, TypeOK
  <2>8. ~faulty => lines # << >>
    BY <1>3, <1>5 DEF Headed, FileKnown, Inside
  <2>9. Headed'
    <3>1. lines # << >> => 1 \in DOMAIN lines
      BY <1>1
    <3>2. QED
      BY <2>2, <2>8, <3>1 DEF Headed, FileKnown
  <2>10. QED
    BY <2>3, <2>4, <2>5, <2>7, <2>9
       DEF Waiting, ReadersMissNothing, ReportsWhatWasWritten, RowsOf, TypeOK
<1>6. QED
  BY <1>4, <1>5

LEMMA ReleaseStep ==
  ASSUME IInv, NEW c \in Calls, Release(c)
  PROVE  IInv'
<1> USE DEF Release, Goto, IInv
<1>1. holder' = {}
  BY DEF Locked, Inside
<1>2. TypeOK'
  <2>1. Cardinality(holder') <= 1
    BY <1>1, Small
  <2>2. QED
    BY <2>1, <1>1 DEF TypeOK, CallStates, Running
<1>3. (OneHeaderOneRowEach /\ Locked /\ FileKnown)'
  BY <1>1 DEF OneHeaderOneRowEach, Locked, FileKnown, Inside, TypeOK
<1>4. (Rows /\ Headed)'
  BY DEF Rows, Has, Headed, TypeOK
<1>5. (Waiting /\ ReadersMissNothing)'
  BY DEF Waiting, ReadersMissNothing, ReportsWhatWasWritten, RowsOf, TypeOK
<1>6. QED
  BY <1>2, <1>3, <1>4, <1>5

(* After a failure the file is as it was, and the lock is given back.      *)
LEMMA IOFailsStep ==
  ASSUME IInv, NEW c \in Calls, IOFails(c)
  PROVE  IInv'
<1> USE DEF IOFails, Goto, HolderAfterFailure, IInv
<1>1. holder' = {}
  BY DEF Locked, Inside
<1>2. TypeOK'
  <2>1. Cardinality(holder') <= 1
    BY <1>1, Small
  <2>2. QED
    BY <2>1, <1>1 DEF TypeOK, CallStates, Running
<1>3. (OneHeaderOneRowEach /\ Locked /\ FileKnown)'
  BY <1>1 DEF OneHeaderOneRowEach, Locked, FileKnown, Inside, TypeOK
<1>4. (Rows /\ Headed)'
  BY DEF Rows, Has, Headed, TypeOK
<1>5. (Waiting /\ ReadersMissNothing)'
  BY DEF Waiting, ReadersMissNothing, ReportsWhatWasWritten, RowsOf, TypeOK
<1>6. QED
  BY <1>2, <1>3, <1>4, <1>5
-----------------------------------------------------------------------------
(* A reader that finds no file is owed nothing: every written row is in it.*)
LEMMA ReadEventsStep ==
  ASSUME IInv, NEW r \in Reads, ReadEvents(r)
  PROVE  IInv'
<1> USE DEF ReadEvents, IInv
<1>1. TypeOK'
  BY DEF TypeOK, ReadStates
<1>2. (OneHeaderOneRowEach /\ Locked /\ FileKnown /\ Rows /\ Headed)'
  BY DEF OneHeaderOneRowEach, Locked, FileKnown, Rows, Has, Headed
<1>3. Waiting'
  BY DEF Waiting, TypeOK
<1>4. ~exists => owed'[r] = {}
  BY DEF FileKnown, Rows, Has, TypeOK
<1>5. ReadersMissNothing'
  BY <1>4 DEF ReadersMissNothing, ReportsWhatWasWritten, RowsOf, TypeOK
<1>6. QED
  BY <1>1, <1>2, <1>3, <1>5

LEMMA ReadLockedStep ==
  ASSUME IInv, NEW r \in Reads, ReadLocked(r)
  PROVE  IInv'
<1> USE DEF ReadLocked, IInv
<1> USE CallsAssumption
<1>1. lines \in Seq(Calls \cup {Header})
  BY DEF TypeOK
<1>2. CASE lines = << >>
  <2>1. got'[r] = << >>
    BY <1>2 DEF DictReader, TypeOK
  <2>2. TypeOK'
    BY <1>2 DEF TypeOK, ReadStates, DictReader
  <2>3. owed[r] = {}
    BY <1>2 DEF Waiting, Rows, Has
  <2>4. QED
    BY <2>1, <2>2, <2>3
       DEF OneHeaderOneRowEach, Locked, FileKnown, Rows, Has, Headed, Waiting,
           ReadersMissNothing, ReportsWhatWasWritten, RowsOf, TypeOK
<1>3. CASE lines # << >>
  <2>1. /\ got'[r] = Tail(lines)
        /\ DOMAIN Tail(lines) = 1..(Len(lines) - 1)
        /\ DOMAIN lines = 1..Len(lines)
        /\ Len(lines) \in Nat \ {0}
        /\ \A i \in 1..(Len(lines) - 1) : Tail(lines)[i] = lines[i + 1]
        /\ Tail(lines) \in Seq(Calls \cup {Header})
    BY <1>1, <1>3 DEF DictReader, TypeOK
  <2>2. TypeOK'
    BY <1>3, <2>1 DEF TypeOK, ReadStates, DictReader
  <2>3. ASSUME NEW i \in DOMAIN got'[r] PROVE got'[r][i] # Header
    <3>1. i \in 1..(Len(lines) - 1) /\ got'[r][i] = lines[i + 1]
      BY <2>1, Zenon
    <3>2. i + 1 \in DOMAIN lines /\ i + 1 # 1
      BY <2>1, <3>1
    <3>3. QED
      BY <3>1, <3>2 DEF OneHeaderOneRowEach
  <2>4. ASSUME ~faulty, NEW c \in owed[r]
        PROVE  c \in RowsOf(got'[r])
    <3>1. c \in Calls /\ call[c] = "written"
      BY DEF Waiting
    <3>2. PICK i \in DOMAIN lines : lines[i] = c
      BY <3>1 DEF Rows, Has
    <3>3. i # 1
      BY <1>3, <2>4, <3>1, <3>2 DEF Headed
    <3>4. i - 1 \in DOMAIN got'[r] /\ got'[r][i - 1] = c
      BY <2>1, <3>2, <3>3
    <3>5. QED
      BY <3>1, <3>4 DEF RowsOf
  <2>5. ReadersMissNothing'
    BY <2>3, <2>4 DEF ReadersMissNothing, ReportsWhatWasWritten, RowsOf, TypeOK
  <2>6. Waiting'
    BY DEF Waiting, TypeOK
  <2>7. QED
    BY <2>2, <2>5, <2>6
       DEF OneHeaderOneRowEach, Locked, FileKnown, Rows, Has, Headed
<1>4. QED
  BY <1>2, <1>3
-----------------------------------------------------------------------------
LEMMA CrashStep ==
  ASSUME IInv, Crash
  PROVE  IInv'
<1> USE DEF Crash, IInv
<1>1. TypeOK'
  <2>1. Cardinality(holder') <= 1
    BY Small
  <2>2. QED
    BY <2>1 DEF TypeOK, CallStates, Running, ReadStates
<1>2. (OneHeaderOneRowEach /\ Locked /\ FileKnown)'
  BY DEF OneHeaderOneRowEach, Locked, FileKnown, Inside, Running, TypeOK
<1>3. (Rows /\ Headed)'
  BY DEF Rows, Has, Headed, Running, TypeOK
<1>4. (Waiting /\ ReadersMissNothing)'
  BY DEF Waiting, ReadersMissNothing, ReportsWhatWasWritten, RowsOf, Running, TypeOK
<1>5. QED
  BY <1>1, <1>2, <1>3, <1>4

LEMMA StutterStep ==
  ASSUME IInv, UNCHANGED vars
  PROVE  IInv'
BY DEF vars, IInv, TypeOK, OneHeaderOneRowEach, Locked, FileKnown, Rows, Has,
       Headed, Waiting, ReadersMissNothing, ReportsWhatWasWritten, RowsOf

(* Races, failures and a crash leave IInv true.                            *)
THEOREM Inductive == Spec => []IInv
<1>1. IInv /\ [Next]_vars => IInv'
  <2> SUFFICES ASSUME IInv, [Next]_vars PROVE IInv'
    OBVIOUS
  <2>1. CASE \E c \in Calls : LogEvent(c) \/ Log(c)
    BY <2>1, LogEventStep, AcquireStep, CheckExistsStep, OpenAppendStep,
       CloseStep, ReleaseStep, IOFailsStep DEF Log
  <2>2. CASE \E r \in Reads : ReadEvents(r) \/ ReadLocked(r)
    BY <2>2, ReadEventsStep, ReadLockedStep
  <2>3. CASE Crash
    BY <2>3, CrashStep
  <2>4. CASE UNCHANGED vars
    BY <2>4, StutterStep
  <2>5. QED
    BY <2>1, <2>2, <2>3, <2>4 DEF Next
<1>2. QED
  BY Starts, <1>1, PTL DEF Spec

(* The trail has its header at most once and first, every row at most      *)
(* once, every row a call reports as written, and none that was given up,  *)
(* for any number of request threads (events.py:84-93).                    *)
THEOREM TrailCorrect == Spec => []TrailIsWhole
<1>1. IInv => TrailIsWhole
  <2> SUFFICES ASSUME IInv PROVE WrittenIsInTheTrail
    BY DEF IInv, TrailIsWhole
  <2>1. \A c \in Calls : Has(c) <=> c \in RowsOf(lines)
    BY CallsAssumption DEF Has, RowsOf
  <2>2. QED
    BY <2>1 DEF IInv, Rows, WrittenIsInTheTrail
<1>2. QED
  BY <1>1, Inductive, PTL

(* Without failures a reader gets every row written before he asked, and   *)
(* never a header for a row, for any number of readers (events.py:97-103). *)
THEOREM ReadersCorrect == Spec => []ReadersMissNothing
<1>1. IInv => ReadersMissNothing
  BY DEF IInv
<1>2. QED
  BY <1>1, Inductive, PTL
-----------------------------------------------------------------------------
(* The panel.  What is found at different places is no more than the       *)
(* places.                                                                 *)
LEMMA FewerFound ==
  ASSUME NEW A, IsFiniteSet(A), NEW f, NEW B,
         \A b \in B : \E a \in A : f[a] = b
  PROVE  IsFiniteSet(B) /\ Cardinality(B) \in Nat /\ Cardinality(B) <= Cardinality(A)
<1> DEFINE T == {f[a] : a \in A}
           g == [a \in A |-> f[a]]
<1>1. g \in Surjection(A, T)
  BY DEF Surjection
<1>2. IsFiniteSet(T) /\ Cardinality(T) <= Cardinality(A)
  BY <1>1, FS_Surjection
<1>3. B \in SUBSET T
  OBVIOUS
<1>4. IsFiniteSet(B) /\ Cardinality(B) <= Cardinality(T)
  BY <1>2, <1>3, FS_Subset
<1> HIDE DEF T
<1>5. Cardinality(A) \in Nat /\ Cardinality(B) \in Nat /\ Cardinality(T) \in Nat
  BY <1>2, <1>4, FS_CardinalityType
<1>6. QED
  BY <1>2, <1>4, <1>5

(* Counts of places with different verdicts add up to no more than the     *)
(* places.                                                                 *)
LEMMA ThreeParts ==
  ASSUME NEW S, IsFiniteSet(S), NEW A \in SUBSET S, NEW B \in SUBSET S, NEW C \in SUBSET S,
         A \cap B = {}, A \cap C = {}, B \cap C = {}
  PROVE  /\ Cardinality(A) \in Nat /\ Cardinality(B) \in Nat /\ Cardinality(C) \in Nat
         /\ Cardinality(S) \in Nat
         /\ Cardinality(S) >= Cardinality(A) + Cardinality(B) + Cardinality(C)
<1>1. IsFiniteSet(A) /\ IsFiniteSet(B) /\ IsFiniteSet(C)
  BY FS_Subset
<1>2. /\ Cardinality(A) \in Nat /\ Cardinality(B) \in Nat /\ Cardinality(C) \in Nat
      /\ Cardinality(S) \in Nat
  BY <1>1, FS_CardinalityType
<1> DEFINE AB == A \cup B
           All == AB \cup C
<1>3. IsFiniteSet(AB) /\ Cardinality(AB) = Cardinality(A) + Cardinality(B) - Cardinality(A \cap B)
  BY <1>1, FS_Union
<1>4. Cardinality(A \cap B) = 0 /\ Cardinality(AB \cap C) = 0
  <2>1. A \cap B = {} /\ AB \cap C = {}
    OBVIOUS
  <2>2. QED
    BY <2>1, FS_EmptySet
<1>5. All \in SUBSET S
  OBVIOUS
<1> HIDE DEF AB
<1>6. IsFiniteSet(All) /\ Cardinality(All) = Cardinality(AB) + Cardinality(C) - Cardinality(AB \cap C)
  BY <1>1, <1>3, FS_Union
<1> HIDE DEF All
<1>7. Cardinality(All) <= Cardinality(S)
  BY <1>5, FS_Subset
<1>8. QED
  BY <1>2, <1>3, <1>4, <1>6, <1>7

(* rows[-Limit:]                                                           *)
LEMMA RecentRows ==
  ASSUME NEW S, NEW rows \in Seq(S)
  PROVE  /\ Recent(rows) \in Seq(S)
         /\ Len(Recent(rows)) \in 0..Limit
         /\ Len(rows) <= Limit => Recent(rows) = rows
<1>1. Limit \in Nat \ {0} /\ Len(rows) \in Nat
  BY LimitAssumption
<1>2. CASE Len(rows) <= Limit
  BY <1>1, <1>2 DEF Recent
<1>3. CASE Len(rows) > Limit
  <2> DEFINE m == Len(rows) - Limit + 1
             r == SubSeq(rows, m, Len(rows))
  <2>1. m \in 1..Len(rows) /\ Len(rows) - m + 1 = Limit
    BY <1>1, <1>3
  <2> HIDE DEF m
  <2>2. r \in Seq(S) /\ Len(r) = Len(rows) - m + 1
    BY <1>1, <2>1
  <2>3. Recent(rows) = r
    BY <1>1, <1>3 DEF Recent, m
  <2>4. QED
    BY <1>1, <1>3, <2>1, <2>2, <2>3
<1>4. QED
  BY <1>1, <1>2, <1>3

(* What a reader gets has a place for every call it is owed.               *)
LEMMA PanelFromReader ==
  ASSUME IInv, NEW r \in Reads, ~faulty, read[r] = "done"
  PROVE  LET stats == Stats(got[r])
         IN  /\ stats.total_events >= Cardinality(owed[r])
             /\ stats.approved + stats.rejected <= Limit
             /\ stats.total_events <= Limit =>
                  \A u \in {Event[c].user : c \in owed[r]} :
                    /\ stats.users[u].approved >= With(owed[r], u, "true")
                    /\ stats.users[u].rejected >= With(owed[r], u, "false")
                    /\ stats.users[u].requests >=
                         stats.users[u].approved + stats.users[u].rejected
                           + With(owed[r], u, "")
<1> DEFINE rows == got[r]
           events == Columns(Recent(rows))
           At(among, v) == {i \in among : events[i].approved = v}
           Of(u) == {i \in DOMAIN events : events[i].user = u}
<1>1. rows \in Seq(Calls \cup {Header}) /\ owed[r] \subseteq RowsOf(rows)
  BY DEF IInv, TypeOK, ReadersMissNothing, ReportsWhatWasWritten
<1>2. \A c \in owed[r] : \E i \in DOMAIN rows : rows[i] = c
  BY <1>1 DEF RowsOf
<1>3. /\ Recent(rows) \in Seq(Calls \cup {Header}) /\ Len(Recent(rows)) \in 0..Limit
      /\ Len(rows) <= Limit => Recent(rows) = rows
  BY <1>1, RecentRows
<1>4. /\ DOMAIN events = 1..Len(Recent(rows))
      /\ \A i \in DOMAIN events : events[i] = Event[Recent(rows)[i]]
  BY <1>3 DEF Columns
<1>5. IsFiniteSet(DOMAIN events) /\ Cardinality(DOMAIN events) = Len(Recent(rows))
  <2> DEFINE n == Len(Recent(rows))
  <2>1. n \in Nat /\ DOMAIN events = 1..n
    BY <1>3, <1>4, LimitAssumption
  <2> HIDE DEF n
  <2>2. IsFiniteSet(1..n) /\ Cardinality(1..n) = n
    BY <2>1, FS_Interval
  <2>3. QED
    BY <2>1, <2>2 DEF n
<1> HIDE DEF events
<1>6. Len(rows) >= Cardinality(owed[r])
  <2> DEFINE n == Len(rows)
  <2>1. n \in Nat /\ DOMAIN rows = 1..n
    BY <1>1
  <2> HIDE DEF n
  <2>2. IsFiniteSet(1..n) /\ Cardinality(1..n) = n
    BY <2>1, FS_Interval
  <2>3. Cardinality(owed[r]) \in Nat /\ Cardinality(owed[r]) <= Cardinality(1..n)
    BY <1>2, <2>1, <2>2, FewerFound
  <2>4. QED
    BY <2>1, <2>2, <2>3 DEF n
<1>7. Cardinality(At(DOMAIN events, "true")) + Cardinality(At(DOMAIN events, "false")) <= Limit
  <2>1. /\ At(DOMAIN events, "true") \cap At(DOMAIN events, "false") = {}
        /\ At(DOMAIN events, "true") \in SUBSET DOMAIN events
        /\ At(DOMAIN events, "false") \in SUBSET DOMAIN events
    OBVIOUS
  <2> HIDE DEF At
  <2> DEFINE all == DOMAIN events
             yes == At(all, "true")
             no == At(all, "false")
  <2>2. /\ yes \in SUBSET all /\ no \in SUBSET all /\ {} \in SUBSET all
        /\ yes \cap no = {} /\ yes \cap {} = {} /\ no \cap {} = {}
    BY <2>1
  <2>3. IsFiniteSet(all) /\ Cardinality(all) = Len(Recent(rows))
    BY <1>5
  <2> HIDE DEF all, yes, no
  <2>4. /\ Cardinality(yes) \in Nat /\ Cardinality(no) \in Nat /\ Cardinality({}) \in Nat
        /\ Cardinality(all) >= Cardinality(yes) + Cardinality(no) + Cardinality({})
    BY <2>2, <2>3, ThreeParts, Zenon
  <2>5. Cardinality(yes) + Cardinality(no) <= Limit
    BY <1>3, <2>3, <2>4, LimitAssumption
  <2>6. QED
    BY <2>5 DEF yes, no, all
<1>8. ASSUME Len(rows) <= Limit, NEW u, NEW v
      PROVE  /\ Cardinality(At(Of(u), v)) \in Nat /\ With(owed[r], u, v) \in Nat
             /\ Cardinality(At(Of(u), v)) >= With(owed[r], u, v)
  <2> DEFINE mine == {c \in owed[r] : Event[c].user = u /\ Event[c].approved = v}
  <2>1. ASSUME NEW c \in mine PROVE \E i \in At(Of(u), v) : rows[i] = c
    <3>1. PICK i \in DOMAIN rows : rows[i] = c
      BY <1>2
    <3>2. i \in DOMAIN events /\ events[i] = Event[c]
      BY <1>1, <1>3, <1>4, <1>8, <3>1
    <3>3. QED
      BY <3>1, <3>2
  <2>2. At(Of(u), v) \in SUBSET DOMAIN events
    OBVIOUS
  <2> HIDE DEF At, mine
  <2>3. IsFiniteSet(At(Of(u), v))
    BY <1>5, <2>2, FS_Subset
  <2>4. /\ Cardinality(mine) \in Nat /\ Cardinality(mine) <= Cardinality(At(Of(u), v))
    BY <2>1, <2>3, FewerFound
  <2>5. Cardinality(At(Of(u), v)) \in Nat
    BY <2>3, FS_CardinalityType
  <2>6. QED
    BY <2>4, <2>5 DEF With, mine
<1>9. ASSUME Len(rows) <= Limit, NEW u
      PROVE  Cardinality(Of(u)) >= Cardinality(At(Of(u), "true"))
               + Cardinality(At(Of(u), "false")) + With(owed[r], u, "")
  <2>1. /\ At(Of(u), "true") \in SUBSET Of(u) /\ At(Of(u), "false") \in SUBSET Of(u)
        /\ At(Of(u), "") \in SUBSET Of(u) /\ Of(u) \in SUBSET DOMAIN events
        /\ At(Of(u), "true") \cap At(Of(u), "false") = {}
        /\ At(Of(u), "true") \cap At(Of(u), "") = {}
        /\ At(Of(u), "false") \cap At(Of(u), "") = {}
    OBVIOUS
  <2> HIDE DEF At, Of
  <2>2. Cardinality(At(Of(u), "")) >= With(owed[r], u, "") /\ With(owed[r], u, "") \in Nat
    BY <1>8, <1>9
  <2>3. IsFiniteSet(Of(u))
    BY <1>5, <2>1, FS_Subset
  <2>4. /\ Cardinality(Of(u)) \in Nat
        /\ Cardinality(At(Of(u), "true")) \in Nat /\ Cardinality(At(Of(u), "false")) \in Nat
        /\ Cardinality(At(Of(u), "")) \in Nat
        /\ Cardinality(Of(u)) >= Cardinality(At(Of(u), "true"))
             + Cardinality(At(Of(u), "false")) + Cardinality(At(Of(u), ""))
    BY <2>1, <2>3, ThreeParts
  <2> DEFINE t == Cardinality(At(Of(u), "true"))
             f == Cardinality(At(Of(u), "false"))
             n == Cardinality(At(Of(u), ""))
             w == With(owed[r], u, "")
             all == Cardinality(Of(u))
  <2>5. t \in Nat /\ f \in Nat /\ n \in Nat /\ w \in Nat /\ all \in Nat
        /\ n >= w /\ all >= t + f + n
    BY <2>2, <2>4, Zenon
  <2> HIDE DEF t, f, n, w, all
  <2>6. all >= t + f + w
    BY <2>5
  <2>7. QED
    BY <2>6 DEF t, f, w, all
<1> DEFINE stats == Stats(rows)
<1>10. /\ stats.total_events = Len(rows)
       /\ stats.approved = Cardinality(At(DOMAIN events, "true"))
       /\ stats.rejected = Cardinality(At(DOMAIN events, "false"))
       /\ stats.users = ByUser(events)
  BY DEF Stats, Count, events
<1>11. ASSUME NEW u \in {events[i].user : i \in DOMAIN events}
       PROVE  /\ ByUser(events)[u].requests = Cardinality(Of(u))
              /\ ByUser(events)[u].approved = Cardinality(At(Of(u), "true"))
              /\ ByUser(events)[u].rejected = Cardinality(At(Of(u), "false"))
  BY DEF ByUser, Count
<1>12. ASSUME Len(rows) <= Limit, NEW c \in owed[r]
       PROVE  Event[c].user \in {events[i].user : i \in DOMAIN events}
  <2>1. PICK i \in DOMAIN rows : rows[i] = c
    BY <1>2
  <2>2. i \in DOMAIN events /\ events[i] = Event[c]
    BY <1>1, <1>3, <1>4, <1>12, <2>1
  <2>3. QED
    BY <2>2
<1> HIDE DEF stats, Of, At
<1>13. ASSUME stats.total_events <= Limit, NEW u \in {Event[c].user : c \in owed[r]}
       PROVE  /\ stats.users[u].approved >= With(owed[r], u, "true")
              /\ stats.users[u].rejected >= With(owed[r], u, "false")
              /\ stats.users[u].requests >=
                   stats.users[u].approved + stats.users[u].rejected + With(owed[r], u, "")
  <2>1. Len(rows) <= Limit
    BY <1>10, <1>13
  <2>2. u \in {events[i].user : i \in DOMAIN events}
    BY <1>12, <2>1
  <2>3. /\ stats.users[u].requests = Cardinality(Of(u))
        /\ stats.users[u].approved = Cardinality(At(Of(u), "true"))
        /\ stats.users[u].rejected = Cardinality(At(Of(u), "false"))
    BY <1>10, <1>11, <2>2
  <2>4. QED
    BY <1>8, <1>9, <2>1, <2>3
<1>14. QED
  BY <1>6, <1>7, <1>10, <1>13 DEF stats

(* While nothing fails, the administrator's panel accounts for every call  *)
(* that was written when he asked, for any number of calls and any limit   *)
(* (service.py:2410-2457).                                                 *)
THEOREM PanelCorrect == Spec => []PanelTellsTheTrail
<1>1. IInv => PanelTellsTheTrail
  BY PanelFromReader DEF PanelTellsTheTrail
<1>2. QED
  BY <1>1, Inductive, PTL
-----------------------------------------------------------------------------
(* The metrics.                                                            *)

Counters == {"runs", "findings"}

(* The labels a counter keeps a series for.                                *)
Labels(m) == IF m = "runs" THEN BOOLEAN ELSE Classes

Upd(u) == Updates(outcome[u[1]][1])[u[2]]

(* The updates the runs are in the middle of.                              *)
Begun(m) == {<< r, at[r] >> : r \in holders[m]}
Reached(m) == Made(m) \cup Begun(m)

(* Where a run is tells what it has, and how far it has counted.           *)
Position ==
  /\ pc \in [Runs -> Places]
  /\ at \in [Runs -> Nat \ {0}]
  /\ outcome = [r \in Runs |-> outcome[r]]
  /\ \A r \in Runs :
       /\ pc[r] \in {"counting", "returned"} =>
            /\ outcome[r] # << >>
            /\ outcome[r][1] \in Outcomes
            /\ at[r] <= Len(Updates(outcome[r][1])) + 1
       /\ pc[r] \notin {"counting", "returned"} => outcome[r] = << >> /\ at[r] = 1
       /\ pc[r] = "returned" => at[r] = Len(Updates(outcome[r][1])) + 1
       /\ pc[r] \in {"raised", "returned"} => trace[r] # "open"
       /\ pc[r] \in {"idle", "creating", "tracing"} => trace[r] = "none"

Tracers ==
  /\ keys \in BOOLEAN
  /\ default \in {"none", "stub", "langfuse"}
  /\ tracer \in [Runs -> {"none", "stub", "langfuse"}]
  /\ trace \in [Runs -> {"none", "open", "ended"}]

(* One run at a time is inside a metric, with the update it has come to.   *)
Locks ==
  /\ holders \in [Metrics -> SUBSET Runs]
  /\ seen \in [Runs -> Nat]
  /\ \A m \in Metrics : \A r, s \in holders[m] : r = s
  /\ \A m \in Metrics : \A r \in holders[m] : Counting(r) /\ Update(r).metric = m

(* A counter has a one for each update made, and who is inside has read    *)
(* what is still there.                                                    *)
Counted(m) ==
  /\ value[m] \in [Labels(m) -> Nat]
  /\ \A label \in Labels(m) : value[m][label] = Cardinality({u \in Made(m) : Arg(u) = label})
  /\ \A r \in holders[m] : seen[r] = value[m][Update(r).arg]

(* A histogram has the update being made in its buckets already, and in    *)
(* its count not yet.                                                      *)
Observed(m) ==
  /\ value[m] \in HistogramOf(m)
  /\ value[m].count = Cardinality(Made(m))
  /\ \A i \in Buckets[m] :
       value[m].bucket[i] = Cardinality({u \in Reached(m) : Arg(u) <= i})
  /\ \A i, j \in Buckets[m] : i <= j => value[m].bucket[i] <= value[m].bucket[j]
  /\ value[m].sum >= value[m].count

Gauged ==
  /\ value.last_risk \in 0..10
  /\ Made("last_risk") # {} => value.last_risk \in {Arg(u) : u \in Made("last_risk")}

Stores ==
  /\ value = [m \in Metrics |-> value[m]]
  /\ \A m \in Metrics : IsFiniteSet(Made(m))
  /\ \A m \in Counters : Counted(m)
  /\ \A m \in Histograms : Observed(m)
  /\ Gauged

Page == page.number \in 0..Len(Registry) /\ HistogramsAreWhole

TelemetryInv == Position /\ Tracers /\ Locks /\ Stores /\ Page
-----------------------------------------------------------------------------
(* The names.                                                              *)

LEMMA Names ==
  /\ Registry \in [1..5 -> Metrics]
  /\ Len(Registry) = 5
  /\ Metrics = {"runs", "iterations", "latency", "last_risk", "findings"}
  /\ Histograms = {"iterations", "latency"}
  /\ Buckets["iterations"] = 1..6
  /\ Buckets["latency"] = 1..9
<1>1. DOMAIN Registry = 1..5 /\ Len(Registry) = 5
  BY DEF Registry
<1>2. Metrics = {"runs", "iterations", "latency", "last_risk", "findings"}
  BY <1>1 DEF Metrics, Registry
<1>3. Histograms = {"iterations", "latency"} /\ Buckets["iterations"] = 1..6 /\ Buckets["latency"] = 1..9
  BY DEF Histograms, Buckets
<1>4. Registry \in [1..5 -> Metrics]
  BY <1>1 DEF Metrics, Registry
<1>5. QED
  BY <1>1, <1>2, <1>3, <1>4

(* What a run hands to a metric suits it.                                  *)
LEMMA UpdatesSuit ==
  ASSUME NEW o \in Outcomes
  PROVE  /\ Len(Updates(o)) \in Nat
         /\ DOMAIN Updates(o) = 1..Len(Updates(o))
         /\ \A i \in DOMAIN Updates(o) :
              LET m == Updates(o)[i].metric  arg == Updates(o)[i].arg
              IN  /\ m \in Metrics
                  /\ m \in Counters => arg \in Labels(m)
                  /\ m \in Histograms => arg \in Nat /\ 1 <= arg
                  /\ m = "iterations" => arg \in 1..5
                  /\ m = "latency" => arg \in 1..9
                  /\ m = "last_risk" => arg \in 0..10
<1>1. o \in Outcome
  BY OutcomesAssumption
<1> DEFINE four == << [metric |-> "runs", arg |-> o.approved],
                      [metric |-> "iterations", arg |-> o.iterations],
                      [metric |-> "latency", arg |-> o.latency],
                      [metric |-> "last_risk", arg |-> o.risk] >>
           rest == [i \in DOMAIN o.findings |-> [metric |-> "findings", arg |-> o.findings[i]]]
           Any == [metric : Metrics, arg : UNION {BOOLEAN, Nat, Classes}]
<1>2. o.findings \in Seq(Classes) /\ o.approved \in BOOLEAN /\ o.iterations \in 1..5
      /\ o.latency \in 1..9 /\ o.risk \in 0..10
  BY <1>1 DEF Outcome
<1>3. four \in Seq(Any)
  <2>1. [metric |-> "runs", arg |-> o.approved] \in Any
    BY <1>2, Names
  <2>2. [metric |-> "iterations", arg |-> o.iterations] \in Any
    BY <1>2, Names
  <2>3. [metric |-> "latency", arg |-> o.latency] \in Any
    BY <1>2, Names
  <2>4. [metric |-> "last_risk", arg |-> o.risk] \in Any
    BY <1>2, Names
  <2>5. QED
    BY <2>1, <2>2, <2>3, <2>4
<1>4. Len(four) = 4
  OBVIOUS
<1>5. rest \in Seq(Any) /\ Len(rest) = Len(o.findings)
  <2>1. DOMAIN o.findings = 1..Len(o.findings) /\ Len(o.findings) \in Nat
    BY <1>2
  <2>2. rest \in [1..Len(o.findings) -> Any]
    BY <1>2, <2>1, Names
  <2>3. QED
    BY <2>1, <2>2
<1>6. Updates(o) = four \o rest
  BY DEF Updates
<1>7. Updates(o) \in Seq(Any)
  BY <1>3, <1>5, <1>6
<1>8. Len(Updates(o)) \in Nat /\ DOMAIN Updates(o) = 1..Len(Updates(o))
  BY <1>7
<1>9. ASSUME NEW i \in DOMAIN Updates(o)
      PROVE  IF i <= 4 THEN Updates(o)[i] = four[i]
                       ELSE /\ i - 4 \in DOMAIN o.findings
                            /\ Updates(o)[i] = [metric |-> "findings", arg |-> o.findings[i - 4]]
  <2>1. i \in 1..(4 + Len(rest))
    BY <1>3, <1>4, <1>5, <1>6, <1>8
  <2> HIDE DEF four, rest, Any
  <2>2. Updates(o)[i] = IF i <= 4 THEN four[i] ELSE rest[i - 4]
    <3>1. i \in 1..(Len(four) + Len(rest)) /\ Len(four) \in Nat /\ Len(rest) \in Nat
      BY <1>3, <1>4, <1>5, <2>1
    <3>2. (four \o rest)[i] = IF i <= Len(four) THEN four[i] ELSE rest[i - Len(four)]
      BY <1>3, <1>5, <3>1
    <3>3. QED
      BY <1>4, <1>6, <3>2, Zenon
  <2>3. i > 4 => i - 4 \in DOMAIN o.findings
    BY <1>2, <1>5, <2>1
  <2>4. QED
    BY <2>1, <2>2, <2>3 DEF rest
<1>10. QED
  <2> SUFFICES ASSUME NEW i \in DOMAIN Updates(o)
               PROVE  LET m == Updates(o)[i].metric  arg == Updates(o)[i].arg
                      IN  /\ m \in Metrics
                          /\ m \in Counters => arg \in Labels(m)
                          /\ m \in Histograms => arg \in Nat /\ 1 <= arg
                          /\ m = "iterations" => arg \in 1..5
                          /\ m = "latency" => arg \in 1..9
                          /\ m = "last_risk" => arg \in 0..10
    BY <1>8
  <2>1. CASE i = 1
    <3>1. Updates(o)[i] = [metric |-> "runs", arg |-> o.approved]
      BY <1>9, <2>1
    <3>2. QED
      BY <3>1, <1>2, Names DEF Counters, Labels
  <2>2. CASE i = 2
    <3>1. Updates(o)[i] = [metric |-> "iterations", arg |-> o.iterations]
      BY <1>9, <2>2
    <3>2. QED
      BY <3>1, <1>2, Names DEF Counters, Labels
  <2>3. CASE i = 3
    <3>1. Updates(o)[i] = [metric |-> "latency", arg |-> o.latency]
      BY <1>9, <2>3
    <3>2. QED
      BY <3>1, <1>2, Names DEF Counters, Labels
  <2>4. CASE i = 4
    <3>1. Updates(o)[i] = [metric |-> "last_risk", arg |-> o.risk]
      BY <1>9, <2>4
    <3>2. QED
      BY <3>1, <1>2, Names DEF Counters, Labels
  <2>5. CASE i > 4
    <3>1. /\ i - 4 \in DOMAIN o.findings
          /\ Updates(o)[i] = [metric |-> "findings", arg |-> o.findings[i - 4]]
      BY <1>8, <1>9, <2>5
    <3>2. o.findings[i - 4] \in Classes
      BY <1>2, <3>1
    <3>3. QED
      BY <3>1, <3>2, Names DEF Counters, Labels
  <2>6. QED
    BY <1>8, <2>1, <2>2, <2>3, <2>4, <2>5
-----------------------------------------------------------------------------
LEMMA OneMore ==
  ASSUME NEW S, IsFiniteSet(S), NEW x, x \notin S
  PROVE  /\ IsFiniteSet(S \cup {x})
         /\ Cardinality(S) \in Nat
         /\ Cardinality(S \cup {x}) = Cardinality(S) + 1
BY FS_AddElement, FS_CardinalityType

LEMMA TelemetryStarts == TelemetryInit => TelemetryInv
<1> SUFFICES ASSUME TelemetryInit PROVE TelemetryInv
  OBVIOUS
<1> USE DEF TelemetryInit
<1>1. Position /\ Tracers
  BY DEF Position, Tracers, Places
<1>2. Locks
  BY DEF Locks, Counting
<1>3. \A m : Made(m) = {} /\ (m \in Metrics => Begun(m) = {})
  <2>1. \A r \in Runs : {r} \X (1..(at[r] - 1)) = {}
    OBVIOUS
  <2>2. UNION {{r} \X (1..(at[r] - 1)) : r \in Runs} = {}
    BY <2>1
  <2>3. QED
    BY <2>2 DEF Made, Begun
<1>4. Cardinality({}) = 0 /\ IsFiniteSet({})
  BY FS_EmptySet
<1>5. value = [m \in Metrics |-> value[m]]
  BY Names
<1>6. ASSUME NEW m \in Counters PROVE Counted(m)
  <2>1. value[m] = [label \in Labels(m) |-> 0]
    BY DEF Counters, Labels
  <2>2. \A label : {u \in Made(m) : Arg(u) = label} = {}
    BY <1>3
  <2>3. m \in Metrics /\ holders[m] = {}
    BY Names DEF Counters
  <2>4. \A label : Cardinality({u \in Made(m) : Arg(u) = label}) = 0
    BY <2>2, <1>4
  <2> HIDE DEF TelemetryInit
  <2>5. value[m] \in [Labels(m) -> Nat] /\ \A label \in Labels(m) : value[m][label] = 0
    BY <2>1
  <2>6. QED
    BY <2>3, <2>4, <2>5, Zenon DEF Counted
<1>7. ASSUME NEW m \in Histograms PROVE Observed(m)
  <2>1. m \in Metrics /\ value[m] = [bucket |-> [i \in Buckets[m] |-> 0], sum |-> 0, count |-> 0]
    BY Names
  <2>2. \A i : {u \in Reached(m) : Arg(u) <= i} = {}
    BY <1>3, <2>1 DEF Reached
  <2>3. \A i : Cardinality({u \in Reached(m) : Arg(u) <= i}) = 0
    BY <2>2, <1>4
  <2>4. Cardinality(Made(m)) = 0
    BY <1>3, <1>4
  <2> HIDE DEF TelemetryInit
  <2>5. QED
    BY <2>1, <2>3, <2>4 DEF Observed, HistogramOf
<1>8. Gauged
  BY <1>3 DEF Gauged
<1>9. Page
  BY Names DEF Page, HistogramsAreWhole, EmptyPage
<1>10. \A m \in Metrics : IsFiniteSet(Made(m))
  BY <1>3, <1>4
<1>11. Stores
  BY <1>5, <1>6, <1>7, <1>8, <1>10 DEF Stores
<1>12. QED
  BY <1>1, <1>2, <1>9, <1>11 DEF TelemetryInv

(* What has been made stays made while nobody counts on.                   *)
LEMMA Same ==
  ASSUME Position, Locks, at' = at,
         \A r \in Runs : pc[r] \in {"counting", "returned"} => outcome'[r] = outcome[r]
  PROVE  /\ \A m : Made(m)' = Made(m)
         /\ \A m : \A u \in Made(m) : Arg(u)' = Arg(u)
         /\ \A m \in Metrics : \A r \in holders[m] :
              Update(r)' = Update(r) /\ Arg(<< r, at[r] >>)' = Arg(<< r, at[r] >>)
<1>1. ASSUME NEW u \in UNION {{r} \X (1..(at[r] - 1)) : r \in Runs}
      PROVE  outcome'[u[1]] = outcome[u[1]]
  <2>1. PICK r \in Runs : u \in {r} \X (1..(at[r] - 1))
    OBVIOUS
  <2>2. u[1] = r /\ at[r] # 1
    BY <2>1 DEF Position
  <2>3. QED
    BY <2>2 DEF Position
<1>2. \A m : Made(m)' = Made(m)
  BY <1>1 DEF Made
<1>3. \A m : \A u \in Made(m) : Arg(u)' = Arg(u)
  BY <1>1 DEF Made, Arg
<1>4. ASSUME NEW m \in Metrics, NEW r \in holders[m]
      PROVE  Update(r)' = Update(r) /\ Arg(<< r, at[r] >>)' = Arg(<< r, at[r] >>)
  <2>1. r \in Runs /\ pc[r] = "counting"
    BY DEF Locks, Counting
  <2>2. QED
    BY <2>1 DEF Update, Arg
<1>5. QED
  BY <1>2, <1>3, <1>4

LEMMA StoresKept ==
  ASSUME Position, Locks, Stores, at' = at, UNCHANGED << holders, seen, value >>,
         \A r \in Runs : pc[r] \in {"counting", "returned"} => outcome'[r] = outcome[r],
         \A r \in Runs : Counting(r) => pc'[r] = "counting"
  PROVE  Locks' /\ Stores'
<1>1. /\ \A m : Made(m)' = Made(m)
      /\ \A m : \A u \in Made(m) : Arg(u)' = Arg(u)
      /\ \A m \in Metrics : \A r \in holders[m] :
           Update(r)' = Update(r) /\ Arg(<< r, at[r] >>)' = Arg(<< r, at[r] >>)
  BY Same
<1>2. Locks'
  <2>1. ASSUME NEW m \in Metrics, NEW r \in holders[m]
        PROVE  (Counting(r) /\ Update(r).metric = m)'
    <3>1. r \in Runs /\ Counting(r) /\ Update(r).metric = m
      BY DEF Locks
    <3>2. outcome'[r] = outcome[r]
      BY <3>1 DEF Counting
    <3>3. QED
      BY <1>1, <3>1, <3>2 DEF Counting
  <2>2. QED
    BY <2>1 DEF Locks
<1>3. ASSUME NEW m \in Counters PROVE Counted(m)'
  <2>1. m \in Metrics
    BY Names DEF Counters
  <2>2. \A label : {u \in Made(m)' : Arg(u)' = label} = {u \in Made(m) : Arg(u) = label}
    BY <1>1
  <2>3. \A r \in holders[m] : Update(r)' = Update(r)
    BY <1>1, <2>1
  <2>4. Counted(m)
    BY DEF Stores
  <2>5. QED
    BY <2>2, <2>3, <2>4 DEF Counted
<1>4. ASSUME NEW m \in Histograms PROVE Observed(m)'
  <2>1. m \in Metrics
    BY Names
  <2>2. Reached(m)' = Reached(m) /\ \A u \in Reached(m) : Arg(u)' = Arg(u)
    BY <1>1, <2>1 DEF Reached, Begun
  <2>3. \A i : {u \in Reached(m)' : Arg(u)' <= i} = {u \in Reached(m) : Arg(u) <= i}
    BY <2>2
  <2>4. Made(m)' = Made(m) /\ Observed(m)
    BY <1>1 DEF Stores
  <2>5. QED
    BY <2>3, <2>4 DEF Observed
<1>5. Gauged'
  <2>1. Made("last_risk")' = Made("last_risk") /\ Gauged
    BY <1>1 DEF Stores
  <2>2. {Arg(u)' : u \in Made("last_risk")'} = {Arg(u) : u \in Made("last_risk")}
    BY <1>1
  <2>3. QED
    BY <2>1, <2>2 DEF Gauged
<1>6. QED
  BY <1>1, <1>2, <1>3, <1>4, <1>5 DEF Stores
-----------------------------------------------------------------------------
(* The steps outside the metrics.                                          *)

Elsewhere(r) ==
  \/ GetTracer(r) \/ CreateTracer(r) \/ OpenTrace(r) \/ TraceRaises(r)
  \/ PipelineReturns(r) \/ PipelineRaises(r) \/ CloseTrace(r)

LEMMA ElsewhereStep ==
  ASSUME TelemetryInv, NEW r \in Runs, Elsewhere(r)
  PROVE  TelemetryInv'
<1> USE DEF TelemetryInv
<1>1. UNCHANGED << at, holders, seen, value, page >>
  BY DEF Elsewhere, GetTracer, CreateTracer, OpenTrace, TraceRaises,
         PipelineReturns, PipelineRaises, CloseTrace, tracing
<1>a. /\ \A s \in Runs \ {r} : pc'[s] = pc[s] /\ outcome'[s] = outcome[s]
      /\ Counting(r) => FALSE
      /\ pc[r] \in {"counting", "returned"} => outcome'[r] = outcome[r]
  <2>1. pc' \in [Runs -> Places] /\ \A s \in Runs \ {r} : pc'[s] = pc[s]
    <3>1. pc \in [Runs -> Places] /\ \E place \in Places : RunGoes(r, place)
      BY DEF Position, Elsewhere, GetTracer, CreateTracer, OpenTrace, TraceRaises,
             PipelineReturns, PipelineRaises, CloseTrace, Closing, Places
    <3>2. QED
      BY <3>1 DEF RunGoes
  <2>2. CASE PipelineReturns(r)
    BY <2>1, <2>2 DEF PipelineReturns, Counting
  <2>3. CASE ~PipelineReturns(r)
    <3>1. outcome' = outcome
      BY <2>3 DEF Elsewhere, GetTracer, CreateTracer, OpenTrace, TraceRaises,
                  PipelineRaises, CloseTrace
    <3>2. ~Counting(r)
      BY <2>3 DEF Elsewhere, GetTracer, CreateTracer, OpenTrace, TraceRaises,
                  PipelineRaises, CloseTrace, Counting
    <3>3. QED
      BY <2>1, <3>1, <3>2
  <2>4. QED
    BY <2>2, <2>3
<1>2. Locks' /\ Stores'
  <2>1. /\ \A s \in Runs : pc[s] \in {"counting", "returned"} => outcome'[s] = outcome[s]
        /\ \A s \in Runs : Counting(s) => pc'[s] = "counting"
    BY <1>a DEF Counting
  <2>2. QED
    BY <1>1, <2>1, StoresKept
<1>3. Page'
  BY <1>1 DEF Page, HistogramsAreWhole
<1>4. Position' /\ Tracers'
  <2>1. CASE GetTracer(r) \/ CreateTracer(r) \/ OpenTrace(r) \/ TraceRaises(r)
    <3>1. outcome' = outcome /\ at' = at /\ keys' = keys
      BY <2>1 DEF GetTracer, CreateTracer, OpenTrace, TraceRaises, tracing
    <3>2. CASE GetTracer(r) \/ CreateTracer(r)
      <4>1. /\ pc[r] \in {"idle", "creating"} /\ trace' = trace
            /\ pc' = [pc EXCEPT ![r] = pc'[r]] /\ pc'[r] \in {"creating", "tracing"}
        BY <3>2 DEF GetTracer, CreateTracer, RunGoes, Position
      <4>2. Tracers'
        BY <3>1, <3>2 DEF GetTracer, CreateTracer, Tracers
      <4>3. QED
        BY <3>1, <4>1, <4>2 DEF Position, Places
    <3>3. CASE OpenTrace(r) \/ TraceRaises(r)
      <4>1. /\ pc[r] = "tracing" /\ trace[r] = "none"
            /\ \/ pc' = [pc EXCEPT ![r] = "pipeline"] /\ trace' = [trace EXCEPT ![r] = "open"]
               \/ pc' = [pc EXCEPT ![r] = "raised"] /\ trace' = trace
        BY <3>3 DEF OpenTrace, TraceRaises, RunGoes, Position, tracing
      <4>2. Tracers'
        BY <3>1, <3>3, <4>1 DEF OpenTrace, TraceRaises, Tracers, tracing
      <4>3. outcome[r] = << >> /\ at[r] = 1
        BY <4>1 DEF Position
      <4>4. CASE pc' = [pc EXCEPT ![r] = "pipeline"] /\ trace' = [trace EXCEPT ![r] = "open"]
        BY <3>1, <4>1, <4>2, <4>3, <4>4 DEF Position, Tracers, Places
      <4>5. CASE pc' = [pc EXCEPT ![r] = "raised"] /\ trace' = trace
        BY <3>1, <4>1, <4>2, <4>3, <4>5 DEF Position, Tracers, Places
      <4>6. QED
        BY <4>1, <4>4, <4>5
    <3>4. QED
      BY <2>1, <3>2, <3>3
  <2>2. CASE PipelineReturns(r)
    <3>1. PICK o \in Outcomes : outcome' = [outcome EXCEPT ![r] = << o >>]
      BY <2>2 DEF PipelineReturns
    <3>2. Len(Updates(o)) \in Nat
      BY UpdatesSuit
    <3>3. pc' = [pc EXCEPT ![r] = "counting"] /\ at' = at /\ at[r] = 1 /\ trace' = trace
      BY <2>2 DEF PipelineReturns, RunGoes, Position, tracing
    <3>4. outcome'[r] = << o >> /\ outcome' = [s \in Runs |-> outcome'[s]]
          /\ \A s \in Runs \ {r} : outcome'[s] = outcome[s]
      BY <3>1 DEF Position
    <3>5. Position'
      <4>1. outcome'[r] # << >> /\ outcome'[r][1] = o
        BY <3>4
      <4>2. at'[r] <= Len(Updates(outcome'[r][1])) + 1
        BY <3>2, <3>3, <4>1
      <4>3. QED
        BY <3>3, <3>4, <4>1, <4>2 DEF Position, Places
    <3>6. Tracers'
      BY <2>2, <3>3 DEF PipelineReturns, Tracers, tracing
    <3>7. QED
      BY <3>5, <3>6
  <2>3. CASE PipelineRaises(r)
    BY <2>3 DEF PipelineRaises, RunGoes, Exited, Position, Tracers, Places
  <2>4. CASE CloseTrace(r)
    <3>1. outcome[r][1] \in Outcomes /\ at[r] \in Nat \ {0}
          /\ at[r] <= Len(Updates(outcome[r][1])) + 1
      BY <2>4 DEF CloseTrace, Position
    <3>2. at[r] = Len(Updates(outcome[r][1])) + 1
      BY <2>4, <3>1, UpdatesSuit DEF CloseTrace, Counting
    <3>3. pc' = [pc EXCEPT ![r] = "returned"] /\ trace' = [trace EXCEPT ![r] = "ended"]
      BY <2>4 DEF CloseTrace, Closing, RunGoes
    <3>4. outcome' = outcome /\ at' = at /\ pc[r] = "counting"
      BY <2>4 DEF CloseTrace
    <3>5. Position'
      BY <3>1, <3>2, <3>3, <3>4 DEF Position, Tracers, Places
    <3>6. Tracers'
      BY <2>4, <3>3 DEF CloseTrace, Tracers
    <3>7. QED
      BY <3>5, <3>6
  <2>5. QED
    BY <2>1, <2>2, <2>3, <2>4 DEF Elsewhere
<1>5. QED
  BY <1>2, <1>3, <1>4
-----------------------------------------------------------------------------
(* The steps inside a metric.                                              *)

(* The update a run is about to make.                                      *)
LEMMA Next1 ==
  ASSUME Position, Locks, Stores, NEW r \in Runs, Counting(r)
  PROVE  LET m == Update(r).metric  arg == Update(r).arg
         IN  /\ m \in Metrics
             /\ m \in Counters \/ m \in Histograms \/ m = "last_risk"
             /\ m \in Counters => arg \in Labels(m)
             /\ m \in Histograms => arg \in Nat /\ 1 <= arg /\ Buckets[m] \subseteq Nat
             /\ m = "last_risk" => arg \in 0..10
             /\ Arg(<< r, at[r] >>) = arg
             /\ << r, at[r] >> \notin Made(m)
             /\ at[r] < Len(Updates(outcome[r][1])) + 1
<1>1. outcome[r][1] \in Outcomes /\ at[r] \in DOMAIN Updates(outcome[r][1])
  BY DEF Position, Counting
<1>2. << r, at[r] >> \notin UNION {{s} \X (1..(at[s] - 1)) : s \in Runs}
  BY DEF Position
<1>3. Update(r).metric \in Metrics
  BY <1>1, UpdatesSuit DEF Update
<1> DEFINE m == Update(r).metric
           arg == Update(r).arg
<1>4. /\ m \in Counters => arg \in Labels(m)
      /\ m \in Histograms => arg \in Nat /\ 1 <= arg
      /\ m = "last_risk" => arg \in 0..10
  BY <1>1, UpdatesSuit DEF Update
<1>5. Arg(<< r, at[r] >>) = arg
  BY DEF Arg, Update
<1>6. << r, at[r] >> \notin Made(m)
  BY <1>2 DEF Made
<1>7. at[r] < Len(Updates(outcome[r][1])) + 1
  BY <1>1, UpdatesSuit DEF Position
<1>8. m \in Counters \/ m \in Histograms \/ m = "last_risk"
  BY <1>3, Names DEF Counters
<1>9. m \in Histograms => Buckets[m] \subseteq Nat
  BY Names
<1>10. QED
  BY <1>3, <1>4, <1>5, <1>6, <1>7, <1>8, <1>9

LEMMA EnterStep ==
  ASSUME TelemetryInv, NEW r \in Runs, Enter(r)
  PROVE  TelemetryInv'
<1>0. PICK m, arg, u : m = Update(r).metric /\ arg = Update(r).arg /\ u = << r, at[r] >>
  OBVIOUS
<1>1. /\ Counting(r) /\ holders[m] = {}
      /\ holders' = [holders EXCEPT ![m] = @ \cup {r}]
      /\ UNCHANGED << tracing, pc, outcome, at, page >>
  BY <1>0 DEF Enter, MetricLockFree
<1>2. /\ m \in Metrics
      /\ m \in Counters \/ m \in Histograms \/ m = "last_risk"
      /\ m \in Counters => arg \in Labels(m)
      /\ m \in Histograms => arg \in Nat /\ 1 <= arg /\ Buckets[m] \subseteq Nat
      /\ Arg(u) = arg
      /\ u \notin Made(m)
  BY <1>0, <1>1, Next1 DEF TelemetryInv
<1>3. /\ holders \in [Metrics -> SUBSET Runs] /\ holders'[m] = {r}
      /\ \A n \in Metrics : n # m => holders'[n] = holders[n]
      /\ holders' \in [Metrics -> SUBSET Runs]
  BY <1>1, <1>2 DEF TelemetryInv, Locks
<1>4. /\ \A n : Made(n)' = Made(n)
      /\ \A n : \A v \in Made(n) : Arg(v)' = Arg(v)
      /\ \A s \in Runs : Update(s)' = Update(s) /\ Counting(s)' = Counting(s)
      /\ Arg(u)' = Arg(u)
      /\ u = << r, at[r] >> /\ at' = at /\ Update(r).metric = m /\ Update(r).arg = arg
  BY <1>0, <1>1 DEF Made, Arg, Update, Counting
<1>5. Position' /\ Tracers' /\ Page'
  BY <1>1 DEF TelemetryInv, Position, Tracers, Page, HistogramsAreWhole, tracing
<1>6. IF m \in Histograms
      THEN value' = [value EXCEPT ![m] = RaiseBuckets(@, arg)] /\ seen' = seen
      ELSE /\ value' = value
           /\ seen' = [seen EXCEPT ![r] = IF m = "last_risk" THEN 0 ELSE value[m][arg]]
  BY <1>0 DEF Enter
<1>7. seen' \in [Runs -> Nat]
  <2>1. m \in Counters => value[m][arg] \in Nat
    <3>1. m \in Counters => value[m] \in [Labels(m) -> Nat]
      BY DEF TelemetryInv, Stores, Counted
    <3>2. QED
      BY <1>2, <3>1
  <2>2. QED
    BY <1>2, <1>6, <2>1 DEF TelemetryInv, Locks
<1>8. Locks'
  <2>1. ASSUME NEW n \in Metrics, NEW s \in holders'[n]
        PROVE  Counting(s)' /\ Update(s)'.metric = n
    BY <1>1, <1>3, <1>4 DEF TelemetryInv, Locks
  <2>2. \A n \in Metrics : \A s, t \in holders'[n] : s = t
    BY <1>3 DEF TelemetryInv, Locks
  <2>3. QED
    BY <1>3, <1>7, <2>1, <2>2 DEF Locks
<1>9. value' = [n \in Metrics |-> value'[n]]
  BY <1>6 DEF TelemetryInv, Stores
<1>10. ASSUME NEW n \in Counters PROVE Counted(n)'
  <2>1. n \in Metrics /\ value'[n] = value[n] /\ Counted(n)
    BY <1>6, Names DEF TelemetryInv, Stores, Counters
  <2>2. \A label : {v \in Made(n)' : Arg(v)' = label} = {v \in Made(n) : Arg(v) = label}
    BY <1>4
  <2>3. ASSUME NEW s \in holders'[n] PROVE seen'[s] = value'[n][Update(s)'.arg]
    <3>1. CASE n = m
      <4>1. s = r /\ m # "last_risk" /\ m \notin Histograms
        BY <1>3, <3>1, Names DEF Counters
      <4>2. seen'[r] = value[m][arg]
        BY <1>6, <4>1 DEF TelemetryInv, Locks
      <4>3. QED
        BY <1>4, <2>1, <3>1, <4>1, <4>2
    <3>2. CASE n # m
      <4>1. s \in holders[n] /\ s \in Runs
        BY <1>3, <2>1, <3>2
      <4>2. s # r
        BY <1>4, <2>1, <3>2, <4>1 DEF TelemetryInv, Locks
      <4>3. seen'[s] = seen[s]
        BY <1>6, <4>1, <4>2 DEF TelemetryInv, Locks
      <4>4. QED
        BY <1>4, <2>1, <4>1, <4>3 DEF Counted
    <3>3. QED
      BY <3>1, <3>2
  <2>4. QED
    BY <2>1, <2>2, <2>3 DEF Counted
<1>11. ASSUME NEW n \in Histograms PROVE Observed(n)'
  <2>1. n \in Metrics /\ Observed(n) /\ Made(n)' = Made(n) /\ IsFiniteSet(Made(n))
    BY <1>4, Names DEF TelemetryInv, Stores
  <2>2. CASE n # m
    <3>1. value'[n] = value[n] /\ holders'[n] = holders[n]
      BY <1>3, <1>6, <2>1, <2>2 DEF TelemetryInv, Stores
    <3>2. Reached(n)' = Reached(n)
      BY <1>1, <2>1, <3>1 DEF Reached, Begun
    <3>3. \A v \in Reached(n) : Arg(v)' = Arg(v)
      BY <1>1 DEF Arg
    <3>4. \A i : {v \in Reached(n)' : Arg(v)' <= i} = {v \in Reached(n) : Arg(v) <= i}
      BY <3>2, <3>3
    <3>5. QED
      BY <2>1, <3>1, <3>4 DEF Observed
  <2>3. CASE n = m
    <3>1. value'[m] = RaiseBuckets(value[m], arg)
      BY <1>2, <1>6, <2>3 DEF TelemetryInv, Stores
    <3>2. Reached(m) = Made(m) /\ Reached(m)' = Made(m) \cup {u}
      <4>1. Begun(m) = {} /\ Begun(m)' = {u}
        BY <1>1, <1>3, <1>4 DEF Begun
      <4>2. QED
        BY <1>4, <4>1 DEF Reached
    <3>3. ASSUME NEW i \in Buckets[m]
          PROVE  Cardinality({v \in Reached(m)' : Arg(v)' <= i})
                   = Cardinality({v \in Reached(m) : Arg(v) <= i}) + (IF arg <= i THEN 1 ELSE 0)
      <4>1. CASE arg <= i
        <5>1. {v \in Reached(m)' : Arg(v)' <= i} = {v \in Reached(m) : Arg(v) <= i} \cup {u}
          BY <1>2, <1>4, <3>2, <4>1
        <5>2. IsFiniteSet({v \in Reached(m) : Arg(v) <= i})
          BY <2>1, <2>3, <3>2, FS_Subset
        <5>3. u \notin {v \in Reached(m) : Arg(v) <= i}
          BY <1>2, <3>2
        <5>4. QED
          BY <4>1, <5>1, <5>2, <5>3, OneMore
      <4>2. CASE ~(arg <= i)
        <5>1. {v \in Reached(m)' : Arg(v)' <= i} = {v \in Reached(m) : Arg(v) <= i}
          BY <1>2, <1>4, <3>2, <4>2
        <5>2. Cardinality({v \in Reached(m) : Arg(v) <= i}) \in Nat
          BY <2>1, <2>3, <3>2, FS_Subset, FS_CardinalityType
        <5>3. QED
          BY <4>2, <5>1, <5>2
      <4>3. QED
        BY <4>1, <4>2
    <3>4. value[m] \in HistogramOf(m) /\ Buckets[m] \subseteq Nat /\ arg \in Nat
      BY <1>2, <2>1, <2>3 DEF Observed
    <3>5. /\ value'[m].sum = value[m].sum /\ value'[m].count = value[m].count
          /\ value'[m] \in HistogramOf(m)
          /\ \A i \in Buckets[m] :
               value'[m].bucket[i] = value[m].bucket[i] + (IF arg <= i THEN 1 ELSE 0)
      BY <3>1, <3>4 DEF RaiseBuckets, HistogramOf
    <3>6. \A i \in Buckets[m] :
            value'[m].bucket[i] = Cardinality({v \in Reached(m)' : Arg(v)' <= i})
      BY <2>1, <2>3, <3>3, <3>5 DEF Observed
    <3>7. \A i, j \in Buckets[m] : i <= j => value'[m].bucket[i] <= value'[m].bucket[j]
      <4>1. \A i, j \in Buckets[m] : i <= j => value[m].bucket[i] <= value[m].bucket[j]
        BY <2>1, <2>3 DEF Observed
      <4>2. \A i \in Buckets[m] : value[m].bucket[i] \in Nat
        BY <3>4 DEF HistogramOf
      <4>3. QED
        BY <3>4, <3>5, <4>1, <4>2
    <3>8. QED
      BY <2>1, <2>3, <3>5, <3>6, <3>7 DEF Observed
  <2>4. QED
    BY <2>2, <2>3
<1>12. Gauged'
  <2>1. value'["last_risk"] = value["last_risk"]
    BY <1>6, Names DEF TelemetryInv, Stores
  <2>2. {Arg(v)' : v \in Made("last_risk")'} = {Arg(v) : v \in Made("last_risk")}
    BY <1>4
  <2>3. QED
    BY <1>4, <2>1, <2>2 DEF TelemetryInv, Stores, Gauged
<1>13. Stores'
  BY <1>4, <1>9, <1>10, <1>11, <1>12 DEF TelemetryInv, Stores
<1>14. QED
  BY <1>5, <1>8, <1>13 DEF TelemetryInv

LEMMA LeaveStep ==
  ASSUME TelemetryInv, NEW r \in Runs, Leave(r)
  PROVE  TelemetryInv'
<1>0. PICK m, arg, u : m = Update(r).metric /\ arg = Update(r).arg /\ u = << r, at[r] >>
  OBVIOUS
<1>1. /\ Counting(r) /\ r \in holders[m]
      /\ value' = [value EXCEPT ![m] = Stored(r, m, arg)]
      /\ holders' = [holders EXCEPT ![m] = @ \ {r}]
      /\ at' = [at EXCEPT ![r] = @ + 1] /\ seen' = [seen EXCEPT ![r] = 0]
      /\ UNCHANGED << tracing, pc, outcome, page >>
  BY <1>0 DEF Leave
<1>2. /\ m \in Metrics
      /\ m \in Counters \/ m \in Histograms \/ m = "last_risk"
      /\ m \in Counters => arg \in Labels(m)
      /\ m \in Histograms => arg \in Nat /\ 1 <= arg
      /\ m = "last_risk" => arg \in 0..10
      /\ Arg(u) = arg
      /\ u \notin Made(m)
      /\ at[r] < Len(Updates(outcome[r][1])) + 1
      /\ Len(Updates(outcome[r][1])) \in Nat
  BY <1>0, <1>1, Next1, UpdatesSuit DEF TelemetryInv, Position, Counting
<1>3. /\ holders[m] = {r} /\ holders'[m] = {}
      /\ \A n \in Metrics : n # m => holders'[n] = holders[n] /\ r \notin holders[n]
      /\ holders' \in [Metrics -> SUBSET Runs]
  BY <1>0, <1>1, <1>2 DEF TelemetryInv, Locks
<1>4. /\ at'[r] = at[r] + 1 /\ at[r] \in Nat \ {0} /\ at' \in [Runs -> Nat \ {0}]
      /\ \A s \in Runs \ {r} : at'[s] = at[s] /\ Update(s)' = Update(s) /\ Counting(s)' = Counting(s)
      /\ seen' \in [Runs -> Nat] /\ \A s \in Runs \ {r} : seen'[s] = seen[s]
  BY <1>1 DEF TelemetryInv, Position, Locks, Update, Counting
<1>5. \A v : Arg(v)' = Arg(v)
  BY <1>1 DEF Arg
<1>6. \A n : Made(n)' = IF n = m THEN Made(n) \cup {u} ELSE Made(n)
  <2> DEFINE before == UNION {{s} \X (1..(at[s] - 1)) : s \in Runs}
             after == UNION {{s} \X (1..(at'[s] - 1)) : s \in Runs}
  <2>1. after = before \cup {u}
    <3>1. {r} \X (1..(at'[r] - 1)) = ({r} \X (1..(at[r] - 1))) \cup {u}
      <4>1. 1..(at'[r] - 1) = (1..(at[r] - 1)) \cup {at[r]}
        BY <1>4
      <4>2. QED
        BY <1>0, <4>1
    <3>2. \A s \in Runs \ {r} : {s} \X (1..(at'[s] - 1)) = {s} \X (1..(at[s] - 1))
      BY <1>4
    <3>3. ASSUME NEW v PROVE v \in after <=> v \in before \/ v = u
      BY <3>1, <3>2
    <3>4. QED
      BY <3>3
  <2>2. Updates(outcome[u[1]][1])[u[2]].metric = m
    BY <1>0 DEF Update
  <2>3. QED
    BY <1>1, <2>1, <2>2 DEF Made
<1>7. Position' /\ Tracers' /\ Page'
  BY <1>1, <1>2, <1>4 DEF TelemetryInv, Position, Tracers, Page, HistogramsAreWhole, Counting, tracing
<1>8. Locks'
  <2>1. ASSUME NEW n \in Metrics, NEW s \in holders'[n]
        PROVE  Counting(s)' /\ Update(s)'.metric = n
    <3>1. n # m /\ s \in holders[n] /\ s \in Runs \ {r}
      BY <1>3
    <3>2. QED
      BY <1>4, <3>1 DEF TelemetryInv, Locks
  <2>2. \A n \in Metrics : \A s, t \in holders'[n] : s = t
    BY <1>3 DEF TelemetryInv, Locks
  <2>3. QED
    BY <1>3, <1>4, <2>1, <2>2 DEF Locks
<1>9. /\ value' = [n \in Metrics |-> value'[n]]
      /\ value'[m] = Stored(r, m, arg)
      /\ \A n \in Metrics : n # m => value'[n] = value[n]
  BY <1>1, <1>2 DEF TelemetryInv, Stores
<1>10. ASSUME NEW n \in Metrics PROVE IsFiniteSet(Made(n)')
  <2>1. IsFiniteSet(Made(n))
    BY DEF TelemetryInv, Stores
  <2>2. QED
    BY <1>6, <2>1, FS_AddElement
<1>11. ASSUME NEW n \in Counters PROVE Counted(n)'
  <2>1. n \in Metrics /\ Counted(n) /\ IsFiniteSet(Made(n)) /\ n \notin Histograms /\ n # "last_risk"
    BY Names DEF TelemetryInv, Stores, Counters
  <2>2. CASE n # m
    <3>1. value'[n] = value[n] /\ holders'[n] = holders[n] /\ Made(n)' = Made(n)
      BY <1>3, <1>6, <1>9, <2>1, <2>2
    <3>2. \A label : {v \in Made(n)' : Arg(v)' = label} = {v \in Made(n) : Arg(v) = label}
      BY <1>5, <3>1
    <3>3. \A s \in holders[n] : s \in Runs \ {r}
      BY <1>3, <2>1, <2>2 DEF TelemetryInv, Locks
    <3>4. \A s \in holders'[n] : seen'[s] = value'[n][Update(s)'.arg]
      BY <1>4, <2>1, <3>1, <3>3 DEF Counted
    <3>5. QED
      BY <2>1, <3>1, <3>2, <3>4 DEF Counted
  <2>3. CASE n = m
    <3>1. /\ value[m] \in [Labels(m) -> Nat] /\ arg \in Labels(m)
          /\ seen[r] = value[m][arg]
          /\ \A label \in Labels(m) :
               value[m][label] = Cardinality({v \in Made(m) : Arg(v) = label})
      BY <1>0, <1>1, <1>2, <2>1, <2>3 DEF Counted
    <3>2. value'[m] = [value[m] EXCEPT ![arg] = value[m][arg] + 1]
      BY <1>9, <2>1, <2>3, <3>1 DEF Stored
    <3>3. ASSUME NEW label \in Labels(m)
          PROVE  value'[m][label] = Cardinality({v \in Made(m)' : Arg(v)' = label})
      <4> DEFINE old == {v \in Made(m) : Arg(v) = label}
      <4>1. IsFiniteSet(old)
        BY <2>1, <2>3, FS_Subset
      <4>2. CASE label = arg
        <5>1. {v \in Made(m)' : Arg(v)' = label} = old \cup {u}
          BY <1>2, <1>5, <1>6, <4>2
        <5>2. u \notin old
          BY <1>2
        <5>3. Cardinality(old \cup {u}) = Cardinality(old) + 1
          BY <4>1, <5>2, OneMore
        <5>4. value'[m][label] = value[m][label] + 1
          BY <3>1, <3>2, <4>2
        <5>5. QED
          BY <3>1, <5>1, <5>3, <5>4
      <4>3. CASE label # arg
        <5>1. {v \in Made(m)' : Arg(v)' = label} = old
          BY <1>2, <1>5, <1>6, <4>3
        <5>2. value'[m][label] = value[m][label]
          BY <3>1, <3>2, <4>3
        <5>3. QED
          BY <3>1, <5>1, <5>2
      <4>4. QED
        BY <4>2, <4>3
    <3>4. value'[m] \in [Labels(m) -> Nat]
      <4>1. value[m][arg] + 1 \in Nat
        BY <3>1
      <4>2. QED
        BY <3>1, <3>2, <4>1
    <3>5. QED
      BY <1>3, <2>3, <3>3, <3>4 DEF Counted
  <2>4. QED
    BY <2>2, <2>3
<1>12. ASSUME NEW n \in Histograms PROVE Observed(n)'
  <2>1. n \in Metrics /\ Observed(n) /\ IsFiniteSet(Made(n))
    BY Names DEF TelemetryInv, Stores
  <2>2. Reached(n)' = Reached(n)
    <3>1. CASE n # m
      <4>1. holders'[n] = holders[n] /\ \A s \in holders[n] : at'[s] = at[s]
        BY <1>3, <1>4, <2>1, <3>1 DEF TelemetryInv, Locks
      <4>2. Begun(n)' = Begun(n)
        BY <4>1 DEF Begun
      <4>3. QED
        BY <1>6, <3>1, <4>2 DEF Reached
    <3>2. CASE n = m
      <4>1. Begun(m) = {u} /\ Begun(m)' = {}
        BY <1>0, <1>3 DEF Begun
      <4>2. QED
        BY <1>6, <3>2, <4>1 DEF Reached
    <3>3. QED
      BY <3>1, <3>2
  <2>3. \A i : {v \in Reached(n)' : Arg(v)' <= i} = {v \in Reached(n) : Arg(v) <= i}
    BY <1>5, <2>2
  <2>4. CASE n # m
    <3>1. value'[n] = value[n] /\ Made(n)' = Made(n)
      BY <1>6, <1>9, <2>1, <2>4
    <3>2. QED
      BY <2>1, <2>3, <3>1 DEF Observed
  <2>5. CASE n = m
    <3>1. value[m] \in HistogramOf(m) /\ arg \in Nat /\ 1 <= arg
      BY <1>2, <2>1, <2>5 DEF Observed
    <3>2. value'[m] = [value[m] EXCEPT !.sum = @ + arg, !.count = @ + 1]
      BY <1>9, <2>5 DEF Stored
    <3>3. /\ value'[m] \in HistogramOf(m) /\ value'[m].bucket = value[m].bucket
          /\ value'[m].count = value[m].count + 1 /\ value'[m].sum = value[m].sum + arg
      <4>1. PICK h : h = value[m]
        OBVIOUS
      <4>2. h \in [bucket : [Buckets[m] -> Nat], sum : Nat, count : Nat]
        BY <3>1, <4>1 DEF HistogramOf
      <4>3. value'[m] = [h EXCEPT !.sum = h.sum + arg, !.count = h.count + 1]
        BY <3>2, <4>1
      <4>4. h.bucket \in [Buckets[m] -> Nat] /\ h.sum + arg \in Nat /\ h.count + 1 \in Nat
        BY <3>1, <4>2
      <4>5. value'[m] = [bucket |-> h.bucket, sum |-> h.sum + arg, count |-> h.count + 1]
        BY <4>2, <4>3
      <4>6. QED
        BY <4>1, <4>4, <4>5 DEF HistogramOf
    <3>4. Cardinality(Made(m)') = Cardinality(Made(m)) + 1
      BY <1>2, <1>6, <2>1, <2>5, OneMore
    <3>5. value'[m].count = Cardinality(Made(m)')
      BY <2>1, <2>5, <3>3, <3>4 DEF Observed
    <3>6. value'[m].sum >= value'[m].count
      <4>1. value[m].sum \in Nat /\ value[m].count \in Nat /\ value[m].sum >= value[m].count
        BY <2>1, <2>5, <3>1 DEF Observed, HistogramOf
      <4>2. QED
        BY <3>1, <3>3, <4>1
    <3>7. \A i \in Buckets[m] :
            value'[m].bucket[i] = Cardinality({v \in Reached(m)' : Arg(v)' <= i})
      BY <2>1, <2>3, <2>5, <3>3 DEF Observed
    <3>8. \A i, j \in Buckets[m] : i <= j => value'[m].bucket[i] <= value'[m].bucket[j]
      BY <2>1, <2>5, <3>3 DEF Observed
    <3>9. QED
      BY <2>5, <3>3, <3>5, <3>6, <3>7, <3>8 DEF Observed
  <2>6. QED
    BY <2>4, <2>5
<1>13. Gauged'
  <2>1. "last_risk" \in Metrics /\ "last_risk" \notin Histograms /\ Gauged
    BY Names DEF TelemetryInv, Stores
  <2>2. CASE m = "last_risk"
    <3>1. value'["last_risk"] = arg /\ arg \in 0..10
      BY <1>2, <1>9, <2>1, <2>2 DEF Stored
    <3>2. u \in Made("last_risk")' /\ Arg(u)' = arg
      BY <1>2, <1>5, <1>6, <2>2
    <3>3. QED
      BY <3>1, <3>2 DEF Gauged
  <2>3. CASE m # "last_risk"
    <3>1. value'["last_risk"] = value["last_risk"] /\ Made("last_risk")' = Made("last_risk")
      BY <1>6, <1>9, <2>1, <2>3
    <3>2. {Arg(v)' : v \in Made("last_risk")'} = {Arg(v) : v \in Made("last_risk")}
      BY <1>5, <3>1
    <3>3. QED
      BY <2>1, <3>1, <3>2 DEF Gauged
  <2>4. QED
    BY <2>2, <2>3
<1>14. Stores'
  BY <1>9, <1>10, <1>11, <1>12, <1>13 DEF Stores
<1>15. QED
  BY <1>7, <1>8, <1>14 DEF TelemetryInv
-----------------------------------------------------------------------------
(* Pages.                                                                  *)

(* How many buckets a histogram has.                                       *)
LEMMA Last ==
  ASSUME NEW m \in Histograms
  PROVE  \E last \in Nat \ {0} : Buckets[m] = 1..last /\ Cardinality(Buckets[m]) = last
<1>1. \A last \in Nat \ {0} : Cardinality(1..last) = last
  <2>1. ASSUME NEW last \in Nat \ {0} PROVE Cardinality(1..last) = last
    <3>1. Cardinality(1..last) = IF 1 > last THEN 0 ELSE last - 1 + 1
      <4>1. 1 \in Int /\ last \in Int
        OBVIOUS
      <4>2. QED
        BY <4>1, FS_Interval, Zenon
    <3>2. QED
      BY <3>1
  <2>2. QED
    BY <2>1
<1>2. CASE m = "iterations"
  <2>1. Buckets[m] = 1..6 /\ 6 \in Nat \ {0}
    BY <1>2, Names
  <2>2. QED
    BY <1>1, <2>1
<1>3. CASE m = "latency"
  <2>1. Buckets[m] = 1..9 /\ 9 \in Nat \ {0}
    BY <1>3, Names
  <2>2. QED
    BY <1>1, <2>1
<1>4. QED
  BY <1>2, <1>3, Names

(* Whatever has been made is an update its metric takes.                   *)
LEMMA ArgsSuit ==
  ASSUME Position, NEW m \in Histograms, NEW u \in Made(m)
  PROVE  Arg(u) \in Buckets[m] /\ Arg(u) <= Cardinality(Buckets[m])
<1>1. PICK r \in Runs : u \in {r} \X (1..(at[r] - 1))
  BY DEF Made
<1>2. u[1] = r /\ u[2] \in 1..(at[r] - 1) /\ at[r] # 1 /\ at[r] \in Nat
  BY <1>1 DEF Position
<1>3. outcome[r][1] \in Outcomes /\ at[r] <= Len(Updates(outcome[r][1])) + 1
  BY <1>2 DEF Position
<1>4. u[2] \in DOMAIN Updates(outcome[r][1])
  BY <1>2, <1>3, UpdatesSuit
<1>5. Updates(outcome[r][1])[u[2]].metric = m /\ Arg(u) = Updates(outcome[r][1])[u[2]].arg
  BY <1>2 DEF Made, Arg
<1>6. /\ m = "iterations" => Arg(u) \in 1..5
      /\ m = "latency" => Arg(u) \in 1..9
  BY <1>3, <1>4, <1>5, UpdatesSuit
<1>7. Arg(u) \in Buckets[m]
  BY <1>6, Names
<1>8. QED
  BY <1>7, Last

(* A histogram nobody is inside of holds all observations in its last      *)
(* bucket.                                                                 *)
LEMMA Whole ==
  ASSUME TelemetryInv, NEW m \in Histograms, holders[m] = {}
  PROVE  LET h == value[m]  last == Cardinality(DOMAIN h.bucket)
         IN  /\ \A i \in 1..(last - 1) : h.bucket[i] <= h.bucket[i + 1]
             /\ h.bucket[last] = h.count
             /\ h.sum >= h.count
<1>1. m \in Metrics /\ Observed(m)
  BY Names DEF TelemetryInv, Stores
<1>2. DOMAIN value[m].bucket = Buckets[m]
  BY <1>1 DEF Observed, HistogramOf
<1>3. PICK last \in Nat : Buckets[m] = 1..last /\ last > 0 /\ last = Cardinality(Buckets[m])
  BY Last
<1>4. Reached(m) = Made(m)
  BY DEF Reached, Begun
<1>5. {u \in Reached(m) : Arg(u) <= last} = Made(m)
  BY <1>3, <1>4, ArgsSuit DEF TelemetryInv
<1>6. value[m].bucket[last] = value[m].count
  BY <1>1, <1>3, <1>5 DEF Observed
<1>7. \A i \in 1..(last - 1) : value[m].bucket[i] <= value[m].bucket[i + 1]
  <2>1. \A i \in 1..(last - 1) : i \in 1..last /\ i + 1 \in 1..last /\ i <= i + 1
    BY <1>3
  <2>2. QED
    BY <1>1, <1>3, <2>1 DEF Observed
<1>8. QED
  BY <1>1, <1>2, <1>3, <1>6, <1>7 DEF Observed

LEMMA PageStep ==
  ASSUME TelemetryInv, RenderMetric \/ SendPage
  PROVE  TelemetryInv'
<1>1. UNCHANGED << tracing, pc, outcome, at, holders, seen, value >>
  BY DEF RenderMetric, SendPage
<1>2. Position' /\ Tracers'
  BY <1>1 DEF TelemetryInv, Position, Tracers, tracing
<1>3. Locks' /\ Stores'
  <2>1. \A r \in Runs : Counting(r) => pc'[r] = "counting"
    BY <1>1 DEF Counting
  <2>2. QED
    BY <1>1, <2>1, StoresKept DEF TelemetryInv
<1>4. Page'
  <2>1. CASE RenderMetric
    <3>1. PICK n \in Nat : n = page.number + 1
      BY DEF TelemetryInv, Page
    <3>2. n \in 1..5 /\ holders[Registry[n]] = {} /\ page' = [number |-> n, metric |-> value[Registry[n]]]
      BY <2>1, <3>1, Names DEF RenderMetric, RenderLockFree, MetricLockFree, TelemetryInv, Page
    <3>3. page'.number = n /\ page'.metric = value[Registry[n]]
      BY <3>2
    <3>4. HistogramsAreWhole'
      BY <3>2, <3>3, Whole DEF HistogramsAreWhole
    <3>5. QED
      BY <3>2, <3>3, <3>4, Names DEF Page
  <2>2. CASE SendPage
    BY <2>2, Names DEF SendPage, EmptyPage, Page, HistogramsAreWhole
  <2>3. QED
    BY <2>1, <2>2
<1>5. QED
  BY <1>2, <1>3, <1>4 DEF TelemetryInv
-----------------------------------------------------------------------------
(* Threads that update, raise and are watched leave TelemetryInv true.             *)
THEOREM TelemetryInductive == TelemetrySpec => []TelemetryInv
<1>1. TelemetryInv /\ [TelemetryNext]_telemetryVars => TelemetryInv'
  <2> SUFFICES ASSUME TelemetryInv, [TelemetryNext]_telemetryVars PROVE TelemetryInv'
    OBVIOUS
  <2>1. CASE \E r \in Runs : GetTracer(r) \/ Run(r)
    <3>1. PICK r \in Runs : Elsewhere(r) \/ Enter(r) \/ Leave(r)
      BY <2>1 DEF Run, Elsewhere
    <3>2. QED
      BY <3>1, ElsewhereStep, EnterStep, LeaveStep
  <2>2. CASE RenderMetric \/ SendPage
    BY <2>2, PageStep
  <2>3. CASE UNCHANGED telemetryVars
    <3>1. UNCHANGED << tracing, pc, outcome, at, holders, seen, value, page >>
      BY <2>3 DEF telemetryVars
    <3>2. Position' /\ Tracers' /\ Page'
      BY <3>1 DEF TelemetryInv, Position, Tracers, tracing, Page, HistogramsAreWhole
    <3>3. \A r \in Runs : Counting(r) => pc'[r] = "counting"
      BY <3>1 DEF Counting
    <3>4. Locks' /\ Stores'
      BY <3>1, <3>3, StoresKept DEF TelemetryInv
    <3>5. QED
      BY <3>2, <3>4 DEF TelemetryInv
  <2>4. QED
    BY <2>1, <2>2, <2>3 DEF TelemetryNext
<1>2. QED
  BY TelemetryStarts, <1>1, PTL DEF TelemetrySpec

LEMMA SmallSet ==
  ASSUME NEW S, \A x, y \in S : x = y
  PROVE  Cardinality(S) <= 1
<1>1. CASE S = {}
  <2>1. Cardinality(S) = 0
    BY <1>1, FS_EmptySet
  <2>2. QED
    BY <2>1
<1>2. CASE S # {}
  <2>1. PICK x : S = {x}
    BY <1>2
  <2>2. Cardinality(S) = 1
    BY <2>1, FS_Singleton
  <2>3. QED
    BY <2>2
<1>3. QED
  BY <1>1, <1>2

(* Every update of every run is in its metric exactly once, and a page     *)
(* shows no histogram half made, for any number of runs                    *)
(* (metrics.py:64-67, 124-135, 168-178).                                   *)
THEOREM MetricsCorrect == TelemetrySpec => []MetricsAreExact
<1>1. ASSUME TelemetryInv PROVE TelemetryTypeOK
  <2>1. \A m \in Metrics : holders[m] \subseteq Runs /\ Cardinality(holders[m]) <= 1
    BY <1>1, SmallSet DEF TelemetryInv, Locks
  <2>2. \A r \in Runs : outcome[r] = << >> \/ outcome[r][1] \in Outcomes
    BY <1>1 DEF TelemetryInv, Position, Places
  <2>3. value["runs"] \in [BOOLEAN -> Nat] /\ value["findings"] \in [Classes -> Nat]
    <3>1. Counted("runs") /\ Counted("findings")
      BY <1>1 DEF TelemetryInv, Stores, Counters
    <3>2. QED
      BY <3>1 DEF Counted, Labels
  <2>4. \A m \in Histograms : value[m] \in HistogramOf(m)
    BY <1>1 DEF TelemetryInv, Stores, Observed
  <2>5. QED
    BY <1>1, <2>1, <2>2, <2>3, <2>4
       DEF TelemetryInv, Position, Tracers, Locks, Stores, Gauged, Page, TelemetryTypeOK
<1>2. ASSUME TelemetryInv PROVE UpdatesAreNotLost
  <2> SUFFICES ASSUME NEW m \in Metrics, holders[m] = {}
               PROVE  CASE m \in {"runs", "findings"} ->
                             \A label \in DOMAIN value[m] :
                               value[m][label] = Cardinality({u \in Made(m) : Arg(u) = label})
                        [] m \in Histograms ->
                             /\ value[m].count = Cardinality(Made(m))
                             /\ \A i \in Buckets[m] :
                                  value[m].bucket[i] = Cardinality({u \in Made(m) : Arg(u) <= i})
                        [] OTHER ->
                             Made(m) # {} => value[m] \in {Arg(u) : u \in Made(m)}
    BY DEF UpdatesAreNotLost
  <2>1. CASE m \in {"runs", "findings"}
    <3>1. Counted(m)
      BY <1>2, <2>1 DEF TelemetryInv, Stores, Counters
    <3>2. \A label \in DOMAIN value[m] :
            value[m][label] = Cardinality({u \in Made(m) : Arg(u) = label})
      BY <3>1 DEF Counted
    <3>3. m \notin Histograms
      BY <2>1, Names
    <3>4. QED
      BY <2>1, <3>2, <3>3
  <2>2. CASE m \in Histograms
    <3>1. Observed(m) /\ Reached(m) = Made(m)
      BY <1>2, <2>2 DEF TelemetryInv, Stores, Reached, Begun
    <3>2. m \notin {"runs", "findings"}
      BY <2>2, Names
    <3>3. /\ value[m].count = Cardinality(Made(m))
          /\ \A i \in Buckets[m] :
               value[m].bucket[i] = Cardinality({u \in Made(m) : Arg(u) <= i})
      BY <3>1 DEF Observed
    <3>4. QED
      BY <2>2, <3>2, <3>3
  <2>3. CASE m \notin {"runs", "findings"} /\ m \notin Histograms
    <3>1. m = "last_risk"
      BY <2>3, Names
    <3>2. Made(m) # {} => value[m] \in {Arg(u) : u \in Made(m)}
      BY <1>2, <3>1 DEF TelemetryInv, Stores, Gauged
    <3>3. QED
      BY <2>3, <3>2
  <2>4. QED
    BY <2>1, <2>2, <2>3
<1>3. TelemetryInv => MetricsAreExact
  BY <1>1, <1>2 DEF TelemetryInv, Page, MetricsAreExact
<1>4. QED
  BY <1>3, TelemetryInductive, PTL

(* A run whose caller gets a result is counted whole, one whose caller     *)
(* gets an exception not at all, and no trace stays open                   *)
(* (runtime.py:43-98).                                                     *)
THEOREM CountedCorrect == TelemetrySpec => []CountedIffReturned
<1>1. TelemetryInv => CountedIffReturned
  BY DEF TelemetryInv, Position, CountedIffReturned
<1>2. QED
  BY <1>1, TelemetryInductive, PTL
=============================================================================
