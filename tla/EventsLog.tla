------------------------------ MODULE EventsLog ------------------------------
(***************************************************************************)
(* infra/events.py: the audit trail data/events.csv.  Request threads      *)
(* append one row each (log_event), the admin page reads all of them       *)
(* (read_events); one threading.Lock per process guards the file.          *)
(*                                                                         *)
(* A row is identified with the call that writes it.  A row is shorter     *)
(* than the file object's buffer, so everything a call writes reaches the  *)
(* file when the file is closed; a failing close leaves nothing of it.     *)
(* Whether the process may die and the disk may fail is decided once, at   *)
(* the start: faulty.                                                      *)
(***************************************************************************)
EXTENDS Integers, Sequences, FiniteSets, AdminStats

CONSTANTS
  Calls,        \* calls of log_event
  Reads,        \* calls of read_events
  Header        \* the header line; any other line is the row of a call

ASSUME CallsAssumption == Header \notin Calls
ASSUME ReadsAssumption == Calls \cap Reads = {}

VARIABLES
  faulty,       \* the process may die and the disk may fail
  crashed,      \* the process died, and was started again
  exists,       \* os.path.exists(_EVENTS_CSV)
  lines,        \* what is in the file
  holder,       \* the calls inside "with _lock"
  call,         \* call[c]: where log_event is, or how it ended
  new_file,     \* new_file[c]: its local variable
  read,         \* read[r]: where read_events is
  owed,         \* owed[r]: the calls that had written a row when r began
  got           \* got[r]: what r returned

vars == << faulty, crashed, exists, lines, holder, call, new_file, read, owed, got >>

Running == {"waiting", "checking", "opening", "writing", "closed"}
CallStates == Running \cup {"idle", "written", "dropped", "dead"}
ReadStates == {"idle", "waiting", "done", "dead"}

Init ==
  /\ faulty \in BOOLEAN
  /\ crashed = FALSE
  /\ exists = FALSE
  /\ lines = << >>
  /\ holder = {}
  /\ call = [c \in Calls |-> "idle"]
  /\ new_file = [c \in Calls |-> FALSE]
  /\ read = [r \in Reads |-> "idle"]
  /\ owed = [r \in Reads |-> {}]
  /\ got = [r \in Reads |-> << >>]
-----------------------------------------------------------------------------
(* log_event                                                               *)

NoLock == TRUE
LockFree == holder = {}

Goto(c, state) == call' = [call EXCEPT ![c] = state]

(* The row is put together and the directory created; then "with _lock".   *)
LogEvent(c) ==
  /\ call[c] = "idle"
  /\ Goto(c, "waiting")
  /\ UNCHANGED << faulty, crashed, exists, lines, holder, new_file, read, owed, got >>

Acquire(c) ==
  /\ call[c] = "waiting"
  /\ LockFree
  /\ holder' = holder \cup {c}
  /\ Goto(c, "checking")
  /\ UNCHANGED << faulty, crashed, exists, lines, new_file, read, owed, got >>

NeverNew == FALSE
IsNew == ~exists

CheckExists(c) ==
  /\ call[c] = "checking"
  /\ new_file' = [new_file EXCEPT ![c] = IsNew]
  /\ Goto(c, "opening")
  /\ UNCHANGED << faulty, crashed, exists, lines, holder, read, owed, got >>

(* open(_EVENTS_CSV, "a"): creates the file, empty, if there is none.      *)
KeptByOpen == lines

OpenAppend(c) ==
  /\ call[c] = "opening"
  /\ exists' = TRUE
  /\ lines' = KeptByOpen
  /\ Goto(c, "writing")
  /\ UNCHANGED << faulty, crashed, holder, new_file, read, owed, got >>

(* The inner with-block ends: the buffer reaches the file.                 *)
Close(c) ==
  /\ call[c] = "writing"
  /\ lines' = lines \o (IF new_file[c] THEN << Header, c >> ELSE << c >>)
  /\ Goto(c, "closed")
  /\ UNCHANGED << faulty, crashed, exists, holder, new_file, read, owed, got >>

(* The outer one ends, and log_event returns.                              *)
Release(c) ==
  /\ call[c] = "closed"
  /\ holder' = holder \ {c}
  /\ Goto(c, "written")
  /\ UNCHANGED << faulty, crashed, exists, lines, new_file, read, owed, got >>

(* open or close raises: the with-blocks are left, the exception swallowed.*)
HeldAfterFailure(c) == holder
HolderAfterFailure(c) == holder \ {c}

IOFails(c) ==
  /\ faulty
  /\ call[c] \in {"opening", "writing"}
  /\ holder' = HolderAfterFailure(c)
  /\ Goto(c, "dropped")
  /\ UNCHANGED << faulty, crashed, exists, lines, new_file, read, owed, got >>

Log(c) ==
  \/ Acquire(c) \/ CheckExists(c) \/ OpenAppend(c)
  \/ Close(c) \/ Release(c) \/ IOFails(c)
-----------------------------------------------------------------------------
(* read_events                                                             *)

(* Without a file there are no events; this check is made without the lock.*)
ReadEvents(r) ==
  /\ read[r] = "idle"
  /\ owed' = [owed EXCEPT ![r] = {c \in Calls : call[c] = "written"}]
  /\ read' = [read EXCEPT ![r] = IF exists THEN "waiting" ELSE "done"]
  /\ UNCHANGED << faulty, crashed, exists, lines, holder, call, new_file, got >>

(* csv.DictReader takes the first line for the header, whatever it is.     *)
DictReader(file) == IF file = << >> THEN << >> ELSE Tail(file)

(* Nobody else can touch the file while the lock is held.                  *)
ReadLocked(r) ==
  /\ read[r] = "waiting"
  /\ LockFree
  /\ got' = [got EXCEPT ![r] = DictReader(lines)]
  /\ read' = [read EXCEPT ![r] = "done"]
  /\ UNCHANGED << faulty, crashed, exists, lines, holder, call, new_file, owed >>
-----------------------------------------------------------------------------
(* The process dies, with its threads, its lock and its unwritten buffers; *)
(* the next process finds the file as it is.  Bounded to one crash.        *)
Crash ==
  /\ faulty
  /\ ~crashed
  /\ crashed' = TRUE
  /\ holder' = {}
  /\ call' = [c \in Calls |->
                IF call[c] \in Running THEN "dead" ELSE call[c]]
  /\ read' = [r \in Reads |-> IF read[r] = "waiting" THEN "dead" ELSE read[r]]
  /\ UNCHANGED << faulty, exists, lines, new_file, owed, got >>

Next ==
  \/ \E c \in Calls : LogEvent(c) \/ Log(c)
  \/ \E r \in Reads : ReadEvents(r) \/ ReadLocked(r)
  \/ Crash

Spec == Init /\ [][Next]_vars

(* The scheduler runs every thread that is not blocked; nothing obliges a  *)
(* request to come or the process to die.                                  *)
FairSpec ==
  /\ Spec
  /\ \A c \in Calls : WF_vars(Log(c))
  /\ \A r \in Reads : WF_vars(ReadLocked(r))
-----------------------------------------------------------------------------
RowsOf(file) == {file[i] : i \in DOMAIN file} \ {Header}

TypeOK ==
  /\ faulty \in BOOLEAN
  /\ crashed \in BOOLEAN
  /\ exists \in BOOLEAN
  /\ lines \in Seq(Calls \cup {Header})
  /\ holder \subseteq Calls
  /\ Cardinality(holder) <= 1
  /\ call \in [Calls -> CallStates]
  /\ new_file \in [Calls -> BOOLEAN]
  /\ read \in [Reads -> ReadStates]
  /\ owed \in [Reads -> SUBSET Calls]
  /\ got \in [Reads -> Seq(Calls \cup {Header})]

(* Two threads that find no file do not both write a header: a header is   *)
(* only ever the first line, and no row is written twice, also after a     *)
(* crash (events.py:84-91, the check and the open are under one lock).     *)
OneHeaderOneRowEach ==
  /\ \A i \in DOMAIN lines : lines[i] = Header => i = 1
  /\ \A i, j \in DOMAIN lines : lines[i] = lines[j] => i = j

(* A row log_event has written stays in the trail, whatever later calls,   *)
(* failures and crashes do, and a row it gave up is not there              *)
(* (events.py:86, 93: append mode; an exception is swallowed).             *)
WrittenIsInTheTrail ==
  \A c \in Calls :
    /\ call[c] = "written" => c \in RowsOf(lines)
    /\ call[c] = "dropped" => c \notin RowsOf(lines)

(* The file is a trail of what the calls report, through races, failures   *)
(* and a crash.                                                            *)
TrailIsWhole == TypeOK /\ OneHeaderOneRowEach /\ WrittenIsInTheTrail

(* While nothing fails, read_events reports every row that was written     *)
(* when it was called, and reports rows only (events.py:97-103).           *)
ReportsWhatWasWritten(r) ==
  read[r] = "done" => owed[r] \subseteq RowsOf(got[r])

ReadersMissNothing ==
  \A r \in Reads :
    /\ ~faulty => ReportsWhatWasWritten(r)
    /\ \A i \in DOMAIN got[r] : got[r][i] # Header

(* While nothing fails, the panel of an administrator accounts for every   *)
(* call that was written when he asked for it: in the total always, in the *)
(* figures of its user and among the verdicts unless there are more calls  *)
(* than the limit, and then never for more than the limit                  *)
(* (service.py:2410-2457).                                                 *)
With(calls, user, approved) ==
  Cardinality({c \in calls : Event[c].user = user /\ Event[c].approved = approved})

PanelTellsTheTrail ==
  \A r \in Reads : ~faulty /\ read[r] = "done" =>
    LET stats == Stats(got[r])
    IN  /\ stats.total_events >= Cardinality(owed[r])
        /\ stats.approved + stats.rejected <= Limit
        /\ stats.total_events <= Limit =>
             \A u \in {Event[c].user : c \in owed[r]} :
               /\ stats.users[u].approved >= With(owed[r], u, "true")
               /\ stats.users[u].rejected >= With(owed[r], u, "false")
               /\ stats.users[u].requests >=
                    stats.users[u].approved + stats.users[u].rejected
                      + With(owed[r], u, "")

(* A call of log_event returns, also after an exception, unless the        *)
(* process dies: the lock is never left behind.                            *)
CallsReturn ==
  \A c \in Calls : call[c] = "waiting" ~> call[c] \in {"written", "dropped", "dead"}
-----------------------------------------------------------------------------
(* What read_events' docstring says, with no word of failures              *)
(* (events.py:98).                                                         *)
ReadsAllEvents == \A r \in Reads : ReportsWhatWasWritten(r)
=============================================================================
