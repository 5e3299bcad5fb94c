----------------------------- MODULE AdminStats -----------------------------
(***************************************************************************)
(* GET /admin/stats (infra/service.py): the figures of the administrator's *)
(* panel, from the rows of the trail in the order they were written.  A    *)
(* row is the call that wrote it; Event gives its columns:                 *)
(* [user, approved ("true", "false" or ""), tables, vulns]; a class may be *)
(* in a row twice, for two vulnerabilities, and is then counted twice.     *)
(* Counts are indexed by what is counted.                                  *)
(***************************************************************************)
EXTENDS Integers, Sequences, FiniteSets

CONSTANTS
  Event,        \* [rows -> columns]
  Limit         \* rows the counts are taken from; the code has 2000

ASSUME LimitAssumption == Limit \in Nat \ {0}

(* rows[-Limit:]                                                           *)
DropOne(rows) == IF Len(rows) < Limit THEN rows ELSE Tail(rows)
Recent(rows) ==
  IF Len(rows) <= Limit THEN rows ELSE SubSeq(rows, Len(rows) - Limit + 1, Len(rows))

(* The figures count places in this list: at is all of them, or a user's.  *)
Columns(rows) == [i \in DOMAIN rows |-> Event[rows[i]]]

Count(events, at, verdict) == Cardinality({i \in at : events[i].approved = verdict})

(* sorted(counts, key=-count)[:n]: ties in the order of first appearance.  *)
Cells(lists) == UNION {{<<i, j>> : j \in DOMAIN lists[i]} : i \in DOMAIN lists}

CellsOf(k, lists) == {p \in Cells(lists) : lists[p[1]][p[2]] = k}

AppearsBefore(k, l, lists) ==
  \E p \in CellsOf(k, lists) : \A q \in CellsOf(l, lists) :
    p[1] < q[1] \/ (p[1] = q[1] /\ p[2] < q[2])

Top(lists, n) ==
  LET keys == {lists[p[1]][p[2]] : p \in Cells(lists)}
      count(k) == Cardinality(CellsOf(k, lists))
      Before(k) == {l \in keys \ {k} :
                      \/ count(l) > count(k)
                      \/ count(l) = count(k) /\ AppearsBefore(l, k, lists)}
  IN  [k \in {k \in keys : Cardinality(Before(k)) < n} |-> count(k)]

TablesOf(events, at) == [i \in at |-> events[i].tables]
VulnsOf(events, at) == [i \in at |-> events[i].vulns]

ByUser(events) ==
  LET Of(u) == {i \in DOMAIN events : events[i].user = u}
  IN  [u \in {events[i].user : i \in DOMAIN events} |->
        [requests |-> Cardinality(Of(u)),
         approved |-> Count(events, Of(u), "true"),
         rejected |-> Count(events, Of(u), "false"),
         top_tables |-> Top(TablesOf(events, Of(u)), 5),
         top_vulns |-> Top(VulnsOf(events, Of(u)), 5)]]

Stats(rows) ==
  LET events == Columns(Recent(rows))
      last == IF Len(rows) <= 30 THEN 1 ELSE Len(rows) - 29
  IN  [total_events |-> Len(rows),
       approved |-> Count(events, DOMAIN events, "true"),
       rejected |-> Count(events, DOMAIN events, "false"),
       users |-> ByUser(events),
       top_tables |-> Top(TablesOf(events, DOMAIN events), 15),
       top_vulns |-> Top(VulnsOf(events, DOMAIN events), 15),
       last_events |-> [i \in 1..(Len(rows) - last + 1) |-> rows[Len(rows) - i + 1]]]
=============================================================================
