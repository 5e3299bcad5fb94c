------------------------------- MODULE Corpus --------------------------------
(***************************************************************************)
(* The dataset of questions and statements and its readers.  A builder     *)
(* (dataset/generate_dataset.py over the catalogue, or                     *)
(* dataset/build_dataset.py over the hand-written seeds) collects records, *)
(* splits every class into train and eval and writes the file; a run of    *)
(* the pipeline opens the few-shot store (retrieval/fewshot.py) over the   *)
(* file as it then is and shows safe examples to the generator and         *)
(* vulnerable ones to the judge.                                           *)
(*                                                                         *)
(* The shuffle of a class is a choice of its eval records.                 *)
(***************************************************************************)
EXTENDS Templates, FiniteSets

CONSTANTS
    Catalogs,    \* the catalogues a dataset may be made from
    SeedFiles,   \* the hand-written seeds: sequences of SeedExample
    Targets,     \* VULN_TARGETS: how many pairs of each class
    Totals,      \* the values of --n
    Queries,     \* what runs ask the store: sets of words
    Asked,       \* the classes judges ask for: sets of classes
    K,           \* how many examples a retrieval returns
    Block        \* how many records the write buffer holds

Classes == <<"SQL_INJ_CLASSIC", "DML_NO_WHERE", "SELECT_STAR", "NO_PAGINATION",
             "DIRECT_SENSITIVE", "SQL_INJ_UNION", "SQL_INJ_TIME", "SLOW_QUERY",
             "PRIV_ESCALATE", "PLPGSQL_UNSAFE">>

ASSUME TargetsAssumption == Targets \in [ToSet(Classes) -> Nat]
IsSeq(s) == s \in Seq(ToSet(s))
\* A catalogue lists tables of different names, none of them the name of a
\* synthetic table, and a table its columns under different names.
ASSUME CatalogsAssumption ==
    \A c \in Catalogs :
        /\ c \in Seq(ToSet(c))
        /\ LET all == c \o SIM_TABLES
           IN  /\ \A i, j \in DOMAIN all : all[i].name = all[j].name => i = j
               /\ \A i \in DOMAIN all :
                     /\ IsSeq(all[i].columns)
                     /\ \A a, b \in DOMAIN all[i].columns :
                           all[i].columns[a][1] = all[i].columns[b][1] => a = b
\* A question is words in order, and so are the parts of a statement.
Phrased(nl, sql) == IsSeq(nl) /\ IsSeq(sql.cols) /\ IsSeq(sql.where) /\ IsSeq(sql.tail)

\* No seed was written with a good version that is its bad one.
ASSUME SeedsAssumption ==
    \A seeds \in SeedFiles :
        /\ IsSeq(seeds)
        /\ \A i \in DOMAIN seeds :
              /\ Phrased(seeds[i].nl, seeds[i].good)
              /\ seeds[i].bad # <<>> =>
                    /\ Head(seeds[i].bad) # seeds[i].good
                    /\ Phrased(seeds[i].nl, Head(seeds[i].bad))
ASSUME QueriesAssumption == \A q \in Queries : IsFiniteSet(q)
ASSUME LimitsAssumption == Totals \subseteq Nat /\ K \in Nat
                            /\ Block \in Nat \ {0}

VARIABLES
    job,      \* what is built: the builder, its catalogue, seeds and --n
    pc,       \* the step of the builder
    cls,      \* the class in turn
    at,       \* the candidate or seed in turn
    added,    \* pairs of the class taken so far
    counter,  \* the last number given under each prefix
    records,
    file,     \* the records in the file
    torn,     \* the last line of the file is only partly there
    shown     \* what a run was shown since the file last changed

vars == <<job, pc, cls, at, added, counter, records, file, torn, shown>>

-----------------------------------------------------------------------------
(* What the builders start from.                                           *)

\* The checks of SeedExample: one seed that fails them fails the import.
SeedIsValid(s) == /\ s.vuln_class \in ToSet(Classes) \cup {"safe"}
                  /\ s.vuln_class # "safe" => s.bad # <<>>
Imported(seeds) == \A i \in DOMAIN seeds : SeedIsValid(seeds[i])

\* The generator goes on without the seeds if they cannot be imported.
Seeds == IF Imported(job.seeds) THEN job.seeds ELSE <<>>
SeedsOf(class) == Those(Seeds, LAMBDA s : s.vuln_class = class)
SeedSafe == [i \in DOMAIN SeedsOf("safe") |->
                [nl |-> SeedsOf("safe")[i].nl, good |-> SeedsOf("safe")[i].good]]
SeedVuln(class) == [i \in DOMAIN SeedsOf(class) |->
                       [nl |-> SeedsOf(class)[i].nl,
                        bad |-> Head(SeedsOf(class)[i].bad),
                        good |-> SeedsOf(class)[i].good]]

Tables == [c \in Catalogs |-> load_tables(c)]
VulnPools == [c \in Catalogs |-> build_vuln_pools(Tables[c])]
SafePools == [c \in Catalogs |-> gen_safe(Tables[c])]

Pool == SeedVuln(Classes[cls]) \o VulnPools[job.catalog][Classes[cls]]
SafePool == SeedSafe \o SafePools[job.catalog]

-----------------------------------------------------------------------------
(* Records.                                                                *)

Record(id, nl, sql, class, vuln) ==
    [seed_id |-> id, nl |-> nl, sql |-> sql, vuln_class |-> class,
     is_vulnerable |-> vuln, split |-> "train"]

SqlOf(recs) == {recs[i].sql : i \in DOMAIN recs}
NextId(prefix) == <<prefix, counter[prefix] + 1>>
Counted(prefix) == [counter EXCEPT ![prefix] = @ + 1]

\* A statement that is already there is not added again.
Add(recs, rec) == IF rec.sql \in SqlOf(recs) THEN recs ELSE Append(recs, rec)

\* MUTANT of Fresh: only the bad version is looked up.
FreshBad(c) == c.bad \notin SqlOf(records)
\* A pair is taken only if neither version is there yet.
Fresh(c) == {c.bad, c.good} \cap SqlOf(records) = {}

Nothing == [positives |-> <<>>, negatives |-> <<>>, words |-> {}, of |-> {}]

Init ==
    /\ job \in [builder : {"generate", "build"}, catalog : Catalogs,
                seeds : SeedFiles, total : Totals]
    /\ pc = IF job.builder = "generate" THEN "vulnerable" ELSE "seeds"
    /\ cls = 1 /\ at = 1 /\ added = 0
    /\ counter = [p \in ToSet(Classes) \cup {"safe"} |-> 0]
    /\ records = <<>>
    /\ file = <<>> /\ torn = FALSE
    /\ shown = Nothing

-----------------------------------------------------------------------------
(* generate_dataset: the pairs class by class, then the safe ones.         *)

ClassIsDone == at > Len(Pool) \/ added >= Targets[Classes[cls]]

TakePair ==
    /\ pc = "vulnerable" /\ cls <= Len(Classes) /\ ~ClassIsDone
    /\ LET c == Pool[at]
           id == NextId(Classes[cls])
           bad == Record(id, c.nl, c.bad, Classes[cls], TRUE)
           good == Record(id, c.nl, c.good, "safe", FALSE)
       IN  IF Fresh(c)
           THEN /\ counter' = Counted(Classes[cls])
                /\ records' = Add(Add(records, bad), good)
                /\ added' = added + 1
           ELSE UNCHANGED <<counter, records, added>>
    /\ at' = at + 1
    /\ UNCHANGED <<job, pc, cls, file, torn, shown>>

NextClass ==
    /\ pc = "vulnerable" /\ cls <= Len(Classes) /\ ClassIsDone
    /\ cls' = cls + 1 /\ at' = 1 /\ added' = 0
    /\ pc' = IF cls = Len(Classes) THEN "safe" ELSE pc
    /\ UNCHANGED <<job, counter, records, file, torn, shown>>

SafeIsDone == Len(records) >= job.total \/ at > Len(SafePool)

\* A number is used up also by a statement that is not added.
TakeSafe ==
    /\ pc = "safe" /\ ~SafeIsDone
    /\ LET c == SafePool[at]
       IN  records' = Add(records, Record(NextId("safe"), c.nl, c.good, "safe", FALSE))
    /\ counter' = Counted("safe")
    /\ at' = at + 1
    /\ UNCHANGED <<job, pc, cls, added, file, torn, shown>>

Cut(recs) == SubSeq(recs, 1, Min({job.total, Len(recs)}))
EndRecords ==
    /\ pc = "safe" /\ SafeIsDone
    /\ records' = Cut(records)
    /\ pc' = "split" /\ cls' = 0
    /\ UNCHANGED <<job, at, added, counter, file, torn, shown>>

-----------------------------------------------------------------------------
(* build_dataset: two wordings of the good version, one of the bad.        *)

mock_back_translate(intent) == <<intent, <<"need", "query">> \o intent>>

TakeSeed ==
    /\ pc = "seeds" /\ Imported(job.seeds) /\ at <= Len(job.seeds)
    /\ LET s == job.seeds[at]
           wordings == mock_back_translate(s.nl)
           Good(w) == Record(<<"seed", at>>, wordings[w], s.good, "safe", FALSE)
       IN  records' = records \o <<Good(1), Good(2)>> \o
                      (IF s.bad = <<>> THEN <<>>
                       ELSE <<Record(<<"seed", at>>, wordings[1], Head(s.bad),
                                     s.vuln_class, TRUE)>>)
    /\ at' = at + 1
    /\ UNCHANGED <<job, pc, cls, added, counter, file, torn, shown>>

EndSeeds ==
    /\ pc = "seeds" /\ at > Len(job.seeds) /\ Imported(job.seeds)
    /\ pc' = "split" /\ cls' = 0
    /\ UNCHANGED <<job, at, added, counter, records, file, torn, shown>>

-----------------------------------------------------------------------------
(* The split, class by class (0 is "safe"), and the file.                  *)

OfClass(recs, class) == {i \in DOMAIN recs : recs[i].vuln_class = class}

EvalSize(n) == Max({1, n \div 5})

SplitClass ==
    /\ pc = "split" /\ cls <= Len(Classes)
    /\ LET class == IF cls = 0 THEN "safe" ELSE Classes[cls]
           mine == OfClass(records, class)
       IN  IF mine = {} THEN UNCHANGED records
           ELSE \E eval \in kSubset(EvalSize(Cardinality(mine)), mine) :
                  records' = [i \in DOMAIN records |->
                      IF i \notin mine THEN records[i]
                      ELSE [records[i] EXCEPT !.split =
                               IF i \in eval THEN "eval" ELSE "train"]]
    /\ cls' = cls + 1
    /\ pc' = IF cls = Len(Classes) THEN "write" ELSE pc
    /\ UNCHANGED <<job, at, added, counter, file, torn, shown>>

\* The buffer is flushed when it is full, at the end of a line or inside the
\* next; the process may stop after any of these steps.
Flush ==
    /\ pc = "write"
    /\ LET n == Min({Len(file) + Block, Len(records)})
       IN  /\ file' = SubSeq(records, 1, n)
           /\ torn' \in IF n = Len(records) THEN {FALSE} ELSE BOOLEAN
           /\ pc' = IF n = Len(records) THEN "done" ELSE pc
    /\ shown' = Nothing
    /\ UNCHANGED <<job, cls, at, added, counter, records>>

-----------------------------------------------------------------------------
(* The store and what a run is shown.                                      *)

\* MUTANT of InIndex: the store is opened without a split.
InIndexOfAll(r) == r.split \in {"train", "eval"}
InIndex(r) == r.split = "train"

\* A line that cannot be read leaves the run without a store.
Store == IF torn THEN <<>> ELSE Those(file, InIndex)
Positives == Those(Store, LAMBDA r : ~r.is_vulnerable)
Negatives == Those(Store, LAMBDA r : r.is_vulnerable)

tokens(e) == (ToSet(e.nl) \cup {e.sql.do, e.sql.from, e.sql.limit}
              \cup ToSet(e.sql.cols) \cup ToSet(e.sql.where) \cup ToSet(e.sql.tail))
             \ {""}

\* The Jaccard measure is common/union, and 0 if there are no words at all;
\* two are compared without dividing.
Common(q, e) == Cardinality(q \cap tokens(e))
Union(q, e) == Max({1, Cardinality(q \cup tokens(e))})
Closer(q, e, f) == Common(q, e) * Union(q, f) > Common(q, f) * Union(q, e)

\* MUTANT of rank: an example equally close goes before the earlier one, and
\* those that share no word are not left out.
rank_all(pool, q) ==
    LET Insert(seq, e) ==
            InsertAt(seq, Cardinality({i \in DOMAIN seq : Closer(q, seq[i], e)}) + 1, e)
        sorted[n \in 0..Len(pool)] ==
            IF n = 0 THEN <<>> ELSE Insert(sorted[n - 1], pool[n])
    IN  SubSeq(sorted[Len(pool)], 1, Min({K, Len(pool)}))

\* Where e goes among those already sorted: after all that are not further.
Place(seq, e, q) == Cardinality({i \in DOMAIN seq : ~Closer(q, e, seq[i])})
Inserted(seq, e, q) == InsertAt(seq, Place(seq, e, q) + 1, e)

Top(sorted, q) == Those(SubSeq(sorted, 1, Min({K, Len(sorted)})),
                        LAMBDA e : Common(q, e) > 0)

\* A stable sort, the closest first; then the first K, but none at distance 1.
rank(pool, q) ==
    LET sorted[n \in 0..Len(pool)] ==
            IF n = 0 THEN <<>> ELSE Inserted(sorted[n - 1], pool[n], q)
    IN  Top(sorted[Len(pool)], q)

retrieve_positive(q) == rank(Positives, q)

\* The classes asked for, or every class if there is none of them.
NegativesOf(classes) == Those(Negatives, LAMBDA r : r.vuln_class \in classes)
retrieve_negative(q, classes) ==
    rank(IF classes = {} \/ NegativesOf(classes) = <<>> THEN Negatives
         ELSE NegativesOf(classes), q)

ServeRun ==
    /\ pc \in {"write", "done"}
    /\ \E q \in Queries, classes \in Asked :
          shown' = [positives |-> retrieve_positive(q),
                    negatives |-> retrieve_negative(q, classes),
                    words |-> q, of |-> classes]
    /\ UNCHANGED <<job, pc, cls, at, added, counter, records, file, torn>>

Next == \/ TakePair \/ NextClass \/ TakeSafe \/ EndRecords
        \/ TakeSeed \/ EndSeeds
        \/ SplitClass \/ Flush \/ ServeRun

Spec == Init /\ [][Next]_vars

-----------------------------------------------------------------------------
(* What the dataset promises.                                              *)

\* Every vulnerable record has its safe twin, of the same seed and of no
\* other flaw; --n may cut the twin of the last record only.  The comment in
\* build_records promises the pair is atomic; statements of different classes
\* and of the seeds coincide, so the promise rests on looking up both.
FlawsHaveTwins ==
    \A k \in DOMAIN records : records[k].is_vulnerable =>
        LET kin == {j \in DOMAIN records \ {k} :
                       records[j].seed_id = records[k].seed_id}
        IN  /\ \A j \in kin : ~records[j].is_vulnerable
            /\ kin # {} \/ k = job.total

\* A statement the metrics are measured on is never shown to the generator
\* or the judge, at any moment of the writing of the file.  Only for the
\* dataset of the catalogue: build_dataset writes a statement twice.
NothingEvaluatedIsShown ==
    job.builder = "generate" =>
        \A r \in ToSet(file) : r.split = "eval" =>
            r.sql \notin SqlOf(shown.positives) \cup SqlOf(shown.negatives)

\* However few records --n asks for, no table gets its next safe template
\* before every table had the one before: the first records cover the most
\* tables (docstring of gen_safe).  The safe seeds have the first numbers; a
\* statement that one of them brought in is not a template's turn.
TemplatesOf == [c \in Catalogs |->
    [i \in DOMAIN Tables[c] |-> SafeTemplates(Tables[c][i], i - 1)]]
CoverageIsEven ==
    LET seeds == Len(SeedSafe)
        filled == {r.sql : r \in {x \in ToSet(records) :
                      x.seed_id[1] = "safe" /\ x.seed_id[2] > seeds}}
        templates == TemplatesOf[job.catalog]
    IN  \A i, j \in DOMAIN templates :
          \A n \in 2..Len(templates[i]) :
            /\ templates[i][n].good \in filled
            /\ n - 1 <= Len(templates[j])
            => templates[j][n - 1].good \in SqlOf(records)

\* No class of the dataset goes without a measurement, and no class of two
\* records or more without an example.
EveryClassIsEvaluated ==
    pc \in {"write", "done"} =>
        \A class \in {r.vuln_class : r \in ToSet(records)} :
            LET mine == OfClass(records, class)
                eval == {i \in mine : records[i].split = "eval"}
            IN  eval # {} /\ (Cardinality(mine) > 1 => eval # mine)

\* The measurement is fair: of every class, and of nothing that was shown.
EvaluationIsFair == NothingEvaluatedIsShown /\ EveryClassIsEvaluated

\* What a run is shown are the closest examples there are: nothing left out
\* is closer, nothing shown has no word in common, equals come in the order
\* of the file, and the judge's are of the class it asked for if any is.
Closest(given, pool, q) ==
    /\ \A i, j \in DOMAIN given : i < j =>
          /\ ~Closer(q, given[j], given[i])
          /\ Closer(q, given[i], given[j]) \/
                \E a, b \in DOMAIN pool :
                    a < b /\ pool[a] = given[i] /\ pool[b] = given[j]
    /\ \A e \in ToSet(given) : e \in ToSet(pool) /\ q \cap tokens(e) # {}
    /\ \A e \in ToSet(pool) \ ToSet(given) : q \cap tokens(e) # {} =>
          Len(given) = K /\ \A g \in ToSet(given) : ~Closer(q, e, g)
ShownAreClosest ==
    LET asked == NegativesOf(shown'.of)
    IN  shown' # shown =>
          /\ Closest(shown'.positives, Positives, shown'.words)
          /\ Closest(shown'.negatives,
                     IF asked = <<>> THEN Negatives ELSE asked, shown'.words)
ClosestAreShown == [][ShownAreClosest]_vars
=============================================================================
