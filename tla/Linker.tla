------------------------------- MODULE Linker -------------------------------
(***************************************************************************)
(* What SchemaLinker (schema/linker.py) computes: the ranking of the       *)
(* tables for a task, by meaning or by words, and the part of the schema   *)
(* that goes into the prompt.                                              *)
(*                                                                         *)
(* A token is a member of a set of words, a score an integer; the texts    *)
(* that are made into vectors are the tables' and the tasks' themselves,   *)
(* and a vector is the text it was computed from.                          *)
(***************************************************************************)
EXTENDS Integers, FiniteSets, Sequences, SequencesExt, FiniteSetsExt

CONSTANTS
  Catalogue,    \* the tables, in the order of the file
  Tasks,
  TaskTokens,   \* TaskTokens[task]: _tokens(task)
  HeadTokens,   \* HeadTokens[table], AllTokens[table]: head_tok and all_tok
  AllTokens,
  Boost,        \* Boost[table], 1 unless the table is featured
  Cosine,       \* Cosine[text][text], scaled to an integer
  Columns,      \* Columns[table]: its columns, with what a foreign key refers to
  K,            \* k = 4 for both callers
  MaxCols,      \* max_cols = 12 for both callers
  NoVector, NoTable

Tables == ToSet(Catalogue)
Texts == Tables \cup Tasks
Vectors == Texts \cup {NoVector}

ASSUME LinkerAssumption ==
  /\ Catalogue \in Seq(Tables)
  /\ Tables \cap Tasks = {}
  /\ NoVector \notin Texts
  /\ NoTable \notin Tables
  /\ K \in Nat \ {0}
  /\ MaxCols \in Nat \ {0}

(* A boost and a cosine are numbers, a task has finitely many words.       *)
ASSUME ScoresAssumption ==
  /\ Boost \in [Tables -> Int]
  /\ Cosine \in [Texts -> [Texts -> Int]]
  /\ \A task \in Tasks : IsFiniteSet(TaskTokens[task])

(* A table lists its columns, and no two under the same name.              *)
ASSUME ColumnsAssumption ==
  \A t \in Tables :
    /\ Columns[t] \in Seq(ToSet(Columns[t]))
    /\ \A c, d \in DOMAIN Columns[t] : Columns[t][c].name = Columns[t][d].name => c = d

(* [x for x in s if ...], for the places where the condition holds:        *)
(* SelectSeq, written so that it can be unfolded in a proof.               *)
Keep(s, places) ==
  LET kept[i \in 0..Len(s)] ==
        IF i = 0 THEN << >>
        ELSE IF i \in places THEN Append(kept[i - 1], s[i]) ELSE kept[i - 1]
  IN  kept[Len(s)]

(* Words in common, those of the table's name and comment three times.     *)
WordScore(task, t) ==
  Cardinality(TaskTokens[task] \cap AllTokens[t])
    + 2 * Cardinality(TaskTokens[task] \cap HeadTokens[t])

Place(t) == CHOOSE i \in DOMAIN Catalogue : Catalogue[i] = t

(* sorted() is stable: equal scores keep the order of the catalogue.       *)
Before(score, a, b) ==
  \/ score[a] > score[b]
  \/ score[a] = score[b] /\ Place(a) < Place(b)

Scored(score) == {t \in DOMAIN score : score[t] > 0}
Rank(score, t) == Cardinality({u \in Scored(score) : Before(score, u, t)}) + 1

Sorted(score) ==
  [i \in 1..Cardinality(Scored(score)) |->
     CHOOSE t \in Scored(score) : Rank(score, t) = i]

TopK(score) == SubSeq(Sorted(score), 1, Min({K, Len(Sorted(score))}))

(* A table without a vector takes no part.                                 *)
RankByMeaning(query, vec) ==
  TopK([t \in {u \in Tables : vec[u] # NoVector} |-> Cosine[query][vec[t]] * Boost[t]])

RankByWords(task) == TopK([t \in Tables |-> WordScore(task, t) * Boost[t]])

(* The first MaxCols columns that are not boilerplate, and after them the  *)
(* foreign keys that were cut off.                                         *)
ShownColumns(t) ==
  LET all == Keep(Columns[t], {i \in DOMAIN Columns[t] : ~Columns[t][i].noise})
      cut == SubSeq(all, MaxCols + 1, Len(all))
  IN  SubSeq(all, 1, Min({MaxCols, Len(all)}))
        \o Keep(cut, {i \in DOMAIN cut : cut[i].ref # NoTable})

Block(t) ==
  [table |-> t,
   columns |-> [i \in DOMAIN ShownColumns(t) |-> ShownColumns(t)[i].name],
   hints |-> {<< c.name, c.ref >> : c \in {c \in ToSet(ShownColumns(t)) : c.ref # NoTable}}]

(* link_text without the foreign-key closure, which both callers turn off. *)
LinkText(ranked) == [i \in DOMAIN ranked |-> Block(ranked[i])]
=============================================================================
