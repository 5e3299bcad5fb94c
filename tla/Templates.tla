------------------------------ MODULE Templates ------------------------------
(***************************************************************************)
(* The SQL templates of dataset/generate_dataset.py: how a table of the    *)
(* catalogue is classified and which safe and vulnerable statements are    *)
(* made for it.                                                            *)
(*                                                                         *)
(* A statement is a record of words: what it does, its columns, its table, *)
(* its condition, its tail (order, grouping) and its limit.  Types of      *)
(* columns are the five the classification tells apart; "key" is a bigint  *)
(* whose name marks a reference.  Wording and difficulty are left out.     *)
(***************************************************************************)
EXTENDS Integers, Sequences, SequencesExt

LIMITS == <<"50", "100", "200", "500", "1000">>
PERIODS == <<"2026Q1", "2025", "2026-04", "2024">>

\* Service columns that no template shows.
BORING == {"name__ru", "name__en", "is_system", "is_del", "is_check",
           "last_modified_user_id", "last_modified_emp_id",
           "last_modified_date", "created_emp_id"}

SENSITIVE_COLS(table) ==
    CASE table = "sys_employee" -> <<"first_name", "second_name", "sur_name",
                                     "email", "phone", "birthday">>
      [] table = "sys_company" -> <<"inn", "contact_phone", "attr_email">>
      [] table = "credit_contract" -> <<"credit_amount", "special_purpose",
                                "financial_position", "reserve_size">>
      [] table = "count_turnover" -> <<"turnover_debit", "turnover_credit",
                                       "output_balance_debit">>
      [] table = "sim_client" -> <<"full_name", "passport", "snils", "inn",
                         "phone", "email", "birth_date", "address">>
      [] table = "sim_payment_card" -> <<"card_number", "cvv", "expiry", "pan">>
      [] table = "sim_employee_account" -> <<"login", "password_hash",
                                             "api_token", "phone">>
      [] OTHER -> <<>>

Raw(name, label, columns) ==
    [name |-> name, label |-> label, container |-> FALSE, columns |-> columns]

\* The synthetic tables that are added to those of the catalogue.
SIM_TABLES == <<
    Raw("sim_client", "client",
        << <<"id", "bigint">>, <<"full_name", "text">>, <<"passport", "text">>,
           <<"snils", "text">>, <<"inn", "text">>, <<"phone", "text">>,
           <<"email", "text">>, <<"birth_date", "date">>, <<"address", "text">> >>),
    Raw("sim_payment_card", "card",
        << <<"id", "bigint">>, <<"client_id", "key">>, <<"card_number", "text">>,
           <<"cvv", "text">>, <<"expiry", "text">>, <<"pan", "text">> >>),
    Raw("sim_employee_account", "account",
        << <<"id", "bigint">>, <<"login", "text">>, <<"password_hash", "text">>,
           <<"api_token", "text">>, <<"full_name", "text">>, <<"phone", "text">> >>) >>

-----------------------------------------------------------------------------
(* Classification.                                                         *)

\* SelectSeq, written so that its elements can be reasoned about.
Those(seq, Test(_)) ==
    FlattenSeq([i \in DOMAIN seq |-> IF Test(seq[i]) THEN <<seq[i]>> ELSE <<>>])

First(seq) == IF seq = <<>> THEN <<>> ELSE <<Head(seq)>>
NamesOf(columns) == [i \in DOMAIN columns |-> columns[i][1]]
OfType(columns, type) ==
    NamesOf(Those(columns, LAMBDA c : c[1] # "id" /\ c[2] = type))

\* Each preferred key goes to the front in its turn: the last one leads.
Promote(keys, key) ==
    IF Contains(keys, key) THEN <<key>> \o Remove(keys, key) ELSE keys

classify(raw) ==
    LET columns == NamesOf(raw.columns)
        texts == Those(OfType(raw.columns, "text"), LAMBDA c : c \notin BORING)
    IN  [name |-> raw.name, label |-> raw.label, cols |-> ToSet(columns),
         id_col |-> Contains(columns, "id"),
         name_col |-> IF Contains(columns, "name") THEN <<"name">>
                      ELSE First(texts),
         nums |-> OfType(raw.columns, "numeric"),
         dates |-> OfType(raw.columns, "date"),
         texts |-> texts,
         fks |-> FoldLeft(Promote, OfType(raw.columns, "key"),
                          <<"org_id", "type_id", "user_id">>),
         has_status |-> Contains(columns, "status")]

\* Containers and tables of fewer than four columns are left out.
load_tables(catalog) ==
    LET business == Those(catalog,
                        LAMBDA t : ~t.container /\ Len(t.columns) >= 4)
        all == business \o SIM_TABLES
    IN  [i \in DOMAIN all |-> classify(all[i])]

-----------------------------------------------------------------------------
(* Statements and candidates.                                              *)

Statement(do, cols, from, where, tail, limit) ==
    [do |-> do, cols |-> cols, from |-> from, where |-> where,
     tail |-> tail, limit |-> limit]
Select(cols, t, where, tail, limit) ==
    Statement("SELECT", cols, t.name, where, tail, limit)

Candidate(words, bad, good) == <<[nl |-> words, bad |-> bad, good |-> good]>>
Template(holds, words, sql) == IF holds THEN <<[nl |-> words, good |-> sql]>> ELSE <<>>

Nth(seq, i) == seq[(i % Len(seq)) + 1]
Active(t) == IF t.has_status THEN <<"status = 1">> ELSE <<>>
Named(t) == t.id_col /\ t.name_col # <<>>

\* The safe templates of the i-th table, T1 to T9 in the code's order.
SafeTemplates(t, i) ==
    LET n == Nth(LIMITS, i)
        num == Nth(t.nums, i)
        fk == Nth(t.fks, i)
        date == Nth(t.dates, i)
        later == Nth(t.dates, i + 1)
        shown == <<"id">> \o t.name_col
    IN  Template(Named(t) /\ t.nums # <<>>, <<"top", t.label, num>>,
            Select(Append(shown, num), t, Active(t), <<num, "DESC">>, n))
     \o Template(t.fks # <<>>, <<"count", t.label, fk>>,
            Select(<<fk, "COUNT">>, t, Active(t), <<"GROUP", fk, "cnt", "DESC">>, n))
     \o Template(t.fks # <<>> /\ t.nums # <<>>,
            <<"total", t.label, fk, Nth(t.nums, i + 1)>>,
            Select(<<fk, "SUM", Nth(t.nums, i + 1), "COUNT">>, t, <<>>,
                   <<"GROUP", fk, "total", "DESC">>, n))
     \o Template(Named(t) /\ t.dates # <<>>, <<"last", t.label, date>>,
            Select(Append(shown, date), t, <<>>, <<date, "DESC">>, n))
     \o Template(Named(t) /\ t.dates # <<>>, <<"period", t.label, later>>,
            Select(Append(shown, later), t, <<later, Nth(PERIODS, i)>>,
                   <<later, "DESC">>, n))
     \o Template(Named(t), <<"find", t.label, "id">>,
            Select(shown \o First(t.nums), t, <<"id = $1">>, <<>>, ""))
     \o Template(t.nums # <<>>, <<"average", t.label, num>>,
            Select(<<"MIN", "MAX", "AVG", num>>, t, Active(t), <<>>, ""))
     \o Template(t.fks # <<>>, <<"unique", t.label, Nth(t.fks, i + 1)>>,
            Select(<<"DISTINCT", Nth(t.fks, i + 1)>>, t, Active(t),
                   <<Nth(t.fks, i + 1)>>, n))
     \o Template(t.has_status, <<"active", t.label>>,
            Select(<<"COUNT">>, t, <<"status = 1">>, <<>>, ""))

\* MUTANT of gen_safe: the tables one after another.
gen_safe_by_table(tables) ==
    FlattenSeq([i \in DOMAIN tables |-> SafeTemplates(tables[i], i - 1)])

\* Round-robin: the first template of every table, then the second, ...
gen_safe(tables) ==
    LET per_table == [i \in DOMAIN tables |-> SafeTemplates(tables[i], i - 1)]
        Row(r) == FlattenSeq([i \in DOMAIN tables |->
                      IF r <= Len(per_table[i]) THEN <<per_table[i][r]>> ELSE <<>>])
    IN  FlattenSeq([r \in 1..9 |-> Row(r)])

-----------------------------------------------------------------------------
(* A vulnerable statement and the good version of the same intent; none if *)
(* the table lacks the columns.                                            *)

gen_select_star(t, i) ==
    LET n == Nth(LIMITS, i)
    IN  IF ~Named(t) THEN <<>>
        ELSE Candidate(<<"show", t.label, "all">>,
                Select(<<"*">>, t, Active(t), <<>>, n),
                Select(<<"id">> \o t.name_col \o First(t.nums) \o First(t.dates),
                       t, Active(t), <<>>, n))

gen_dml_no_where(t, i) ==
    LET Delete(where) == Statement("DELETE", <<>>, t.name, where, <<>>, "")
        Close(where) == Statement("UPDATE", <<"status">>, t.name, where, <<>>, "")
        Remove1(bad, good) == Candidate(<<"remove", t.label>>, bad, good)
        Close1(bad, good) == Candidate(<<"close", t.label>>, bad, good)
    IN  IF ~(t.id_col /\ t.has_status) THEN <<>>
        ELSE CASE i % 4 = 0 -> Close1(Close(<<>>), Close(<<"id = $1">>))
               [] i % 4 = 1 -> Remove1(Delete(<<>>), Delete(<<"id = $1">>))
               [] i % 4 = 2 -> Remove1(Delete(<<"1 = 1">>),
                                       Delete(<<"id = $1", "status = 0">>))
               [] i % 4 = 3 -> Close1(Close(<<"1 = 1">>), Close(<<"id = $1">>))

gen_no_pagination(t, i) ==
    LET order == IF t.dates # <<>> THEN First(t.dates) ELSE <<"id">>
        Listing(limit) == Select(<<"id">> \o t.name_col \o First(t.nums), t, <<>>,
                                 Append(order, "DESC"), limit)
    IN  IF ~Named(t) THEN <<>>
        ELSE Candidate(<<"export", t.label>>, Listing(""), Listing(Nth(LIMITS, i)))

gen_slow_query(t, i) ==
    LET text == Nth(t.texts, i)
        Find(where) == Select(<<"id">> \o t.name_col, t, where, <<>>, "1000")
        Page(where, tail) == Select(<<"id">> \o t.name_col, t, where, tail, "50")
    IN  IF ~(t.id_col /\ t.texts # <<>>) THEN <<>>
        ELSE CASE i % 3 = 0 -> Candidate(<<"search", t.label, text>>,
                      Find(<<text, "LIKE", "%abv%">>), Find(<<text, "LIKE", "$1">>))
               [] i % 3 = 1 -> Candidate(<<"find", t.label, text>>,
                      Find(<<"LOWER", text, "abv">>), Find(<<text, "= $1">>))
               [] i % 3 = 2 -> Candidate(<<"page", t.label>>,
                      Page(<<>>, <<"id", "OFFSET">>), Page(<<"id > $1">>, <<"id">>))

\* Three kinds of injection; they need the columns their conditions name.
Injected(t, words, where, tail, good) ==
    Candidate(words, Select(<<"id">> \o t.name_col, t, where, tail, ""),
              Select(<<"id">> \o t.name_col, t, good, <<>>, ""))
gen_sqli_classic(t, i) ==
    IF ~(Named(t) /\ t.texts # <<>>) THEN <<>>
    ELSE Injected(t, <<"find", t.label, Nth(t.texts, i), "user">>,
                   <<Nth(t.texts, i), "user_input">>, <<>>, <<Nth(t.texts, i), "= $1">>)
gen_sqli_union(t, i) ==
    IF ~(Named(t) /\ t.texts # <<>>) THEN <<>>
    ELSE Injected(t, <<"search", t.label, Nth(t.texts, i), "user">>,
                   <<Nth(t.texts, i), "LIKE", "x">>, <<"UNION", "sys_object">>,
                   <<Nth(t.texts, i), "LIKE", "$1">>)
gen_sqli_time(t, i) ==
    IF ~t.id_col THEN <<>>
    ELSE Candidate(<<"check", t.label, "id">>,
             Select(<<"id">>, t, <<"id = 1", "OR", "pg_sleep">>, <<>>, ""),
             Select(<<"id">>, t, <<"id = $1">>, <<>>, ""))

\* Functions: the good version pins the search path, or passes a parameter.
gen_priv_escalate(t, i) ==
    LET col == IF t.nums # <<>> THEN First(t.nums) ELSE First(t.texts)
        Wrapper(path) == Statement("CREATE get", col, t.name,
                             <<"SECURITY DEFINER">> \o path, <<>>, "")
    IN  IF ~t.id_col \/ col = <<>> THEN <<>>
        ELSE Candidate(<<"wrapper", t.label, Head(col)>>,
                       Wrapper(<<>>), Wrapper(<<"search_path">>))
gen_plpgsql_unsafe(t, i) ==
    LET Search(where) == Statement("CREATE find", <<"*">>, t.name, where, <<>>, "")
    IN  IF t.texts = <<>> THEN <<>>
        ELSE Candidate(<<"function", t.label, Nth(t.texts, i)>>,
                       Search(<<Nth(t.texts, i), "|| p">>),
                       Search(<<Nth(t.texts, i), "USING p">>))

\* The words a sensitive column is shown by; some, and numbers, are not shown.
mask_expr(t, col) ==
    IF \/ Contains(t.nums, col)
       \/ col \in {"cvv", "password_hash", "api_token", "snils", "passport"}
    THEN <<>>
    ELSE <<col, IF col \in {"card_number", "pan", "inn"} THEN "last4"
                ELSE IF col \in {"first_name", "second_name", "sur_name",
                                 "full_name"} THEN "initial"
                ELSE "masked">>

\* Windows of two texts, a card by id, and one sum; masked or grouped when good.
gen_direct_sensitive(t) ==
    LET sens == Those(SENSITIVE_COLS(t.name), LAMBDA c : c \in t.cols)
        text_sens == Those(sens, LAMBDA c : ~Contains(t.nums, c))
        num_sens == Those(sens, LAMBDA c : Contains(t.nums, c))
        Window(start) == SubSeq(text_sens, start, Min({start + 1, Len(text_sens)}))
        Masked(chunk) ==
            LET masks == FlattenSeq([i \in DOMAIN chunk |-> mask_expr(t, chunk[i])])
            IN  <<"id">> \o (IF masks = <<>> THEN <<"id">> ELSE masks)
        Shown(words, chunk, where, limit) ==
            Candidate(words \o <<t.label>> \o chunk,
                Select(chunk, t, where, <<>>, limit),
                Select(Masked(chunk), t, where, <<>>, limit))
        windows == [w \in 1..((Len(text_sens) + 1) \div 2) |->
                       Shown(<<"export">>, Window(2 * w - 1), <<>>, "1000")]
        group == IF t.fks # <<>> THEN Head(t.fks) ELSE "type_id"
    IN  FlattenSeq(windows)
     \o (IF text_sens = <<>> \/ ~t.id_col THEN <<>>
         ELSE Shown(<<"card">>, Window(1), <<"id = $1">>, ""))
     \o (IF num_sens = <<>> \/ t.name_col = <<>> THEN <<>>
         ELSE Candidate(<<"report", t.label, Head(num_sens)>>,
                Select(t.name_col \o First(num_sens), t, <<>>, <<>>, "1000"),
                Select(<<group, "SUM", Head(num_sens), "COUNT">>, t, <<>>,
                       <<"GROUP", group>>, "")))

\* The candidates of a class from every table, in the order of the tables;
\* two classes go over the tables again with their next variant.
Pass(Gen(_, _), tables, shift) ==
    FlattenSeq([i \in DOMAIN tables |-> Gen(tables[i], i - 1 + shift)])
build_vuln_pools(tables) ==
    [SQL_INJ_CLASSIC |-> Pass(gen_sqli_classic, tables, 0),
     DML_NO_WHERE |-> Pass(gen_dml_no_where, tables, 0)
                      \o Pass(gen_dml_no_where, tables, 1),
     SELECT_STAR |-> Pass(gen_select_star, tables, 0),
     NO_PAGINATION |-> Pass(gen_no_pagination, tables, 0),
     DIRECT_SENSITIVE |->
        FlattenSeq([i \in DOMAIN tables |-> gen_direct_sensitive(tables[i])]),
     SQL_INJ_UNION |-> Pass(gen_sqli_union, tables, 0),
     SQL_INJ_TIME |-> Pass(gen_sqli_time, tables, 0),
     SLOW_QUERY |-> Pass(gen_slow_query, tables, 0)
                    \o Pass(gen_slow_query, tables, 1),
     PRIV_ESCALATE |-> Pass(gen_priv_escalate, tables, 0),
     PLPGSQL_UNSAFE |-> Pass(gen_plpgsql_unsafe, tables, 0)]
=============================================================================
