------------------------------ MODULE MCCorpus -------------------------------
(* A catalogue of six tables, of which two are left out, and one of none;   *)
(* seeds that are valid and seeds with a wrong label; one pair of a class,  *)
(* two of DML_NO_WHERE, where statements of seed and templates coincide.    *)
EXTENDS Corpus

Employee == Raw("sys_employee", "employee",
    << <<"id", "bigint">>, <<"first_name", "text">>, <<"email", "text">>,
       <<"birthday", "date">> >>)
Links == [Raw("ms_links", "links",
    << <<"id", "bigint">>, <<"org_id", "key">>, <<"type_id", "key">>,
       <<"name", "text">> >>) EXCEPT !.container = TRUE]
Tiny == Raw("dict_tiny", "tiny",
    << <<"id", "bigint">>, <<"name", "text">>, <<"status", "other">> >>)
Turnover == Raw("count_turnover", "turnover",
    << <<"id", "bigint">>, <<"acc_id", "key">>, <<"turnover_debit", "numeric">>,
       <<"turnover_credit", "numeric">>, <<"name__ru", "text">> >>)
Product == Raw("dict_product", "product",
    << <<"id", "bigint">>, <<"name", "text">>, <<"type_id", "key">>,
       <<"price", "numeric">> >>)
Contract == Raw("credit_contract", "contract",
    << <<"id", "bigint">>, <<"number", "text">>, <<"credit_amount", "numeric">>,
       <<"link_product", "key">>, <<"org_id", "key">>, <<"user_id", "key">>,
       <<"start", "date">>, <<"finish", "date">>, <<"status", "other">> >>)

MCCatalogs == {<<Employee, Links, Tiny, Turnover, Product, Contract>>, <<Links>>}

Dml(where) == Statement("UPDATE", <<"status">>, "credit_contract", where, <<>>, "")
Star(cols) == Statement("SELECT", cols, "credit_contract", <<>>, <<>>, "100")
Sum(where) == Statement("SELECT", <<"SUM">>, "credit_contract", where, <<>>, "")
MCSeeds == <<
    [nl |-> <<"total", "contract">>, vuln_class |-> "safe",
     good |-> Sum(<<>>), bad |-> <<>>],
    [nl |-> <<"show", "contract">>, vuln_class |-> "SELECT_STAR",
     good |-> Star(<<"id">>), bad |-> <<Star(<<"*">>)>>],
    [nl |-> <<"close", "contract">>, vuln_class |-> "DML_NO_WHERE",
     good |-> Dml(<<"id = $1">>), bad |-> <<Dml(<<>>)>>] >>
MCBadSeeds == Append(MCSeeds,
    [nl |-> <<"late", "contract">>, vuln_class |-> "SLOW",
     good |-> Sum(<<"late">>), bad |-> <<>>])
MCSeedFiles == {MCSeeds, MCBadSeeds}

MCTargets == [c \in ToSet(Classes) |-> IF c = "DML_NO_WHERE" THEN 2 ELSE 1]
MCAsked == {{}, {"DML_NO_WHERE", "SLOW_QUERY"}}
MCQueries == {{"find", "contract", "number"}, {"id", "user"}}
=============================================================================
