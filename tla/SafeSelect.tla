----------------------------- MODULE SafeSelect -----------------------------
(***************************************************************************)
(* _is_safe_select (infra/service.py): which texts /run-sql and            *)
(* /predict-time accept.  A text is a sequence of tokens: a word, which    *)
(* stands for every word that begins so, a sign, a whole comment ("--" up  *)
(* to its newline, "/*" up to the first end), or a blank; "newline" is any *)
(* blank but the space.                                                    *)
(***************************************************************************)
EXTENDS Integers, Sequences, FiniteSets

Blank == {"space", "newline"}
Comments == {"--", "/*"}
Words == {"analyze", "verbose", "buffers", "costs", "timing", "summary", "format"}

(* How many of the first tokens are of a kind.                             *)
Leading(text, kind) ==
  CHOOSE n \in 0..Len(text) :
    /\ \A i \in 1..n : text[i] \in kind
    /\ n = Len(text) \/ text[n + 1] \notin kind

Skip(text, n) == SubSeq(text, n + 1, Len(text))

Strip(text, kind) == Skip(text, Leading(text, kind))

First(text, token) == text # << >> /\ text[1] = token

Closes(text, i) ==
  Cardinality({j \in 1..i : text[j] = "("}) = Cardinality({j \in 1..i : text[j] = ")"})

(* The options of an EXPLAIN, up to the parenthesis that closes the first. *)
SkipOptionsToFirst(text) ==
  IF First(text, "(") /\ \E i \in DOMAIN text : text[i] = ")"
  THEN Skip(text, CHOOSE i \in DOMAIN text :
                    text[i] = ")" /\ \A j \in 1..(i - 1) : text[j] # ")")
  ELSE text

SkipOptions(text) ==
  IF First(text, "(") /\ \E i \in DOMAIN text : Closes(text, i)
  THEN Skip(text, CHOOSE i \in DOMAIN text :
                    Closes(text, i) /\ \A j \in 1..(i - 1) : ~Closes(text, j))
  ELSE text

(* Words without parentheses.  The loop cuts up to the next space, so it   *)
(* looks only at what follows a space, and runs over a line's end.         *)
Starts(text) ==
  {i \in DOMAIN text :
     /\ text[i] \notin Blank
     /\ \/ i = 1
        \/ \E j \in 1..(i - 1) : /\ text[j] = "space"
                               /\ \A k \in j..(i - 1) : text[k] \in Blank}

SkipWords(text) ==
  LET stops == {i \in Starts(text) : text[i] \notin Words}
  IN  IF stops = {} THEN << >>
      ELSE Skip(text, (CHOOSE i \in stops : \A j \in stops : i <= j) - 1)

SkipWrapping(text) ==
  IF First(text, "explain")
  THEN SkipWords(Strip(SkipOptions(Strip(Skip(text, 1), Blank)), Blank))
  ELSE text

(* What it looks at is where the text begins, and WITH needs its space.    *)
IsSafeSelect(text) ==
  LET s == SkipWrapping(Strip(text, Comments \cup Blank))
  IN  First(s, "select") \/ (First(s, "with") /\ Len(s) > 1 /\ s[2] = "space")
-----------------------------------------------------------------------------
(* The texts PostgreSQL reads: comments, a first statement, wrapped in     *)
(* EXPLAIN with options in parentheses or with words or not wrapped, its   *)
(* words apart by gap, and whatever statements follow it.                  *)
Statement(comments, gaps, bodies, rests) ==
  [comments : comments, explained : BOOLEAN, options : BOOLEAN, analyzed : BOOLEAN,
   gap : gaps, body : bodies, rest : rests]

Options(s) ==
  CASE s.options /\ s.analyzed ->
         << "(", "analyze", ",", "buffers", "(", "on", ")", ",", "format", "json", ")" >>
           \o s.gap
    [] s.options /\ ~s.analyzed ->
         << "(", "buffers", "(", "on", ")", ",", "format", "json", ")" >> \o s.gap
    [] ~s.options /\ s.analyzed -> << "analyze" >> \o s.gap \o << "verbose" >> \o s.gap
    [] OTHER -> << >>

Text(s) ==
  s.comments \o (IF s.explained THEN << "explain" >> \o s.gap \o Options(s) ELSE << >>)
             \o s.body \o << "semicolon" >> \o s.rest

(* What the first word of a body is not.                                   *)
Reserved == Blank \cup Comments \cup Words \cup {"explain", "("}

(* Words without parentheses are followed by a space.                      *)
Spaced(s) ==
  s.explained /\ s.analyzed /\ ~s.options => \E i \in DOMAIN s.gap : s.gap[i] = "space"

IsQuery(s) == s.body[1] \in {"select", "with"}

WithHasItsSpace(s) == s.body[1] = "with" => Len(s.body) > 1 /\ s.body[2] = "space"
=============================================================================
