-------------------------- MODULE RehearsalsProofs ---------------------------
(***************************************************************************)
(* What holds of the programs a newcomer runs, for every environment, size *)
(* of page, number of orders, and for any experiments, loads and sizes of  *)
(* batches of the batching demo.                                           *)
(***************************************************************************)
EXTENDS Rehearsals, FiniteSetTheorems, SequenceTheorems, WellFoundedInduction, TLAPS

(* The batching servers: a server that is off belongs to no experiment or  *)
(* to one that is over, and it has a batch exactly when it is filling one  *)
(* or passing it to the model.                                             *)
ServersTyped ==
  /\ phase \in [Servers -> Phases]
  /\ queue \in [Servers -> Seq(Nat)]
  /\ batch \in [Servers -> Seq(Nat)]
  /\ sent \in [Servers -> Nat]
  /\ answered \in [Servers -> SUBSET Nat]
  /\ passes \in [Servers -> Nat]
  /\ served \in [Servers -> Nat]

ServerInv(s) ==
  /\ phase[s] # "off" => s \in Current
  /\ phase[s] \in {"filling", "passing"} <=> batch[s] # << >>
  /\ Len(batch[s]) <= MaxBatch[s]
  /\ sent[s] <= Load[s]

BatchingInv == ServersTyped /\ NobodyIsLost /\ \A s \in Servers : ServerInv(s)
-----------------------------------------------------------------------------
(* Two sequences one after the other hold the elements of both, each once  *)
(* if each does and they share none.                                       *)
LEMMA OfBoth ==
  ASSUME NEW q \in Seq(Nat), NEW b \in Seq(Nat)
  PROVE  /\ ToSet(q \o b) = ToSet(q) \cup ToSet(b)
         /\ IsInjective(q \o b) <=> /\ IsInjective(q) /\ IsInjective(b)
                                    /\ ToSet(q) \cap ToSet(b) = {}
<1> DEFINE n == Len(q)
           m == Len(b)
<1>1. /\ n \in Nat /\ m \in Nat /\ DOMAIN q = 1..n /\ DOMAIN b = 1..m
      /\ DOMAIN (q \o b) = 1..n + m
  OBVIOUS
<1>2. /\ \A i \in 1..n : (q \o b)[i] = q[i]
      /\ \A i \in 1..m : n + i \in 1..n + m /\ (q \o b)[n + i] = b[i]
  OBVIOUS
<1>3. \A i \in 1..n + m : i \in 1..n \/ (i - n \in 1..m /\ i = n + (i - n))
  BY <1>1
<1> HIDE DEF n, m
<1>4. ToSet(q \o b) = ToSet(q) \cup ToSet(b)
  <2>1. ASSUME NEW x \in ToSet(q \o b) PROVE x \in ToSet(q) \cup ToSet(b)
    <3>1. PICK i \in 1..n + m : x = (q \o b)[i]
      BY <1>1 DEF ToSet
    <3>2. CASE i \in 1..n
      BY <1>1, <1>2, <3>1, <3>2 DEF ToSet
    <3>3. CASE i - n \in 1..m /\ i = n + (i - n)
      <4>1. x = b[i - n]
        BY <1>2, <3>1, <3>3
      <4> QED BY <1>1, <3>3, <4>1 DEF ToSet
    <3> QED BY <1>3, <3>1, <3>2, <3>3
  <2>2. ASSUME NEW x \in ToSet(q) \cup ToSet(b) PROVE x \in ToSet(q \o b)
    <3>1. CASE x \in ToSet(q)
      <4>1. PICK i \in 1..n : x = q[i]
        BY <1>1, <3>1 DEF ToSet
      <4>2. i \in 1..n + m /\ x = (q \o b)[i]
        BY <1>1, <1>2, <4>1
      <4> QED BY <1>1, <4>2 DEF ToSet
    <3>2. CASE x \in ToSet(b)
      <4>1. PICK i \in 1..m : x = b[i]
        BY <1>1, <3>2 DEF ToSet
      <4>2. n + i \in 1..n + m /\ x = (q \o b)[n + i]
        BY <1>1, <1>2, <4>1
      <4> QED BY <1>1, <4>2 DEF ToSet
    <3> QED BY <2>2, <3>1, <3>2
  <2> QED BY <2>1, <2>2
<1>5. ASSUME IsInjective(q \o b)
      PROVE  IsInjective(q) /\ IsInjective(b) /\ ToSet(q) \cap ToSet(b) = {}
  <2>1. \A i, j \in 1..n + m : (q \o b)[i] = (q \o b)[j] => i = j
    BY <1>1, <1>5 DEF IsInjective
  <2>2. ASSUME NEW i \in 1..n, NEW j \in 1..n, q[i] = q[j] PROVE i = j
    <3>1. i \in 1..n + m /\ j \in 1..n + m
      BY <1>1
    <3> QED BY <1>2, <2>1, <2>2, <3>1
  <2>3. ASSUME NEW i \in 1..m, NEW j \in 1..m, b[i] = b[j] PROVE i = j
    <3>1. n + i = n + j
      BY <1>2, <2>1, <2>3
    <3> QED BY <1>1, <3>1
  <2>4. ASSUME NEW x \in ToSet(q), x \in ToSet(b) PROVE FALSE
    <3>1. PICK i \in 1..n : x = q[i]
      BY <1>1, <2>4 DEF ToSet
    <3>2. PICK j \in 1..m : x = b[j]
      BY <1>1, <2>4 DEF ToSet
    <3>3. i \in 1..n + m /\ (q \o b)[i] = (q \o b)[n + j]
      <4>1. (q \o b)[i] = x /\ (q \o b)[n + j] = x
        BY <1>2, <3>1, <3>2
      <4> QED BY <1>1, <4>1
    <3>4. i = n + j
      BY <1>2, <2>1, <3>2, <3>3
    <3> QED BY <1>1, <3>4
  <2> QED BY <1>1, <2>2, <2>3, <2>4 DEF IsInjective
<1>6. ASSUME IsInjective(q), IsInjective(b), ToSet(q) \cap ToSet(b) = {}
      PROVE  IsInjective(q \o b)
  <2>1. /\ \A i, j \in 1..n : q[i] = q[j] => i = j
        /\ \A i, j \in 1..m : b[i] = b[j] => i = j
    BY <1>1, <1>6 DEF IsInjective
  <2>2. \A i \in 1..n, j \in 1..m : q[i] # b[j]
    BY <1>1, <1>6 DEF ToSet
  <2>3. ASSUME NEW i \in 1..n + m, NEW j \in 1..n + m, (q \o b)[i] = (q \o b)[j]
        PROVE  i = j
    <3>1. CASE i \in 1..n /\ j \in 1..n
      BY <1>2, <2>1, <2>3, <3>1
    <3> DEFINE k == i - n
               l == j - n
    <3> HIDE DEF k, l
    <3>2. CASE i \in 1..n /\ l \in 1..m /\ j = n + l
      BY <1>2, <2>2, <2>3, <3>2
    <3>3. CASE j \in 1..n /\ k \in 1..m /\ i = n + k
      BY <1>2, <2>2, <2>3, <3>3
    <3>4. CASE k \in 1..m /\ i = n + k /\ l \in 1..m /\ j = n + l
      <4>1. (q \o b)[n + k] = (q \o b)[n + l]
        BY <2>3, <3>4
      <4>2. b[k] = b[l]
        BY <1>2, <3>4, <4>1
      <4>3. k = l
        BY <2>1, <3>4, <4>2
      <4> QED BY <3>4, <4>3
    <3> QED BY <1>3, <3>1, <3>2, <3>3, <3>4 DEF k, l
  <2> QED BY <1>1, <2>3 DEF IsInjective
<1> QED BY <1>4, <1>5, <1>6

LEMMA OfOne ==
  ASSUME NEW x \in Nat
  PROVE  << x >> \in Seq(Nat) /\ ToSet(<< x >>) = {x} /\ IsInjective(<< x >>)
BY DEF ToSet, IsInjective

LEMMA OfNone == << >> \in Seq(Nat) /\ ToSet(<< >>) = {} /\ IsInjective(<< >>)
BY DEF ToSet, IsInjective

LEMMA HeadAndTail ==
  ASSUME NEW q \in Seq(Nat), q # << >>
  PROVE  Head(q) \in Nat /\ Tail(q) \in Seq(Nat) /\ q = << Head(q) >> \o Tail(q)
OBVIOUS

LEMMA AppendedRequest ==
  ASSUME NEW b \in Seq(Nat), NEW x \in Nat
  PROVE  Append(b, x) \in Seq(Nat) /\ Append(b, x) = b \o << x >> /\ Append(b, x) # << >>
         /\ Len(Append(b, x)) = Len(b) + 1
BY AppendProperties, AppendIsConcat

(* Collecting moves a request from the head of the queue to the batch.     *)
LEMMA Moved ==
  ASSUME NEW q \in Seq(Nat), NEW b \in Seq(Nat), q # << >>, IsInjective(q \o b)
  PROVE  /\ Tail(q) \in Seq(Nat) /\ Append(b, Head(q)) \in Seq(Nat)
         /\ IsInjective(Tail(q) \o Append(b, Head(q)))
         /\ ToSet(Tail(q) \o Append(b, Head(q))) = ToSet(q \o b)
<1> DEFINE x == Head(q)
           r == Tail(q)
           c == Append(b, x)
           one == << x >>
<1>1. x \in Nat /\ r \in Seq(Nat) /\ q = one \o r
  BY HeadAndTail
<1>2. c \in Seq(Nat) /\ c = b \o one
  BY <1>1, AppendedRequest
<1>3. one \in Seq(Nat) /\ ToSet(one) = {x} /\ IsInjective(one)
  BY <1>1, OfOne
<1> HIDE DEF x, r, c, one
<1>4. /\ ToSet(q) = {x} \cup ToSet(r)
      /\ IsInjective(q) => IsInjective(r) /\ {x} \cap ToSet(r) = {}
  BY <1>1, <1>3, OfBoth
<1>5. /\ ToSet(c) = ToSet(b) \cup {x}
      /\ IsInjective(b) /\ ToSet(b) \cap {x} = {} => IsInjective(c)
  BY <1>2, <1>3, OfBoth
<1>6. /\ IsInjective(q) /\ IsInjective(b) /\ ToSet(q) \cap ToSet(b) = {}
      /\ ToSet(q \o b) = ToSet(q) \cup ToSet(b)
  BY OfBoth
<1>7. /\ ToSet(r \o c) = ToSet(r) \cup ToSet(c)
      /\ IsInjective(r) /\ IsInjective(c) /\ ToSet(r) \cap ToSet(c) = {} => IsInjective(r \o c)
  BY <1>1, <1>2, OfBoth
<1>8. IsInjective(r \o c) /\ ToSet(r \o c) = ToSet(q \o b)
  BY <1>4, <1>5, <1>6, <1>7
<1> QED BY <1>1, <1>2, <1>8 DEF r, c, x

(* A request that is new is put once.                                      *)
LEMMA Put ==
  ASSUME NEW q \in Seq(Nat), NEW b \in Seq(Nat), NEW x \in Nat,
         IsInjective(q \o b), x \notin ToSet(q \o b)
  PROVE  /\ Append(q, x) \in Seq(Nat)
         /\ IsInjective(Append(q, x) \o b)
         /\ ToSet(Append(q, x) \o b) = ToSet(q \o b) \cup {x}
<1> DEFINE p == Append(q, x)
<1>1. p \in Seq(Nat) /\ p = q \o << x >>
  BY AppendedRequest
<1> HIDE DEF p
<1>2. << x >> \in Seq(Nat) /\ ToSet(<< x >>) = {x} /\ IsInjective(<< x >>)
  BY OfOne
<1>3. /\ IsInjective(q) /\ IsInjective(b) /\ ToSet(q) \cap ToSet(b) = {}
      /\ ToSet(q \o b) = ToSet(q) \cup ToSet(b)
  BY OfBoth
<1>4. /\ ToSet(p) = ToSet(q) \cup {x}
      /\ IsInjective(q) /\ ToSet(q) \cap {x} = {} => IsInjective(p)
  BY <1>1, <1>2, OfBoth
<1>5. /\ ToSet(p \o b) = ToSet(p) \cup ToSet(b)
      /\ IsInjective(p) /\ IsInjective(b) /\ ToSet(p) \cap ToSet(b) = {} => IsInjective(p \o b)
  BY <1>1, OfBoth
<1>6. IsInjective(p \o b) /\ ToSet(p \o b) = ToSet(q \o b) \cup {x}
  BY <1>3, <1>4, <1>5
<1> QED BY <1>1, <1>6 DEF p

(* A sequence without repetitions is as long as what it holds.             *)
LEMMA HoldsLen ==
  ASSUME NEW b \in Seq(Nat), IsInjective(b)
  PROVE  IsFiniteSet(ToSet(b)) /\ Cardinality(ToSet(b)) = Len(b)
<1> DEFINE n == Len(b)
           T == ToSet(b)
<1>1. n \in Nat /\ DOMAIN b = 1..n
  OBVIOUS
<1>2. b \in [1..n -> T]
  BY <1>1 DEF ToSet
<1>3. \A i, j \in 1..n : b[i] = b[j] => i = j
  BY <1>1 DEF IsInjective
<1>4. \A x \in T : \E i \in 1..n : b[i] = x
  BY <1>1 DEF ToSet
<1> HIDE DEF n, T
<1>5. IsFiniteSet(1..n) /\ Cardinality(1..n) = n
  BY <1>1, FS_Interval
<1>6. b \in Bijection(1..n, T)
  BY <1>2, <1>3, <1>4 DEF Bijection, Injection, Surjection
<1>7. ExistsBijection(1..n, T)
  BY <1>6 DEF ExistsBijection
<1> QED BY <1>5, <1>7, FS_Bijection DEF n, T
-----------------------------------------------------------------------------
(* What NobodyIsLost says of one server, as a predicate on values: its     *)
(* queue, its batch, the number of requests sent, those answered, the two  *)
(* counters, the size of a batch, and whether a pass is under way.         *)
Account(q, b, n, a, sv, ps, m, passing) ==
  /\ IsInjective(q \o b)
  /\ ToSet(q \o b) \cup a = 1..n
  /\ ToSet(q \o b) \cap a = {}
  /\ sv = Cardinality(a) + (IF passing THEN Len(b) ELSE 0)
  /\ ps <= sv /\ sv <= ps * m

AccountOf(s) ==
  Account(queue[s], batch[s], sent[s], answered[s], served[s], passes[s], MaxBatch[s],
          phase[s] = "passing")

LEMMA NobodyByAccounts == NobodyIsLost <=> \A r \in Servers : AccountOf(r)
BY Zenon DEF NobodyIsLost, AccountOf, Account

LEMMA AccountOpens ==
  ASSUME NEW m \in Nat
  PROVE  Account(<< >>, << >>, 0, {}, 0, 0, m, FALSE)
<1>1. << >> \o << >> = << >>
  OBVIOUS
<1>2. 1..0 = {} /\ 0 * m = 0
  OBVIOUS
<1> QED BY <1>1, <1>2, OfNone, FS_EmptySet DEF Account

LEMMA AccountInfers ==
  ASSUME NEW q \in Seq(Nat), NEW b \in Seq(Nat), NEW n \in Nat, NEW a, NEW sv, NEW ps,
         NEW m, NEW passing, Account(q, b, n, a, sv, ps, m, passing)
  PROVE  Account(Append(q, n + 1), b, n + 1, a, sv, ps, m, passing)
<1> DEFINE T == ToSet(q \o b)
           p == Append(q, n + 1)
<1>1. n + 1 \in Nat /\ n + 1 \notin 1..n /\ 1..n + 1 = 1..n \cup {n + 1}
  OBVIOUS
<1>2. T \cup a = 1..n /\ T \cap a = {} /\ IsInjective(q \o b)
  BY DEF Account
<1>3. IsInjective(p \o b) /\ ToSet(p \o b) = T \cup {n + 1}
  BY <1>1, <1>2, Put
<1> HIDE DEF T, p
<1>4. (T \cup {n + 1}) \cup a = 1..n + 1 /\ (T \cup {n + 1}) \cap a = {}
  BY <1>1, <1>2
<1>5. ToSet(p \o b) \cup a = 1..n + 1 /\ ToSet(p \o b) \cap a = {}
  BY <1>3, <1>4
<1>6. Account(p, b, n + 1, a, sv, ps, m, passing)
  BY <1>3, <1>5 DEF Account
<1> QED BY <1>6 DEF p

LEMMA AccountCollects ==
  ASSUME NEW q \in Seq(Nat), NEW b \in Seq(Nat), NEW n, NEW a, NEW sv, NEW ps,
         NEW m, Account(q, b, n, a, sv, ps, m, FALSE), q # << >>
  PROVE  Account(Tail(q), Append(b, Head(q)), n, a, sv, ps, m, FALSE)
<1>1. /\ IsInjective(Tail(q) \o Append(b, Head(q)))
      /\ ToSet(Tail(q) \o Append(b, Head(q))) = ToSet(q \o b)
  BY Moved DEF Account
<1> QED BY <1>1 DEF Account

LEMMA AnsweredAreSent ==
  ASSUME NEW q, NEW b, NEW n \in Nat, NEW a, NEW sv, NEW ps, NEW m, NEW passing,
         Account(q, b, n, a, sv, ps, m, passing)
  PROVE  a \subseteq 1..n /\ IsFiniteSet(a) /\ Cardinality(a) \in Nat /\ Cardinality(a) <= n
<1>1. a \subseteq 1..n
  BY DEF Account
<1>2. IsFiniteSet(1..n) /\ Cardinality(1..n) = n
  BY FS_Interval
<1>3. IsFiniteSet(a) /\ Cardinality(a) <= n
  BY <1>1, <1>2, FS_Subset
<1>4. Cardinality(a) \in Nat
  BY <1>3, FS_CardinalityType
<1> QED BY <1>1, <1>3, <1>4

LEMMA OneMorePass ==
  ASSUME NEW ps \in Nat, NEW m \in Nat
  PROVE  (ps + 1) * m = ps * m + m /\ ps * m \in Nat
OBVIOUS

LEMMA AccountPasses ==
  ASSUME NEW q, NEW b \in Seq(Nat), NEW n \in Nat, NEW a, NEW sv \in Nat, NEW ps \in Nat,
         NEW m \in Nat, Account(q, b, n, a, sv, ps, m, FALSE), Len(b) \in 1..m
  PROVE  Account(q, b, n, a, sv + Len(b), ps + 1, m, TRUE)
<1> DEFINE l == Len(b)
           pm == ps * m
<1>1. l \in Nat /\ 1 <= l /\ l <= m
  OBVIOUS
<1>2. pm \in Nat /\ (ps + 1) * m = pm + m
  BY OneMorePass
<1>3. sv = Cardinality(a) + 0 /\ ps <= sv /\ sv <= pm
  BY DEF Account
<1> HIDE DEF l, pm
<1>4. Cardinality(a) = sv
  <2>1. Cardinality(a) \in Nat
    BY AnsweredAreSent
  <2> QED BY <1>3, <2>1
<1>5. ps + 1 <= sv + l /\ sv + l <= pm + m
  BY <1>1, <1>2, <1>3
<1>6. sv + l = Cardinality(a) + (IF TRUE THEN Len(b) ELSE 0)
  BY <1>4 DEF l
<1> QED BY <1>2, <1>5, <1>6 DEF Account, l

LEMMA AccountAnswers ==
  ASSUME NEW q \in Seq(Nat), NEW b \in Seq(Nat), NEW n \in Nat, NEW a, NEW sv, NEW ps,
         NEW m, Account(q, b, n, a, sv, ps, m, TRUE)
  PROVE  Account(q, << >>, n, a \cup ToSet(b), sv, ps, m, FALSE)
<1> DEFINE Q == ToSet(q)
           B == ToSet(b)
<1>1. /\ IsInjective(q) /\ IsInjective(b) /\ Q \cap B = {} /\ ToSet(q \o b) = Q \cup B
      /\ ToSet(q \o b) \cup a = 1..n /\ ToSet(q \o b) \cap a = {}
  BY OfBoth DEF Account
<1>2. IsFiniteSet(B) /\ Cardinality(B) = Len(b) /\ Len(b) \in Nat
  BY <1>1, HoldsLen
<1>3. IsFiniteSet(a) /\ Cardinality(a) \in Nat
  BY AnsweredAreSent
<1>4. sv = Cardinality(a) + Len(b)
  BY DEF Account
<1>5. q \o << >> = q
  OBVIOUS
<1> HIDE DEF Q, B
<1>6. a \cap B = {} /\ (Q \cup (a \cup B)) = 1..n /\ Q \cap (a \cup B) = {}
  BY <1>1
<1>7. Cardinality({}) = 0
  BY FS_EmptySet
<1>8. Cardinality(a \cup B) = Cardinality(a) + Len(b)
  <2>1. Cardinality(a \cup B) = Cardinality(a) + Cardinality(B) - Cardinality(a \cap B)
    BY <1>2, <1>3, FS_Union
  <2>2. Cardinality(a \cap B) = 0
    BY <1>6, <1>7
  <2> QED BY <1>2, <1>3, <2>1, <2>2
<1>9. sv = Cardinality(a \cup B) + (IF FALSE THEN Len(<< >>) ELSE 0)
  BY <1>2, <1>3, <1>4, <1>8
<1>10. ps <= sv /\ sv <= ps * m
  BY DEF Account
<1>11. ToSet(q \o << >>) = Q /\ IsInjective(q \o << >>)
  BY <1>1, <1>5 DEF Q
<1>12. Account(q, << >>, n, a \cup B, sv, ps, m, FALSE)
  BY <1>6, <1>9, <1>10, <1>11 DEF Account
<1> QED BY <1>12 DEF B

(* When as many are answered as were to be sent, nobody waits.             *)
LEMMA AllAreAnswered ==
  ASSUME NEW q \in Seq(Nat), NEW b \in Seq(Nat), NEW n \in Nat, NEW a, NEW sv, NEW ps,
         NEW m, NEW passing, Account(q, b, n, a, sv, ps, m, passing),
         n <= Cardinality(a)
  PROVE  b = << >>
<1>1. a \in SUBSET (1..n) /\ Cardinality(a) = n
  <2>1. a \subseteq 1..n /\ Cardinality(a) \in Nat /\ Cardinality(a) <= n
    BY AnsweredAreSent
  <2> QED BY <2>1
<1>2. IsFiniteSet(1..n) /\ Cardinality(1..n) = n
  BY FS_Interval
<1>3. a = 1..n
  BY <1>1, <1>2, FS_Subset
<1>4. ToSet(q \o b) = {}
  BY <1>3 DEF Account
<1>5. ToSet(b) = {}
  BY <1>4, OfBoth
<1>6. ASSUME b # << >> PROVE FALSE
  <2>1. 1 \in DOMAIN b
    BY <1>6
  <2> QED BY <1>5, <2>1 DEF ToSet
<1> QED BY <1>6
-----------------------------------------------------------------------------
(* The steps of the servers keep the accounts.                             *)
LEMMA BatchingStarts ==
  ASSUME NEW first, BatchingInit(first)
  PROVE  BatchingInv
<1>1. ServersTyped
  BY BatchingAssumption DEF BatchingInit, ServersTyped, Servers, Phases
<1>2. \A s \in Servers : ServerInv(s)
  BY BatchingAssumption DEF BatchingInit, ServerInv, Servers
<1>3. ASSUME NEW s \in Servers PROVE AccountOf(s)
  <2>1. MaxBatch[s] \in Nat
    BY BatchingAssumption DEF Servers
  <2>2. Account(<< >>, << >>, 0, {}, 0, 0, MaxBatch[s], FALSE)
    BY <2>1, AccountOpens
  <2>3. (phase[s] = "passing") = FALSE
    BY DEF BatchingInit
  <2> QED BY <2>2, <2>3 DEF BatchingInit, AccountOf
<1>4. NobodyIsLost
  BY <1>3, NobodyByAccounts
<1> QED BY <1>1, <1>2, <1>4 DEF BatchingInv

(* What a server is, given what BatchingInv says of it.                    *)
LEMMA OfServer ==
  ASSUME BatchingInv, NEW s \in Servers
  PROVE  /\ queue[s] \in Seq(Nat) /\ batch[s] \in Seq(Nat) /\ sent[s] \in Nat
         /\ answered[s] \in SUBSET Nat /\ passes[s] \in Nat /\ served[s] \in Nat
         /\ phase[s] \in Phases /\ MaxBatch[s] \in Nat \ {0} /\ Load[s] \in Nat
         /\ AccountOf(s) /\ ServerInv(s)
BY BatchingAssumption, NobodyByAccounts DEF BatchingInv, ServersTyped, Servers

(* A step of one server: it is enough to look at that server.              *)
OnlyOf(s) ==
  \A r \in Servers \ {s} :
    /\ phase'[r] = phase[r] /\ queue'[r] = queue[r] /\ batch'[r] = batch[r]
    /\ sent'[r] = sent[r] /\ answered'[r] = answered[r]
    /\ passes'[r] = passes[r] /\ served'[r] = served[r]

LEMMA OneServerSteps ==
  ASSUME BatchingInv, NEW s \in Servers, OnlyOf(s), ServersTyped', experiment' = experiment,
         AccountOf(s)', ServerInv(s)'
  PROVE  BatchingInv'
<1>1. ASSUME NEW r \in Servers PROVE AccountOf(r)' /\ ServerInv(r)'
  <2>1. CASE r = s
    BY <2>1
  <2>2. CASE r # s
    <3>1. AccountOf(r) /\ ServerInv(r)
      BY OfServer
    <3>2. /\ phase'[r] = phase[r] /\ queue'[r] = queue[r] /\ batch'[r] = batch[r]
          /\ sent'[r] = sent[r] /\ answered'[r] = answered[r]
          /\ passes'[r] = passes[r] /\ served'[r] = served[r] /\ Current' = Current
      BY <2>2 DEF OnlyOf, Current, UnderWay
    <3> QED BY <3>1, <3>2 DEF AccountOf, ServerInv
  <2> QED BY <2>1, <2>2
<1>2. NobodyIsLost'
  <2>1. (\A r \in Servers : AccountOf(r))'
    BY <1>1 DEF Servers
  <2> QED BY Zenon, <2>1 DEF NobodyIsLost, AccountOf, Account, Servers
<1> QED BY <1>1, <1>2 DEF BatchingInv, Servers

LEMMA InferKeeps ==
  ASSUME BatchingInv, NEW s \in Servers, Infer(s)
  PROVE  BatchingInv'
<1> USE DEF Infer
<1>1. OnlyOf(s) /\ experiment' = experiment
  BY DEF OnlyOf, BatchingInv, ServersTyped
<1>2. /\ queue'[s] = Append(queue[s], sent[s] + 1) /\ sent'[s] = sent[s] + 1
      /\ sent[s] < Load[s] /\ phase'[s] = phase[s] /\ batch'[s] = batch[s]
      /\ answered'[s] = answered[s] /\ passes'[s] = passes[s] /\ served'[s] = served[s]
  BY DEF BatchingInv, ServersTyped
<1>3. /\ queue[s] \in Seq(Nat) /\ batch[s] \in Seq(Nat) /\ sent[s] \in Nat
      /\ AccountOf(s) /\ ServerInv(s) /\ Load[s] \in Nat
  BY OfServer
<1>4. ServersTyped'
  <2>1. Append(queue[s], sent[s] + 1) \in Seq(Nat) /\ sent[s] + 1 \in Nat
    BY <1>3
  <2> QED BY <2>1 DEF BatchingInv, ServersTyped
<1>5. AccountOf(s)'
  <2>1. Account(Append(queue[s], sent[s] + 1), batch[s], sent[s] + 1, answered[s], served[s],
                passes[s], MaxBatch[s], phase[s] = "passing")
    BY <1>3, AccountInfers DEF AccountOf
  <2> QED BY <1>2, <2>1 DEF AccountOf
<1>6. ServerInv(s)'
  BY <1>1, <1>2, <1>3 DEF ServerInv, Current, UnderWay
<1> QED BY <1>1, <1>4, <1>5, <1>6, OneServerSteps

LEMMA TakeFirstKeeps ==
  ASSUME BatchingInv, NEW s \in Servers, TakeFirst(s)
  PROVE  BatchingInv'
<1> USE DEF TakeFirst
<1>1. OnlyOf(s) /\ experiment' = experiment
  BY DEF OnlyOf, BatchingInv, ServersTyped
<1>2. /\ queue'[s] = Tail(queue[s]) /\ batch'[s] = << Head(queue[s]) >>
      /\ queue[s] # << >> /\ phase[s] = "waiting" /\ phase'[s] = "filling"
      /\ sent'[s] = sent[s] /\ answered'[s] = answered[s] /\ passes'[s] = passes[s]
      /\ served'[s] = served[s]
  BY DEF BatchingInv, ServersTyped
<1>3. /\ queue[s] \in Seq(Nat) /\ batch[s] \in Seq(Nat) /\ sent[s] \in Nat
      /\ AccountOf(s) /\ ServerInv(s) /\ MaxBatch[s] \in Nat \ {0}
  BY OfServer
<1>4. batch[s] = << >>
  BY <1>2, <1>3 DEF ServerInv
<1> DEFINE first == << Head(queue[s]) >>
<1>5. /\ Tail(queue[s]) \in Seq(Nat) /\ first \in Seq(Nat)
      /\ first = Append(batch[s], Head(queue[s])) /\ first # << >> /\ Len(first) = 1
  <2>1. Head(queue[s]) \in Nat /\ Tail(queue[s]) \in Seq(Nat)
    BY <1>2, <1>3, HeadAndTail
  <2> QED BY <1>4, <2>1
<1>6. ServersTyped'
  BY <1>5 DEF BatchingInv, ServersTyped, Phases
<1>7. AccountOf(s)'
  <2> HIDE DEF first
  <2>1. Account(Tail(queue[s]), first, sent[s], answered[s], served[s],
                passes[s], MaxBatch[s], FALSE)
    BY <1>2, <1>3, <1>5, AccountCollects DEF AccountOf
  <2> QED BY <1>2, <2>1 DEF AccountOf, first
<1>8. ServerInv(s)'
  <2>1. batch'[s] = first
    BY <1>2
  <2> HIDE DEF first
  <2> QED BY <1>1, <1>2, <1>3, <1>5, <2>1 DEF ServerInv, Current, UnderWay
<1> QED BY <1>1, <1>6, <1>7, <1>8, OneServerSteps

LEMMA FillKeeps ==
  ASSUME BatchingInv, NEW s \in Servers, Fill(s)
  PROVE  BatchingInv'
<1> USE DEF Fill, Collected
<1>1. OnlyOf(s) /\ experiment' = experiment
  BY DEF OnlyOf, BatchingInv, ServersTyped
<1>2. /\ queue'[s] = Tail(queue[s]) /\ batch'[s] = Append(batch[s], Head(queue[s]))
      /\ queue[s] # << >> /\ phase[s] = "filling" /\ phase'[s] = "filling"
      /\ Len(batch[s]) < MaxBatch[s]
      /\ sent'[s] = sent[s] /\ answered'[s] = answered[s] /\ passes'[s] = passes[s]
      /\ served'[s] = served[s]
  BY DEF BatchingInv, ServersTyped
<1>3. /\ queue[s] \in Seq(Nat) /\ batch[s] \in Seq(Nat) /\ sent[s] \in Nat
      /\ AccountOf(s) /\ ServerInv(s) /\ MaxBatch[s] \in Nat \ {0}
  BY OfServer
<1>4. /\ Tail(queue[s]) \in Seq(Nat) /\ Append(batch[s], Head(queue[s])) \in Seq(Nat)
      /\ Append(batch[s], Head(queue[s])) # << >>
      /\ Len(Append(batch[s], Head(queue[s]))) = Len(batch[s]) + 1 /\ Len(batch[s]) \in Nat
  <2>1. Head(queue[s]) \in Nat /\ Tail(queue[s]) \in Seq(Nat)
    BY <1>2, <1>3, HeadAndTail
  <2> DEFINE b == batch[s]
             x == Head(queue[s])
  <2>2. b \in Seq(Nat) /\ x \in Nat
    BY <1>3, <2>1
  <2> HIDE DEF b, x
  <2>3. /\ Append(b, x) \in Seq(Nat) /\ Append(b, x) # << >>
        /\ Len(Append(b, x)) = Len(b) + 1 /\ Len(b) \in Nat
    BY <2>2, AppendedRequest, LenProperties
  <2> QED BY <2>1, <2>3 DEF b, x
<1>5. ServersTyped'
  BY <1>4 DEF BatchingInv, ServersTyped
<1>6. AccountOf(s)'
  <2>1. Account(Tail(queue[s]), Append(batch[s], Head(queue[s])), sent[s], answered[s],
                served[s], passes[s], MaxBatch[s], FALSE)
    BY <1>2, <1>3, AccountCollects DEF AccountOf
  <2> QED BY <1>2, <2>1 DEF AccountOf
<1>7. ServerInv(s)'
  BY <1>1, <1>2, <1>3, <1>4 DEF ServerInv, Current, UnderWay
<1> QED BY <1>1, <1>5, <1>6, <1>7, OneServerSteps

LEMMA BeginPassKeeps ==
  ASSUME BatchingInv, NEW s \in Servers, BeginPass(s)
  PROVE  BatchingInv'
<1> USE DEF BeginPass
<1>1. OnlyOf(s) /\ experiment' = experiment
  BY DEF OnlyOf, BatchingInv, ServersTyped
<1>2. /\ passes'[s] = passes[s] + 1 /\ served'[s] = served[s] + Len(batch[s])
      /\ phase[s] = "filling" /\ phase'[s] = "passing" /\ queue'[s] = queue[s]
      /\ batch'[s] = batch[s] /\ sent'[s] = sent[s] /\ answered'[s] = answered[s]
  BY DEF BatchingInv, ServersTyped
<1>3. /\ queue[s] \in Seq(Nat) /\ batch[s] \in Seq(Nat) /\ sent[s] \in Nat
      /\ passes[s] \in Nat /\ served[s] \in Nat
      /\ AccountOf(s) /\ ServerInv(s) /\ MaxBatch[s] \in Nat \ {0}
  BY OfServer
<1>4. Len(batch[s]) \in 1..MaxBatch[s]
  BY <1>2, <1>3 DEF ServerInv
<1>5. ServersTyped'
  <2>1. passes[s] + 1 \in Nat /\ served[s] + Len(batch[s]) \in Nat
    BY <1>3, <1>4
  <2> QED BY <2>1 DEF BatchingInv, ServersTyped, Phases
<1>6. AccountOf(s)'
  <2>1. Account(queue[s], batch[s], sent[s], answered[s], served[s] + Len(batch[s]),
                passes[s] + 1, MaxBatch[s], TRUE)
    BY <1>2, <1>3, <1>4, AccountPasses DEF AccountOf
  <2> QED BY <1>2, <2>1 DEF AccountOf
<1>7. ServerInv(s)'
  BY <1>1, <1>2, <1>3 DEF ServerInv, Current, UnderWay
<1> QED BY <1>1, <1>5, <1>6, <1>7, OneServerSteps

LEMMA EndPassKeeps ==
  ASSUME BatchingInv, NEW s \in Servers, EndPass(s)
  PROVE  BatchingInv'
<1> USE DEF EndPass
<1>1. OnlyOf(s) /\ experiment' = experiment
  BY DEF OnlyOf, BatchingInv, ServersTyped
<1>2. /\ answered'[s] = answered[s] \cup ToSet(batch[s]) /\ batch'[s] = << >>
      /\ phase[s] = "passing" /\ phase'[s] = "waiting" /\ queue'[s] = queue[s]
      /\ passes'[s] = passes[s] /\ served'[s] = served[s] /\ sent'[s] = sent[s]
  BY DEF BatchingInv, ServersTyped
<1>3. /\ queue[s] \in Seq(Nat) /\ batch[s] \in Seq(Nat) /\ sent[s] \in Nat
      /\ answered[s] \in SUBSET Nat
      /\ AccountOf(s) /\ ServerInv(s) /\ MaxBatch[s] \in Nat \ {0}
  BY OfServer
<1>4. << >> \in Seq(Nat) /\ answered[s] \cup ToSet(batch[s]) \in SUBSET Nat
  BY <1>3 DEF ToSet
<1>5. ServersTyped'
  BY <1>4 DEF BatchingInv, ServersTyped, Phases
<1>6. AccountOf(s)'
  <2>1. Account(queue[s], << >>, sent[s], answered[s] \cup ToSet(batch[s]), served[s],
                passes[s], MaxBatch[s], FALSE)
    BY <1>2, <1>3, AccountAnswers DEF AccountOf
  <2> QED BY <1>2, <2>1 DEF AccountOf
<1>7. ServerInv(s)'
  BY <1>1, <1>2, <1>3 DEF ServerInv, Current, UnderWay
<1> QED BY <1>1, <1>5, <1>6, <1>7, OneServerSteps

LEMMA StartKeeps ==
  ASSUME BatchingInv, StartServers
  PROVE  BatchingInv'
<1> USE DEF StartServers
<1>1. ServersTyped'
  BY DEF BatchingInv, ServersTyped, Phases
<1>2. ASSUME NEW s \in Servers PROVE AccountOf(s)' /\ ServerInv(s)'
  <2>1. AccountOf(s) /\ ServerInv(s) /\ phase[s] \in Phases
    BY OfServer
  <2>2. /\ Current' = Current
        /\ phase'[s] = IF s \in Current THEN "waiting" ELSE phase[s]
        /\ s \in Current => phase[s] = "off"
    BY DEF Current, UnderWay
  <2> QED BY <2>1, <2>2 DEF AccountOf, ServerInv, Phases
<1>3. (\A r \in Servers : AccountOf(r))' /\ (\A s \in Servers : ServerInv(s))'
  BY <1>2 DEF Servers
<1> QED BY <1>1, <1>3, NobodyByAccounts, PTL DEF BatchingInv

LEMMA StopKeeps ==
  ASSUME BatchingInv, StopServers
  PROVE  BatchingInv'
<1> USE DEF StopServers
<1>1. ServersTyped'
  BY DEF BatchingInv, ServersTyped, Phases
<1>2. ASSUME NEW s \in Servers PROVE AccountOf(s)' /\ ServerInv(s)'
  <2>1. /\ AccountOf(s) /\ ServerInv(s) /\ phase[s] \in Phases /\ sent[s] \in Nat
        /\ queue[s] \in Seq(Nat) /\ batch[s] \in Seq(Nat)
    BY OfServer
  <2>2. phase'[s] = "off" /\ (s \in Current => Cardinality(answered[s]) = Load[s])
    OBVIOUS
  <2>3. batch[s] = << >>
    <3>1. CASE s \in Current
      <4>1. sent[s] <= Cardinality(answered[s])
        BY <2>1, <2>2, <3>1 DEF ServerInv
      <4> QED BY <2>1, <4>1, AllAreAnswered DEF AccountOf
    <3>2. CASE s \notin Current
      BY <2>1, <3>2 DEF ServerInv
    <3> QED BY <3>1, <3>2
  <2>4. phase[s] # "passing"
    BY <2>1, <2>3 DEF ServerInv
  <2> QED BY <2>1, <2>2, <2>3, <2>4 DEF AccountOf, ServerInv
<1>3. (\A r \in Servers : AccountOf(r))' /\ (\A s \in Servers : ServerInv(s))'
  BY <1>2 DEF Servers
<1> QED BY <1>1, <1>3, NobodyByAccounts, PTL DEF BatchingInv

LEMMA BatchingSteps ==
  ASSUME BatchingInv, [BatchingNext]_batchingVars
  PROVE  BatchingInv'
<1>1. CASE UNCHANGED batchingVars
  BY <1>1 DEF BatchingInv, ServersTyped, NobodyIsLost, ServerInv, batchingVars, Servers,
    Current, UnderWay
<1>2. CASE StartServers
  BY <1>2, StartKeeps
<1>3. CASE StopServers
  BY <1>3, StopKeeps
<1>4. CASE \E s \in Servers : Infer(s) \/ Serve(s)
  BY <1>4, InferKeeps, TakeFirstKeeps, FillKeeps, BeginPassKeeps, EndPassKeeps DEF Serve
<1> QED BY <1>1, <1>2, <1>3, <1>4 DEF BatchingNext

(* Every step of a rehearsal is one of the batching demo or leaves it      *)
(* alone.                                                                  *)
LEMMA OtherProgramsDoNotServe == [Next]_vars => [BatchingNext]_batchingVars
BY DEF Next, Loop, Examine, Spend, NextPage, Serving, vars

LEMMA BatchingInductive == Spec => []BatchingInv
<1>1. Init => BatchingInv
  BY BatchingStarts DEF Init
<1>2. BatchingInv /\ [Next]_vars => BatchingInv'
  BY BatchingSteps, OtherProgramsDoNotServe
<1> QED BY <1>1, <1>2, PTL DEF Spec

(* Whatever the experiments, the loads and the sizes of batches: a request *)
(* that was sent and is not answered waits once, at its own server, and    *)
(* the counters tell of the requests that were passed to the model         *)
(* (batching_demo.py:65-88).                                               *)
THEOREM ServersLoseNobody == Spec => []NobodyIsLost
BY BatchingInductive, PTL DEF BatchingInv
-----------------------------------------------------------------------------
(* A fresh clone.                                                          *)
IsSeq(s) == \E S : s \in Seq(S)

LEMMA AppendIsSeq ==
  ASSUME NEW s, IsSeq(s), NEW x
  PROVE  /\ IsSeq(Append(s, x)) /\ Append(s, x) # << >> /\ Len(s) \in Nat
         /\ Len(Append(s, x)) = Len(s) + 1 /\ Append(s, x)[Len(s) + 1] = x
         /\ \A i \in 1..Len(s) : Append(s, x)[i] = s[i]
<1>1. PICK S : s \in Seq(S)
  BY DEF IsSeq
<1> DEFINE T == S \cup {x}
<1>2. s \in Seq(T) /\ x \in T
  BY <1>1
<1> HIDE DEF T
<1>3. Append(s, x) \in Seq(T)
  BY <1>2
<1>4. IsSeq(Append(s, x))
  BY <1>3 DEF IsSeq
<1> QED BY <1>2, <1>4

IsFreshClone ==
  /\ OnPipeline
  /\ setup.client = make_llm(setup.env)
  /\ ~_has_llm_api_key(setup.env)
  /\ ~setup.env.colab

CloneInv == IsSeq(log) /\ FreshCloneAnswers

LEMMA FreshCloneIsMocked == IsFreshClone => ~MayRaise(setup.client)
BY DEF IsFreshClone, make_llm, Mock, MayRaise

LEMMA FreshCloneSteps ==
  ASSUME CloneInv, [Next]_vars
  PROVE  CloneInv'
<1>1. program' = program /\ setup' = setup
  BY DEF Next, Loop, Examine, Spend, NextPage, Serving, vars
<1>2. IsFreshClone' = IsFreshClone /\ (FreshCloneAnswers <=>
        (IsFreshClone => stage # "raised" /\ (stage = "done" => log # << >>)))
  BY <1>1 DEF IsFreshClone, OnPipeline, FreshCloneAnswers
<1>3. FreshCloneAnswers' <=>
        (IsFreshClone => stage' # "raised" /\ (stage' = "done" => log' # << >>))
  BY <1>1 DEF IsFreshClone, OnPipeline, FreshCloneAnswers
<1>4. CASE Ask
  <2>1. IsFreshClone => stage' = "running"
    BY <1>4, FreshCloneIsMocked DEF Ask, MayRaise
  <2> QED BY <1>3, <1>4, <2>1 DEF Ask, loopVars, CloneInv
<1>5. CASE Write
  BY <1>3, <1>5 DEF Write, CloneInv
<1>6. CASE WriteRaises
  <2>1. ~IsFreshClone
    BY <1>6, FreshCloneIsMocked DEF WriteRaises
  <2> QED BY <1>3, <1>6, <2>1 DEF WriteRaises, loopVars, CloneInv
<1>7. CASE Judge
  <2>1. IsSeq(log') /\ log' # << >>
    BY <1>7, AppendIsSeq DEF Judge, CloneInv
  <2>2. stage' # "raised"
    BY <1>7 DEF Judge
  <2> QED BY <1>3, <2>1, <2>2 DEF CloneInv
<1>8. CASE UNCHANGED << stage, log >>
  BY <1>2, <1>3, <1>8 DEF CloneInv
<1>9. CASE Examine \/ Spend \/ NextPage \/ Serving
  <2>1. ~OnPipeline /\ log' = log
    BY <1>9 DEF Examine, Spend, NextPage, Serving, OnPipeline, loopVars
  <2> QED BY <1>3, <2>1 DEF IsFreshClone, CloneInv
<1> QED BY <1>4, <1>5, <1>6, <1>7, <1>8, <1>9 DEF Next, Loop, vars, loopVars

(* Whatever else its environment says, a clone without a key works on the  *)
(* mock: it never raises, and it is done only with an audited statement    *)
(* (llm/factory.py:43-45).                                                 *)
THEOREM FreshClonesAnswer == Spec => []FreshCloneAnswers
<1>1. Init => CloneInv
  <2>1. << >> \in Seq({})
    OBVIOUS
  <2> QED BY <2>1 DEF Init, CloneInv, IsSeq, FreshCloneAnswers, Setups, Programs, Loops
<1>2. CloneInv /\ [Next]_vars => CloneInv'
  BY FreshCloneSteps
<1> QED BY <1>1, <1>2, PTL DEF Spec, CloneInv
-----------------------------------------------------------------------------
(* The budget: which node comes next, and, without jitter, what the nodes  *)
(* so far took.  The last iteration that is still within the budget leaves *)
(* room for finalize.                                                      *)
SecondsAt(k) ==
  IF k = 0 THEN 0
  ELSE 5 + 140 * ((k - 1) \div 4)
         + (CASE (k - 1) % 4 = 0 -> 0 [] (k - 1) % 4 = 1 -> 70
              [] (k - 1) % 4 = 2 -> 80 [] OTHER -> 120)

BudgetInv ==
  program = "budget" =>
    /\ setup.n \in Nat \ {0} /\ setup.jitter \in BOOLEAN
    /\ node \in Nat /\ seconds \in Nat /\ tokens \in Nat
    /\ stage = "running" => /\ node < PlanLength
                            /\ ~exhausted /\ final_sql # "approved"
                            /\ ~setup.jitter => seconds = SecondsAt(node)
                            /\ node = 0 => seconds = 0 /\ tokens = 0
    /\ stage \in {"running", "done"}
    /\ BudgetIsKept

LEMMA QuotientAndRest ==
  ASSUME NEW k \in Nat
  PROVE  /\ k \div 4 \in Nat /\ k % 4 \in 0..3
         /\ k % 4 < 3 => (k + 1) \div 4 = k \div 4 /\ (k + 1) % 4 = (k % 4) + 1
         /\ k % 4 = 3 => (k + 1) \div 4 = (k \div 4) + 1 /\ (k + 1) % 4 = 0
OBVIOUS

LEMMA OneMoreNode ==
  ASSUME NEW k \in Nat \ {0}
  PROVE  SecondsAt(k + 1) = SecondsAt(k) + NODE_DURATIONS[Round[((k - 1) % 4) + 1]]
<1> DEFINE m == (k - 1) % 4
           j == (k - 1) \div 4
           took(i) == CASE i = 0 -> 0 [] i = 1 -> 70 [] i = 2 -> 80 [] OTHER -> 120
<1>1. m \in 0..3 /\ j \in Nat /\ k # 0 /\ k + 1 # 0 /\ (k + 1) - 1 = k
  BY QuotientAndRest
<1>2. /\ m < 3 => k \div 4 = j /\ k % 4 = m + 1
      /\ m = 3 => k \div 4 = j + 1 /\ k % 4 = 0
  <2>1. k - 1 \in Nat /\ (k - 1) + 1 = k
    OBVIOUS
  <2> QED BY <2>1, QuotientAndRest
<1>3. SecondsAt(k) = 5 + 140 * j + took(m)
  BY <1>1 DEF SecondsAt
<1>4. SecondsAt(k + 1) = 5 + 140 * (k \div 4) + took(k % 4)
  BY <1>1 DEF SecondsAt
<1> HIDE DEF m, j
<1>5. CASE m = 0
  <2>1. k \div 4 = j /\ k % 4 = 1
    BY <1>2, <1>5
  <2>2. SecondsAt(k) = 5 + 140 * j + 0 /\ SecondsAt(k + 1) = 5 + 140 * j + 70
    BY <1>3, <1>4, <1>5, <2>1
  <2>3. NODE_DURATIONS[Round[m + 1]] = 70
    BY <1>5 DEF NODE_DURATIONS, Round
  <2> QED BY <1>1, <2>2, <2>3 DEF m
<1>6. CASE m = 1
  <2>1. k \div 4 = j /\ k % 4 = 2
    BY <1>2, <1>6
  <2>2. SecondsAt(k) = 5 + 140 * j + 70 /\ SecondsAt(k + 1) = 5 + 140 * j + 80
    BY <1>3, <1>4, <1>6, <2>1
  <2>3. NODE_DURATIONS[Round[m + 1]] = 10
    BY <1>6 DEF NODE_DURATIONS, Round
  <2> QED BY <1>1, <2>2, <2>3 DEF m
<1>7. CASE m = 2
  <2>1. k \div 4 = j /\ k % 4 = 3
    BY <1>2, <1>7
  <2>2. SecondsAt(k) = 5 + 140 * j + 80 /\ SecondsAt(k + 1) = 5 + 140 * j + 120
    BY <1>3, <1>4, <1>7, <2>1
  <2>3. NODE_DURATIONS[Round[m + 1]] = 40
    BY <1>7 DEF NODE_DURATIONS, Round
  <2> QED BY <1>1, <2>2, <2>3 DEF m
<1>8. CASE m = 3
  <2>1. k \div 4 = j + 1 /\ k % 4 = 0
    BY <1>2, <1>8
  <2>2. SecondsAt(k) = 5 + 140 * j + 120 /\ SecondsAt(k + 1) = 5 + 140 * (j + 1) + 0
    BY <1>3, <1>4, <1>8, <2>1
  <2>3. NODE_DURATIONS[Round[m + 1]] = 20
    BY <1>8 DEF NODE_DURATIONS, Round
  <2> QED BY <1>1, <2>2, <2>3 DEF m
<1> QED BY <1>1, <1>5, <1>6, <1>7, <1>8

(* Before finalize of n iterations.                                        *)
LEMMA RoomForFinalize ==
  ASSUME NEW n \in Nat \ {0}, SecondsAt(4 * n) <= 450
  PROVE  SecondsAt(4 * n) + 3 <= 450
<1>1. (4 * n - 1) \div 4 = n - 1 /\ (4 * n - 1) % 4 = 3 /\ 4 * n # 0
  OBVIOUS
<1>2. SecondsAt(4 * n) = 5 + 140 * (n - 1) + 120
  BY <1>1 DEF SecondsAt
<1> QED BY <1>2

LEMMA DurationsAreNumbers ==
  ASSUME setup.jitter \in BOOLEAN, NEW n \in DOMAIN NODE_DURATIONS
  PROVE  /\ Durations(n) \subseteq Nat /\ Tokens(n) \in Nat
         /\ ~setup.jitter => Durations(n) = {NODE_DURATIONS[n]}
         /\ n \in {"schema_link", "finalize"} =>
              Durations(n) = {NODE_DURATIONS[n]} /\ Tokens(n) = 0
BY DEF Durations, Jittered, NODE_DURATIONS, Tokens

(* The node that comes next.                                               *)
LEMMA PlanTells ==
  ASSUME setup.n \in Nat \ {0}, node \in Nat, node < PlanLength
  PROVE  /\ node = 0 => Plan[node + 1] = "schema_link"
         /\ node + 1 = PlanLength => Plan[node + 1] = "finalize"
         /\ node # 0 /\ node + 1 # PlanLength =>
              /\ Plan[node + 1] = Round[((node - 1) % 4) + 1]
              /\ Plan[node + 1] \in DOMAIN NODE_DURATIONS
              /\ Plan[node + 1] \notin {"schema_link", "finalize"}
<1>1. PlanLength \in Nat /\ PlanLength >= 5 /\ node + 1 \in 1..PlanLength
  BY DEF PlanLength
<1>2. Plan[node + 1] = IF node + 1 = 1 THEN "schema_link"
                       ELSE IF node + 1 = PlanLength THEN "finalize"
                       ELSE Round[(((node + 1) - 2) % 4) + 1]
  BY <1>1 DEF Plan
<1>3. ASSUME node # 0 PROVE (node - 1) % 4 \in 0..3
  <2>1. node - 1 \in Nat
    BY <1>3
  <2> QED BY <2>1, QuotientAndRest
<1>4. ASSUME node # 0, node + 1 # PlanLength
      PROVE  /\ Plan[node + 1] = Round[((node - 1) % 4) + 1]
             /\ Plan[node + 1] \in DOMAIN NODE_DURATIONS
             /\ Plan[node + 1] \notin {"schema_link", "finalize"}
  <2> DEFINE m == (node - 1) % 4
  <2>1. m \in 0..3 /\ (node + 1) - 2 = node - 1
    BY <1>3, <1>4
  <2>2. Plan[node + 1] = Round[m + 1]
    BY <1>2, <1>4, <2>1
  <2> HIDE DEF m
  <2>3. Round[m + 1] \in {"generator", "auditor_phase1", "auditor_phase2", "reflector"}
    BY <2>1 DEF Round
  <2> QED BY <2>2, <2>3 DEF m, NODE_DURATIONS
<1> QED BY <1>1, <1>2, <1>4

LEMMA SpendKeeps ==
  ASSUME BudgetInv, Spend
  PROVE  BudgetInv'
<1>1. /\ program = "budget" /\ stage = "running" /\ program' = program /\ setup' = setup
      /\ node' = node + 1
  BY DEF Spend
<1>2. /\ setup.n \in Nat \ {0} /\ setup.jitter \in BOOLEAN /\ node \in Nat
      /\ seconds \in Nat /\ tokens \in Nat /\ node < PlanLength /\ ~exhausted
      /\ final_sql # "approved"
      /\ ~setup.jitter => seconds = SecondsAt(node)
      /\ node = 0 => seconds = 0 /\ tokens = 0
      /\ ~Over(seconds, tokens) /\ PlanLength' = PlanLength
  BY <1>1 DEF BudgetInv, BudgetIsKept, PlanLength
<1> DEFINE n == Plan[node + 1]
<1>3. PICK d \in Durations(n) :
        /\ seconds' = seconds + d
        /\ tokens' = tokens + Tokens(n)
        /\ exhausted' = (exhausted \/ Over(seconds', tokens'))
        /\ stage' = IF StopsAfter(n, exhausted') \/ n = "finalize" THEN "done" ELSE "running"
        /\ final_sql' = IF setup.jitter THEN ""
                        ELSE IF StopsAfter(n, exhausted') THEN "graceful"
                        ELSE IF n = "finalize" THEN "approved" ELSE ""
  BY DEF Spend
<1>4. exhausted' = Over(seconds', tokens')
  BY <1>2, <1>3 DEF Over
<1>4a. seconds' = seconds + d /\ tokens' = tokens + Tokens(n)
  BY <1>3
<1>4b. /\ stage' = IF StopsAfter(n, exhausted') \/ n = "finalize" THEN "done" ELSE "running"
       /\ final_sql' = IF setup.jitter THEN ""
                       ELSE IF StopsAfter(n, exhausted') THEN "graceful"
                       ELSE IF n = "finalize" THEN "approved" ELSE ""
  BY <1>3
<1>5. PlanLength \in Nat /\ PlanLength >= 5 /\ PlanLength = 4 * setup.n + 1
  BY <1>2 DEF PlanLength
<1> HIDE DEF n
<1>6. CASE node = 0
  <2>1. n = "schema_link"
    BY <1>2, <1>6, PlanTells DEF n
  <2>2. d = 5 /\ Tokens(n) = 0
    BY <1>2, <1>3, <2>1, DurationsAreNumbers DEF NODE_DURATIONS
  <2>3. seconds' = 5 /\ tokens' = 0 /\ ~exhausted'
    <3>1. seconds' = 5 /\ tokens' = 0
      BY <1>2, <1>4a, <1>6, <2>2
    <3>2. ~Over(seconds', tokens')
      BY <3>1 DEF Over, BudgetSeconds, BudgetTokens
    <3> QED BY <1>4, <3>1, <3>2
  <2>4. stage' = "running" /\ final_sql' # "approved"
    BY <1>2, <1>4b, <2>1, <2>3 DEF StopsAfter
  <2>5. SecondsAt(node + 1) = 5
    BY <1>6 DEF SecondsAt
  <2> QED BY <1>1, <1>2, <1>4, <1>5, <1>6, <2>3, <2>4, <2>5 DEF BudgetInv, BudgetIsKept
<1>7. CASE node # 0 /\ node + 1 = PlanLength
  <2>1. n = "finalize"
    BY <1>2, <1>7, PlanTells DEF n
  <2>2. d = 3 /\ Tokens(n) = 0
    BY <1>2, <1>3, <2>1, DurationsAreNumbers DEF NODE_DURATIONS
  <2>3. stage' = "done" /\ seconds' = seconds + 3 /\ tokens' = tokens
    <3>1. seconds' = seconds + 3 /\ tokens' = tokens
      BY <1>2, <1>4a, <2>2
    <3>2. stage' = "done"
      BY <1>4b, <2>1
    <3> QED BY <3>1, <3>2
  <2>4. ~setup.jitter => ~exhausted'
    <3>1. SUFFICES ASSUME ~setup.jitter PROVE ~exhausted'
      OBVIOUS
    <3>2. node = 4 * setup.n /\ seconds = SecondsAt(4 * setup.n) /\ seconds <= 450
      BY <1>2, <1>5, <1>7, <3>1 DEF Over, BudgetSeconds
    <3>3. seconds + 3 <= 450
      BY <1>2, <3>2, RoomForFinalize
    <3>4. tokens' <= BudgetTokens /\ seconds' <= 450
      BY <1>2, <2>3, <3>3 DEF Over, BudgetTokens
    <3>5. ~Over(seconds', tokens')
      BY <1>2, <2>3, <3>4 DEF Over, BudgetSeconds, BudgetTokens
    <3> QED BY <1>4, <3>5
  <2>5. final_sql' = "approved" => ~exhausted'
    BY <1>4b, <2>4 DEF StopsAfter
  <2> QED BY <1>1, <1>2, <1>4, <2>3, <2>5 DEF BudgetInv, BudgetIsKept, Finished
<1>8. CASE node # 0 /\ node + 1 # PlanLength
  <2>1. /\ n = Round[((node - 1) % 4) + 1] /\ n \in DOMAIN NODE_DURATIONS
        /\ n \notin {"schema_link", "finalize"}
    BY <1>2, <1>8, PlanTells DEF n
  <2>2. /\ d \in Nat /\ Tokens(n) \in Nat
        /\ ~setup.jitter => d = NODE_DURATIONS[n]
    BY <1>2, <1>3, <2>1, DurationsAreNumbers
  <2>3. /\ stage' = IF exhausted' THEN "done" ELSE "running"
        /\ final_sql' # "approved" /\ seconds' \in Nat /\ tokens' \in Nat
    <3>1. seconds' \in Nat /\ tokens' \in Nat
      BY <1>2, <1>4a, <2>2
    <3>2. StopsAfter(n, exhausted') = (exhausted' /\ TRUE) /\ n # "finalize"
      BY <2>1 DEF StopsAfter
    <3>3. CASE exhausted'
      BY <1>4b, <2>1, <3>1, <3>3 DEF StopsAfter
    <3>4. CASE ~exhausted'
      BY <1>4b, <2>1, <3>1, <3>4 DEF StopsAfter
    <3> QED BY <3>3, <3>4
  <2>4. ~setup.jitter => seconds' = SecondsAt(node + 1)
    BY <1>2, <1>3, <1>8, <2>1, <2>2, OneMoreNode
  <2>5. node + 1 < PlanLength
    BY <1>2, <1>5, <1>8
  <2> QED BY <1>1, <1>2, <1>4, <1>8, <2>3, <2>4, <2>5 DEF BudgetInv, BudgetIsKept, Finished
<1> QED BY <1>6, <1>7, <1>8

LEMMA BudgetInductive == Spec => []BudgetInv
<1>1. Init => BudgetInv
  <2> SUFFICES ASSUME Init, program = "budget" PROVE BudgetInv
    BY DEF BudgetInv
  <2>1. setup \in BudgetSetups
    BY DEF Init, Setups
  <2>2. setup.n \in Nat \ {0} /\ setup.jitter \in BOOLEAN
    BY <2>1, RoundsAssumption DEF BudgetSetups
  <2>3. SecondsAt(0) = 0 /\ ~Over(0, 0)
    BY DEF SecondsAt, Over, BudgetSeconds, BudgetTokens
  <2>4. PlanLength \in Nat /\ 0 < PlanLength
    BY <2>2 DEF PlanLength
  <2>5. /\ stage = "running" /\ node = 0 /\ seconds = 0 /\ tokens = 0
        /\ final_sql # "approved"
    BY DEF Init
  <2>11. ~exhausted
    BY DEF Init
  <2>6. BudgetIsKept
    BY <2>3, <2>5, <2>11 DEF BudgetIsKept
  <2>7. ~exhausted /\ seconds = SecondsAt(node) /\ node < PlanLength /\ final_sql # "approved"
    BY <2>3, <2>4, <2>5, <2>11
  <2>8. setup.n \in Nat \ {0} /\ node \in Nat /\ seconds \in Nat /\ tokens \in Nat
    BY <2>2, <2>5
  <2>9. stage = "running" /\ (node = 0 => seconds = 0 /\ tokens = 0)
    BY <2>5
  <2> QED BY <2>2, <2>6, <2>7, <2>8, <2>9 DEF BudgetInv
<1>2. ASSUME BudgetInv, [Next]_vars PROVE BudgetInv'
  <2>1. program' = program /\ setup' = setup
    BY <1>2 DEF Next, Loop, Examine, Spend, NextPage, Serving, vars
  <2>2. CASE program # "budget"
    BY <2>1, <2>2 DEF BudgetInv
  <2>3. CASE Spend
    BY <1>2, <2>3, SpendKeeps
  <2>4. CASE program = "budget" /\ ~Spend
    <3>1. ~Loop /\ ~Examine /\ ~NextPage /\ ~Serving
      <4>1. stage # "asking" /\ ~OnPipeline /\ program \notin Loops
        BY <1>2, <2>4 DEF BudgetInv, OnPipeline, Loops
      <4> QED BY <2>4, <4>1 DEF Loop, Ask, Write, WriteRaises, Judge, Examine, NextPage, Serving
    <3>2. UNCHANGED << program, setup, stage, budgetVars >>
      BY <1>2, <2>4, <3>1 DEF Next, vars
    <3> QED BY <1>2, <3>2 DEF BudgetInv, BudgetIsKept, budgetVars, PlanLength, Finished
  <2> QED BY <2>2, <2>3, <2>4
<1> QED BY <1>1, <1>2, PTL DEF Spec

(* However many iterations the loop needs, with the notebook's durations   *)
(* and with every jitter it draws: the flag tells of the budget, nothing   *)
(* is paid for once it is set, and an answer called approved was reached   *)
(* within the budget, finalize included (build_part5.py:363-408, 455-478). *)
THEOREM BudgetIsAlwaysKept == Spec => []BudgetIsKept
<1>1. BudgetInv => BudgetIsKept
  BY DEF BudgetInv, BudgetIsKept
<1> QED BY <1>1, BudgetInductive, PTL
-----------------------------------------------------------------------------
(* Paging: after each page the reader has seen the newest orders down to   *)
(* some id.                                                                *)
Newest(n) == [k \in 1..n |-> Orders + 1 - k]

SeenBy(n) ==
  /\ stage = "running" => n = 0
  /\ stage = "second" => n # 0 /\ (n = Orders \/ n = setup)
  /\ stage = "done" => n = Orders \/ n = 2 * setup

PagesInv ==
  program = "pages" =>
    /\ setup \in Nat \ {0}
    /\ stage \in {"running", "second", "done"}
    /\ \E n \in 0..Orders : shown = Newest(n) /\ SeenBy(n)

LEMMA NextOnes ==
  ASSUME setup \in Nat \ {0}, NEW n \in 0..Orders
  PROVE  \E m \in Nat :
           /\ n + m \in 0..Orders
           /\ Newest(n) \o Page(Orders + 1 - n) = Newest(n + m)
           /\ n + m = Orders \/ m = setup
<1> DEFINE last == Orders + 1 - n
           m == IF last - 1 < setup THEN last - 1 ELSE setup
<1>1. Orders \in Nat
  BY OrdersAssumption
<1>2. m \in Nat /\ n + m \in 0..Orders /\ (n + m = Orders \/ m = setup) /\ last \in Nat
  BY <1>1
<1>3. Page(last) = [k \in 1..m |-> last - k]
  BY DEF Page
<1> HIDE DEF m
<1>4. Newest(n) \in Seq(Int) /\ Page(last) \in Seq(Int)
  BY <1>1, <1>2, <1>3 DEF Newest
<1>5. Len(Newest(n)) = n /\ Len(Page(last)) = m
  BY <1>1, <1>2, <1>3 DEF Newest
<1>6. Newest(n) \o Page(last) = Newest(n + m)
  <2> DEFINE both == Newest(n) \o Page(last)
  <2>1. both \in Seq(Int) /\ Len(both) = n + m
    BY <1>4, <1>5
  <2>2. \A k \in 1..n : both[k] = Newest(n)[k]
    BY <1>4, <1>5
  <2>3. \A k \in 1..n + m : ~(k \in 1..n) => k - n \in 1..m /\ both[k] = Page(last)[k - n]
    BY <1>2, <1>4, <1>5
  <2> HIDE DEF both
  <2>4. ASSUME NEW k \in 1..n + m PROVE both[k] = Orders + 1 - k
    <3>1. CASE k \in 1..n
      BY <2>2, <3>1 DEF Newest
    <3>2. CASE ~(k \in 1..n)
      <4>1. k - n \in 1..m /\ both[k] = Page(last)[k - n]
        BY <2>3, <3>2
      <4>2. Page(last)[k - n] = last - (k - n)
        BY <1>3, <4>1
      <4> QED BY <1>1, <1>2, <4>1, <4>2
    <3> QED BY <3>1, <3>2
  <2>5. both = [k \in 1..n + m |-> both[k]]
    BY <2>1
  <2> QED BY <2>4, <2>5 DEF both, Newest
<1> QED BY <1>2, <1>6

LEMMA NewestFollow ==
  ASSUME NEW n \in 0..Orders
  PROVE  /\ IsInjective(Newest(n)) /\ Len(Newest(n)) = n
         /\ \A id \in ToSet(Newest(n)) : id..Orders \subseteq ToSet(Newest(n))
         /\ n = Orders => ToSet(Newest(n)) = 1..Orders
<1>1. Orders \in Nat /\ n \in Nat
  BY OrdersAssumption
<1>2. DOMAIN Newest(n) = 1..n /\ \A k \in 1..n : Newest(n)[k] = Orders + 1 - k
  BY DEF Newest
<1>3. IsInjective(Newest(n)) /\ Len(Newest(n)) = n
  BY <1>1, <1>2 DEF IsInjective, Newest
<1>4. ToSet(Newest(n)) = {id \in 1..Orders : id > Orders - n}
  <2>1. \A id \in 1..Orders : id > Orders - n =>
          Orders + 1 - id \in 1..n /\ Newest(n)[Orders + 1 - id] = id
    BY <1>1, <1>2
  <2>2. {id \in 1..Orders : id > Orders - n} \subseteq ToSet(Newest(n))
    BY <1>2, <2>1 DEF ToSet
  <2>3. ToSet(Newest(n)) \subseteq {id \in 1..Orders : id > Orders - n}
    BY <1>1, <1>2 DEF ToSet
  <2> QED BY <2>2, <2>3
<1> QED BY <1>1, <1>3, <1>4

LEMMA NextPageKeeps ==
  ASSUME PagesInv, NextPage
  PROVE  PagesInv'
<1>1. /\ program = "pages" /\ program' = program /\ setup' = setup
      /\ setup \in Nat \ {0} /\ Orders \in Nat \ {0}
  BY OrdersAssumption DEF NextPage, PagesInv
<1>2. PICK n \in 0..Orders : shown = Newest(n) /\ SeenBy(n)
  BY <1>1 DEF PagesInv
<1>3. PICK m \in Nat :
        /\ n + m \in 0..Orders
        /\ Newest(n) \o Page(Orders + 1 - n) = Newest(n + m)
        /\ n + m = Orders \/ m = setup
  BY <1>1, NextOnes
<1>4. shown' = Newest(n + m) /\ (n + m = Orders \/ m = setup)
  <2>1. CASE FirstPage
    <3>1. n = 0 /\ shown' = Page(Orders + 1 - n)
      <4>1. n = 0 /\ shown' = Page(Orders + 1)
        BY <1>2, <2>1 DEF FirstPage, SeenBy
      <4>2. Orders + 1 - n = Orders + 1
        BY <1>1, <4>1
      <4> QED BY <4>1, <4>2
    <3>2. Newest(n) = << >>
      BY <3>1 DEF Newest
    <3>3. Page(Orders + 1 - n) \in Seq(Int)
      <4> DEFINE last == Orders + 1 - n
                 size == IF last - 1 < setup THEN last - 1 ELSE setup
      <4>1. size \in Nat /\ last \in Int
        BY <1>1, <3>1
      <4>2. Page(last) = [k \in 1..size |-> last - k]
        BY DEF Page
      <4> HIDE DEF size, last
      <4>3. Page(last) \in Seq(Int)
        BY <4>1, <4>2
      <4> QED BY <4>3 DEF last
    <3>4. << >> \o Page(Orders + 1 - n) = Page(Orders + 1 - n)
      BY <3>3, ConcatEmptySeq
    <3> QED BY <1>3, <3>1, <3>2, <3>4
  <2>2. CASE SecondPage
    <3>1. n # 0 /\ Len(shown) = n /\ shown[n] = Orders + 1 - n
      BY <1>1, <1>2, <2>2 DEF SecondPage, SeenBy, Newest
    <3> QED BY <1>2, <1>3, <2>2, <3>1 DEF SecondPage
  <2> QED BY <2>1, <2>2 DEF NextPage
<1>5. SeenBy(n + m)' /\ stage' \in {"second", "done"}
  <2>1. CASE FirstPage
    BY <1>1, <1>2, <1>4, <2>1 DEF FirstPage, SeenBy
  <2>2. CASE SecondPage
    BY <1>1, <1>2, <1>3, <1>4, <2>2 DEF SecondPage, SeenBy
  <2> QED BY <2>1, <2>2 DEF NextPage
<1> QED BY <1>1, <1>3, <1>4, <1>5 DEF PagesInv, Newest

(* For every number of orders and every size of page: the second page goes *)
(* on where the first one ended, nothing is shown twice or left out in     *)
(* between, and both are full unless there are no more orders              *)
(* (build_part3.py:550-568).                                               *)
THEOREM PagesAlwaysFollow == Spec => []PagesFollow
<1>1. Init => PagesInv
  <2> SUFFICES ASSUME Init, program = "pages" PROVE PagesInv
    BY DEF PagesInv
  <2>1. setup \in Nat \ {0} /\ stage = "running" /\ shown = << >>
    BY OrdersAssumption DEF Init, Setups
  <2>2. 0 \in 0..Orders /\ Newest(0) = << >>
    BY OrdersAssumption DEF Newest
  <2> QED BY <2>1, <2>2 DEF PagesInv, SeenBy
<1>2. ASSUME PagesInv, [Next]_vars PROVE PagesInv'
  <2>1. program' = program /\ setup' = setup
    BY <1>2 DEF Next, Loop, Examine, Spend, NextPage, Serving, vars
  <2>2. CASE program # "pages"
    BY <2>1, <2>2 DEF PagesInv
  <2>3. CASE NextPage
    BY <1>2, <2>3, NextPageKeeps
  <2>4. CASE program = "pages" /\ ~NextPage
    <3>1. ~Loop /\ ~Examine /\ ~Spend /\ ~Serving
      <4>1. stage # "asking" /\ ~OnPipeline /\ program \notin Loops
        BY <1>2, <2>4 DEF PagesInv, OnPipeline, Loops
      <4> QED BY <2>4, <4>1 DEF Loop, Ask, Write, WriteRaises, Judge, Examine, Spend, Serving
    <3>2. UNCHANGED << program, setup, stage, shown >>
      BY <1>2, <2>4, <3>1 DEF Next, vars
    <3> QED BY <1>2, <3>2 DEF PagesInv, SeenBy, Newest
  <2> QED BY <2>2, <2>3, <2>4
<1>3. PagesInv => PagesFollow
  <2> SUFFICES ASSUME PagesInv, program = "pages" PROVE PagesFollow
    BY DEF PagesFollow
  <2>1. PICK n \in 0..Orders : shown = Newest(n) /\ SeenBy(n)
    BY DEF PagesInv
  <2>2. stage # "raised"
    BY DEF PagesInv
  <2> QED BY <2>1, <2>2, NewestFollow DEF PagesFollow, SeenBy, Finished
<1> QED BY <1>1, <1>2, <1>3, PTL DEF Spec
-----------------------------------------------------------------------------
(* Any set of natural numbers has a smallest one.                          *)
LEMMA SmallestOf ==
  ASSUME NEW T \in SUBSET Nat, T # {}
  PROVE  \E x \in T : \A y \in T : x <= y
<1> DEFINE R == OpToRel(<, Nat)
<1>1. IsWellFoundedOn(R, Nat)
  BY NatLessThanWellFounded
<1>2. \A x, y \in Nat : y < x => << y, x >> \in R
  BY DEF OpToRel
<1> HIDE DEF R
<1>3. \E x \in T : \A y \in T : ~(<< y, x >> \in R)
  BY <1>1, WFMin
<1>4. PICK x \in T : \A y \in T : ~(<< y, x >> \in R)
  BY <1>3
<1>5. ASSUME NEW y \in T PROVE x <= y
  <2>1. x \in Nat /\ y \in Nat
    OBVIOUS
  <2>2. ~(y < x)
    BY <1>2, <1>4, <2>1, Zenon
  <2>3. QED
    BY <2>1, <2>2, SMT
<1>6. QED
  BY <1>5, Zenon

(* What holds of 0 and is handed from i to i + 1 holds up to n.            *)
LEMMA InductionUpTo ==
  ASSUME NEW n \in Nat, NEW P,
         0 \in P,
         \A i \in 0..(n - 1) : i \in P => i + 1 \in P
  PROVE  0..n \subseteq P
<1> DEFINE T == (0..n) \ P
<1> SUFFICES ASSUME T # {} PROVE FALSE
  OBVIOUS
<1>1. PICK x \in T : \A y \in T : x <= y
  <2>1. T \in SUBSET Nat
    OBVIOUS
  <2> HIDE DEF T
  <2>2. QED
    BY <2>1, SmallestOf
<1>2. x \in 1..n
  BY <1>1
<1>3. x - 1 \in P
  BY <1>1, <1>2
<1>4. (x - 1) + 1 \in P
  BY <1>2, <1>3
<1>5. QED
  BY <1>1, <1>2, <1>4

(* The judges.  The notebook's finds something in a text exactly when one  *)
(* of its rules speaks, and whatever a rule says weighs at least the       *)
(* threshold.                                                              *)
Accusations ==
  [class : {"SELECT_STAR", "DML_NO_WHERE", "NO_PAGINATION", "SQL_INJ_CLASSIC",
            "SQL_INJ_UNION", "SQL_INJ_TIME", "DIRECT_SENSITIVE"},
   risk : 4..10]

LEMMA OneAccusation ==
  /\ << >> \in Seq(Accusations)
  /\ \A x \in Accusations : << x >> \in Seq(Accusations) /\ << x >> # << >>
<1> DEFINE A == Accusations
<1> HIDE DEF A
<1>1. << >> \in Seq(A) /\ \A x \in A : << x >> \in Seq(A) /\ << x >> # << >>
  OBVIOUS
<1> QED BY <1>1 DEF A

LEMMA JoinedAccusations ==
  ASSUME NEW a \in Seq(Accusations), NEW b \in Seq(Accusations)
  PROVE  /\ a \o b \in Seq(Accusations)
         /\ a \o b = << >> <=> a = << >> /\ b = << >>
<1> DEFINE A == Accusations
<1>1. a \in Seq(A) /\ b \in Seq(A)
  OBVIOUS
<1> HIDE DEF A
<1>2. a \o b \in Seq(A)
  BY <1>1
<1>3. Len(a \o b) = Len(a) + Len(b) /\ Len(a) \in Nat /\ Len(b) \in Nat
  BY <1>1
<1>4. \A s \in Seq(A) : s = << >> <=> Len(s) = 0
  OBVIOUS
<1>5. Len(a \o b) = 0 <=> Len(a) = 0 /\ Len(b) = 0
  BY <1>3
<1>6. a \o b = << >> <=> a = << >> /\ b = << >>
  BY <1>1, <1>2, <1>4, <1>5
<1> QED BY <1>2, <1>6 DEF A

(* The worst risk is one of the risks, and none is above it.               *)
LEMMA WorstIsAttained ==
  ASSUME NEW f \in Seq(Accusations)
  PROVE  /\ Worst(f) \in 0..10
         /\ f = << >> => Worst(f) = 0
         /\ \A i \in DOMAIN f : Worst(f) >= f[i].risk
<1> DEFINE S == {0} \cup {f[i].risk : i \in DOMAIN f}
           AtLeast(k) == \E r \in S : r >= k
<1>1. \A i \in DOMAIN f : f[i].risk \in 4..10
  <2>1. \A i \in DOMAIN f : f[i] \in Accusations
    OBVIOUS
  <2> QED BY <2>1 DEF Accusations
<1>2. S \subseteq 0..10 /\ 0 \in S
  BY <1>1
<1> HIDE DEF S
<1>3. \E r \in S : \A other \in S : other <= r
  <2> SUFFICES ASSUME \A r \in S : \E other \in S : ~(other <= r) PROVE FALSE
    OBVIOUS
  <2>1. \A r \in S : \E other \in S : other >= r + 1
    BY <1>2
  <2>2. \A k \in 0..10 : AtLeast(k) => AtLeast(k + 1)
    BY <1>2, <2>1
  <2>3. AtLeast(0)
    BY <1>2
  <2>4. ~AtLeast(10 + 1)
    BY <1>2
  <2> HIDE DEF AtLeast
  <2>5. /\ AtLeast(0) => AtLeast(0 + 1)
        /\ AtLeast(1) => AtLeast(1 + 1)
        /\ AtLeast(2) => AtLeast(2 + 1)
        /\ AtLeast(3) => AtLeast(3 + 1)
        /\ AtLeast(4) => AtLeast(4 + 1)
        /\ AtLeast(5) => AtLeast(5 + 1)
        /\ AtLeast(6) => AtLeast(6 + 1)
        /\ AtLeast(7) => AtLeast(7 + 1)
        /\ AtLeast(8) => AtLeast(8 + 1)
        /\ AtLeast(9) => AtLeast(9 + 1)
        /\ AtLeast(10) => AtLeast(10 + 1)
    BY <2>2
  <2> QED BY <2>3, <2>4, <2>5
<1>4. Worst(f) \in S /\ \A other \in S : other <= Worst(f)
  BY <1>3 DEF Worst, S
<1>5. \A i \in DOMAIN f : f[i].risk \in S
  BY DEF S
<1>6. f = << >> => S = {0}
  BY DEF S
<1>7. \A i \in DOMAIN f : Worst(f) >= f[i].risk
  BY <1>1, <1>2, <1>4, <1>5
<1>8. Worst(f) \in 0..10
  BY <1>2, <1>4
<1>9. f = << >> => Worst(f) = 0
  BY <1>4, <1>6
<1> QED BY <1>7, <1>8, <1>9

LEMMA PassedIsEmpty ==
  ASSUME NEW f \in Seq(Accusations)
  PROVE  Passed(f) <=> f = << >>
<1>1. ASSUME f = << >> PROVE Passed(f)
  <2>1. Worst(f) = 0
    BY <1>1, WorstIsAttained
  <2> QED BY <2>1 DEF Passed, THRESHOLD
<1>2. ASSUME f # << >> PROVE ~Passed(f)
  <2>1. 1 \in DOMAIN f
    BY <1>2
  <2>2. f[1] \in Accusations
    BY <2>1
  <2>3. f[1].risk \in 4..10
    BY <2>2 DEF Accusations
  <2>4. Worst(f) >= f[1].risk /\ Worst(f) \in 0..10
    BY <2>1, WorstIsAttained
  <2>5. ~(Worst(f) < 4)
    BY <2>3, <2>4
  <2> QED BY <2>5 DEF Passed, THRESHOLD
<1> QED BY <1>1, <1>2

(* What the seven rules of the notebook look for.                          *)
Accused(q) ==
  \/ "star" \in q
  \/ q \cap {"update", "delete"} # {} /\ "where" \notin q
  \/ /\ "select" \in q
     /\ q \cap {"aggregate", "group_by"} = {} /\ q \cap {"limit", "where"} = {}
  \/ "glued" \in q
  \/ "union" \in q /\ q \cap {"sys_object", "comment", "select_null"} # {}
  \/ "pg_sleep" \in q
  \/ "sensitive" \in q /\ "alias" \notin q

LEMMA NotebookAccuses ==
  ASSUME NEW q
  PROVE  judge(q) \in Seq(Accusations) /\ (judge(q) = << >> <=> ~Accused(q))
<1> DEFINE Charge(class, risk) == [class |-> class, risk |-> risk]
           A == Accusations
           Says(f, c) == f \in Seq(A) /\ (f = << >> <=> ~c)
<1>1. /\ Charge("SELECT_STAR", 5) \in A /\ Charge("DML_NO_WHERE", 9) \in A
      /\ Charge("NO_PAGINATION", 4) \in A /\ Charge("SQL_INJ_CLASSIC", 10) \in A
      /\ Charge("SQL_INJ_UNION", 8) \in A /\ Charge("SQL_INJ_TIME", 9) \in A
      /\ Charge("DIRECT_SENSITIVE", 7) \in A
  BY DEF Accusations
<1>2. << >> \in Seq(A) /\ \A x \in A : << x >> \in Seq(A) /\ << x >> # << >>
  BY OneAccusation
<1> HIDE DEF A
<1>3. Says(rule_select_star(q), "star" \in q)
  BY <1>1, <1>2 DEF rule_select_star, Flag, If
<1>4. Says(rule_dml_no_where(q), q \cap {"update", "delete"} # {} /\ "where" \notin q)
  BY <1>1, <1>2 DEF rule_dml_no_where, Flag, If
<1>5. Says(rule_no_limit(q),
           /\ "select" \in q
           /\ q \cap {"aggregate", "group_by"} = {} /\ q \cap {"limit", "where"} = {})
  BY <1>1, <1>2 DEF rule_no_limit, Flag, If
<1>6. Says(rule_sqli_classic(q), "glued" \in q)
  BY <1>1, <1>2 DEF rule_sqli_classic, Flag, If
<1>7. Says(rule_union(q),
           "union" \in q /\ q \cap {"sys_object", "comment", "select_null"} # {})
  BY <1>1, <1>2 DEF rule_union, Flag, If
<1>8. Says(rule_pg_sleep(q), "pg_sleep" \in q)
  BY <1>1, <1>2 DEF rule_pg_sleep, Flag, If
<1>9. Says(rule_sensitive(q), "sensitive" \in q /\ "alias" \notin q)
  BY <1>1, <1>2 DEF rule_sensitive, Flag, If
<1>10. \A f, g \in Seq(A) : f \o g \in Seq(A) /\ (f \o g = << >> <=> f = << >> /\ g = << >>)
  BY JoinedAccusations DEF A
<1> DEFINE r1 == rule_select_star(q)
           r2 == rule_dml_no_where(q)
           r3 == rule_no_limit(q)
           r4 == rule_sqli_classic(q)
           r5 == rule_union(q)
           r6 == rule_pg_sleep(q)
           r7 == rule_sensitive(q)
<1>11. /\ judge(q) \in Seq(A)
       /\ judge(q) = << >> <=>
            /\ r1 = << >> /\ r2 = << >> /\ r3 = << >> /\ r4 = << >>
            /\ r5 = << >> /\ r6 = << >> /\ r7 = << >>
  <2>1. /\ r1 \in Seq(A) /\ r2 \in Seq(A) /\ r3 \in Seq(A) /\ r4 \in Seq(A)
        /\ r5 \in Seq(A) /\ r6 \in Seq(A) /\ r7 \in Seq(A)
    BY <1>3, <1>4, <1>5, <1>6, <1>7, <1>8, <1>9
  <2>2. judge(q) = r1 \o r2 \o r3 \o r4 \o r5 \o r6 \o r7
    BY DEF judge, RULES
  <2> HIDE DEF r1, r2, r3, r4, r5, r6, r7
  <2>3. r1 \o r2 \in Seq(A) /\ (r1 \o r2 = << >> <=> r1 = << >> /\ r2 = << >>)
    BY <1>10, <2>1
  <2>4. /\ r1 \o r2 \o r3 \in Seq(A)
        /\ r1 \o r2 \o r3 = << >> <=> r1 = << >> /\ r2 = << >> /\ r3 = << >>
    BY <1>10, <2>1, <2>3
  <2>5. /\ r1 \o r2 \o r3 \o r4 \in Seq(A)
        /\ r1 \o r2 \o r3 \o r4 = << >> <=>
             r1 = << >> /\ r2 = << >> /\ r3 = << >> /\ r4 = << >>
    BY <1>10, <2>1, <2>4
  <2>6. /\ r1 \o r2 \o r3 \o r4 \o r5 \in Seq(A)
        /\ r1 \o r2 \o r3 \o r4 \o r5 = << >> <=>
             r1 = << >> /\ r2 = << >> /\ r3 = << >> /\ r4 = << >> /\ r5 = << >>
    BY <1>10, <2>1, <2>5
  <2>7. /\ r1 \o r2 \o r3 \o r4 \o r5 \o r6 \in Seq(A)
        /\ r1 \o r2 \o r3 \o r4 \o r5 \o r6 = << >> <=>
             /\ r1 = << >> /\ r2 = << >> /\ r3 = << >> /\ r4 = << >>
             /\ r5 = << >> /\ r6 = << >>
    BY <1>10, <2>1, <2>6
  <2> QED BY <1>10, <2>1, <2>2, <2>7
<1>12. judge(q) = << >> <=> ~Accused(q)
  BY <1>3, <1>4, <1>5, <1>6, <1>7, <1>8, <1>9, <1>11 DEF Accused
<1> QED BY <1>11, <1>12 DEF A

LEMMA NotebookIsRight ==
  ASSUME NEW q
  PROVE  Verdict("notebook", q, 0) = Accused(q)
<1>1. Passed(judge(q)) <=> ~Accused(q)
  BY NotebookAccuses, PassedIsEmpty
<1>2. FindingsOf("notebook", q, 0) = judge(q)
  BY DEF FindingsOf
<1>3. Verdict("notebook", q, 0) = ~Passed(judge(q))
  BY <1>2 DEF Verdict
<1> QED BY <1>1, <1>3 DEF Accused, Passed

(* A judge is right about a case if it says what is true of it.            *)
Right(name, case) == Verdict(name, case.sql, 0) = case.truth

LEMMA BadCardsAreAccused == \A j \in 1..7 : Accused(BadCards[j].bad)
<1>1. Accused(BadCards[1].bad)
  BY DEF BadCards, Accused
<1>2. Accused(BadCards[2].bad)
  BY DEF BadCards, Accused
<1>3. Accused(BadCards[3].bad)
  BY DEF BadCards, Accused
<1>4. Accused(BadCards[4].bad)
  BY DEF BadCards, Accused
<1>5. Accused(BadCards[5].bad)
  BY DEF BadCards, Accused
<1>6. Accused(BadCards[6].bad)
  BY DEF BadCards, Accused
<1>7. Accused(BadCards[7].bad)
  BY DEF BadCards, Accused
<1>8. \A j \in 1..7 : j = 1 \/ j = 2 \/ j = 3 \/ j = 4 \/ j = 5 \/ j = 6 \/ j = 7
  OBVIOUS
<1> QED BY <1>1, <1>2, <1>3, <1>4, <1>5, <1>6, <1>7, <1>8, Zenon

LEMMA GoodCardsAreNot ==
  /\ \A j \in 1..7 : ~Accused(BadCards[j].good)
  /\ \A j \in 1..3 : ~Accused(SafeCards[j].good)
<1>1. ~Accused(BadCards[1].good)
  BY DEF BadCards, Accused
<1>2. ~Accused(BadCards[2].good)
  BY DEF BadCards, Accused
<1>3. ~Accused(BadCards[3].good)
  BY DEF BadCards, Accused
<1>4. ~Accused(BadCards[4].good)
  BY DEF BadCards, Accused
<1>5. ~Accused(BadCards[5].good)
  BY DEF BadCards, Accused
<1>6. ~Accused(BadCards[6].good)
  BY DEF BadCards, Accused
<1>7. ~Accused(BadCards[7].good)
  BY DEF BadCards, Accused
<1>8. \A j \in 1..7 : j = 1 \/ j = 2 \/ j = 3 \/ j = 4 \/ j = 5 \/ j = 6 \/ j = 7
  OBVIOUS
<1>9. \A j \in 1..7 : ~Accused(BadCards[j].good)
  BY <1>1, <1>2, <1>3, <1>4, <1>5, <1>6, <1>7, <1>8, Zenon
<1>10. ~Accused(SafeCards[1].good)
  BY DEF SafeCards, Accused
<1>11. ~Accused(SafeCards[2].good)
  BY DEF SafeCards, Accused
<1>12. ~Accused(SafeCards[3].good)
  BY DEF SafeCards, Accused
<1>13. \A j \in 1..3 : j = 1 \/ j = 2 \/ j = 3
  OBVIOUS
<1> QED BY <1>9, <1>10, <1>11, <1>12, <1>13, Zenon

LEMMA ThreeAndSeven ==
  /\ \A a, b, c : IsSeq(<< a, b, c >>)
  /\ \A a, b, c, d, e, f, g : IsSeq(<< a, b, c, d, e, f, g >>)
<1>1. ASSUME NEW a, NEW b, NEW c PROVE IsSeq(<< a, b, c >>)
  <2>1. << a, b, c >> \in Seq({a, b, c})
    OBVIOUS
  <2> QED BY <2>1 DEF IsSeq
<1>2. ASSUME NEW a, NEW b, NEW c, NEW d, NEW e, NEW f, NEW g
      PROVE  IsSeq(<< a, b, c, d, e, f, g >>)
  <2>1. << a, b, c, d, e, f, g >> \in Seq({a, b, c, d, e, f, g})
    OBVIOUS
  <2> QED BY <2>1 DEF IsSeq
<1> QED BY <1>1, <1>2, Zenon

LEMMA OverOneSet ==
  ASSUME NEW s, IsSeq(s), NEW t, IsSeq(t)
  PROVE  \E U : s \in Seq(U) /\ t \in Seq(U)
<1>1. PICK S : s \in Seq(S)
  BY DEF IsSeq
<1>2. PICK T : t \in Seq(T)
  BY DEF IsSeq
<1>3. s \in Seq(S \cup T) /\ t \in Seq(S \cup T)
  BY <1>1, <1>2
<1> QED BY <1>3

Joins(both, s, m, t, n) ==
  /\ Len(both) = m + n
  /\ \A i \in 1..m : both[i] = s[i]
  /\ \A i \in 1..n : both[m + i] = t[i]

LEMMA OneAfterAnother ==
  ASSUME NEW s, IsSeq(s), NEW t, IsSeq(t)
  PROVE  Joins(s \o t, s, Len(s), t, Len(t))
<1>1. PICK U : s \in Seq(U) /\ t \in Seq(U)
  BY OverOneSet
<1>2. Len(s \o t) = Len(s) + Len(t)
  BY <1>1
<1>3. \A i \in 1..Len(s) : (s \o t)[i] = s[i]
  BY <1>1
<1>4. \A i \in 1..Len(t) : (s \o t)[Len(s) + i] = t[i]
  BY <1>1
<1> QED BY <1>2, <1>3, <1>4 DEF Joins

LEMMA CardsAreJudged ==
  /\ Len(CardCases) = 17
  /\ \A i \in 1..17 : Right("notebook", CardCases[i])
<1> DEFINE bad == [i \in 1..Len(BadCards) |-> Case(BadCards[i].bad, TRUE)]
           good == [i \in 1..Len(DATASET) |-> Case(DATASET[i].good, FALSE)]
<1>1. Len(BadCards) = 7 /\ Len(SafeCards) = 3
  BY DEF BadCards, SafeCards
<1>2. IsSeq(BadCards) /\ IsSeq(SafeCards)
  BY ThreeAndSeven, Zenon DEF BadCards, SafeCards
<1>3. /\ Len(DATASET) = 10
      /\ \A i \in 1..3 : DATASET[i] = SafeCards[i]
      /\ \A i \in 1..7 : DATASET[3 + i] = BadCards[i]
  <2> DEFINE s == SafeCards
             b == BadCards
  <2>1. DATASET = s \o b
    BY DEF DATASET
  <2>2. IsSeq(s) /\ IsSeq(b) /\ Len(s) = 3 /\ Len(b) = 7
    BY <1>1, <1>2
  <2> HIDE DEF s, b
  <2>3. Joins(s \o b, s, Len(s), b, Len(b))
    BY <2>2, OneAfterAnother, Zenon
  <2>4. Joins(DATASET, s, 3, b, 7)
    BY <2>1, <2>2, <2>3, Zenon
  <2> QED BY <2>4 DEF s, b, Joins
<1>4. /\ Len(CardCases) = 17
      /\ \A i \in 1..7 : CardCases[i] = Case(BadCards[i].bad, TRUE)
      /\ \A i \in 1..10 : CardCases[7 + i] = Case(DATASET[i].good, FALSE)
  <2>1. IsSeq(bad) /\ Len(bad) = 7
    <3>1. bad \in Seq({bad[i] : i \in 1..7}) /\ Len(bad) = 7
      BY <1>1
    <3> QED BY <3>1 DEF IsSeq
  <2>2. IsSeq(good) /\ Len(good) = 10
    <3>1. good \in Seq({good[i] : i \in 1..10}) /\ Len(good) = 10
      BY <1>3
    <3> QED BY <3>1 DEF IsSeq
  <2>3. /\ \A i \in 1..7 : bad[i] = Case(BadCards[i].bad, TRUE)
        /\ \A i \in 1..10 : good[i] = Case(DATASET[i].good, FALSE)
    BY <1>1, <1>3
  <2>4. CardCases = bad \o good
    BY DEF CardCases
  <2> HIDE DEF bad, good
  <2>5. /\ Len(CardCases) = 17
        /\ \A i \in 1..7 : CardCases[i] = bad[i]
        /\ \A i \in 1..10 : CardCases[7 + i] = good[i]
    <3>1. Joins(bad \o good, bad, Len(bad), good, Len(good))
      BY <2>1, <2>2, OneAfterAnother, Zenon
    <3>2. Joins(CardCases, bad, 7, good, 10)
      BY <2>1, <2>2, <2>4, <3>1, Zenon
    <3> QED BY <3>2 DEF Joins
  <2> QED BY <2>3, <2>5
<1>5. ASSUME NEW i \in 1..7 PROVE Right("notebook", CardCases[i])
  <2>1. Verdict("notebook", CardCases[i].sql, 0) = Accused(BadCards[i].bad)
    BY <1>4, NotebookIsRight DEF Case
  <2>2. CardCases[i].truth = TRUE
    BY <1>4 DEF Case
  <2>3. Accused(BadCards[i].bad) = TRUE
    BY BadCardsAreAccused DEF Accused
  <2> QED BY <2>1, <2>2, <2>3 DEF Right
<1>6. ASSUME NEW i \in 1..10 PROVE Right("notebook", CardCases[7 + i])
  <2>1. Verdict("notebook", CardCases[7 + i].sql, 0) = Accused(DATASET[i].good)
    BY <1>4, NotebookIsRight DEF Case
  <2>2. CardCases[7 + i].truth = FALSE
    BY <1>4 DEF Case
  <2>3. Accused(DATASET[i].good) = FALSE
    <3>1. CASE i \in 1..3
      <4>1. ~Accused(DATASET[i].good)
        BY <1>3, <3>1, GoodCardsAreNot
      <4> QED BY <4>1 DEF Accused
    <3>2. CASE i - 3 \in 1..7
      <4>1. DATASET[3 + (i - 3)] = BadCards[i - 3]
        BY <1>3, <3>2
      <4>2. 3 + (i - 3) = i
        OBVIOUS
      <4>3. ~Accused(DATASET[i].good)
        BY <3>2, <4>1, <4>2, GoodCardsAreNot
      <4> QED BY <4>3 DEF Accused
    <3>3. i \in 1..3 \/ i - 3 \in 1..7
      OBVIOUS
    <3> QED BY <3>1, <3>2, <3>3
  <2> QED BY <2>1, <2>2, <2>3 DEF Right
<1>7. \A i \in 1..17 : i \in 1..7 \/ (i - 7 \in 1..10 /\ i = 7 + (i - 7))
  OBVIOUS
<1>8. \A i \in 1..17 : Right("notebook", CardCases[i])
  BY <1>5, <1>6, <1>7
<1> QED BY <1>4, <1>8

(* The auditors of one rule.                                               *)
LEMMA DmlIsJudged ==
  /\ Len(DmlCases) = 3
  /\ \A i \in 1..3 : Right("R002", DmlCases[i])
<1>1. ASSUME NEW q, NEW t \in BOOLEAN,
             t <=> /\ q \cap {"update", "delete"} # {}
                   /\ "where" \notin q \/ "always_true" \in q
      PROVE  Right("R002", Case(q, t))
  <2> DEFINE found == audit_R002_R003(q)
  <2>1. found = << >> <=> ~t
    BY <1>1 DEF audit_R002_R003, If, Flag
  <2>2. Case(q, t).sql = q /\ Case(q, t).truth = t
    BY DEF Case
  <2>3. Verdict("R002", q, 0) = (found # << >>)
    BY DEF Verdict, FindingsOf
  <2> HIDE DEF found
  <2> QED BY <2>1, <2>2, <2>3 DEF Right
<1>2. Right("R002", DmlCases[1])
  <2>1. Right("R002", Case({"update"}, TRUE))
    BY <1>1
  <2> QED BY <2>1 DEF DmlCases
<1>3. Right("R002", DmlCases[2])
  <2>1. Right("R002", Case({"update", "where", "always_true"}, TRUE))
    BY <1>1
  <2> QED BY <2>1 DEF DmlCases
<1>4. Right("R002", DmlCases[3])
  <2>1. Right("R002", Case({"update", "where"}, FALSE))
    BY <1>1
  <2> QED BY <2>1 DEF DmlCases
<1>5. Len(DmlCases) = 3
  BY DEF DmlCases
<1>6. \A i \in 1..3 : i = 1 \/ i = 2 \/ i = 3
  OBVIOUS
<1> QED BY <1>2, <1>3, <1>4, <1>5, <1>6, Zenon

LEMMA LimitIsJudged ==
  /\ Len(LimitCases) = 4
  /\ \A i \in 1..4 : Right("R004", LimitCases[i])
<1>1. ASSUME NEW q, NEW t \in BOOLEAN,
             t <=> /\ "select" \in q /\ q \cap {"aggregate", "group_by"} = {}
                   /\ "limit" \notin q \/ "huge_limit" \in q
      PROVE  Right("R004", Case(q, t))
  <2> DEFINE found == audit_R004_no_limit(q)
  <2>1. found = << >> <=> ~t
    BY <1>1 DEF audit_R004_no_limit, If, Flag
  <2>2. Case(q, t).sql = q /\ Case(q, t).truth = t
    BY DEF Case
  <2>3. Verdict("R004", q, 0) = (found # << >>)
    BY DEF Verdict, FindingsOf
  <2> HIDE DEF found
  <2> QED BY <2>1, <2>2, <2>3 DEF Right
<1>2. Right("R004", LimitCases[1])
  <2>1. Right("R004", Case({"select"}, TRUE))
    BY <1>1
  <2> QED BY <2>1 DEF LimitCases
<1>3. Right("R004", LimitCases[2])
  <2>1. Right("R004", Case({"select", "limit", "huge_limit"}, TRUE))
    BY <1>1
  <2> QED BY <2>1 DEF LimitCases
<1>4. Right("R004", LimitCases[3])
  <2>1. Right("R004", Case({"select", "limit"}, FALSE))
    BY <1>1
  <2> QED BY <2>1 DEF LimitCases
<1>5. Right("R004", LimitCases[4])
  <2>1. Right("R004", Case({"select", "aggregate"}, FALSE))
    BY <1>1
  <2> QED BY <2>1 DEF LimitCases
<1>6. Len(LimitCases) = 4
  BY DEF LimitCases
<1>7. \A i \in 1..4 : i = 1 \/ i = 2 \/ i = 3 \/ i = 4
  OBVIOUS
<1> QED BY <1>2, <1>3, <1>4, <1>5, <1>6, <1>7, Zenon

(* Pieces put one after another, as the code adds them to a list.          *)
Added(pieces, n, g) ==
  g = [i \in 0..n |-> IF i = 0 THEN << >> ELSE g[i - 1] \o pieces[i]]

LEMMA AddedExists ==
  ASSUME NEW pieces, NEW n \in Nat
  PROVE  \E g : Added(pieces, n, g)
<1> DEFINE P == {k \in 0..n : \E g : Added(pieces, k, g)}
<1>1. 0 \in P
  <2> DEFINE g == [i \in 0..0 |-> << >>]
  <2>1. /\ g = [i \in 0..0 |-> g[i]]
        /\ \A i \in 0..0 : g[i] = IF i = 0 THEN << >> ELSE g[i - 1] \o pieces[i]
    OBVIOUS
  <2> HIDE DEF g
  <2>2. Added(pieces, 0, g)
    BY <2>1 DEF Added
  <2> QED BY <2>2
<1>2. ASSUME NEW k \in 0..(n - 1), k \in P PROVE k + 1 \in P
  <2>1. PICK g : Added(pieces, k, g)
    BY <1>2
  <2> DEFINE last == g[k] \o pieces[k + 1]
             h == [i \in 0..(k + 1) |-> IF i <= k THEN g[i] ELSE last]
  <2>2. \A i \in 0..k : g[i] = IF i = 0 THEN << >> ELSE g[i - 1] \o pieces[i]
    BY <2>1 DEF Added
  <2>3. /\ h = [i \in 0..(k + 1) |-> h[i]]
        /\ \A i \in 0..k : h[i] = g[i]
        /\ h[k + 1] = last
    <3> HIDE DEF last
    <3> QED OBVIOUS
  <2> HIDE DEF h
  <2>4. h[k + 1] = h[k] \o pieces[k + 1]
    <3>1. k \in 0..k
      OBVIOUS
    <3>2. h[k] = g[k]
      BY <2>3, <3>1, Zenon
    <3> QED BY <2>3, <3>2, Zenon
  <2>5. ASSUME NEW i \in 0..(k + 1)
        PROVE  h[i] = IF i = 0 THEN << >> ELSE h[i - 1] \o pieces[i]
    <3>1. CASE i = 0
      <4>1. 0 \in 0..k
        OBVIOUS
      <4> QED BY <2>2, <2>3, <3>1, <4>1, Zenon
    <3>2. CASE i \in 1..k
      <4>1. i \in 0..k /\ i - 1 \in 0..k /\ i # 0
        BY <3>2
      <4> QED BY <2>2, <2>3, <4>1, Zenon
    <3>3. CASE i = k + 1
      <4>1. i # 0 /\ i - 1 = k
        BY <3>3
      <4> QED BY <2>4, <3>3, <4>1, Zenon
    <3>4. i = 0 \/ i \in 1..k \/ i = k + 1
      OBVIOUS
    <3> QED BY <3>1, <3>2, <3>3, <3>4
  <2>6. Added(pieces, k + 1, h)
    BY <2>3, <2>5 DEF Added
  <2> QED BY <2>6
<1> HIDE DEF P
<1>3. 0..n \subseteq P
  BY <1>1, <1>2, InductionUpTo
<1> QED BY <1>3 DEF P

(* The judge of two phases: what its context makes of the findings.        *)
LEMMA TriageAdds ==
  ASSUME NEW q, NEW findings, Len(findings) \in Nat
  PROVE  \E kept :
           /\ kept[0] = << >>
           /\ \A i \in 1..Len(findings) : kept[i] = kept[i - 1] \o Triaged(q, findings[i])
           /\ phase2_triage(q, findings) =
                kept[Len(findings)]
                \o If("permissions" \in q /\ "DIRECT_SENSITIVE" \notin ClassesOf(kept[Len(findings)]),
                      Flag("DIRECT_SENSITIVE", 7))
<1> DEFINE n == Len(findings)
           pieces == [i \in 1..n |-> Triaged(q, findings[i])]
           Kept(g) == g = [i \in 0..n |->
                             IF i = 0 THEN << >> ELSE g[i - 1] \o Triaged(q, findings[i])]
           kept == CHOOSE g : Kept(g)
<1>1. PICK g : Added(pieces, n, g)
  BY AddedExists
<1>2. Kept(g)
  <2>1. \A i \in 0..n : i # 0 => pieces[i] = Triaged(q, findings[i])
    OBVIOUS
  <2> HIDE DEF pieces, n
  <2>2. g = [i \in 0..n |-> IF i = 0 THEN << >> ELSE g[i - 1] \o pieces[i]]
    BY <1>1 DEF Added
  <2>3. \A i \in 0..n : (IF i = 0 THEN << >> ELSE g[i - 1] \o pieces[i])
                          = (IF i = 0 THEN << >> ELSE g[i - 1] \o Triaged(q, findings[i]))
    BY <2>1, Zenon
  <2> QED BY <2>2, <2>3
<1>3. Kept(kept)
  BY <1>2, Zenon
<1>4. phase2_triage(q, findings) =
        kept[n]
        \o If("permissions" \in q /\ "DIRECT_SENSITIVE" \notin ClassesOf(kept[n]),
              Flag("DIRECT_SENSITIVE", 7))
  BY Zenon DEF phase2_triage
<1> HIDE DEF kept
<1>5. kept[0] = << >>
  BY <1>3
<1>6. ASSUME NEW i \in 1..n PROVE kept[i] = kept[i - 1] \o Triaged(q, findings[i])
  <2>1. i \in 0..n /\ i # 0
    OBVIOUS
  <2>2. kept[i] = IF i = 0 THEN << >> ELSE kept[i - 1] \o Triaged(q, findings[i])
    BY <1>3, <2>1, Zenon
  <2> QED BY <2>1, <2>2, Zenon
<1> QED BY <1>4, <1>5, <1>6, Zenon

LEMMA NothingTriaged ==
  ASSUME NEW q
  PROVE  phase2_triage(q, << >>) = If("permissions" \in q, Flag("DIRECT_SENSITIVE", 7))
<1> DEFINE none == << >>
           more == If("permissions" \in q, Flag("DIRECT_SENSITIVE", 7))
<1>1. Len(none) = 0
  OBVIOUS
<1>2. PICK kept :
        /\ kept[0] = << >>
        /\ phase2_triage(q, none) =
             kept[Len(none)]
             \o If("permissions" \in q /\ "DIRECT_SENSITIVE" \notin ClassesOf(kept[Len(none)]),
                   Flag("DIRECT_SENSITIVE", 7))
  <2> HIDE DEF none
  <2>1. Len(none) \in Nat
    BY <1>1
  <2> QED BY <2>1, TriageAdds, Zenon
<1>3. "DIRECT_SENSITIVE" \notin ClassesOf(<< >>)
  BY DEF ClassesOf
<1>4. phase2_triage(q, none) = << >> \o more
  <2>1. If("permissions" \in q /\ "DIRECT_SENSITIVE" \notin ClassesOf(<< >>),
           Flag("DIRECT_SENSITIVE", 7)) = more
    BY <1>3 DEF If
  <2> HIDE DEF more
  <2> QED BY <1>1, <1>2, <2>1, Zenon
<1>5. << >> \o more = more
  <2> DEFINE x == [class |-> "DIRECT_SENSITIVE", risk |-> 7]
  <2>1. more = << x >> \/ more = << >>
    BY DEF If, Flag
  <2> HIDE DEF x, more
  <2>2. << >> \o << x >> = << x >> /\ << >> \o << >> = << >>
    OBVIOUS
  <2> QED BY <2>1, <2>2, Zenon
<1> QED BY <1>4, <1>5

LEMMA ShortOnes ==
  /\ << >> \o << >> = << >>
  /\ \A a : << a >> \o << >> = << a >> /\ << >> \o << a >> = << a >>
  /\ \A a, b : << a >> \o << b >> = << a, b >> /\ << a, b >> \o << >> = << a, b >>
  /\ \A a, b : << a >> # << >> /\ << a, b >> # << >>
<1>1. ASSUME NEW a, NEW b
      PROVE  /\ << a >> \o << >> = << a >> /\ << >> \o << a >> = << a >>
             /\ << a >> \o << b >> = << a, b >> /\ << a, b >> \o << >> = << a, b >>
             /\ << a >> # << >> /\ << a, b >> # << >>
  <2> DEFINE S == {a, b}
  <2>1. a \in S /\ b \in S
    OBVIOUS
  <2> HIDE DEF S
  <2>2. /\ << a >> \in Seq(S) /\ << b >> \in Seq(S) /\ << a, b >> \in Seq(S)
        /\ << >> \in Seq(S)
    BY <2>1
  <2>3. << a >> \o << >> = << a >> /\ << >> \o << a >> = << a >>
    BY <2>2
  <2>4. << a >> \o << b >> = << a, b >> /\ << a, b >> \o << >> = << a, b >>
    <3>1. \A s \in Seq(S) : Len(s) = 2 => s = << s[1], s[2] >>
      OBVIOUS
    <3> DEFINE c == << a >> \o << b >>
               d == << a, b >> \o << >>
    <3>2. c \in Seq(S) /\ Len(c) = 2 /\ c[1] = a /\ c[2] = b
      BY <2>2
    <3>3. d \in Seq(S) /\ Len(d) = 2 /\ d[1] = a /\ d[2] = b
      BY <2>2
    <3> HIDE DEF c, d
    <3>4. c = << a, b >> /\ d = << a, b >>
      <4>1. c = << c[1], c[2] >> /\ d = << d[1], d[2] >>
        BY <3>1, <3>2, <3>3, Zenon
      <4> QED BY <3>2, <3>3, <4>1, Zenon
    <3> QED BY <3>4 DEF c, d
  <2>5. << a >> # << >> /\ << a, b >> # << >>
    OBVIOUS
  <2> QED BY <2>3, <2>4, <2>5
<1>2. << >> \o << >> = << >>
  OBVIOUS
<1> QED BY <1>1, <1>2, Zenon

(* build_part5.py's hybrid judge is right about its four cases.            *)
LEMMA HybridIsRight ==
  /\ Len(CASES) = 4
  /\ \A i \in 1..4 : Right("C", CASES[i])
<1> DEFINE Time == [class |-> "SQL_INJ_TIME", risk |-> 8]
           Password == [class |-> "DIRECT_SENSITIVE", risk |-> 7]
<1>1. \A q, t : /\ Case(q, t).sql = q /\ Case(q, t).truth = t
                /\ Verdict("C", q, 0) = (judge_C_hybrid(q) # << >>)
  BY DEF Case, Verdict, FindingsOf
<1>2. ASSUME NEW q
      PROVE  judge_A_rules_only(q) =
               If("pg_sleep" \in q, << Time >>)
               \o If(q \cap {"update", "delete"} # {} /\ "where" \notin q, Flag("DML_NO_WHERE", 9))
               \o If("star" \in q, Flag("SELECT_STAR", 5))
               \o If("password" \in q, << Password >>)
  BY Zenon DEF judge_A_rules_only, Flag
<1>3. judge_C_hybrid({"pg_sleep", "migration"}) = << >>
  <2> DEFINE q == {"pg_sleep", "migration"}
             f == << Time >>
  <2>1. judge_A_rules_only(q) = f
    <3>1. /\ If("pg_sleep" \in q, << Time >>) = f
          /\ If(q \cap {"update", "delete"} # {} /\ "where" \notin q, Flag("DML_NO_WHERE", 9)) = << >>
          /\ If("star" \in q, Flag("SELECT_STAR", 5)) = << >>
          /\ If("password" \in q, << Password >>) = << >>
      BY DEF If
    <3> HIDE DEF q, Time, Password
    <3> QED BY <1>2, <3>1, ShortOnes, Zenon
  <2>2. Len(f) = 1 /\ f[1] = Time
    <3> HIDE DEF Time
    <3> QED OBVIOUS
  <2>3. Triaged(q, Time) = << >>
    BY DEF Triaged, If
  <2>4. PICK kept :
          /\ kept[0] = << >>
          /\ \A i \in 1..Len(f) : kept[i] = kept[i - 1] \o Triaged(q, f[i])
          /\ phase2_triage(q, f) =
               kept[Len(f)]
               \o If("permissions" \in q /\ "DIRECT_SENSITIVE" \notin ClassesOf(kept[Len(f)]),
                     Flag("DIRECT_SENSITIVE", 7))
    <3> HIDE DEF f, q
    <3>1. Len(f) \in Nat
      BY <2>2
    <3> QED BY <3>1, TriageAdds, Zenon
  <2>5. If("permissions" \in q /\ "DIRECT_SENSITIVE" \notin ClassesOf(kept[Len(f)]),
           Flag("DIRECT_SENSITIVE", 7)) = << >>
    BY DEF If
  <2> HIDE DEF f, q, Time
  <2>6. kept[1] = << >>
    <3>1. 1 \in 1..1 /\ 1 - 1 = 0
      OBVIOUS
    <3> QED BY <2>2, <2>3, <2>4, <3>1, ShortOnes, Zenon
  <2>7. phase2_triage(q, f) = << >>
    BY <2>2, <2>4, <2>5, <2>6, ShortOnes, Zenon
  <2>8. judge_C_hybrid(q) = << >>
    BY <2>1, <2>7, Zenon DEF judge_C_hybrid
  <2> QED BY <2>8 DEF q
<1>4. judge_C_hybrid({"update", "where", "pg_sleep", "case_when", "password"}) # << >>
  <2> DEFINE q == {"update", "where", "pg_sleep", "case_when", "password"}
             f == << Time, Password >>
             Worse == [Time EXCEPT !.risk = 9]
  <2>1. judge_A_rules_only(q) = f
    <3>1. /\ If("pg_sleep" \in q, << Time >>) = << Time >>
          /\ If(q \cap {"update", "delete"} # {} /\ "where" \notin q, Flag("DML_NO_WHERE", 9)) = << >>
          /\ If("star" \in q, Flag("SELECT_STAR", 5)) = << >>
          /\ If("password" \in q, << Password >>) = << Password >>
      BY DEF If
    <3> HIDE DEF q, Time, Password
    <3>2. /\ << Time >> \o << >> = << Time >>
          /\ << Time >> \o << Password >> = << Time, Password >>
      BY ShortOnes, Zenon
    <3>3. judge_A_rules_only(q) = << Time >> \o << >> \o << >> \o << Password >>
      BY <1>2, <3>1, Zenon
    <3> QED BY <3>2, <3>3, Zenon
  <2>2. Len(f) = 2 /\ f[1] = Time /\ f[2] = Password
    <3> HIDE DEF Time, Password
    <3> QED OBVIOUS
  <2>3. Triaged(q, Time) = << Worse >> /\ Triaged(q, Password) = << Password >>
    BY DEF Triaged, If
  <2>4. PICK kept :
          /\ kept[0] = << >>
          /\ \A i \in 1..Len(f) : kept[i] = kept[i - 1] \o Triaged(q, f[i])
          /\ phase2_triage(q, f) =
               kept[Len(f)]
               \o If("permissions" \in q /\ "DIRECT_SENSITIVE" \notin ClassesOf(kept[Len(f)]),
                     Flag("DIRECT_SENSITIVE", 7))
    <3> HIDE DEF f, q
    <3>1. Len(f) \in Nat
      BY <2>2
    <3> QED BY <3>1, TriageAdds, Zenon
  <2>5. If("permissions" \in q /\ "DIRECT_SENSITIVE" \notin ClassesOf(kept[Len(f)]),
           Flag("DIRECT_SENSITIVE", 7)) = << >>
    BY DEF If
  <2> HIDE DEF f, q, Time, Password, Worse
  <2>6. kept[1] = << Worse >>
    <3>1. 1 \in 1..2 /\ 1 - 1 = 0
      OBVIOUS
    <3>2. kept[1] = kept[0] \o << Worse >>
      BY <2>2, <2>3, <2>4, <3>1, Zenon
    <3>3. << >> \o << Worse >> = << Worse >>
      BY ShortOnes, Zenon
    <3> QED BY <2>4, <3>2, <3>3, Zenon
  <2>7. kept[2] = << Worse, Password >>
    <3>1. 2 \in 1..2 /\ 2 - 1 = 1
      OBVIOUS
    <3>2. kept[2] = kept[1] \o << Password >>
      BY <2>2, <2>3, <2>4, <3>1, Zenon
    <3>3. << Worse >> \o << Password >> = << Worse, Password >>
      BY ShortOnes, Zenon
    <3> QED BY <2>6, <3>2, <3>3, Zenon
  <2>8. phase2_triage(q, f) # << >>
    <3>1. phase2_triage(q, f) = << Worse, Password >> \o << >>
      BY <2>2, <2>4, <2>5, <2>7, Zenon
    <3>2. << Worse, Password >> \o << >> # << >>
      <4>1. /\ << Worse, Password >> \o << >> = << Worse, Password >>
            /\ << Worse, Password >> # << >>
        BY ShortOnes, Zenon
      <4> QED BY <4>1, Zenon
    <3> QED BY <3>1, <3>2, Zenon
  <2>9. judge_C_hybrid(q) # << >>
    BY <2>1, <2>8, Zenon DEF judge_C_hybrid
  <2> QED BY <2>9 DEF q
<1>5. ASSUME NEW q,
             If("pg_sleep" \in q, << Time >>) = << >>,
             If(q \cap {"update", "delete"} # {} /\ "where" \notin q, Flag("DML_NO_WHERE", 9)) = << >>,
             If("star" \in q, Flag("SELECT_STAR", 5)) = << >>,
             If("password" \in q, << Password >>) = << >>
      PROVE  judge_C_hybrid(q) = If("permissions" \in q, Flag("DIRECT_SENSITIVE", 7))
  <2> HIDE DEF Time, Password
  <2>1. judge_A_rules_only(q) = << >>
    BY <1>2, <1>5, ShortOnes, Zenon
  <2> QED BY <2>1, NothingTriaged, Zenon DEF judge_C_hybrid
<1>6. judge_C_hybrid({"select", "permissions"}) # << >>
  <2> DEFINE q == {"select", "permissions"}
  <2>1. /\ If("pg_sleep" \in q, << Time >>) = << >>
        /\ If(q \cap {"update", "delete"} # {} /\ "where" \notin q, Flag("DML_NO_WHERE", 9)) = << >>
        /\ If("star" \in q, Flag("SELECT_STAR", 5)) = << >>
        /\ If("password" \in q, << Password >>) = << >>
    BY DEF If
  <2>2. If("permissions" \in q, Flag("DIRECT_SENSITIVE", 7)) # << >>
    BY DEF If, Flag
  <2>3. judge_C_hybrid(q) # << >>
    <3> HIDE DEF q, Time, Password
    <3> QED BY <1>5, <2>1, <2>2, Zenon
  <2> QED BY <2>3
<1>7. judge_C_hybrid({"select", "aggregate", "where"}) = << >>
  <2> DEFINE q == {"select", "aggregate", "where"}
  <2>1. /\ If("pg_sleep" \in q, << Time >>) = << >>
        /\ If(q \cap {"update", "delete"} # {} /\ "where" \notin q, Flag("DML_NO_WHERE", 9)) = << >>
        /\ If("star" \in q, Flag("SELECT_STAR", 5)) = << >>
        /\ If("password" \in q, << Password >>) = << >>
    BY DEF If
  <2>2. If("permissions" \in q, Flag("DIRECT_SENSITIVE", 7)) = << >>
    BY DEF If
  <2>3. judge_C_hybrid(q) = << >>
    <3> HIDE DEF q, Time, Password
    <3> QED BY <1>5, <2>1, <2>2, Zenon
  <2> QED BY <2>3
<1>8. ASSUME NEW q, NEW t \in BOOLEAN, t <=> judge_C_hybrid(q) # << >>
      PROVE  Right("C", Case(q, t))
  <2> DEFINE h == judge_C_hybrid(q)
  <2>1. /\ Case(q, t).sql = q /\ Case(q, t).truth = t
        /\ Verdict("C", q, 0) = (h # << >>)
    BY <1>1, Zenon
  <2>2. t <=> h # << >>
    BY <1>8
  <2> HIDE DEF h
  <2> QED BY <2>1, <2>2 DEF Right
<1>9. /\ Right("C", Case({"pg_sleep", "migration"}, FALSE))
      /\ Right("C", Case({"update", "where", "pg_sleep", "case_when", "password"}, TRUE))
      /\ Right("C", Case({"select", "permissions"}, TRUE))
      /\ Right("C", Case({"select", "aggregate", "where"}, FALSE))
  <2>1. TRUE \in BOOLEAN /\ FALSE \in BOOLEAN
    OBVIOUS
  <2> QED BY <1>3, <1>4, <1>6, <1>7, <1>8, <2>1, Zenon
<1>10. Right("C", CASES[1]) /\ Right("C", CASES[2]) /\ Right("C", CASES[3]) /\ Right("C", CASES[4])
  <2>1. /\ CASES[1] = Case({"pg_sleep", "migration"}, FALSE)
        /\ CASES[2] = Case({"update", "where", "pg_sleep", "case_when", "password"}, TRUE)
        /\ CASES[3] = Case({"select", "permissions"}, TRUE)
        /\ CASES[4] = Case({"select", "aggregate", "where"}, FALSE)
    BY DEF CASES
  <2> QED BY <1>9, <2>1, Zenon
<1>11. Len(CASES) = 4
  BY DEF CASES
<1>12. \A i \in 1..4 : i = 1 \/ i = 2 \/ i = 3 \/ i = 4
  OBVIOUS
<1> QED BY <1>10, <1>11, <1>12, Zenon

Praised == {"notebook", "R002", "R004", "C"}

LEMMA PraisedAreRight ==
  ASSUME NEW e \in DOMAIN Exams, Exams[e].judge \in Praised
  PROVE  /\ Len(Exams[e].cases) \in Nat \ {0}
         /\ \A i \in 1..Len(Exams[e].cases) : Right(Exams[e].judge, Exams[e].cases[i])
<1>1. DOMAIN Exams = 1..6
  BY DEF Exams
<1>2. /\ Exams[1] = [judge |-> "notebook", cases |-> CardCases]
      /\ Exams[2] = [judge |-> "R002", cases |-> DmlCases]
      /\ Exams[3] = [judge |-> "R004", cases |-> LimitCases]
      /\ Exams[4].judge = "A" /\ Exams[5].judge = "B"
      /\ Exams[6] = [judge |-> "C", cases |-> CASES]
  BY DEF Exams
<1>3. CASE e = 1
  <2>1. Exams[e].judge = "notebook" /\ Exams[e].cases = CardCases
    BY <1>2, <1>3
  <2> QED BY <2>1, CardsAreJudged
<1>4. CASE e = 2
  <2>1. Exams[e].judge = "R002" /\ Exams[e].cases = DmlCases
    BY <1>2, <1>4
  <2> QED BY <2>1, DmlIsJudged
<1>5. CASE e = 3
  <2>1. Exams[e].judge = "R004" /\ Exams[e].cases = LimitCases
    BY <1>2, <1>5
  <2> QED BY <2>1, LimitIsJudged
<1>6. CASE e = 6
  <2>1. Exams[e].judge = "C" /\ Exams[e].cases = CASES
    BY <1>2, <1>6
  <2> QED BY <2>1, HybridIsRight
<1>7. e # 4 /\ e # 5
  BY <1>2 DEF Praised
<1>8. e = 1 \/ e = 2 \/ e = 3 \/ e = 4 \/ e = 5 \/ e = 6
  BY <1>1
<1> QED BY <1>3, <1>4, <1>5, <1>6, <1>7, <1>8

(* So far every verdict of a praised judge is the truth, and a case is     *)
(* left as long as the measurement runs.                                   *)
IsPraised == program = "exam" /\ Exams[setup].judge \in Praised

ExamInv ==
  /\ program = "exam" => setup \in DOMAIN Exams /\ stage # "asking"
  /\ IsSeq(verdicts)
  /\ IsPraised =>
       /\ \A i \in 1..Len(verdicts) : verdicts[i] = Exams[setup].cases[i].truth
       /\ stage = "running" => Len(verdicts) < Len(Exams[setup].cases)

LEMMA ExamineKeeps ==
  ASSUME ExamInv, Examine
  PROVE  ExamInv'
<1> DEFINE name == Exams[setup].judge
           cases == Exams[setup].cases
           n == Len(verdicts)
<1>1. /\ program = "exam" /\ setup \in DOMAIN Exams /\ IsSeq(verdicts) /\ stage = "running"
      /\ program' = program /\ setup' = setup
  BY DEF ExamInv, Examine
<1>2. PICK noise \in IF name = "B" THEN Noise ELSE {0} :
        verdicts' = Append(verdicts, Verdict(name, cases[n + 1].sql, noise))
  BY DEF Examine
<1>3. stage' = IF n + 1 = Len(cases) THEN "done" ELSE "running"
  BY DEF Examine
<1> DEFINE x == Verdict(name, cases[n + 1].sql, noise)
<1>4. /\ IsSeq(verdicts') /\ n \in Nat /\ Len(verdicts') = n + 1
      /\ verdicts'[n + 1] = x /\ \A i \in 1..n : verdicts'[i] = verdicts[i]
  <2> HIDE DEF x, n
  <2>1. verdicts' = Append(verdicts, x)
    BY <1>2 DEF x, n
  <2> QED BY <1>1, <2>1, AppendIsSeq DEF n
<1>5. ASSUME IsPraised
      PROVE  /\ \A i \in 1..(n + 1) : verdicts'[i] = cases[i].truth
             /\ stage' = "running" => n + 1 < Len(cases)
  <2>1. name \in Praised /\ noise = 0
    BY <1>2, <1>5 DEF IsPraised, Praised
  <2>2. /\ Len(cases) \in Nat \ {0}
        /\ \A i \in 1..Len(cases) : Right(name, cases[i])
    BY <1>1, <2>1, PraisedAreRight
  <2>3. /\ \A i \in 1..n : verdicts[i] = cases[i].truth
        /\ n < Len(cases)
    BY <1>1, <1>5 DEF ExamInv
  <2> HIDE DEF name, cases, n
  <2>4. n + 1 \in 1..Len(cases)
    BY <1>4, <2>2, <2>3
  <2>5. x = cases[n + 1].truth
    BY <2>1, <2>2, <2>4 DEF Right
  <2>6. \A i \in 1..(n + 1) : i \in 1..n \/ i = n + 1
    BY <1>4
  <2> HIDE DEF x
  <2>7. \A i \in 1..(n + 1) : verdicts'[i] = cases[i].truth
    BY <1>4, <2>3, <2>5, <2>6, Zenon
  <2>8. stage' = "running" => n + 1 # Len(cases)
    BY <1>3
  <2>9. stage' = "running" => n + 1 < Len(cases)
    BY <1>4, <2>2, <2>3, <2>8
  <2> QED BY <2>7, <2>9
<1>6. IsPraised' = IsPraised
  BY <1>1 DEF IsPraised
<1> HIDE DEF x
<1>7. IsPraised' =>
        /\ \A i \in 1..Len(verdicts') : verdicts'[i] = Exams[setup'].cases[i].truth
        /\ stage' = "running" => Len(verdicts') < Len(Exams[setup'].cases)
  <2>1. Exams[setup'].cases = cases /\ Len(verdicts') = n + 1
    BY <1>1, <1>4
  <2> HIDE DEF cases, n
  <2> QED BY <1>5, <1>6, <2>1, Zenon
<1>8. program' = "exam" => setup' \in DOMAIN Exams /\ stage' # "asking"
  <2>1. stage' # "asking"
    BY <1>3
  <2> QED BY <1>1, <2>1
<1> QED BY <1>4, <1>7, <1>8 DEF ExamInv

LEMMA ExamInductive == Spec => []ExamInv
<1>1. Init => ExamInv
  <2> SUFFICES ASSUME Init PROVE ExamInv
    OBVIOUS
  <2>1. program = "exam" => setup \in DOMAIN Exams /\ stage # "asking"
    BY DEF Init, Setups
  <2>2. verdicts = << >> /\ IsSeq(verdicts) /\ Len(verdicts) = 0
    <3>1. << >> \in Seq({})
      OBVIOUS
    <3> QED BY <3>1 DEF Init, IsSeq
  <2>3. ASSUME IsPraised
        PROVE  /\ \A i \in 1..Len(verdicts) : verdicts[i] = Exams[setup].cases[i].truth
               /\ Len(verdicts) < Len(Exams[setup].cases)
    <3>1. Len(Exams[setup].cases) \in Nat \ {0}
      BY <2>1, <2>3, PraisedAreRight DEF IsPraised
    <3>2. \A i \in 1..Len(verdicts) : FALSE
      BY <2>2
    <3> QED BY <2>2, <3>1, <3>2
  <2> QED BY <2>1, <2>2, <2>3 DEF ExamInv
<1>2. ASSUME ExamInv, [Next]_vars PROVE ExamInv'
  <2>1. CASE Examine
    BY <1>2, <2>1, ExamineKeeps
  <2>2. CASE ~Examine
    <3>1. program' = program /\ setup' = setup /\ verdicts' = verdicts
      BY <1>2, <2>2 DEF Next, Loop, Spend, NextPage, Serving, vars
    <3>2. program = "exam" => stage' = stage
      <4>1. program = "exam" => ~Ask
        BY <1>2 DEF Ask, ExamInv
      <4> QED BY <1>2, <2>2, <4>1 DEF Next, Loop, Write, WriteRaises, Judge, Spend, NextPage,
                                      Serving, vars, OnPipeline, Loops
    <3> QED BY <1>2, <3>1, <3>2 DEF ExamInv, IsPraised
  <2> QED BY <2>1, <2>2
<1> QED BY <1>1, <1>2, PTL DEF Spec

LEMMA TruthIsCounted == ExamInv => JudgesMeetTheirGoals
<1> SUFFICES ASSUME ExamInv, IsPraised PROVE Misses = 0 /\ FalseAlarms = 0
  BY DEF IsPraised, JudgesMeetTheirGoals, Praised
<1>1. \A i \in DOMAIN verdicts : verdicts[i] = Exams[setup].cases[i].truth
  <2>1. DOMAIN verdicts = 1..Len(verdicts)
    BY DEF ExamInv, IsSeq
  <2> QED BY <2>1 DEF ExamInv
<1>2. {i \in DOMAIN verdicts : verdicts[i] = FALSE /\ Exams[setup].cases[i].truth = TRUE} = {}
  BY <1>1
<1>3. {i \in DOMAIN verdicts : verdicts[i] = TRUE /\ Exams[setup].cases[i].truth = FALSE} = {}
  BY <1>1
<1>4. Cardinality({}) = 0
  BY FS_EmptySet
<1> QED BY <1>2, <1>3, <1>4, Zenon DEF Misses, FalseAlarms, Counted

(* What the notebooks say they show, they show: the judges they praise are *)
(* right about every case they are shown (colab_pipeline.ipynb:857-878,    *)
(* build_part5.py:184-252), the budget is kept and the pages show every    *)
(* order once.                                                             *)
THEOREM NotebooksAreRight == Spec => []NotebooksKeepTheirWord
<1>1. Spec => []JudgesMeetTheirGoals
  BY ExamInductive, TruthIsCounted, PTL
<1> QED BY <1>1, BudgetIsAlwaysKept, PagesAlwaysFollow, PTL DEF NotebooksKeepTheirWord
-----------------------------------------------------------------------------
(* The loops.  The first text of every model that is told nothing shows a  *)
(* whole table: its star and its missing limit are found, in this order.   *)
STAR == [class |-> "SELECT_STAR", risk |-> 5]
ALL == [class |-> "NO_PAGINATION", risk |-> 4]
Sloppy == << STAR, ALL >>
Lesson2 == << "SELECT_STAR", "NO_PAGINATION" >>

LEMMA NothingMore ==
  /\ << STAR >> \o << ALL >> = Sloppy
  /\ Sloppy \o << >> = Sloppy
  /\ << STAR >> \o << >> = << STAR >>
  /\ << >> \o << >> = << >>
BY ShortOnes, Zenon DEF Sloppy

LEMMA PipelineFinds ==
  /\ RunPhase1(DIRTY, {}) = Sloppy
  /\ RunPhase1(CLEAN, {}) = << >>
<1> DEFINE Rest(q) ==
      /\ RuleDmlNoWhere(q) = << >> /\ RuleSlowQuery(q) = << >> /\ RuleUnion(q) = << >>
      /\ RulePgSleep(q) = << >> /\ RuleSecurityDefiner(q) = << >> /\ RulePlpgsqlConcat(q) = << >>
      /\ RuleInjectionMarker(q) = << >> /\ RuleSensitiveColumns(q) = << >>
      /\ RuleDdlDestructive(q) = << >> /\ RuleDclGrant(q) = << >> /\ RuleSchemaIntrospect(q) = << >>
      /\ SchemaSensitive(q) = << >> /\ SchemaValidate(q) = << >> /\ AstCheck(q) = << >>
<1>1. ASSUME NEW q, q.head = "select", q.cols = << >>,
             q.marks \subseteq {"keyword", "star", "one_table", "where", "limit"}
      PROVE  Rest(q)
  <2>1. /\ RuleDmlNoWhere(q) = << >> /\ RuleUnion(q) = << >>
        /\ RulePgSleep(q) = << >> /\ RuleSecurityDefiner(q) = << >> /\ RulePlpgsqlConcat(q) = << >>
        /\ RuleInjectionMarker(q) = << >>
        /\ RuleDdlDestructive(q) = << >> /\ RuleDclGrant(q) = << >> /\ RuleSchemaIntrospect(q) = << >>
    BY <1>1 DEF RuleDmlNoWhere, RuleUnion, RulePgSleep, RuleSecurityDefiner, RulePlpgsqlConcat,
                RuleInjectionMarker, RuleDdlDestructive, RuleDclGrant, RuleSchemaIntrospect,
                When, Has
  <2>2. /\ ~Has(q, "comma_from") /\ ~Has(q, "leading_wildcard") /\ ~Has(q, "func_in_where")
        /\ ~Has(q, "deep_offset") /\ ~Has(q, "pii_table") /\ ~Has(q, "comment_pii")
        /\ ~Has(q, "unknown_table") /\ ~Has(q, "unknown_column") /\ ~Has(q, "unparsable")
        /\ ~Has(q, "join_no_on") /\ ~Has(q, "subquery_no_limit") /\ ~Has(q, "pii_literal")
    BY <1>1 DEF Has
  <2>3. RuleSlowQuery(q) = << >> \o << >> \o << >> \o << >>
    BY <2>2, Zenon DEF RuleSlowQuery, When
  <2>4. /\ SchemaSensitive(q) = << >> \o << >> /\ SchemaValidate(q) = << >> \o << >>
        /\ AstCheck(q) = << >> \o << >>
    BY <2>2, Zenon DEF SchemaSensitive, SchemaValidate, AstCheck, When
  <2>5. RuleSensitiveColumns(q) = << >> \o << >>
    <3>1. [i \in 1..Len(q.cols) |->
             [class |-> "DIRECT_SENSITIVE", risk |-> ColumnRisk[q.cols[i]]]] = << >>
      BY <1>1
    <3> QED BY <2>2, <3>1, Zenon DEF RuleSensitiveColumns, When
  <2> QED BY <2>1, <2>3, <2>4, <2>5, NothingMore
<1>2. Rest(DIRTY) /\ RuleSelectStar(DIRTY) = << STAR >> /\ RuleNoLimit(DIRTY) = << ALL >>
  <2>1. Rest(DIRTY)
    <3> HIDE DEF Rest
    <3> QED BY <1>1 DEF DIRTY, Has
  <2>2. RuleSelectStar(DIRTY) = << STAR >> /\ RuleNoLimit(DIRTY) = << ALL >>
    BY DEF RuleSelectStar, RuleNoLimit, When, Found, Has, DIRTY, STAR, ALL
  <2> QED BY <2>1, <2>2
<1>3. Rest(CLEAN) /\ RuleSelectStar(CLEAN) = << >> /\ RuleNoLimit(CLEAN) = << >>
  <2>1. Rest(CLEAN)
    <3> HIDE DEF Rest
    <3> QED BY <1>1 DEF CLEAN, Has
  <2>2. RuleSelectStar(CLEAN) = << >> /\ RuleNoLimit(CLEAN) = << >>
    BY DEF RuleSelectStar, RuleNoLimit, When, Has, CLEAN
  <2> QED BY <2>1, <2>2
<1>4. \A q : Rest(q) =>
        RunPhase1(q, {}) =
          RuleSelectStar(q) \o << >> \o RuleNoLimit(q) \o << >> \o << >> \o << >> \o << >>
          \o << >> \o << >> \o << >> \o << >> \o << >> \o << >> \o << >> \o << >> \o << >>
  BY DEF RunPhase1, PHASE1_RULES, When
<1> HIDE DEF Rest
<1>5. RunPhase1(DIRTY, {}) = Sloppy
  <2>1. RunPhase1(DIRTY, {}) =
          << STAR >> \o << >> \o << ALL >> \o << >> \o << >> \o << >> \o << >>
          \o << >> \o << >> \o << >> \o << >> \o << >> \o << >> \o << >> \o << >> \o << >>
    BY <1>2, <1>4, Zenon
  <2> QED BY <2>1, NothingMore, Zenon
<1>6. RunPhase1(CLEAN, {}) = << >>
  <2>1. RunPhase1(CLEAN, {}) =
          << >> \o << >> \o << >> \o << >> \o << >> \o << >> \o << >>
          \o << >> \o << >> \o << >> \o << >> \o << >> \o << >> \o << >> \o << >> \o << >>
    BY <1>3, <1>4, Zenon
  <2> QED BY <2>1, NothingMore, Zenon
<1> QED BY <1>5, <1>6

LEMMA NotebookFinds ==
  /\ judge({"select", "star"}) = Sloppy
  /\ judge({"select", "where", "limit"}) = << >>
<1> DEFINE q == {"select", "star"}
<1>1. /\ rule_select_star(q) = << STAR >> /\ rule_no_limit(q) = << ALL >>
      /\ rule_dml_no_where(q) = << >> /\ rule_sqli_classic(q) = << >> /\ rule_union(q) = << >>
      /\ rule_pg_sleep(q) = << >> /\ rule_sensitive(q) = << >>
  BY DEF rule_select_star, rule_no_limit, rule_dml_no_where, rule_sqli_classic, rule_union,
         rule_pg_sleep, rule_sensitive, If, Flag, STAR, ALL
<1>2. judge(q) = << STAR >> \o << >> \o << ALL >> \o << >> \o << >> \o << >> \o << >>
  <2> HIDE DEF q
  <2> QED BY <1>1, Zenon DEF judge, RULES
<1>3. judge(q) = Sloppy
  <2> HIDE DEF q
  <2> QED BY <1>2, NothingMore, Zenon
<1>4. ~Accused({"select", "where", "limit"})
  BY DEF Accused
<1> QED BY <1>3, <1>4, NotebookAccuses

LEMMA MockFinds ==
  /\ mock_judge({"select", "star"}) = Sloppy
  /\ \A q : /\ "star" \notin q /\ q \cap {"update", "delete"} = {} /\ "limit" \in q
            => mock_judge(q) = << >>
<1> DEFINE sloppy == {"select", "star"}
<1>1. mock_judge(sloppy) = Sloppy
  <2>1. /\ If("star" \in sloppy, Flag("SELECT_STAR", 5)) = << STAR >>
        /\ If(sloppy \cap {"update", "delete"} # {} /\ "where" \notin sloppy, Flag("DML_NO_WHERE", 9)) = << >>
        /\ If("select" \in sloppy /\ sloppy \cap {"limit", "count_star"} = {}, Flag("NO_PAGINATION", 4)) = << ALL >>
    BY DEF If, Flag, STAR, ALL
  <2> HIDE DEF sloppy
  <2>2. mock_judge(sloppy) = << STAR >> \o << >> \o << ALL >>
    BY <2>1, Zenon DEF mock_judge
  <2> QED BY <2>2, NothingMore, Zenon
<1>2. ASSUME NEW q, "star" \notin q, q \cap {"update", "delete"} = {}, "limit" \in q
      PROVE  mock_judge(q) = << >>
  <2>1. /\ If("star" \in q, Flag("SELECT_STAR", 5)) = << >>
        /\ If(q \cap {"update", "delete"} # {} /\ "where" \notin q, Flag("DML_NO_WHERE", 9)) = << >>
        /\ If("select" \in q /\ q \cap {"limit", "count_star"} = {}, Flag("NO_PAGINATION", 4)) = << >>
    BY <1>2 DEF If
  <2>2. mock_judge(q) = << >> \o << >> \o << >>
    BY <2>1, Zenon DEF mock_judge
  <2> QED BY <2>2, NothingMore, Zenon
<1> QED BY <1>1, <1>2, Zenon

LEMMA SloppyIsRejected ==
  /\ ~Audit(Sloppy).approved /\ Audit(<< >>).approved
  /\ ~Passed(Sloppy) /\ Passed(<< >>)
<1>1. /\ Sloppy \in Seq(Accusations) /\ Sloppy # << >>
      /\ << >> \in Seq(Accusations)
  <2> DEFINE A == Accusations
  <2>1. STAR \in A /\ ALL \in A
    BY DEF Accusations, STAR, ALL
  <2> HIDE DEF A
  <2>2. << STAR, ALL >> \in Seq(A) /\ << STAR, ALL >> # << >> /\ << >> \in Seq(A)
    BY <2>1
  <2> QED BY <2>2 DEF A, Sloppy
<1>2. ~Passed(Sloppy) /\ Passed(<< >>)
  BY <1>1, PassedIsEmpty
<1>3. OverallRisk(<< >>) = 0
  <2> DEFINE none == << >>
             R == {0} \cup {none[i].risk : i \in DOMAIN none}
  <2>1. R = {0}
    OBVIOUS
  <2>2. Max({0}) = 0
    BY DEF Max
  <2> QED BY <2>1, <2>2 DEF OverallRisk
<1>4. OverallRisk(Sloppy) = 5
  <2> DEFINE R == {0} \cup {Sloppy[i].risk : i \in DOMAIN Sloppy}
  <2>1. DOMAIN Sloppy = {1, 2} /\ Sloppy[1].risk = 5 /\ Sloppy[2].risk = 4
    BY DEF Sloppy, STAR, ALL
  <2>2. R = {0, 5, 4}
    BY <2>1
  <2>3. Max({0, 5, 4}) = 5
    BY DEF Max
  <2> HIDE DEF R
  <2>4. OverallRisk(Sloppy) = Max(R)
    BY DEF OverallRisk, R
  <2> QED BY <2>2, <2>3, <2>4
<1>5. \A f : Audit(f).approved <=> OverallRisk(f) < 4
  BY Zenon DEF Audit, Approves, RISK_THRESHOLD
<1>6. ~(OverallRisk(Sloppy) < 4) /\ OverallRisk(<< >>) < 4
  BY <1>3, <1>4
<1> QED BY <1>2, <1>5, <1>6, Zenon

(* Two lessons learned at once are both kept, in their order.              *)
LEMMA CombineTwo ==
  ASSUME NEW a, NEW b, a # b
  PROVE  Combine(<< >>, << a, b >>) = << a, b >>
<1> DEFINE new == << a, b >>
           Step(g, i) ==
             IF i = 0 THEN << >>
             ELSE IF new[i] \in RuleIds(g[i - 1]) THEN g[i - 1] ELSE Append(g[i - 1], new[i])
           Unfolded(g) == g = [i \in 0..Len(new) |-> Step(g, i)]
           C == CHOOSE g : Unfolded(g)
<1>1. Len(new) = 2 /\ new[1] = a /\ new[2] = b
  OBVIOUS
<1>2. /\ RuleIds(<< >>) = {} /\ RuleIds(<< a >>) = {a}
      /\ Append(<< >>, a) = << a >> /\ Append(<< a >>, b) = << a, b >>
  <2>1. RuleIds(<< >>) = {} /\ RuleIds(<< a >>) = {a}
    BY DEF RuleIds
  <2> DEFINE S == {a, b}
  <2>2. a \in S /\ b \in S
    OBVIOUS
  <2> HIDE DEF S
  <2> DEFINE c == Append(<< >>, a)
             d == Append(<< a >>, b)
  <2>3. c = << a >>
    <3>1. c \in Seq(S) /\ Len(c) = 1 /\ c[1] = a
      BY <2>2
    <3> HIDE DEF c
    <3> QED BY <3>1
  <2>4. d = << a, b >>
    <3>1. << a >> \in Seq(S)
      BY <2>2
    <3>2. d \in Seq(S) /\ Len(d) = 2 /\ d[1] = a /\ d[2] = b
      BY <2>2, <3>1
    <3> HIDE DEF d
    <3>3. d = << d[1], d[2] >>
      BY <3>2
    <3> QED BY <3>2, <3>3, Zenon
  <2> QED BY <2>1, <2>3, <2>4
<1> HIDE DEF new
<1>3. \E g : Unfolded(g)
  <2> DEFINE g == [i \in 0..2 |-> IF i = 0 THEN << >> ELSE IF i = 1 THEN << a >> ELSE << a, b >>]
  <2>1. /\ g = [i \in 0..2 |-> g[i]]
        /\ g[0] = << >> /\ g[1] = << a >> /\ g[2] = << a, b >>
    OBVIOUS
  <2> HIDE DEF g
  <2>2. g[0] = Step(g, 0)
    BY <2>1
  <2>3. g[1] = Step(g, 1)
    <3>1. 1 # 0 /\ 1 - 1 = 0
      OBVIOUS
    <3> QED BY <1>1, <1>2, <2>1, <3>1, Zenon
  <2>4. g[2] = Step(g, 2)
    <3>1. 2 # 0 /\ 2 - 1 = 1
      OBVIOUS
    <3>2. new[2] \notin RuleIds(g[1])
      BY <1>1, <1>2, <2>1
    <3> QED BY <1>1, <1>2, <2>1, <3>1, <3>2, Zenon
  <2>5. \A i \in 0..2 : i = 0 \/ i = 1 \/ i = 2
    OBVIOUS
  <2> HIDE DEF Step
  <2>6. \A i \in 0..2 : g[i] = Step(g, i)
    BY <2>2, <2>3, <2>4, <2>5, Zenon
  <2>7. Unfolded(g)
    BY <1>1, <2>1, <2>6
  <2> QED BY <2>7
<1>4. Unfolded(C)
  BY <1>3, Zenon
<1>5. Combine(<< >>, new) = C[Len(new)]
  BY Zenon DEF Combine, CombineSteps
<1> HIDE DEF C
<1>6. C[0] = << >>
  BY <1>1, <1>4
<1>7. \A i \in 0..2 : C[i] = Step(C, i)
  <2> HIDE DEF Step
  <2> QED BY <1>1, <1>4
<1>8. C[1] = << a >>
  <2>1. 1 \in 0..2 /\ 1 # 0 /\ 1 - 1 = 0
    OBVIOUS
  <2>2. C[1] = Step(C, 1)
    BY <1>7, <2>1, Zenon
  <2> QED BY <1>1, <1>2, <1>6, <2>1, <2>2, Zenon
<1>9. C[2] = << a, b >>
  <2>1. 2 \in 0..2 /\ 2 # 0 /\ 2 - 1 = 1
    OBVIOUS
  <2>2. C[2] = Step(C, 2)
    BY <1>7, <2>1, Zenon
  <2>3. new[2] \notin RuleIds(C[1])
    BY <1>1, <1>2, <1>8
  <2> QED BY <1>1, <1>2, <1>8, <2>1, <2>2, <2>3, Zenon
<1> QED BY <1>1, <1>5, <1>9, Zenon DEF new

LEMMA SloppyTeaches ==
  /\ LessonsOf(Sloppy) = Lesson2
  /\ Taught(Sloppy) = Lesson2
  /\ Combine(<< >>, Lesson2) = Lesson2
<1>1. LessonsOf(Sloppy) = Lesson2
  BY DEF LessonsOf, Sloppy, Lesson2, STAR, ALL
<1>2. Combine(<< >>, Lesson2) = Lesson2
  BY CombineTwo DEF Lesson2
<1> DEFINE pieces == << << "SELECT_STAR" >>, << "NO_PAGINATION" >> >>
           Item(i) == If(Sloppy[i].class \in LESSON_TEMPLATES, << Sloppy[i].class >>)
           Told(g) == g = [i \in 0..Len(Sloppy) |-> IF i = 0 THEN << >> ELSE g[i - 1] \o Item(i)]
           taught == CHOOSE g : Told(g)
<1>3. /\ Len(Sloppy) = 2 /\ Item(1) = << "SELECT_STAR" >> /\ Item(2) = << "NO_PAGINATION" >>
      /\ pieces[1] = << "SELECT_STAR" >> /\ pieces[2] = << "NO_PAGINATION" >>
  BY DEF Sloppy, STAR, ALL, If, LESSON_TEMPLATES
<1>4. Taught(Sloppy) = taught[Len(Sloppy)]
  BY Zenon DEF Taught
<1> HIDE DEF pieces, Item
<1>5. \A i \in 0..2 : i # 0 => pieces[i] = Item(i)
  <2>1. \A i \in 0..2 : i # 0 => i = 1 \/ i = 2
    OBVIOUS
  <2> QED BY <1>3, <2>1, Zenon
<1>6. PICK g : Added(pieces, 2, g)
  BY AddedExists, 2 \in Nat
<1>7. Told(g)
  <2>1. g = [i \in 0..2 |-> IF i = 0 THEN << >> ELSE g[i - 1] \o pieces[i]]
    BY <1>6 DEF Added
  <2>2. \A i \in 0..2 : (IF i = 0 THEN << >> ELSE g[i - 1] \o pieces[i])
                          = (IF i = 0 THEN << >> ELSE g[i - 1] \o Item(i))
    BY <1>5, Zenon
  <2> QED BY <1>3, <2>1, <2>2
<1>8. Told(taught)
  BY <1>7, Zenon
<1> HIDE DEF taught
<1>9. taught[0] = << >>
  BY <1>3, <1>8
<1>10. ASSUME NEW i \in 1..2 PROVE taught[i] = taught[i - 1] \o Item(i)
  <2>1. i \in 0..Len(Sloppy) /\ i # 0
    BY <1>3
  <2>2. taught[i] = IF i = 0 THEN << >> ELSE taught[i - 1] \o Item(i)
    BY <1>8, <2>1, Zenon
  <2> QED BY <2>1, <2>2, Zenon
<1>11. taught[1] = << "SELECT_STAR" >>
  <2>1. 1 \in 1..2 /\ 1 - 1 = 0
    OBVIOUS
  <2>2. taught[1] = << >> \o << "SELECT_STAR" >>
    BY <1>3, <1>9, <1>10, <2>1, Zenon
  <2>3. << >> \o << "SELECT_STAR" >> = << "SELECT_STAR" >>
    BY ShortOnes, Zenon
  <2> QED BY <2>2, <2>3, Zenon
<1>12. taught[2] = Lesson2
  <2>1. 2 \in 1..2 /\ 2 - 1 = 1
    OBVIOUS
  <2>2. taught[2] = << "SELECT_STAR" >> \o << "NO_PAGINATION" >>
    BY <1>3, <1>10, <1>11, <2>1, Zenon
  <2>3. << "SELECT_STAR" >> \o << "NO_PAGINATION" >> = Lesson2
    BY ShortOnes, Zenon DEF Lesson2
  <2> QED BY <2>2, <2>3, Zenon
<1>13. Taught(Sloppy) = Lesson2
  BY <1>3, <1>4, <1>12, Zenon
<1> QED BY <1>1, <1>2, <1>13

(* A window that holds anything keeps a lesson of two, and one of five     *)
(* both.                                                                   *)
LEMMA WindowKeeps ==
  /\ \A n \in Nat \ {0} : LastN(Lesson2, n) # << >>
  /\ LastN(Lesson2, 5) = Lesson2
<1> DEFINE a == "SELECT_STAR"
           b == "NO_PAGINATION"
           two == << a, b >>
           S == {a, b}
<1>1. a \in S /\ b \in S
  OBVIOUS
<1> HIDE DEF a, b, S
<1>2. two \in Seq(S) /\ Len(two) = 2 /\ two[1] = a /\ two[2] = b
  BY <1>1
<1> HIDE DEF two
<1>3. ASSUME NEW n \in Nat \ {0} PROVE LastN(two, n) # << >>
  <2> DEFINE from == IF Len(two) > n THEN Len(two) - n + 1 ELSE 1
             part == SubSeq(two, from, Len(two))
  <2>1. from \in 1..2
    BY <1>2
  <2>2. LastN(two, n) = part
    BY DEF LastN
  <2> HIDE DEF from
  <2>3. Len(part) = 3 - from
    BY <1>2, <2>1
  <2>4. Len(part) # 0
    BY <2>1, <2>3
  <2> HIDE DEF part
  <2> QED BY <2>2, <2>4
<1>4. LastN(two, 5) = two
  <2>1. LastN(two, 5) = SubSeq(two, 1, Len(two))
    BY <1>2 DEF LastN
  <2> DEFINE part == SubSeq(two, 1, Len(two))
  <2>2. part \in Seq(S) /\ Len(part) = 2 /\ part[1] = two[1] /\ part[2] = two[2]
    BY <1>2
  <2> HIDE DEF part
  <2>3. part = << part[1], part[2] >> /\ two = << two[1], two[2] >>
    BY <1>2, <2>2
  <2>4. part = two
    BY <2>2, <2>3, Zenon
  <2> QED BY <2>1, <2>4 DEF part
<1>5. two = Lesson2
  BY DEF two, a, b, Lesson2
<1> QED BY <1>3, <1>4, <1>5

(* What a listener has heard, if anything.                                 *)
Heard == lessons # << >> /\ (program = "reflection" => lessons = Lesson2)

LEMMA MockAnswers ==
  ASSUME NEW env, NEW hints, NEW said, NEW known
  PROVE  /\ Answers(Mock("always_bad"), env, GeneratePrompt(known, hints, said)) = {DIRTY}
         /\ Answers(Mock("evolve"), env, GeneratePrompt(known, hints, said)) \subseteq {CLEAN, DIRTY}
         /\ known # << >> =>
              Answers(Mock("evolve"), env, GeneratePrompt(known, hints, said)) = {CLEAN}
<1> DEFINE p == GeneratePrompt(known, hints, said)
           system == {"role", "schema", "fewshot"}
                     \cup (IF hints THEN {"hints"} ELSE {})
                     \cup (IF known # << >> THEN {"lessons"} ELSE {})
<1>1. p.system = system /\ p.user = {"task", "retry"} /\ p.said = said
  BY DEF GeneratePrompt, _system_prompt, _security_hints_block
<1>2. \A b \in system : "judge" \notin WordsOf(b)
  BY DEF WordsOf
<1>3. "judge" \notin Words(system)
  BY <1>2, Zenon DEF Words
<1>4. known # << >> => "lesson" \in Words(system \cup {"task", "retry"})
  <2>1. "lesson" \in WordsOf("lessons")
    BY DEF WordsOf
  <2>2. known # << >> => "lessons" \in system \cup {"task", "retry"}
    OBVIOUS
  <2> HIDE DEF system
  <2> QED BY <2>1, <2>2, Zenon DEF Words
<1> DEFINE words == Words(system \cup {"task", "retry"}) \cup said
<1> HIDE DEF system, p
<1>5. \A s : MockChat(s, p) = _mock_generator(s, words)
  BY <1>1, <1>3, Zenon DEF MockChat
<1> HIDE DEF words
<1>6. \A s : Answers(Mock(s), env, p) = {_mock_generator(s, words)}
  <2>1. \A s : Mock(s).backend = "mock" /\ Mock(s).scenario = s
    BY DEF Mock
  <2> QED BY <1>5, <2>1, Zenon DEF Answers
<1>7. _mock_generator("always_bad", words) = DIRTY
  BY DEF _mock_generator
<1>8. _mock_generator("evolve", words) \in {CLEAN, DIRTY}
  BY DEF _mock_generator
<1>9. known # << >> => _mock_generator("evolve", words) = CLEAN
  <2>1. known # << >> => words \cap LessonWords # {}
    BY <1>4 DEF LessonWords, words
  <2> QED BY <2>1 DEF _mock_generator
<1> QED BY <1>6, <1>7, <1>8, <1>9 DEF p

LEMMA FirstTexts ==
  ASSUME Listens, NEW text \in Texts(<< >>)
  PROVE  FindingsIn(text) \in {Sloppy, << >>}
<1>1. CASE program = "pipeline" /\ setup.client = Mock("evolve")
  <2>1. text \in Answers(Mock("evolve"), setup.env, GeneratePrompt(<< >>, setup.hints, setup.said))
    BY <1>1 DEF Texts, OnPipeline
  <2>2. text = CLEAN \/ text = DIRTY
    BY <2>1, MockAnswers
  <2>3. FindingsIn(text) = RunPhase1(text, {})
    BY <1>1 DEF FindingsIn, OnPipeline
  <2> QED BY <2>2, <2>3, PipelineFinds, Zenon
<1>2. CASE program = "notebook"
  <2>1. text = {"select", "star"}
    BY <1>2 DEF Texts, OnPipeline, generator
  <2>2. FindingsIn(text) = judge(text)
    BY <1>2 DEF FindingsIn, OnPipeline
  <2> QED BY <2>1, <2>2, NotebookFinds, Zenon
<1>3. CASE program = "reflection" /\ setup
  <2>1. text = mock_generator(<< >>)
    BY <1>3 DEF Texts, OnPipeline
  <2>2. mock_generator(<< >>) = {"select", "star"}
    BY DEF mock_generator, ToSet
  <2>3. FindingsIn(text) = mock_judge(text)
    BY <1>3 DEF FindingsIn, OnPipeline
  <2> QED BY <2>1, <2>2, <2>3, MockFinds, Zenon
<1> QED BY <1>1, <1>2, <1>3 DEF Listens

LEMMA LaterTexts ==
  ASSUME Listens, Heard, NEW text \in Texts(lessons)
  PROVE  FindingsIn(text) = << >>
<1>1. CASE program = "pipeline" /\ setup.client = Mock("evolve")
  <2>1. text \in Answers(Mock("evolve"), setup.env, GeneratePrompt(lessons, setup.hints, setup.said))
    BY <1>1 DEF Texts, OnPipeline
  <2>2. text = CLEAN
    BY <2>1, MockAnswers DEF Heard
  <2>3. FindingsIn(text) = RunPhase1(text, {})
    BY <1>1 DEF FindingsIn, OnPipeline
  <2> QED BY <2>2, <2>3, PipelineFinds, Zenon
<1>2. CASE program = "notebook"
  <2>1. text = {"select", "where", "limit"}
    BY <1>2 DEF Texts, OnPipeline, generator, Heard
  <2>2. FindingsIn(text) = judge(text)
    BY <1>2 DEF FindingsIn, OnPipeline
  <2> QED BY <2>1, <2>2, NotebookFinds, Zenon
<1>3. CASE program = "reflection" /\ setup
  <2>1. text = mock_generator(Lesson2)
    BY <1>3 DEF Texts, OnPipeline, Heard
  <2>2. ToSet(Lesson2) = {"SELECT_STAR", "NO_PAGINATION"}
    BY DEF ToSet, Lesson2
  <2>3. /\ "star" \notin text /\ text \cap {"update", "delete"} = {} /\ "limit" \in text
    BY <2>1, <2>2 DEF mock_generator
  <2>4. FindingsIn(text) = mock_judge(text)
    BY <1>3 DEF FindingsIn, OnPipeline
  <2> QED BY <2>3, <2>4, MockFinds, Zenon
<1> QED BY <1>1, <1>2, <1>3 DEF Listens

LEMMA DeafTexts ==
  ASSUME NeverListens, program = "reflection" => lessons = << >>, NEW text \in Texts(lessons)
  PROVE  FindingsIn(text) = Sloppy
<1>1. CASE program = "pipeline" /\ setup.client = Mock("always_bad")
  <2>1. text \in Answers(Mock("always_bad"), setup.env, GeneratePrompt(lessons, setup.hints, setup.said))
    BY <1>1 DEF Texts, OnPipeline
  <2>2. text = DIRTY
    BY <2>1, MockAnswers
  <2>3. FindingsIn(text) = RunPhase1(text, {})
    BY <1>1 DEF FindingsIn, OnPipeline
  <2> QED BY <2>2, <2>3, PipelineFinds, Zenon
<1>2. CASE program = "reflection" /\ ~setup
  <2>1. text = mock_generator(<< >>)
    BY <1>2 DEF Texts, OnPipeline
  <2>2. mock_generator(<< >>) = {"select", "star"}
    BY DEF mock_generator, ToSet
  <2>3. FindingsIn(text) = mock_judge(text)
    BY <1>2 DEF FindingsIn, OnPipeline
  <2> QED BY <2>1, <2>2, <2>3, MockFinds, Zenon
<1> QED BY <1>1, <1>2 DEF NeverListens

LEMMA SloppyIsLearned ==
  ASSUME Listens
  PROVE  /\ Learned(Sloppy, << >>) # << >>
         /\ program = "reflection" => Learned(Sloppy, << >>) = Lesson2
<1>1. CASE program = "pipeline"
  <2>1. Learned(Sloppy, << >>) = Reflect(Sloppy, << >>)
    BY <1>1 DEF Learned, OnPipeline
  <2>2. Reflect(Sloppy, << >>) = LastN(Lesson2, Window)
    BY SloppyTeaches, Zenon DEF Reflect
  <2> QED BY <1>1, <2>1, <2>2, WindowKeeps, WindowAssumption
<1>2. CASE program = "notebook"
  <2>1. Learned(Sloppy, << >>) = reflect(Sloppy, << >>)
    BY <1>2 DEF Learned, OnPipeline
  <2>2. reflect(Sloppy, << >>) = Lesson2
    BY SloppyTeaches, Zenon DEF reflect
  <2>3. Lesson2 # << >>
    BY DEF Lesson2
  <2> QED BY <1>2, <2>1, <2>2, <2>3
<1>3. CASE program = "reflection" /\ setup
  <2>1. Learned(Sloppy, << >>) = reflector(Sloppy, << >>)
    BY <1>3 DEF Learned, OnPipeline
  <2>2. reflector(Sloppy, << >>) = Lesson2
    BY SloppyTeaches, WindowKeeps, Zenon DEF reflector
  <2>3. Lesson2 # << >>
    BY DEF Lesson2
  <2> QED BY <2>1, <2>2, <2>3
<1> QED BY <1>1, <1>2, <1>3 DEF Listens

LEMMA SloppyIsNotApproved ==
  program \in Loops => ~Approved(Sloppy) /\ Approved(<< >>)
BY SloppyIsRejected DEF Approved

(* How far a listener has come: it is told nothing once at most, and what  *)
(* it writes after that is approved.  One that does not listen uses up its *)
(* rounds.                                                                 *)
Judged == FindingsIn(sql[1])

Listening ==
  \/ stage = "running" /\ it = 0 /\ log = << >> /\ lessons = << >>
  \/ /\ stage = "judging" /\ it = 1 /\ log = << >> /\ lessons = << >>
     /\ Judged \in {Sloppy, << >>}
  \/ stage = "running" /\ it = 1 /\ Len(log) = 1 /\ Heard
  \/ stage = "judging" /\ it = 2 /\ Len(log) = 1 /\ Judged = << >>
  \/ /\ stage = "done" /\ Len(log) \in 1..2 /\ log[Len(log)].approved
     /\ Len(log) = 2 => log[2].found = {}

Deaf ==
  /\ it \in Nat /\ it <= MaxIter
  /\ program = "reflection" => lessons = << >>
  /\ \A i \in DOMAIN log : ~log[i].approved
  /\ \/ stage = "running" /\ Len(log) = it /\ it < MaxIter
     \/ stage = "judging" /\ Len(log) + 1 = it /\ Judged = Sloppy
     \/ stage = "done" /\ Len(log) = MaxIter

LoopInv ==
  /\ IsSeq(log)
  /\ Listens => Listening
  /\ NeverListens => Deaf

LEMMA LoopStarts == Init => LoopInv
<1> SUFFICES ASSUME Init PROVE LoopInv
  OBVIOUS
<1>1. /\ it = 0 /\ lessons = << >> /\ log = << >>
      /\ program # "chat" => stage = "running"
  BY DEF Init
<1>2. IsSeq(log) /\ Len(log) = 0 /\ DOMAIN log = {}
  <2>1. << >> \in Seq({})
    OBVIOUS
  <2> QED BY <1>1, <2>1 DEF IsSeq
<1>3. Listens => Listening
  BY <1>1 DEF Listens, Listening
<1>4. NeverListens => Deaf
  <2>1. NeverListens => stage = "running" /\ MaxIter = 5
    BY <1>1 DEF NeverListens, MaxIter, OnPipeline
  <2> QED BY <1>1, <1>2, <2>1 DEF Deaf
<1> QED BY <1>2, <1>3, <1>4 DEF LoopInv

LEMMA ProgramStays ==
  ASSUME [Next]_vars
  PROVE  /\ program' = program /\ setup' = setup /\ Listens' = Listens
         /\ NeverListens' = NeverListens /\ MaxIter' = MaxIter
<1>1. program' = program /\ setup' = setup
  BY DEF Next, Loop, Examine, Spend, NextPage, Serving, vars
<1> QED BY <1>1 DEF Listens, NeverListens, MaxIter, OnPipeline

LEMMA LoopersAreKnown ==
  Listens \/ NeverListens =>
    /\ program \in Loops
    /\ ~(program = "exam" \/ program = "budget" \/ program = "pages" \/ program = "serving")
    /\ OnPipeline => ~MayRaise(setup.client)
BY DEF Listens, NeverListens, Loops, OnPipeline, MayRaise, Mock

LEMMA ListenerWrites ==
  ASSUME Listens, Listening, Write, [Next]_vars
  PROVE  Listening'
<1>1. PICK text \in Texts(lessons) : sql' = << text >>
  BY DEF Write
<1>2. stage = "running" /\ it' = it + 1 /\ stage' = "judging" /\ lessons' = lessons /\ log' = log
  BY DEF Write
<1>3. Judged' = FindingsIn(text)
  <2>1. sql'[1] = text
    BY <1>1
  <2>2. program' = program
    BY ProgramStays
  <2> QED BY <2>1, <2>2 DEF Judged, FindingsIn, OnPipeline
<1>4. CASE it = 0 /\ log = << >> /\ lessons = << >>
  <2>1. FindingsIn(text) \in {Sloppy, << >>}
    BY <1>1, <1>4, FirstTexts
  <2>2. it' = 1
    BY <1>2, <1>4
  <2> QED BY <1>2, <1>3, <1>4, <2>1, <2>2 DEF Listening
<1>5. CASE it = 1 /\ Len(log) = 1 /\ Heard
  <2>1. FindingsIn(text) = << >>
    BY <1>1, <1>5, LaterTexts
  <2>2. it' = 2 /\ Len(log') = 1
    BY <1>2, <1>5
  <2> QED BY <1>2, <1>3, <2>1, <2>2 DEF Listening
<1> QED BY <1>2, <1>4, <1>5 DEF Listening

LEMMA ListenerIsJudged ==
  ASSUME Listens, Listening, IsSeq(log), Judge, [Next]_vars
  PROVE  Listening'
<1> DEFINE found == Judged
           entry == [sql |-> sql[1], found |-> ClassesOf(found), approved |-> Approved(found)]
<1>1. /\ stage = "judging" /\ log' = Append(log, entry) /\ it' = it
      /\ Approved(found) => stage' = "done" /\ lessons' = lessons
      /\ ~Approved(found) => /\ stage' = IF it = MaxIter THEN "done" ELSE "running"
                             /\ lessons' = Learned(found, lessons)
  BY DEF Judge, Judged
<1>2. program \in Loops
  BY LoopersAreKnown
<1>3. entry.approved = Approved(found) /\ entry.found = ClassesOf(found)
  OBVIOUS
<1> HIDE DEF entry
<1>4. Len(log) \in Nat /\ Len(log') = Len(log) + 1 /\ log'[Len(log) + 1] = entry
  BY <1>1, AppendIsSeq
<1> HIDE DEF found
<1>5. found = << >> => Approved(found) /\ ClassesOf(found) = {}
  BY <1>2, SloppyIsNotApproved DEF ClassesOf
<1>6. CASE it = 1 /\ log = << >> /\ lessons = << >> /\ found \in {Sloppy, << >>}
  <2>1. Len(log') = 1 /\ log'[Len(log')] = entry
    <3>1. Len(log) = 0
      BY <1>6
    <3> QED BY <1>4, <3>1
  <2>2. CASE found = << >>
    <3>1. stage' = "done" /\ log'[Len(log')].approved
      BY <1>1, <1>3, <1>5, <2>1, <2>2
    <3>2. Len(log') \in 1..2 /\ Len(log') # 2
      BY <2>1
    <3> QED BY <3>1, <3>2 DEF Listening
  <2>3. CASE found = Sloppy
    <3>1. ~Approved(found)
      BY <1>2, <2>3, SloppyIsNotApproved
    <3>2. it # MaxIter
      BY <1>6 DEF MaxIter, Listens, OnPipeline
    <3>3. stage' = "running" /\ lessons' = Learned(Sloppy, << >>)
      BY <1>1, <1>6, <2>3, <3>1, <3>2
    <3>4. Heard'
      BY <3>3, SloppyIsLearned, ProgramStays DEF Heard
    <3> QED BY <1>1, <1>6, <2>1, <3>3, <3>4 DEF Listening
  <2> QED BY <1>6, <2>2, <2>3
<1>7. CASE it = 2 /\ Len(log) = 1 /\ found = << >>
  <2>1. Len(log') = 2 /\ log'[2] = entry
    BY <1>4, <1>7
  <2>2. stage' = "done" /\ entry.approved /\ entry.found = {}
    BY <1>1, <1>3, <1>5, <1>7
  <2>3. Len(log') \in 1..2
    BY <2>1
  <2> QED BY <2>1, <2>2, <2>3 DEF Listening
<1> QED BY <1>1, <1>6, <1>7 DEF Listening, found

LEMMA DeafWrites ==
  ASSUME NeverListens, Deaf, Write, [Next]_vars
  PROVE  Deaf'
<1>1. PICK text \in Texts(lessons) : sql' = << text >>
  BY DEF Write
<1>2. /\ stage = "running" /\ it < MaxIter /\ it' = it + 1 /\ stage' = "judging"
      /\ lessons' = lessons /\ log' = log
  BY DEF Write
<1>3. program' = program /\ MaxIter' = MaxIter
  BY ProgramStays
<1>4. program = "reflection" => lessons = << >>
  BY DEF Deaf
<1>5. FindingsIn(text) = Sloppy
  BY <1>1, <1>4, DeafTexts
<1>6. Judged' = Sloppy
  <2>1. sql'[1] = text
    BY <1>1
  <2> QED BY <1>3, <1>5, <2>1 DEF Judged, FindingsIn, OnPipeline
<1>7. it \in Nat /\ Len(log) = it /\ MaxIter = 5
  <2>1. MaxIter = 5
    BY DEF NeverListens, MaxIter, OnPipeline
  <2> QED BY <1>2, <2>1 DEF Deaf
<1>8. it' \in Nat /\ it' <= MaxIter' /\ Len(log') + 1 = it'
  BY <1>2, <1>3, <1>7
<1>9. \A i \in DOMAIN log' : ~log'[i].approved
  BY <1>2 DEF Deaf
<1>10. program' = "reflection" => lessons' = << >>
  BY <1>2, <1>3, <1>4
<1> QED BY <1>2, <1>6, <1>8, <1>9, <1>10 DEF Deaf

LEMMA DeafIsJudged ==
  ASSUME NeverListens, Deaf, IsSeq(log), Judge, [Next]_vars
  PROVE  Deaf'
<1> DEFINE entry == [sql |-> sql[1], found |-> ClassesOf(Judged), approved |-> Approved(Judged)]
<1>1. /\ stage = "judging" /\ log' = Append(log, entry) /\ it' = it
      /\ ~Approved(Judged) => /\ stage' = IF it = MaxIter THEN "done" ELSE "running"
                              /\ lessons' = Learned(Judged, lessons)
  BY DEF Judge, Judged
<1>2. entry.approved = Approved(Judged)
  OBVIOUS
<1> HIDE DEF entry
<1>3. Len(log) + 1 = it /\ Judged = Sloppy /\ it \in Nat /\ it <= MaxIter
  BY <1>1 DEF Deaf
<1>4. ~Approved(Judged)
  BY <1>3, LoopersAreKnown, SloppyIsNotApproved
<1>5. /\ IsSeq(log') /\ Len(log') = Len(log) + 1 /\ Len(log) \in Nat
      /\ log'[Len(log) + 1] = entry /\ \A i \in 1..Len(log) : log'[i] = log[i]
  BY <1>1, AppendIsSeq
<1>6. program' = program /\ MaxIter' = MaxIter /\ MaxIter = 5
  BY ProgramStays DEF NeverListens, MaxIter, OnPipeline
<1>7. program' = "reflection" => lessons' = << >>
  <2>1. program = "reflection" => lessons = << >> /\ ~setup
    BY DEF Deaf, NeverListens
  <2>2. program = "reflection" => Learned(Judged, lessons) = lessons
    BY <2>1 DEF Learned, OnPipeline
  <2> QED BY <1>1, <1>4, <1>6, <2>1, <2>2
<1>8. \A i \in DOMAIN log' : ~log'[i].approved
  <2>1. DOMAIN log' = 1..(Len(log) + 1) /\ DOMAIN log = 1..Len(log)
    BY <1>5 DEF IsSeq
  <2>2. \A i \in 1..(Len(log) + 1) : i \in 1..Len(log) \/ i = Len(log) + 1
    BY <1>5
  <2>3. ~entry.approved
    BY <1>2, <1>4
  <2> QED BY <1>5, <2>1, <2>2, <2>3 DEF Deaf
<1>9. it' \in Nat /\ it' <= MaxIter' /\ Len(log') = it'
  BY <1>1, <1>3, <1>5, <1>6
<1>10. \/ stage' = "done" /\ Len(log') = MaxIter'
       \/ stage' = "running" /\ it' < MaxIter'
  <2>1. CASE it = MaxIter
    BY <1>1, <1>4, <1>6, <1>9, <2>1
  <2>2. CASE it # MaxIter
    <3>1. stage' = "running"
      BY <1>1, <1>4, <2>2
    <3>2. it < 5
      BY <1>3, <1>6, <2>2
    <3> QED BY <1>1, <1>6, <3>1, <3>2
  <2> QED BY <2>1, <2>2
<1> QED BY <1>7, <1>8, <1>9, <1>10 DEF Deaf

LEMMA LoopKeeps ==
  ASSUME LoopInv, [Next]_vars
  PROVE  LoopInv'
<1>1. /\ program' = program /\ Listens' = Listens /\ NeverListens' = NeverListens
      /\ MaxIter' = MaxIter
  BY ProgramStays
<1>2. IsSeq(log')
  <2>1. CASE Judge
    BY <2>1, AppendIsSeq DEF Judge, LoopInv
  <2>2. CASE ~Judge
    <3>1. log' = log
      BY <2>2 DEF Next, Loop, Ask, Write, WriteRaises, Examine, Spend, NextPage, Serving, vars, loopVars
    <3> QED BY <3>1 DEF LoopInv
  <2> QED BY <2>1, <2>2
<1>3. ASSUME Listens \/ NeverListens, ~Write, ~Judge
      PROVE  UNCHANGED << stage, loopVars >>
  <2>1. stage # "asking"
    BY <1>3 DEF LoopInv, Listening, Deaf
  <2>2. ~Ask /\ ~WriteRaises /\ ~Examine /\ ~Spend /\ ~NextPage /\ ~Serving
    BY <1>3, <2>1, LoopersAreKnown DEF Ask, WriteRaises, Examine, Spend, NextPage, Serving
  <2> QED BY <1>3, <2>2 DEF Next, Loop, vars
<1>4. ASSUME Listens PROVE Listening'
  <2>1. Listening /\ IsSeq(log)
    BY <1>4 DEF LoopInv
  <2>2. CASE Write
    BY <1>4, <2>1, <2>2, ListenerWrites
  <2>3. CASE Judge
    BY <1>4, <2>1, <2>3, ListenerIsJudged
  <2>4. CASE ~Write /\ ~Judge
    <3>1. UNCHANGED << stage, it, log, lessons, sql >>
      BY <1>3, <1>4, <2>4 DEF loopVars
    <3>2. Judged' = Judged
      BY <1>1, <3>1 DEF Judged, FindingsIn, OnPipeline
    <3> QED BY <1>1, <2>1, <3>1, <3>2 DEF Listening, Heard
  <2> QED BY <2>2, <2>3, <2>4
<1>5. ASSUME NeverListens PROVE Deaf'
  <2>1. Deaf /\ IsSeq(log)
    BY <1>5 DEF LoopInv
  <2>2. CASE Write
    BY <1>5, <2>1, <2>2, DeafWrites
  <2>3. CASE Judge
    BY <1>5, <2>1, <2>3, DeafIsJudged
  <2>4. CASE ~Write /\ ~Judge
    <3>1. UNCHANGED << stage, it, log, lessons, sql >>
      BY <1>3, <1>5, <2>4 DEF loopVars
    <3>2. Judged' = Judged
      BY <1>1, <3>1 DEF Judged, FindingsIn, OnPipeline
    <3> QED BY <1>1, <2>1, <3>1, <3>2 DEF Deaf
  <2> QED BY <2>2, <2>3, <2>4
<1> QED BY <1>1, <1>2, <1>4, <1>5 DEF LoopInv

LEMMA LoopersLearn == LoopInv => LessonsAreLearned
<1> SUFFICES ASSUME LoopInv PROVE LessonsAreLearned
  OBVIOUS
<1>1. DOMAIN log = 1..Len(log) /\ Len(log) \in Nat
  BY DEF LoopInv, IsSeq
<1>2. ASSUME Listens
      PROVE  /\ \A i, j \in DOMAIN log : i < j => log[i].found \cap log[j].found = {}
             /\ Finished => Last(log).approved
  <2>1. Listening
    BY <1>2 DEF LoopInv
  <2>2. /\ Len(log) = 0 \/ Len(log) = 1 \/ Len(log) = 2
        /\ Len(log) = 2 => log[2].found = {}
    <3>1. log = << >> => Len(log) = 0
      OBVIOUS
    <3> QED BY <2>1, <3>1 DEF Listening
  <2>3. ASSUME NEW i \in DOMAIN log, NEW j \in DOMAIN log, i < j
        PROVE  log[i].found \cap log[j].found = {}
    <3>1. Len(log) = 2 /\ j = 2
      BY <1>1, <2>2, <2>3
    <3> QED BY <2>2, <3>1
  <2>4. Finished => Last(log).approved
    <3>1. Finished => log[Len(log)].approved
      BY <2>1 DEF Finished, Listening
    <3> QED BY <3>1 DEF Last
  <2> QED BY <2>3, <2>4
<1>3. ASSUME NeverListens
      PROVE  (\A i \in DOMAIN log : ~log[i].approved) /\ (Finished => Len(log) = MaxIter)
  BY <1>3 DEF LoopInv, Deaf, Finished
<1> QED BY <1>2, <1>3 DEF LessonsAreLearned

(* For every window and every environment, a model that hears the lessons  *)
(* repeats no class of finding and is approved, and one that does not is   *)
(* never approved and uses up its rounds (build_part4.py:477-535,          *)
(* colab_pipeline.ipynb:744-758, tests/test_pipeline.py:103-120).          *)
THEOREM LessonsAreAlwaysLearned == Spec => []LessonsAreLearned
BY LoopStarts, LoopKeeps, LoopersLearn, PTL DEF Spec
=============================================================================
