-------------------------- MODULE ConfigImportProofs --------------------------
(***************************************************************************)
(* Proofs about ConfigImport, for any configurations to start from, any    *)
(* number of edits and failing statements: what export and import leave in *)
(* the tables while another request edits them, statement by statement.    *)
(***************************************************************************)
EXTENDS ConfigImport, FiniteSetTheorems, SequenceTheorems, WellFoundedInduction, TLAPS

-----------------------------------------------------------------------------
(* Least and greatest numbers, and lists in order.                         *)

(* A set of numbers has a least one.                                       *)
LEMMA MinExists ==
  ASSUME NEW T, T \subseteq Nat, T # {}
  PROVE  \E x \in T : \A y \in T : x <= y
<1>1. PICK x \in T : \A y \in T : ~ (<<y, x>> \in OpToRel(<, Nat))
  BY NatLessThanWellFounded, WFMin
<1>2. \A y \in T : <<y, x>> \in OpToRel(<, Nat) <=> y < x
  BY DEF OpToRel
<1>3. \A y \in T : ~ (y < x)
  BY <1>1, <1>2, Zenon
<1> QED BY <1>3

(* Min is that number.                                                     *)
LEMMA MinInSet ==
  ASSUME NEW T, T \subseteq Nat, T # {}
  PROVE  Min(T) \in T /\ \A y \in T : Min(T) <= y
BY MinExists DEF Min

(* Max of a bounded set of numbers is its greatest.                        *)
LEMMA MaxInSet ==
  ASSUME NEW T, NEW n \in Nat, T \subseteq 0..n, T # {}
  PROVE  Max(T) \in T /\ \A y \in T : Max(T) >= y
<1> DEFINE U == {u \in Nat : \A y \in T : y <= u}
<1>1. U \subseteq Nat /\ n \in U
  OBVIOUS
<1>2. PICK m \in U : \A u \in U : m <= u
  <2> HIDE DEF U
  <2> QED BY <1>1, MinExists
<1>3. m \in T
  <2> SUFFICES ASSUME m \notin T PROVE FALSE
    OBVIOUS
  <2>1. \A z \in T : z \in Nat /\ z < m
    <3>1. ASSUME NEW z \in T PROVE z \in Nat /\ z < m
      <4>1. z \in Nat /\ m \in Nat /\ z <= m /\ z # m
        OBVIOUS
      <4> QED BY <4>1
    <3> QED BY <3>1
  <2>y. PICK y \in T : TRUE
    OBVIOUS
  <2>2. m - 1 \in Nat /\ \A z \in T : z <= m - 1
    <3>1. m \in Nat /\ y \in Nat /\ y < m
      BY <2>1
    <3>2. m - 1 \in Nat
      BY <3>1
    <3>3. ASSUME NEW z \in T PROVE z <= m - 1
      BY <2>1, <3>1
    <3> QED BY <3>2, <3>3
  <2>3. m - 1 \in U
    BY <2>2
  <2> QED BY <1>2, <2>3
<1> QED BY <1>3 DEF Max

Increasing(n, s) == \A j, k \in 1..n : j < k => s[j] < s[k]

\* Ids up to n can be listed in their order; by the least n for which they
\* could not.
LEMMA OrderExists ==
  ASSUME NEW n \in Nat, NEW S \in SUBSET (1..n)
  PROVE  /\ Cardinality(S) \in Nat
         /\ \E s \in [1..Cardinality(S) -> S] : Increasing(Cardinality(S), s)
<1> DEFINE Listed(X) == \E s \in [1..Cardinality(X) -> X] : Increasing(Cardinality(X), s)
           Bad == {m \in Nat : \E X \in SUBSET (1..m) : ~ Listed(X)}
<1>f. ASSUME NEW m \in Nat, NEW X \in SUBSET (1..m)
      PROVE  IsFiniteSet(X) /\ Cardinality(X) \in Nat
  <2>1. IsFiniteSet(1..m)
    <3>1. 1 \in Int /\ m \in Int
      OBVIOUS
    <3> QED BY <3>1, FS_Interval
  <2>2. IsFiniteSet(X)
    <3>1. X \subseteq 1..m
      OBVIOUS
    <3> QED BY <2>1, <3>1, FS_Subset
  <2> QED BY <2>2, FS_CardinalityType
<1>1. Bad = {}
  <2> SUFFICES ASSUME Bad # {} PROVE FALSE
    OBVIOUS
  <2>1. PICK m \in Bad : \A k \in Bad : m <= k
    <3>1. Bad \subseteq Nat
      OBVIOUS
    <3> HIDE DEF Bad
    <3> QED BY <3>1, MinExists
  <2>2. PICK X \in SUBSET (1..m) : ~ Listed(X)
    OBVIOUS
  <2>3. CASE X = {}
    <3>1. Cardinality(X) = 0
      BY <2>3, FS_EmptySet
    <3>2. [i \in {} |-> i] \in [1..0 -> X] /\ Increasing(0, [i \in {} |-> i])
      BY DEF Increasing
    <3> QED BY <2>2, <3>1, <3>2
  <2>4. CASE X # {}
    <3> DEFINE Y == X \ {m}
               c == Cardinality(Y)
    <3>1. m \in Nat /\ m > 0 /\ m - 1 \in Nat /\ m - 1 \notin Bad
      <4>1. PICK x \in X : TRUE
        BY <2>4
      <4>2. m \in Nat /\ x \in 1..m
        OBVIOUS
      <4>3. m > 0 /\ m - 1 \in Nat /\ ~ (m <= m - 1)
        BY <4>2
      <4> HIDE DEF Bad
      <4> QED BY <2>1, <4>2, <4>3
    <3>2. Y \in SUBSET (1..(m - 1))
      BY <3>1
    <3>3. Listed(Y)
      BY <3>1, <3>2
    <3>4. m \in X
      BY <2>2, <3>3
    <3>5. IsFiniteSet(Y) /\ c \in Nat /\ X = Y \cup {m} /\ m \notin Y
      BY <1>f, <3>1, <3>2, <3>4
    <3>6. Cardinality(X) = c + 1
      BY <3>5, FS_AddElement
    <3>7. PICK s \in [1..c -> Y] : Increasing(c, s)
      BY <3>3
    <3> DEFINE r == [i \in 1..(c + 1) |-> IF i = c + 1 THEN m ELSE s[i]]
    <3> HIDE DEF c, Listed
    <3>8. \A i \in 1..(c + 1) : i = c + 1 \/ i \in 1..c
      BY <3>5
    <3>9. r \in [1..(c + 1) -> X]
      BY <3>4, <3>7, <3>8
    <3>10. ASSUME NEW j \in 1..(c + 1), NEW k \in 1..(c + 1), j < k PROVE r[j] < r[k]
      <4>0. j \in 1..c
        BY <3>5, <3>10
      <4>1. j \in 1..c /\ s[j] \in 1..(m - 1)
        BY <3>2, <3>7, <4>0
      <4>2. CASE k = c + 1
        BY <3>1, <3>5, <4>1, <4>2
      <4>3. CASE k \in 1..c
        BY <3>5, <3>7, <3>10, <4>1, <4>3 DEF Increasing
      <4> QED BY <3>8, <4>2, <4>3
    <3>11. Increasing(c + 1, r)
      BY <3>10 DEF Increasing
    <3> HIDE DEF r
    <3> QED BY <2>2, <3>6, <3>9, <3>11 DEF Listed
  <2> QED BY <2>3, <2>4
<1> QED BY <1>1, <1>f

-----------------------------------------------------------------------------
(* The tables.                                                             *)

Counted == {"conn", "point"}

\* Ids are positive; those of connections and points are not above their
\* counters, those of devices have some bound.
IdsOK ==
  /\ DOMAIN db = Tables /\ seq \in [Counted -> Nat]
  /\ DOMAIN db.conn \subseteq 1..seq.conn
  /\ DOMAIN db.point \subseteq 1..seq.point
  /\ \E n \in Nat : DOMAIN db.dev \subseteq 1..n

RowsOK == \A t \in Tables : \A i \in DOMAIN db[t] : db[t][i] \in [rev : Revs, ref : Nat]

TablesInv == IdsOK /\ RowsOK /\ ReferencesHold

\* Ids that were given out stay given out.
CountersGrow == \A t \in Counted : seq'[t] >= seq[t]

(* Ids of rows are positive numbers.                                       *)
LEMMA IdsPositive ==
  ASSUME IdsOK, NEW t \in Tables
  PROVE  DOMAIN db[t] \subseteq Nat \ {0}
BY DEF IdsOK, Tables, Counted

\* The id of a new device is above those of all devices.
LEMMA DeviceTop ==
  ASSUME IdsOK
  PROVE  /\ Max(DOMAIN db.dev \cup {0}) \in Nat
         /\ \A i \in DOMAIN db.dev : i <= Max(DOMAIN db.dev \cup {0})
         /\ \A m \in Nat : (\A i \in DOMAIN db.dev : i < m) /\ m > 0
                             => Max(DOMAIN db.dev \cup {0}) < m
<1> DEFINE T == DOMAIN db.dev \cup {0}
<1>1. PICK n \in Nat : T \subseteq 0..n
  BY DEF IdsOK
<1>2. T # {}
  OBVIOUS
<1>3. T \subseteq Nat /\ \A i \in DOMAIN db.dev : i \in T
  BY <1>1
<1>4. Max(T) \in T /\ \A y \in T : Max(T) >= y
  <2> HIDE DEF T
  <2> QED BY <1>1, <1>2, MaxInSet
<1>5. Max(T) \in Nat /\ \A i \in DOMAIN db.dev : i <= Max(T)
  <2> HIDE DEF T
  <2> QED BY <1>3, <1>4
<1>6. Max(T) \in DOMAIN db.dev \/ Max(T) = 0
  BY <1>4
<1> QED BY <1>5, <1>6

(* The id of an insert names no row; with AUTOINCREMENT it is one above    *)
(* the counter, for a device one above the greatest.                       *)
LEMMA NewIdIsNew ==
  ASSUME IdsOK, NEW t \in Tables
  PROVE  /\ NewId(t) \in Nat \ {0} /\ NewId(t) \notin DOMAIN db[t]
         /\ t = "dev" => \A i \in DOMAIN db.dev : i < NewId(t)
         /\ t # "dev" => NewId(t) = seq[t] + 1
<1>1. CASE t = "dev"
  <2> DEFINE m == Max(DOMAIN db.dev \cup {0})
  <2>1. NewId(t) = m + 1
    BY <1>1 DEF NewId
  <2>2. m \in Nat /\ \A i \in DOMAIN db.dev : i <= m
    BY DeviceTop
  <2>3. DOMAIN db.dev \subseteq Nat
    BY DEF IdsOK
  <2> HIDE DEF m
  <2>4. m + 1 \in Nat \ {0} /\ \A i \in DOMAIN db.dev : i < m + 1
    BY <2>2, <2>3
  <2> QED BY <1>1, <2>1, <2>3, <2>4
<1>2. CASE t # "dev"
  BY <1>2 DEF NewId, IdsOK, Tables, Counted
<1> QED BY <1>1, <1>2

(* What Create leaves behind: the row is new, and every other row stays as *)
(* it was.                                                                 *)
LEMMA CreateEffect ==
  ASSUME TablesInv, NEW t \in Tables, NEW rev \in Revs, NEW ref \in Nat,
         ParentExists(t, ref), Create(t, rev, ref)
  PROVE  /\ TablesInv' /\ CountersGrow
         /\ \A u \in Tables : DOMAIN db[u] \subseteq DOMAIN db'[u]
         /\ \A u \in Tables : \A i \in DOMAIN db[u] : db'[u][i] = db[u][i]
         /\ \A u \in Tables : DOMAIN db'[u] = IF u = t THEN DOMAIN db[t] \cup {NewId(t)} ELSE DOMAIN db[u]
         /\ t # "dev" => seq'[t] = NewId(t)
         /\ \A u \in Counted \ {t} : seq'[u] = seq[u]
<1> USE DEF TablesInv
<1> DEFINE n == NewId(t)
<1>0. /\ n \in Nat \ {0} /\ n \notin DOMAIN db[t]
      /\ t # "dev" => n = seq[t] + 1
  BY NewIdIsNew
<1>1. /\ DOMAIN db' = Tables
      /\ db'[t] = With(db[t], n, [rev |-> rev, ref |-> ref])
      /\ \A u \in Tables \ {t} : db'[u] = db[u]
  BY DEF Create, IdsOK
<1> HIDE DEF n
<1>2. /\ DOMAIN db'[t] = DOMAIN db[t] \cup {n}
      /\ db'[t][n] = [rev |-> rev, ref |-> ref]
      /\ \A i \in DOMAIN db[t] : db'[t][i] = db[t][i]
  BY <1>0, <1>1 DEF With
<1>3. \A u \in Tables : \A i \in DOMAIN db[u] : i \in DOMAIN db'[u] /\ db'[u][i] = db[u][i]
  BY <1>1, <1>2
<1>4. /\ seq' \in [Counted -> Nat]
      /\ t # "dev" => seq'[t] = n
      /\ \A u \in Counted \ {t} : seq'[u] = seq[u]
      /\ \A u \in Counted : seq'[u] >= seq[u]
  <2>1. seq \in [Counted -> Nat] /\ (t = "dev" \/ t \in Counted)
    BY DEF IdsOK, Tables, Counted
  <2>2. seq' = IF t = "dev" THEN seq ELSE [seq EXCEPT ![t] = @ + 1]
    BY DEF Create
  <2>3. CASE t = "dev"
    BY <2>1, <2>2, <2>3
  <2>4. CASE t \in Counted /\ t # "dev"
    <3>1. seq[t] \in Nat /\ seq' = [seq EXCEPT ![t] = seq[t] + 1]
      BY <2>1, <2>2, <2>4
    <3>2. seq'[t] = seq[t] + 1 /\ seq' \in [Counted -> Nat] /\ \A u \in Counted \ {t} : seq'[u] = seq[u]
      BY <2>1, <2>4, <3>1
    <3> QED BY <1>0, <2>1, <2>4, <3>1, <3>2
  <2> QED BY <2>1, <2>3, <2>4 DEF Counted
<1>5. IdsOK'
  <2>1. CASE t = "dev"
    <3>1. PICK k \in Nat : DOMAIN db.dev \subseteq 1..k
      BY DEF IdsOK
    <3>2. PICK l \in Nat : l >= k /\ l >= n
      BY <1>0
    <3>3. DOMAIN db'["dev"] \subseteq 1..l
      BY <1>0, <1>2, <2>1, <3>1, <3>2
    <3>4. db'["conn"] = db["conn"] /\ db'["point"] = db["point"] /\ seq' = seq
      BY <1>1, <2>1 DEF Tables, Create
    <3> QED BY <1>1, <1>4, <3>3, <3>4 DEF IdsOK
  <2>2. CASE t = "conn"
    BY <1>0, <1>1, <1>2, <1>4, <2>2 DEF IdsOK, Tables, Counted
  <2>3. CASE t = "point"
    BY <1>0, <1>1, <1>2, <1>4, <2>3 DEF IdsOK, Tables, Counted
  <2> QED BY <2>1, <2>2, <2>3 DEF Tables
<1>6. RowsOK'
  BY <1>1, <1>2 DEF RowsOK
<1>7. ReferencesHold'
  <2>1. \A u \in DOMAIN Parent : u \in Tables /\ Parent[u] \in Tables /\ u # "conn"
    BY DEF Parent, Tables
  <2> SUFFICES ASSUME NEW u \in DOMAIN Parent, NEW i \in DOMAIN db'[u]
               PROVE  db'[u][i].ref \in DOMAIN db'[Parent[u]]
    BY DEF ReferencesHold
  <2>2. CASE i \in DOMAIN db[u]
    BY <1>3, <2>1, <2>2 DEF ReferencesHold
  <2>3. CASE i \notin DOMAIN db[u]
    <3>1. u = t /\ db'[u][i].ref = ref
      BY <1>1, <1>2, <2>1, <2>3
    <3>2. ref \in DOMAIN db[Parent[t]]
      BY <2>1, <3>1 DEF ParentExists, Enforced
    <3> QED BY <1>3, <2>1, <3>1, <3>2
  <2> QED BY <2>2, <2>3
<1> QED BY <1>1, <1>2, <1>3, <1>4, <1>5, <1>6, <1>7 DEF CountersGrow, n

(* What Update leaves behind: the same ids, and only the row it names is   *)
(* written.                                                                *)
LEMMA UpdateEffect ==
  ASSUME TablesInv, NEW t \in Tables, NEW i \in DOMAIN db[t], NEW rev \in Revs,
         NEW ref, t # "point" => ref \in Nat, t = "dev" => ref \in DOMAIN db.conn,
         Update(t, i, rev, ref)
  PROVE  /\ TablesInv' /\ CountersGrow
         /\ \A u \in Tables : DOMAIN db'[u] = DOMAIN db[u]
         /\ \A u \in Tables : \A j \in DOMAIN db[u] : u # t \/ j # i => db'[u][j] = db[u][j]
<1> USE DEF TablesInv
<1> DEFINE new == [rev |-> rev, ref |-> IF t = "point" THEN db[t][i].ref ELSE ref]
<1>0. db[t][i] \in [rev : Revs, ref : Nat]
  BY DEF RowsOK
<1>1. new \in [rev : Revs, ref : Nat]
  BY <1>0
<1>2. /\ DOMAIN db' = Tables
      /\ db'[t] = [db[t] EXCEPT ![i] = new]
      /\ \A u \in Tables \ {t} : db'[u] = db[u]
  BY DEF Update, IdsOK
<1>3. new.ref = IF t = "point" THEN db[t][i].ref ELSE ref
  OBVIOUS
<1> HIDE DEF new
<1>4. /\ DOMAIN db'[t] = DOMAIN db[t] /\ db'[t][i] = new
      /\ \A j \in DOMAIN db[t] : j # i => db'[t][j] = db[t][j]
  BY <1>2
<1>5. \A u \in Tables : DOMAIN db'[u] = DOMAIN db[u]
  BY <1>2, <1>4
<1>6. seq' = seq
  BY DEF Update
<1>7. IdsOK'
  BY <1>2, <1>5, <1>6 DEF IdsOK, Tables
<1>8. RowsOK'
  BY <1>1, <1>2, <1>4, <1>5 DEF RowsOK
<1>9. ReferencesHold'
  <2>1. \A u \in DOMAIN Parent : u \in Tables /\ Parent[u] \in Tables /\ u # "conn"
    BY DEF Parent, Tables
  <2> SUFFICES ASSUME NEW u \in DOMAIN Parent, NEW j \in DOMAIN db'[u]
               PROVE  db'[u][j].ref \in DOMAIN db'[Parent[u]]
    BY DEF ReferencesHold
  <2>2. j \in DOMAIN db[u] /\ DOMAIN db'[Parent[u]] = DOMAIN db[Parent[u]]
    BY <1>5, <2>1
  <2>3. CASE u # t \/ j # i
    BY <1>2, <1>4, <2>1, <2>2, <2>3 DEF ReferencesHold
  <2>4. CASE u = t /\ j = i /\ t = "dev"
    <3>1. db'[u][j].ref = ref /\ Parent[u] = "conn"
      BY <1>3, <1>4, <2>4 DEF Parent
    <3> QED BY <2>2, <3>1, <2>4
  <2>5. CASE u = t /\ j = i /\ t = "point"
    BY <1>3, <1>4, <2>2, <2>5 DEF ReferencesHold
  <2> QED BY <2>1, <2>3, <2>4, <2>5 DEF Tables
<1>10. CountersGrow
  BY <1>6 DEF CountersGrow, IdsOK, Counted
<1> QED BY <1>2, <1>4, <1>5, <1>7, <1>8, <1>9, <1>10

\* Rows disappear, the others keep their contents.
LEMMA RemoveEffect ==
  ASSUME IdsOK, RowsOK, DOMAIN db' = Tables, seq' = seq,
         \A u \in Tables : DOMAIN db'[u] \subseteq DOMAIN db[u],
         \A u \in Tables : \A i \in DOMAIN db'[u] : db'[u][i] = db[u][i]
  PROVE  IdsOK' /\ RowsOK' /\ CountersGrow
<1>1. IdsOK'
  BY DEF IdsOK, Tables
<1>2. RowsOK'
  BY DEF RowsOK
<1>3. CountersGrow
  BY DEF CountersGrow, IdsOK, Counted
<1> QED BY <1>1, <1>2, <1>3

(* What deleting a device (its points with it) or a point leaves behind.   *)
LEMMA DeleteEffect ==
  ASSUME TablesInv, NEW t \in {"dev", "point"}, NEW i \in DOMAIN db[t], Delete(t, i)
  PROVE  /\ TablesInv' /\ CountersGrow
         /\ \A u \in Tables : DOMAIN db'[u] \subseteq DOMAIN db[u]
<1> USE DEF TablesInv
<1>1. CASE t = "dev"
  <2>1. db' = [db EXCEPT !["dev"] = Without(db["dev"], {i}),
                         !["point"] = Without(db["point"], Children("point", i))]
    BY <1>1 DEF Delete
  <2>2. /\ DOMAIN db' = Tables /\ db'["conn"] = db["conn"]
        /\ db'["dev"] = Without(db["dev"], {i})
        /\ db'["point"] = Without(db["point"], Children("point", i))
    BY <2>1 DEF IdsOK, Tables
  <2>3. /\ DOMAIN db'["dev"] = DOMAIN db["dev"] \ {i}
        /\ DOMAIN db'["point"] = {x \in DOMAIN db["point"] : db["point"][x].ref # i}
        /\ \A x \in DOMAIN db'["dev"] : db'["dev"][x] = db["dev"][x]
        /\ \A x \in DOMAIN db'["point"] : db'["point"][x] = db["point"][x]
    BY <2>2 DEF Without, Children
  <2>4. /\ \A u \in Tables : DOMAIN db'[u] \subseteq DOMAIN db[u]
        /\ \A u \in Tables : \A j \in DOMAIN db'[u] : db'[u][j] = db[u][j]
    BY <2>2, <2>3 DEF Tables
  <2>5. ReferencesHold'
    <3>1. \A x \in DOMAIN db["dev"] : db["dev"][x].ref \in DOMAIN db["conn"]
      BY DEF ReferencesHold, Parent
    <3>2. \A x \in DOMAIN db["point"] : db["point"][x].ref \in DOMAIN db["dev"]
      BY DEF ReferencesHold, Parent
    <3>3. \A x \in DOMAIN db'["dev"] : db'["dev"][x].ref \in DOMAIN db'["conn"]
      BY <2>2, <2>3, <3>1
    <3>4. \A x \in DOMAIN db'["point"] : db'["point"][x].ref \in DOMAIN db'["dev"]
      BY <2>3, <3>2
    <3> QED BY <3>3, <3>4 DEF ReferencesHold, Parent
  <2>6. seq' = seq
    BY DEF Delete
  <2> QED BY <2>2, <2>4, <2>5, <2>6, RemoveEffect
<1>2. CASE t = "point"
  <2>2. /\ DOMAIN db' = Tables /\ db'["conn"] = db["conn"] /\ db'["dev"] = db["dev"]
        /\ DOMAIN db'["point"] \subseteq DOMAIN db["point"]
        /\ \A x \in DOMAIN db'["point"] : db'["point"][x] = db["point"][x]
    BY <1>2 DEF Delete, IdsOK, Tables, Without
  <2>4. /\ \A u \in Tables : DOMAIN db'[u] \subseteq DOMAIN db[u]
        /\ \A u \in Tables : \A j \in DOMAIN db'[u] : db'[u][j] = db[u][j]
    BY <2>2 DEF Tables
  <2>5. ReferencesHold'
    BY <2>2 DEF ReferencesHold, Parent
  <2>6. seq' = seq
    BY DEF Delete
  <2> QED BY <2>2, <2>4, <2>5, <2>6, RemoveEffect
<1> QED BY <1>1, <1>2

(* What deleting a connection leaves behind: no other row goes, since the  *)
(* foreign key refuses one with devices.                                   *)
LEMMA DeleteConnectionEffect ==
  ASSUME TablesInv, NEW c, DeleteConnection(c)
  PROVE  /\ TablesInv' /\ CountersGrow
         /\ \A u \in Tables : DOMAIN db'[u] \subseteq DOMAIN db[u]
         /\ \A u \in Tables : \A i \in DOMAIN db[u] :
              <<u, i>> # <<"conn", c>> => i \in DOMAIN db'[u]
         /\ newer' = newer \/ newer' = newer \ {<<"conn", c>>}
         /\ newer' = newer => db' = db \/ <<"conn", c>> \notin newer
<1> USE DEF TablesInv
<1>1. CASE c \in DOMAIN db.conn /\ Children("dev", c) = {}
  <2>1. db' = [db EXCEPT !["conn"] = Without(db["conn"], {c})] /\ newer' = newer \ {<<"conn", c>>}
    BY <1>1 DEF DeleteConnection, Enforced
  <2>2. /\ DOMAIN db' = Tables /\ db'["dev"] = db["dev"] /\ db'["point"] = db["point"]
        /\ DOMAIN db'["conn"] = DOMAIN db["conn"] \ {c}
        /\ \A x \in DOMAIN db'["conn"] : db'["conn"][x] = db["conn"][x]
    BY <2>1 DEF IdsOK, Tables, Without
  <2>3. /\ \A u \in Tables : DOMAIN db'[u] \subseteq DOMAIN db[u]
        /\ \A u \in Tables : \A j \in DOMAIN db'[u] : db'[u][j] = db[u][j]
    BY <2>2 DEF Tables
  <2>4. \A u \in Tables : \A i \in DOMAIN db[u] : <<u, i>> # <<"conn", c>> => i \in DOMAIN db'[u]
    BY <2>2 DEF Tables
  <2>5. ReferencesHold'
    BY <1>1, <2>2 DEF ReferencesHold, Parent, Children
  <2>6. seq' = seq
    BY DEF DeleteConnection
  <2>7. newer' = newer => <<"conn", c>> \notin newer
    BY <2>1
  <2> QED BY <2>1, <2>2, <2>3, <2>4, <2>5, <2>6, <2>7, RemoveEffect
<1>2. CASE ~ (c \in DOMAIN db.conn /\ Children("dev", c) = {})
  <2>1. db' = db /\ newer' = newer /\ seq' = seq
    BY <1>2 DEF DeleteConnection, Enforced
  <2>2. IdsOK' /\ RowsOK' /\ ReferencesHold'
    BY <2>1 DEF IdsOK, RowsOK, ReferencesHold
  <2>3. CountersGrow
    BY <2>1 DEF CountersGrow, IdsOK, Counted
  <2> QED BY <2>1, <2>2, <2>3
<1> QED BY <1>1, <1>2

(* An empty gateway has sound tables.                                      *)
LEMMA NewHardwareEffect ==
  ASSUME NewHardware
  PROVE  TablesInv'
<1>1. \A t \in Tables : DOMAIN db'[t] = {}
  BY DEF NewHardware, Empty
<1>2. DOMAIN db' = Tables /\ seq' = [conn |-> 0, point |-> 0]
  BY DEF NewHardware
<1>3. IdsOK'
  BY <1>1, <1>2 DEF IdsOK, Tables, Counted
<1>4. RowsOK' /\ ReferencesHold'
  BY <1>1, <1>2 DEF RowsOK, ReferencesHold, Parent, Tables
<1> QED BY <1>3, <1>4 DEF TablesInv

(* The tables a gateway starts with are sound.                             *)
LEMMA InitTables ==
  ASSUME Init
  PROVE  TablesInv
<1>1. PICK c \in Configs : db = c.db /\ seq = c.seq
  BY DEF Init
<1>2. WellFormed(c)
  BY ConfigImportAssumption
<1>3. IdsOK
  BY <1>1, <1>2 DEF IdsOK, WellFormed, Tables, Counted
<1>4. RowsOK
  BY <1>1, <1>2 DEF RowsOK, WellFormed
<1>5. ReferencesHold
  BY <1>1, <1>2 DEF ReferencesHold, WellFormed, Parent, Tables
<1> QED BY <1>3, <1>4, <1>5 DEF TablesInv

-----------------------------------------------------------------------------
(* The file.                                                               *)

FileRow == [table : Tables, id : Nat, rev : Revs \cup {0}, ref : Nat]

(* Where the elements of a concatenation come from.                        *)
LEMMA ConcatIndex ==
  ASSUME NEW S, NEW s \in Seq(S), NEW r \in Seq(S)
  PROVE  /\ s \o r \in Seq(S) /\ Len(s \o r) = Len(s) + Len(r)
         /\ Len(s) \in Nat /\ Len(r) \in Nat
         /\ \A k \in 1..Len(s) : (s \o r)[k] = s[k]
         /\ \A k \in 1..Len(r) : (s \o r)[Len(s) + k] = r[k]
<1>1. Len(s) \in Nat /\ Len(r) \in Nat
  OBVIOUS
<1>2. s \o r \in Seq(S) /\ Len(s \o r) = Len(s) + Len(r)
  OBVIOUS
<1>3. \A k \in 1..Len(s) + Len(r) : (s \o r)[k] = IF k <= Len(s) THEN s[k] ELSE r[k - Len(s)]
  BY ConcatProperties
<1>4. ASSUME NEW k \in 1..Len(s) PROVE (s \o r)[k] = s[k]
  BY <1>1, <1>3
<1>5. ASSUME NEW k \in 1..Len(r) PROVE (s \o r)[Len(s) + k] = r[k]
  <2>1. Len(s) + k \in 1..Len(s) + Len(r) /\ ~ (Len(s) + k <= Len(s)) /\ Len(s) + k - Len(s) = k
    BY <1>1
  <2> QED BY <1>3, <2>1
<1> QED BY <1>1, <1>2, <1>4, <1>5

\* A query lists rows of its table in the order of their ids.
LEMMA ListOK ==
  ASSUME IdsOK, RowsOK, NEW t \in Tables, NEW ids \in SUBSET DOMAIN db[t]
  PROVE  /\ List(t, ids) \in Seq(FileRow)
         /\ \A k \in 1..Len(List(t, ids)) :
              /\ List(t, ids)[k].table = t
              /\ List(t, ids)[k].id \in ids /\ List(t, ids)[k].rev \in Revs
         /\ \A j, k \in 1..Len(List(t, ids)) : j < k => List(t, ids)[j].id < List(t, ids)[k].id
<1> DEFINE n == Cardinality(ids)
           order == CHOOSE s \in [1..n -> ids] : \A j, k \in 1..n : j < k => s[j] < s[k]
           L == [k \in DOMAIN order |-> Row(t, order[k], db[t][order[k]].rev, db[t][order[k]].ref)]
<1>1. PICK m \in Nat : ids \in SUBSET (1..m)
  BY DEF IdsOK, Tables, Counted
<1>2. n \in Nat /\ \E s \in [1..n -> ids] : \A j, k \in 1..n : j < k => s[j] < s[k]
  BY <1>1, OrderExists DEF Increasing
<1>3. order \in [1..n -> ids] /\ \A j, k \in 1..n : j < k => order[j] < order[k]
  BY <1>2
<1>4. List(t, ids) = L
  BY DEF List
<1> HIDE DEF order, n
<1>5. ASSUME NEW k \in 1..n
      PROVE  /\ L[k] \in FileRow /\ L[k].table = t /\ L[k].id = order[k]
             /\ order[k] \in ids /\ L[k].rev \in Revs
  <2>1. order[k] \in ids /\ order[k] \in DOMAIN db[t] /\ k \in DOMAIN order
    BY <1>3
  <2>2. order[k] \in Nat
    BY <2>1, IdsPositive
  <2>3. db[t][order[k]] \in [rev : Revs, ref : Nat]
    BY <2>1 DEF RowsOK
  <2>4. L[k] = Row(t, order[k], db[t][order[k]].rev, db[t][order[k]].ref)
    BY <2>1
  <2> QED BY <2>1, <2>2, <2>3, <2>4 DEF Row, FileRow
<1>6. DOMAIN L = 1..n
  BY <1>3
<1>7. L \in [1..n -> FileRow]
  BY <1>5, <1>6
<1>8. L \in Seq(FileRow) /\ Len(L) = n
  BY <1>2, <1>7
<1>9. \A j, k \in 1..n : j < k => L[j].id < L[k].id
  BY <1>3, <1>5
<1> HIDE DEF L
<1> QED BY <1>4, <1>5, <1>8, <1>9

\* What is left to import is the end of the file.
Suffix(s, f) == \E k \in 1..Len(f) + 1 : s = SubSeq(f, k, Len(f))

(* Where the elements of a suffix come from.                               *)
LEMMA SuffixIndex ==
  ASSUME NEW S, NEW f \in Seq(S), NEW s, Suffix(s, f)
  PROVE  /\ s \in Seq(S) /\ Len(s) <= Len(f)
         /\ \A j \in 1..Len(s) : /\ Len(f) - Len(s) + j \in 1..Len(f)
                                 /\ s[j] = f[Len(f) - Len(s) + j]
<1>1. PICK k \in 1..Len(f) + 1 : s = SubSeq(f, k, Len(f))
  BY DEF Suffix
<1>2. Len(f) \in Nat
  OBVIOUS
<1>3. s \in Seq(S) /\ Len(s) = Len(f) - k + 1 /\ \A j \in 1..Len(s) : s[j] = f[j + k - 1]
  BY <1>1, <1>2
<1>4. ASSUME NEW j \in 1..Len(s)
      PROVE  Len(f) - Len(s) + j \in 1..Len(f) /\ s[j] = f[Len(f) - Len(s) + j]
  <2>1. Len(f) - Len(s) + j = j + k - 1
    BY <1>2, <1>3
  <2>2. j + k - 1 \in 1..Len(f)
    BY <1>2, <1>3
  <2> QED BY <1>3, <2>1, <2>2
<1> QED BY <1>2, <1>3, <1>4

(* The end of a suffix is a suffix.                                        *)
LEMMA SuffixOf ==
  ASSUME NEW S, NEW f \in Seq(S), NEW s, Suffix(s, f), NEW m \in 1..Len(s) + 1
  PROVE  Suffix(SubSeq(s, m, Len(s)), f)
<1>1. PICK k \in 1..Len(f) + 1 : s = SubSeq(f, k, Len(f))
  BY DEF Suffix
<1>2. Len(f) \in Nat
  OBVIOUS
<1>3. s \in Seq(S) /\ Len(s) = Len(f) - k + 1 /\ \A j \in 1..Len(s) : s[j] = f[j + k - 1]
  BY <1>1, <1>2
<1> DEFINE l == k + m - 1
           a == SubSeq(s, m, Len(s))
           b == SubSeq(f, l, Len(f))
<1>4. l \in 1..Len(f) + 1
  BY <1>2, <1>3
<1>5. a \in Seq(S) /\ Len(a) = Len(s) - m + 1 /\ \A j \in 1..Len(a) : a[j] = s[j + m - 1]
  BY <1>3
<1>6. b \in Seq(S) /\ Len(b) = Len(f) - l + 1 /\ \A j \in 1..Len(b) : b[j] = f[j + l - 1]
  BY <1>2, <1>4
<1> HIDE DEF a, b
<1>7. Len(a) = Len(b)
  BY <1>2, <1>3, <1>5, <1>6
<1>8. ASSUME NEW j \in 1..Len(a) PROVE a[j] = b[j]
  <2>1. j + m - 1 \in 1..Len(s) /\ j + m - 1 + k - 1 = j + l - 1
    BY <1>2, <1>3, <1>5
  <2> QED BY <1>3, <1>5, <1>6, <1>7, <2>1
<1>9. a = b
  BY <1>5, <1>6, <1>7, <1>8, SMTT(30)
<1> QED BY <1>4, <1>9 DEF Suffix, a, b

(* The rows left after the first are the rest of the file.                 *)
LEMMA SuffixTail ==
  ASSUME NEW S, NEW f \in Seq(S), NEW s, Suffix(s, f), s # <<>>
  PROVE  /\ Suffix(Tail(s), f) /\ Tail(s) \in Seq(S) /\ Len(Tail(s)) = Len(s) - 1
         /\ \A j \in 1..Len(Tail(s)) : j + 1 \in 1..Len(s) /\ Tail(s)[j] = s[j + 1]
<1>1. s \in Seq(S) /\ Len(s) \in Nat /\ Len(s) > 0
  BY SuffixIndex
<1>2. Tail(s) = SubSeq(s, 2, Len(s))
  BY <1>1
<1>3. 2 \in 1..Len(s) + 1
  BY <1>1
<1>4. Suffix(Tail(s), f)
  BY <1>2, <1>3, SuffixOf
<1>5. Tail(s) \in Seq(S) /\ Len(Tail(s)) = Len(s) - 1
  BY <1>1
<1>6. ASSUME NEW j \in 1..Len(Tail(s)) PROVE j + 1 \in 1..Len(s) /\ Tail(s)[j] = s[j + 1]
  BY <1>1, <1>5
<1> QED BY <1>4, <1>5, <1>6

-----------------------------------------------------------------------------
(* The invariant.                                                          *)

Importing == {"get", "update", "create"}
Pcs == {"start", "xdevs", "xpoints", "ready", "done"} \cup Importing

Maps == UNION {[S -> Nat] : S \in SUBSET Int}

Requests == [pc : Pcs, todo : Seq(FileRow), map : Maps, dev : Nat,
             failed : BOOLEAN, landed : Maps]

\* The file and the request; a row to be written has valid settings, and the
\* import has its parent.
FileInv ==
  /\ file \in Seq(FileRow) /\ io \in Requests
  /\ io.pc \in Importing => /\ Suffix(io.todo, file)
                            /\ \A k \in 1..Len(file) : file[k].rev \in Revs
  /\ io.pc \in {"update", "create"} => io.todo # <<>> /\ ~ Unmapped

FlagsInv ==
  /\ other.pc \in {"idle", "delete", "insert"}
  /\ home \in BOOLEAN /\ clean \in BOOLEAN /\ clash \subseteq Tables

\* The ids in a file of this gateway were given out here.
AgeInv ==
  home => \A k \in 1..Len(file) :
            file[k].table # "dev" => file[k].id <= seq[file[k].table]

\* Rows others created are in the tables; those with a counter are not in the
\* file.
NewerInv ==
  /\ \A n \in newer : n \in Tables \X Nat /\ n[2] \in DOMAIN db[n[1]]
  /\ home /\ io.pc \in {"ready"} \cup Importing =>
       \A n \in newer : n[1] # "dev" =>
         \A k \in 1..Len(file) : ~ (file[k].table = n[1] /\ file[k].id = n[2])

\* Connections and devices are in the file in the order of their ids, unless
\* those of the devices are cleared; so are the devices still to be exported.
SortInv ==
  /\ \A k \in 1..Len(file) : file[k].table = "conn" => file[k].id > 0
  /\ \A j, k \in 1..Len(file) :
       j < k /\ file[j].table = file[k].table /\ file[k].table # "point" =>
         file[k].id = 0 \/ (0 < file[j].id /\ file[j].id < file[k].id)
  /\ io.pc = "xdevs" => \A k \in 1..Len(file) : file[k].table = "conn"
  /\ io.pc = "xpoints" =>
       /\ \A k \in 1..Len(io.todo) : io.todo[k].table = "dev" /\ io.todo[k].id > 0
       /\ \A j, k \in 1..Len(io.todo) : j < k => io.todo[j].id < io.todo[k].id
       /\ \A j \in 1..Len(file) : file[j].table = "dev" =>
            0 < file[j].id /\ \A k \in 1..Len(io.todo) : file[j].id < io.todo[k].id

\* On new hardware the import keeps ahead of the ids it gives out: connections
\* and devices that are still to come have higher ones in the file.
FreshInv ==
  ~ home /\ clean /\ io.pc \in Importing =>
    \A k \in 1..Len(file) : k > Len(file) - Len(io.todo) =>
      /\ file[k].table = "conn" => seq.conn < file[k].id
      /\ file[k].table = "dev" /\ file[k].id # 0 => \A i \in DOMAIN db.dev : i < file[k].id

PhaseInv == io.pc \notin Importing \cup {"done"} => clash = {}

IndInv == /\ TablesInv /\ FileInv /\ FlagsInv
          /\ AgeInv /\ NewerInv /\ SortInv /\ FreshInv /\ PhaseInv /\ ClashesOnlyByReuse

(* The inductive invariant holds before the export.                        *)
LEMMA InitInd == Init => IndInv
<1> SUFFICES ASSUME Init PROVE IndInv
  OBVIOUS
<1>1. TablesInv
  BY InitTables
<1>2. io = NoRequest /\ file = <<>> /\ other = [pc |-> "idle"] /\ home = TRUE /\ clean = TRUE
      /\ clash = {} /\ newer = {}
  BY DEF Init
<1>3. io.pc = "start" /\ Len(file) = 0
  BY <1>2 DEF NoRequest
<1>4. FileInv
  <2>1. Empty \in Maps
    BY DEF Empty, Maps
  <2>2. io \in Requests
    BY <1>2, <2>1 DEF NoRequest, Requests, Pcs
  <2> QED BY <1>2, <1>3, <2>2 DEF FileInv, Importing
<1>5. FlagsInv /\ AgeInv /\ NewerInv /\ SortInv /\ FreshInv /\ PhaseInv /\ ClashesOnlyByReuse
  BY <1>2, <1>3 DEF FlagsInv, AgeInv, NewerInv, SortInv, FreshInv, PhaseInv, ClashesOnlyByReuse, Importing
<1> QED BY <1>1, <1>4, <1>5 DEF IndInv

-----------------------------------------------------------------------------
(* Export.                                                                 *)

LEMMA ExportConnsStep ==
  ASSUME IndInv, ExportConns
  PROVE  IndInv'
<1> USE DEF IndInv
<1> DEFINE L == List("conn", DOMAIN db.conn)
<1>1. /\ L \in Seq(FileRow)
      /\ \A k \in 1..Len(L) : L[k].table = "conn" /\ L[k].id \in DOMAIN db.conn
      /\ \A j, k \in 1..Len(L) : j < k => L[j].id < L[k].id
  BY ListOK DEF Tables, TablesInv
<1>2. file' = L /\ UNCHANGED <<db, seq, other, home, clean, clash, newer>> /\ io.pc = "start"
  BY DEF ExportConns
<1> HIDE DEF L
<1>3. io' \in Requests /\ io'.pc = "xdevs"
  BY DEF ExportConns, FileInv, Requests, Pcs
<1>4. TablesInv' /\ FlagsInv'
  BY <1>2 DEF TablesInv, IdsOK, RowsOK, ReferencesHold, FlagsInv
<1>5. FileInv'
  BY <1>1, <1>2, <1>3 DEF FileInv, Importing
<1>6. \A k \in 1..Len(L) : L[k].id \in Nat /\ L[k].id > 0 /\ L[k].id <= seq["conn"]
  <2>1. DOMAIN db.conn \subseteq 1..seq.conn /\ seq.conn \in Nat
    BY DEF TablesInv, IdsOK, Counted
  <2> QED BY <1>1, <2>1
<1>7. AgeInv'
  BY <1>1, <1>2, <1>6 DEF AgeInv
<1>8. NewerInv'
  BY <1>2, <1>3 DEF NewerInv, Importing
<1>9. SortInv'
  BY <1>1, <1>2, <1>3, <1>6 DEF SortInv
<1>10. FreshInv' /\ PhaseInv' /\ ClashesOnlyByReuse'
  BY <1>2, <1>3 DEF FreshInv, PhaseInv, ClashesOnlyByReuse, Importing
<1> QED BY <1>4, <1>5, <1>7, <1>8, <1>9, <1>10

(* Listing the devices to export: in ascending order of ids.               *)
LEMMA ExportDevicesStep ==
  ASSUME IndInv, ExportDevices
  PROVE  IndInv'
<1> USE DEF IndInv
<1> DEFINE L == List("dev", DOMAIN db.dev)
<1>1. /\ L \in Seq(FileRow)
      /\ \A k \in 1..Len(L) : L[k].table = "dev" /\ L[k].id \in DOMAIN db.dev
      /\ \A j, k \in 1..Len(L) : j < k => L[j].id < L[k].id
  BY ListOK DEF Tables, TablesInv
<1>2. UNCHANGED <<db, seq, file, other, home, clean, clash, newer>> /\ io.pc = "xdevs"
      /\ io' = [io EXCEPT !.pc = "xpoints", !.todo = L]
  BY DEF ExportDevices
<1> HIDE DEF L
<1>3. io' \in Requests /\ io'.pc = "xpoints" /\ io'.todo = L
  BY <1>1, <1>2 DEF FileInv, Requests, Pcs
<1>4. TablesInv' /\ FlagsInv'
  BY <1>2 DEF TablesInv, IdsOK, RowsOK, ReferencesHold, FlagsInv
<1>5. FileInv'
  BY <1>2, <1>3 DEF FileInv, Importing
<1>6. \A k \in 1..Len(L) : L[k].id > 0
  <2>1. DOMAIN db.dev \subseteq Nat \ {0}
    BY IdsPositive DEF Tables, TablesInv
  <2> QED BY <1>1, <2>1
<1>7. AgeInv'
  BY <1>2 DEF AgeInv
<1>8. NewerInv'
  BY <1>2, <1>3 DEF NewerInv, Importing
<1>9. SortInv'
  BY <1>1, <1>2, <1>3, <1>6 DEF SortInv
<1>10. FreshInv' /\ PhaseInv' /\ ClashesOnlyByReuse'
  BY <1>2, <1>3 DEF FreshInv, PhaseInv, ClashesOnlyByReuse, Importing
<1> QED BY <1>4, <1>5, <1>7, <1>8, <1>9, <1>10

(* Exporting the points of the next device behind it.                      *)
LEMMA ExportPointsStep ==
  ASSUME IndInv, ExportPoints
  PROVE  IndInv'
<1> USE DEF IndInv
<1> DEFINE d == Head(io.todo)
           P == List("point", Children("point", d.id))
           n == Len(file)
<1>1. /\ P \in Seq(FileRow)
      /\ \A k \in 1..Len(P) : P[k].table = "point" /\ P[k].id \in DOMAIN db.point
  BY ListOK DEF Tables, TablesInv, Children
<1>2. UNCHANGED <<db, seq, other, home, clean, clash, newer>> /\ io.pc = "xpoints"
      /\ file' = file \o <<d>> \o P /\ io' = [io EXCEPT !.todo = Tail(io.todo)] /\ io.todo # <<>>
  BY DEF ExportPoints
<1> HIDE DEF P
<1>3. file \in Seq(FileRow) /\ n \in Nat /\ io \in Requests /\ io.todo \in Seq(FileRow)
      /\ Len(io.todo) \in Nat
  BY DEF FileInv, Requests
<1>4. /\ d = io.todo[1] /\ 1 \in 1..Len(io.todo) /\ d \in FileRow
      /\ Tail(io.todo) \in Seq(FileRow) /\ Len(Tail(io.todo)) = Len(io.todo) - 1
      /\ \A k \in 1..Len(Tail(io.todo)) : k + 1 \in 1..Len(io.todo) /\ Tail(io.todo)[k] = io.todo[k + 1]
  BY <1>2, <1>3
<1> HIDE DEF d
<1>5. io' \in Requests /\ io'.pc = "xpoints" /\ io'.todo = Tail(io.todo)
  BY <1>2, <1>3, <1>4 DEF Requests
<1>6. /\ file' \in Seq(FileRow) /\ Len(file') = n + 1 + Len(P) /\ Len(P) \in Nat
      /\ \A k \in 1..n : file'[k] = file[k]
      /\ file'[n + 1] = d
      /\ \A k \in 1..Len(P) : file'[n + 1 + k] = P[k]
  <2> DEFINE g == file \o <<d>>
  <2>1. g \in Seq(FileRow) /\ Len(g) = n + 1 /\ g[n + 1] = d /\ \A k \in 1..n : g[k] = file[k]
    BY <1>3, <1>4
  <2>2. file' = g \o P
    BY <1>2
  <2> HIDE DEF g
  <2>3. /\ g \o P \in Seq(FileRow) /\ Len(g \o P) = Len(g) + Len(P) /\ Len(P) \in Nat
        /\ \A k \in 1..Len(g) : (g \o P)[k] = g[k]
        /\ \A k \in 1..Len(P) : (g \o P)[Len(g) + k] = P[k]
    <3>1. g \in Seq(FileRow) /\ P \in Seq(FileRow)
      BY <1>1, <2>1
    <3>2. g \o P \in Seq(FileRow) /\ Len(g \o P) = Len(g) + Len(P) /\ Len(P) \in Nat
      BY <3>1, ConcatIndex
    <3>3. \A k \in 1..Len(g) : (g \o P)[k] = g[k]
      BY <3>1, ConcatIndex
    <3>4. \A k \in 1..Len(P) : (g \o P)[Len(g) + k] = P[k]
      BY <3>1, ConcatIndex
    <3> QED BY <3>2, <3>3, <3>4
  <2>4. \A k \in 1..n : k \in 1..(n + 1)
    BY <1>3
  <2> HIDE DEF n
  <2>5. n + 1 \in 1..(n + 1)
    BY <1>3
  <2> QED BY <2>1, <2>2, <2>3, <2>4, <2>5
<1>7. ASSUME NEW k \in 1..Len(file')
      PROVE  \/ k \in 1..n /\ file'[k] = file[k]
             \/ k = n + 1 /\ file'[k] = d
             \/ k > n + 1 /\ file'[k].table = "point" /\ file'[k].id \in DOMAIN db.point
  <2>1. CASE k <= n
    BY <1>3, <1>6, <2>1
  <2>2. CASE k = n + 1
    BY <1>6, <2>2
  <2>3. CASE k > n + 1
    <3>1. k - n - 1 \in 1..Len(P) /\ k = n + 1 + (k - n - 1)
      BY <1>3, <1>6, <2>3
    <3>2. file'[k] = P[k - n - 1]
      BY <1>6, <3>1
    <3> QED BY <1>1, <2>3, <3>1, <3>2
  <2> QED BY <1>3, <1>6, <2>1, <2>2, <2>3
<1>8. /\ d.table = "dev" /\ d.id > 0 /\ d.id \in Nat
      /\ \A k \in 1..Len(Tail(io.todo)) : d.id < Tail(io.todo)[k].id
      /\ \A j \in 1..n : file[j].table = "dev" => 0 < file[j].id /\ file[j].id < d.id
  <2>1. d.table = "dev" /\ d.id > 0 /\ d.id \in Nat
    BY <1>2, <1>4 DEF SortInv, FileRow
  <2>2. \A j \in 1..n : file[j].table = "dev" => 0 < file[j].id /\ file[j].id < d.id
    BY <1>2, <1>4 DEF SortInv
  <2>3. ASSUME NEW k \in 1..Len(Tail(io.todo)) PROVE d.id < Tail(io.todo)[k].id
    <3>1. k + 1 \in 1..Len(io.todo) /\ 1 < k + 1 /\ Tail(io.todo)[k] = io.todo[k + 1]
      BY <1>3, <1>4
    <3> QED BY <1>2, <1>4, <3>1 DEF SortInv
  <2> QED BY <2>1, <2>2, <2>3
<1>9. TablesInv' /\ FlagsInv'
  BY <1>2 DEF TablesInv, IdsOK, RowsOK, ReferencesHold, FlagsInv
<1>10. FileInv'
  BY <1>5, <1>6 DEF FileInv, Importing
<1>11. AgeInv'
  <2> SUFFICES ASSUME home, NEW k \in 1..Len(file'), file'[k].table # "dev"
               PROVE  file'[k].id <= seq[file'[k].table]
    BY <1>2 DEF AgeInv
  <2>1. CASE k \in 1..n /\ file'[k] = file[k]
    BY <2>1 DEF AgeInv
  <2>2. CASE file'[k].table = "point" /\ file'[k].id \in DOMAIN db.point
    BY <2>2 DEF TablesInv, IdsOK
  <2> QED BY <1>7, <1>8, <2>1, <2>2
<1>12. NewerInv'
  BY <1>2, <1>5 DEF NewerInv, Importing
<1>13. SortInv'
  <2>1. \A k \in 1..Len(file') : file'[k].table = "conn" => file'[k].id > 0
    BY <1>7, <1>8 DEF SortInv
  <2>2. ASSUME NEW j \in 1..Len(file'), NEW k \in 1..Len(file'), j < k,
               file'[j].table = file'[k].table, file'[k].table # "point"
        PROVE  file'[k].id = 0 \/ (0 < file'[j].id /\ file'[j].id < file'[k].id)
    <3>1. k \in 1..n \/ k = n + 1
      BY <1>7, <2>2
    <3>2. j \in 1..n /\ file'[j] = file[j]
      BY <1>3, <1>6, <2>2, <3>1
    <3>3. CASE k \in 1..n
      <4>1. file'[k] = file[k]
        BY <1>6, <3>3
      <4> QED BY <2>2, <3>2, <3>3, <4>1 DEF SortInv
    <3>4. CASE k = n + 1
      <4>1. file'[k] = d
        BY <1>6, <3>4
      <4>2. file[j].table = "dev"
        BY <1>8, <2>2, <3>2, <4>1
      <4>3. 0 < file[j].id /\ file[j].id < d.id
        BY <1>8, <3>2, <4>2
      <4> QED BY <3>2, <4>1, <4>3
    <3> QED BY <3>1, <3>3, <3>4
  <2>3. ASSUME NEW k \in 1..Len(Tail(io.todo))
        PROVE  Tail(io.todo)[k].table = "dev" /\ Tail(io.todo)[k].id > 0
    BY <1>2, <1>4 DEF SortInv
  <2>4. ASSUME NEW j \in 1..Len(Tail(io.todo)), NEW k \in 1..Len(Tail(io.todo)), j < k
        PROVE  Tail(io.todo)[j].id < Tail(io.todo)[k].id
    <3>1. j + 1 \in 1..Len(io.todo) /\ k + 1 \in 1..Len(io.todo) /\ j + 1 < k + 1
          /\ Tail(io.todo)[j] = io.todo[j + 1] /\ Tail(io.todo)[k] = io.todo[k + 1]
      BY <1>4, <2>4
    <3>2. \A i, l \in 1..Len(io.todo) : i < l => io.todo[i].id < io.todo[l].id
      BY <1>2 DEF SortInv
    <3>3. io.todo[j + 1].id < io.todo[k + 1].id
      BY <3>1, <3>2
    <3> QED BY <3>1, <3>3
  <2>5. ASSUME NEW j \in 1..Len(file'), file'[j].table = "dev"
        PROVE  0 < file'[j].id /\ \A k \in 1..Len(Tail(io.todo)) : file'[j].id < Tail(io.todo)[k].id
    <3>1. CASE j \in 1..n /\ file'[j] = file[j]
      BY <1>2, <1>4, <2>5, <3>1 DEF SortInv
    <3>2. CASE file'[j] = d
      BY <1>8, <3>2
    <3> QED BY <1>7, <2>5, <3>1, <3>2
  <2> QED BY <1>5, <2>1, <2>2, <2>3, <2>4, <2>5 DEF SortInv
<1>14. FreshInv' /\ PhaseInv' /\ ClashesOnlyByReuse'
  BY <1>2, <1>5 DEF FreshInv, PhaseInv, ClashesOnlyByReuse, Importing
<1> QED BY <1>9, <1>10, <1>11, <1>12, <1>13, <1>14

(* The state in which no request has begun is well typed.                  *)
LEMMA NoRequestOK == NoRequest \in Requests /\ NoRequest.pc = "start" /\ NoRequest.todo = <<>>
<1>1. Empty \in Maps
  BY DEF Empty, Maps
<1> QED BY <1>1 DEF NoRequest, Requests, Pcs

(* The end of an export, with or without a file.                           *)
LEMMA ExportEndStep ==
  ASSUME IndInv, ExportDone \/ ExportFails
  PROVE  IndInv'
<1> USE DEF IndInv
<1>1. /\ UNCHANGED <<db, seq, other, home, clash>>
      /\ io.pc \in {"xdevs", "xpoints"}
      /\ file' = file \/ file' = <<>>
      /\ clean' = clean \/ clean' = TRUE
  BY DEF ExportDone, ExportFails
<1>2. io' \in Requests /\ io'.pc \in {"start", "ready"}
  BY NoRequestOK DEF ExportDone, ExportFails, Requests, Pcs
<1>3. clash = {}
  BY <1>1 DEF PhaseInv, Importing
<1>4. TablesInv' /\ FlagsInv'
  <2>1. TablesInv'
    BY <1>1 DEF TablesInv, IdsOK, RowsOK, ReferencesHold
  <2>2. FlagsInv'
    BY <1>1 DEF FlagsInv
  <2> QED BY <2>1, <2>2
<1>5. FileInv'
  <2>1. file \in Seq(FileRow) /\ <<>> \in Seq(FileRow)
    BY DEF FileInv
  <2>2. file' \in Seq(FileRow)
    BY <1>1, <2>1, Zenon
  <2> QED BY <1>2, <2>2 DEF FileInv, Importing
<1>6. AgeInv'
  BY <1>1 DEF AgeInv
<1>7. NewerInv'
  <2>1. CASE ExportDone
    BY <2>1 DEF ExportDone, NewerInv
  <2>2. CASE ExportFails
    <3>1. io'.pc = "start" /\ newer' = newer
      BY <2>2, NoRequestOK DEF ExportFails
    <3> QED BY <1>1, <3>1 DEF NewerInv, Importing
  <2> QED BY <2>1, <2>2
<1>8. SortInv'
  BY <1>1, <1>2 DEF SortInv
<1>9. FreshInv' /\ PhaseInv' /\ ClashesOnlyByReuse'
  BY <1>1, <1>2, <1>3 DEF FreshInv, PhaseInv, ClashesOnlyByReuse, Importing
<1> QED BY <1>4, <1>5, <1>6, <1>7, <1>8, <1>9

-----------------------------------------------------------------------------
(* Between export and import.                                              *)

LEMMA NewHardwareStep ==
  ASSUME IndInv, NewHardware
  PROVE  IndInv'
<1> USE DEF IndInv
<1>1. /\ UNCHANGED <<file, io, other, clean, clash>> /\ io.pc = "ready"
      /\ home' = FALSE /\ newer' = {}
  BY DEF NewHardware
<1>2. clash = {}
  BY <1>1 DEF PhaseInv, Importing
<1>3. TablesInv'
  BY NewHardwareEffect
<1>4. FlagsInv' /\ AgeInv' /\ NewerInv'
  BY <1>1 DEF FlagsInv, AgeInv, NewerInv
<1>5. FileInv'
  BY <1>1 DEF FileInv, Importing
<1>6. SortInv'
  BY <1>1 DEF SortInv
<1>7. FreshInv' /\ PhaseInv' /\ ClashesOnlyByReuse'
  BY <1>1, <1>2 DEF FreshInv, PhaseInv, ClashesOnlyByReuse, Importing
<1> QED BY <1>3, <1>4, <1>5, <1>6, <1>7

(* What editing by hand leaves of the file: the same rows of the same      *)
(* tables, with the ids they had or with those of devices and points       *)
(* cleared.                                                                *)
LEMMA EditedFile ==
  ASSUME FileInv, HandEdit
  PROVE  /\ file' \in Seq(FileRow) /\ Len(file') = Len(file)
         /\ \A k \in 1..Len(file) : /\ file'[k].table = file[k].table
                                    /\ file'[k].id = file[k].id \/ file'[k].id = 0
                                    /\ file[k].table = "conn" => file'[k].id = file[k].id
         /\ \/ \A k \in 1..Len(file) : file'[k].id = file[k].id
            \/ \A k \in 1..Len(file) : file[k].table # "conn" => file'[k].id = 0
<1>0. file \in Seq(FileRow) /\ Len(file) \in Nat /\ DOMAIN file = 1..Len(file)
      /\ \A k \in 1..Len(file) : file[k] \in FileRow
  BY DEF FileInv
<1>1. CASE file # <<>> /\ file' = [file EXCEPT ![1].rev = 0]
  <2> DEFINE r == [file[1] EXCEPT !.rev = 0]
  <2>1. 1 \in 1..Len(file)
    BY <1>0, <1>1
  <2>2. r \in FileRow /\ r.table = file[1].table /\ r.id = file[1].id
    BY <1>0, <2>1 DEF FileRow
  <2>3. file' = [file EXCEPT ![1] = r]
    BY <1>1
  <2> HIDE DEF r
  <2>4. /\ file' \in Seq(FileRow) /\ Len(file') = Len(file)
        /\ \A k \in 1..Len(file) : file'[k] = IF k = 1 THEN r ELSE file[k]
    BY <1>0, <2>1, <2>2, <2>3, ExceptSeq
  <2>5. \A k \in 1..Len(file) : file'[k].table = file[k].table /\ file'[k].id = file[k].id
    BY <2>2, <2>4
  <2> QED BY <2>4, <2>5
<1>2. CASE file' = [k \in DOMAIN file |-> IF file[k].table = "conn" THEN file[k]
                                          ELSE [file[k] EXCEPT !.id = 0]]
  <2>1. ASSUME NEW k \in 1..Len(file)
        PROVE  /\ file'[k] \in FileRow /\ file'[k].table = file[k].table
               /\ file[k].table = "conn" => file'[k].id = file[k].id
               /\ file[k].table # "conn" => file'[k].id = 0
    <3>1. file[k] \in FileRow
      BY <1>0
    <3>2. file'[k] = IF file[k].table = "conn" THEN file[k] ELSE [file[k] EXCEPT !.id = 0]
      BY <1>0, <1>2
    <3> QED BY <3>1, <3>2 DEF FileRow
  <2>2. file' \in [1..Len(file) -> FileRow]
    <3>1. DOMAIN file' = 1..Len(file) /\ file' = [k \in 1..Len(file) |-> file'[k]]
      BY <1>0, <1>2
    <3> QED BY <2>1, <3>1
  <2>3. file' \in Seq(FileRow) /\ Len(file') = Len(file)
    BY <1>0, <2>2
  <2> QED BY <2>1, <2>3
<1> QED BY <1>1, <1>2 DEF HandEdit

(* Editing the file by hand: a row that Validate refuses, or the ids of    *)
(* devices and points cleared.                                             *)
LEMMA HandEditStep ==
  ASSUME IndInv, HandEdit
  PROVE  IndInv'
<1> USE DEF IndInv
<1>1. UNCHANGED <<db, seq, io, other, home, clean, clash, newer>> /\ io.pc = "ready"
  BY DEF HandEdit
<1>0. file \in Seq(FileRow) /\ Len(file) \in Nat /\ DOMAIN file = 1..Len(file)
      /\ \A k \in 1..Len(file) : file[k] \in FileRow
  BY DEF FileInv
<1>2. /\ file' \in Seq(FileRow) /\ Len(file') = Len(file)
      /\ \A k \in 1..Len(file) : /\ file'[k].table = file[k].table
                                 /\ file'[k].id = file[k].id \/ file'[k].id = 0
                                 /\ file[k].table = "conn" => file'[k].id = file[k].id
      /\ \/ \A k \in 1..Len(file) : file'[k].id = file[k].id
         \/ \A k \in 1..Len(file) : file[k].table # "conn" => file'[k].id = 0
  BY EditedFile
<1>3. TablesInv' /\ FlagsInv'
  BY <1>1 DEF TablesInv, IdsOK, RowsOK, ReferencesHold, FlagsInv
<1>4. FileInv'
  BY <1>1, <1>2 DEF FileInv, Importing
<1>5. \A k \in 1..Len(file) : file[k].table \in Tables /\ file[k].id \in Nat
  BY <1>0 DEF FileRow
<1>6. AgeInv'
  <2> SUFFICES ASSUME home, NEW k \in 1..Len(file), file[k].table # "dev"
               PROVE  file'[k].id <= seq[file[k].table]
    BY <1>1, <1>2 DEF AgeInv
  <2>1. file[k].id <= seq[file[k].table] /\ seq[file[k].table] \in Nat
    BY <1>5 DEF AgeInv, TablesInv, IdsOK, Tables, Counted
  <2> QED BY <1>2, <1>5, <2>1
<1>7. NewerInv'
  <2>1. \A n \in newer : n \in Tables \X Nat /\ n[2] \in DOMAIN db[n[1]] /\ n[2] # 0
    BY IdsPositive DEF NewerInv, TablesInv
  <2> SUFFICES ASSUME home, NEW n \in newer, n[1] # "dev", NEW k \in 1..Len(file)
               PROVE  ~ (file'[k].table = n[1] /\ file'[k].id = n[2])
    BY <1>1, <1>2, <2>1 DEF NewerInv
  <2>2. ~ (file[k].table = n[1] /\ file[k].id = n[2])
    BY <1>1 DEF NewerInv
  <2> QED BY <1>2, <2>1, <2>2
<1>8. SortInv'
  <2>1. \A k \in 1..Len(file') : file'[k].table = "conn" => file'[k].id > 0
    BY <1>2 DEF SortInv
  <2>2. ASSUME NEW j \in 1..Len(file), NEW k \in 1..Len(file),
               j < k, file[j].table = file[k].table, file[k].table # "point"
        PROVE  file'[k].id = 0 \/ (0 < file'[j].id /\ file'[j].id < file'[k].id)
    <3>1. file[k].id = 0 \/ (0 < file[j].id /\ file[j].id < file[k].id)
      BY <2>2 DEF SortInv
    <3>2. (file'[k].id = file[k].id /\ file'[j].id = file[j].id) \/ file'[k].id = 0
      BY <1>2, <2>2
    <3> QED BY <3>1, <3>2
  <2> QED BY <1>1, <1>2, <2>1, <2>2 DEF SortInv
<1>9. FreshInv' /\ PhaseInv' /\ ClashesOnlyByReuse'
  BY <1>1 DEF FreshInv, PhaseInv, ClashesOnlyByReuse, Importing
<1> QED BY <1>3, <1>4, <1>6, <1>7, <1>8, <1>9

-----------------------------------------------------------------------------
(* Import.                                                                 *)

LEMMA BeginImportStep ==
  ASSUME IndInv, BeginImport
  PROVE  IndInv'
<1> USE DEF IndInv
<1>1. UNCHANGED <<db, seq, file, other, home, clash, newer>> /\ io.pc = "ready"
  BY DEF BeginImport
<1>0. /\ file \in Seq(FileRow) /\ Len(file) \in Nat /\ DOMAIN file = 1..Len(file)
      /\ \A k \in 1..Len(file) : file[k] \in FileRow
  BY DEF FileInv
<1>2. clash = {}
  BY <1>1 DEF PhaseInv, Importing
<1>3. TablesInv' /\ AgeInv'
  BY <1>1 DEF TablesInv, IdsOK, RowsOK, ReferencesHold, AgeInv
<1>4. clean' \in BOOLEAN
  BY DEF BeginImport, FlagsInv
<1>5. FlagsInv'
  BY <1>1, <1>4 DEF FlagsInv
<1>6. CASE \A k \in DOMAIN file : Valid(file[k])
  <2>1. /\ io' = [NoRequest EXCEPT !.pc = "get", !.todo = file]
        /\ clean' = (clean /\ (home \/ seq = [conn |-> 0, point |-> 0]))
    BY <1>6 DEF BeginImport
  <2>2. io' \in Requests /\ io'.pc = "get" /\ io'.todo = file
    BY <1>0, <2>1, NoRequestOK DEF Requests, Pcs, Importing
  <2>3. Suffix(file, file)
    <3>1. file = SubSeq(file, 1, Len(file))
      BY <1>0
    <3>2. 1 \in 1..Len(file) + 1
      BY <1>0
    <3> QED BY <3>1, <3>2 DEF Suffix
  <2>4. \A k \in 1..Len(file) : file[k].rev \in Revs
    BY <1>0, <1>6 DEF Valid, FileRow
  <2>5. FileInv'
    BY <1>0, <1>1, <2>2, <2>3, <2>4 DEF FileInv, Importing
  <2>6. NewerInv'
    BY <1>1, <2>2 DEF NewerInv, Importing
  <2>7. SortInv'
    BY <1>1, <2>2 DEF SortInv
  <2>8. FreshInv'
    <3> SUFFICES ASSUME ~ home, clean', NEW k \in 1..Len(file)
                 PROVE  /\ file[k].table = "conn" => seq.conn < file[k].id
                        /\ file[k].table = "dev" /\ file[k].id # 0 =>
                             \A i \in DOMAIN db.dev : i < file[k].id
      BY <1>1 DEF FreshInv
    <3>1. seq.conn = 0
      <4>1. seq = [conn |-> 0, point |-> 0]
        BY <2>1
      <4> QED BY <4>1
    <3>2. DOMAIN db.conn = {}
      BY <3>1 DEF TablesInv, IdsOK
    <3>3. DOMAIN db.dev = {}
      BY <3>2 DEF TablesInv, ReferencesHold, Parent
    <3>4. file[k].table = "conn" => file[k].id > 0
      BY DEF SortInv
    <3> QED BY <3>1, <3>3, <3>4
  <2>9. PhaseInv' /\ ClashesOnlyByReuse'
    BY <1>1, <1>2 DEF PhaseInv, ClashesOnlyByReuse
  <2> QED BY <1>3, <1>5, <2>5, <2>6, <2>7, <2>8, <2>9
<1>7. CASE ~ \A k \in DOMAIN file : Valid(file[k])
  <2>1. io' = [NoRequest EXCEPT !.pc = "done", !.failed = TRUE] /\ clean' = clean
    BY <1>7 DEF BeginImport
  <2>2. io' \in Requests /\ io'.pc = "done"
    BY <2>1, NoRequestOK DEF Requests, Pcs
  <2>3. FileInv'
    BY <1>1, <2>2 DEF FileInv, Importing
  <2>4. NewerInv'
    BY <1>1, <2>2 DEF NewerInv, Importing
  <2>5. SortInv'
    BY <1>1, <2>2 DEF SortInv
  <2>6. FreshInv' /\ PhaseInv' /\ ClashesOnlyByReuse'
    BY <1>1, <1>2, <2>1, <2>2 DEF FreshInv, PhaseInv, ClashesOnlyByReuse, Importing
  <2> QED BY <1>3, <1>5, <2>3, <2>4, <2>5, <2>6
<1> QED BY <1>6, <1>7

\* The row to import next, and where it is in the file.
LEMMA RowOK ==
  ASSUME FileInv, io.pc \in Importing, io.todo # <<>>
  PROVE  /\ row \in FileRow /\ row.rev \in Revs
         /\ Len(io.todo) \in Nat \ {0} /\ Len(file) \in Nat /\ Len(io.todo) <= Len(file)
         /\ Len(file) - Len(io.todo) + 1 \in 1..Len(file)
         /\ row = file[Len(file) - Len(io.todo) + 1]
         /\ \A k \in 1..Len(io.todo) : /\ Len(file) - Len(io.todo) + k \in 1..Len(file)
                                       /\ io.todo[k] = file[Len(file) - Len(io.todo) + k]
<1>1. file \in Seq(FileRow) /\ Suffix(io.todo, file) /\ \A k \in 1..Len(file) : file[k].rev \in Revs
  BY DEF FileInv
<1>2. /\ io.todo \in Seq(FileRow) /\ Len(io.todo) <= Len(file)
      /\ \A k \in 1..Len(io.todo) : /\ Len(file) - Len(io.todo) + k \in 1..Len(file)
                                    /\ io.todo[k] = file[Len(file) - Len(io.todo) + k]
  <2> DEFINE s == io.todo
  <2>1. file \in Seq(FileRow) /\ Suffix(s, file)
    BY <1>1
  <2> HIDE DEF s
  <2>2. /\ s \in Seq(FileRow) /\ Len(s) <= Len(file)
        /\ \A k \in 1..Len(s) : /\ Len(file) - Len(s) + k \in 1..Len(file)
                                /\ s[k] = file[Len(file) - Len(s) + k]
    BY <2>1, SuffixIndex
  <2> QED BY <2>2 DEF s
<1>3. Len(io.todo) \in Nat \ {0} /\ Len(file) \in Nat
  BY <1>1, <1>2
<1>4. row = io.todo[1] /\ 1 \in 1..Len(io.todo)
  BY <1>2, <1>3 DEF row
<1>5. Len(file) - Len(io.todo) + 1 \in 1..Len(file) /\ row = file[Len(file) - Len(io.todo) + 1]
  BY <1>2, <1>4
<1>6. row \in FileRow /\ row.rev \in Revs
  <2>1. \A k \in 1..Len(file) : file[k] \in FileRow
    BY <1>1
  <2> QED BY <1>1, <1>5, <2>1
<1> QED BY <1>2, <1>3, <1>5, <1>6

(* Adding a pair to connIDMap or to the devices' map.                      *)
LEMMA MapsWith ==
  ASSUME NEW f \in Maps, NEW x \in Int, NEW y \in Nat
  PROVE  With(f, x, y) \in Maps /\ DOMAIN With(f, x, y) = DOMAIN f \cup {x}
<1>1. PICK S \in SUBSET Int : f \in [S -> Nat]
  BY DEF Maps
<1>2. With(f, x, y) \in [S \cup {x} -> Nat]
  BY <1>1 DEF With
<1>3. S \cup {x} \in SUBSET Int
  OBVIOUS
<1> QED BY <1>2, <1>3 DEF Maps, With

\* What becomes of the request when a row has been dealt with
Advanced ==
  /\ io' \in Requests /\ io'.pc = "get"
  /\ Suffix(io'.todo, file) /\ Len(io'.todo) < Len(io.todo)

(* A row that has been written takes the import to the next row.           *)
LEMMA LandedAdvances ==
  ASSUME FileInv, io.pc \in Importing, io.todo # <<>>, NEW id \in Nat, Landed(id)
  PROVE  Advanced
<1>1. file \in Seq(FileRow) /\ Suffix(io.todo, file) /\ io \in Requests
  BY DEF FileInv
<1>2. /\ Suffix(Tail(io.todo), file) /\ Tail(io.todo) \in Seq(FileRow)
      /\ Len(Tail(io.todo)) = Len(io.todo) - 1
  BY <1>1, SuffixTail
<1>3. row \in FileRow /\ Len(io.todo) \in Nat /\ Len(file) \in Nat
  BY RowOK
<1> DEFINE m == IF row.table = "conn" THEN With(io.map, row.id, id) ELSE io.map
           d == IF row.table = "dev" THEN id ELSE io.dev
           l == With(io.landed, Len(file) - Len(io.todo) + 1, id)
<1>4. m \in Maps /\ d \in Nat
  <2>1. io.map \in Maps /\ io.dev \in Nat /\ row.id \in Int
    BY <1>1, <1>3 DEF Requests, FileRow
  <2>2. With(io.map, row.id, id) \in Maps
    BY <2>1, MapsWith
  <2> QED BY <2>1, <2>2
<1>5. l \in Maps
  <2>1. Len(file) - Len(io.todo) + 1 \in Int
    BY <1>3
  <2> QED BY <1>1, <2>1, MapsWith DEF Requests
<1>6. io' = [io EXCEPT !.pc = "get", !.todo = Tail(io.todo), !.map = m, !.dev = d, !.landed = l]
  BY <1>1 DEF Landed, Requests
<1> HIDE DEF m, d, l
<1>7. io' \in Requests /\ io'.pc = "get" /\ io'.todo = Tail(io.todo)
  BY <1>1, <1>2, <1>4, <1>5, <1>6 DEF Requests, Pcs, Importing
<1> QED BY <1>2, <1>3, <1>7 DEF Advanced

(* A row whose error is reported takes the import to the next row, or past *)
(* a device's points.                                                      *)
LEMMA ReportAdvances ==
  ASSUME FileInv, io.pc \in Importing, io.todo # <<>>, Report
  PROVE  Advanced
<1>1. file \in Seq(FileRow) /\ Suffix(io.todo, file) /\ io \in Requests
  BY DEF FileInv
<1>2. /\ Suffix(Tail(io.todo), file) /\ Tail(io.todo) \in Seq(FileRow)
      /\ Len(Tail(io.todo)) = Len(io.todo) - 1
  BY <1>1, SuffixTail
<1>3. io.todo \in Seq(FileRow) /\ Len(io.todo) \in Nat \ {0} /\ Len(file) \in Nat
  BY <1>1, RowOK DEF Requests
<1> DEFINE devices == {k \in 2..Len(io.todo) : io.todo[k].table = "dev"}
<1>4. Suffix(AfterError, file) /\ Len(AfterError) < Len(io.todo)
  <2>1. CASE row.table # "dev"
    BY <1>2, <1>3, <2>1 DEF AfterError
  <2>2. CASE row.table = "dev" /\ devices = {}
    <3>1. AfterError = <<>>
      BY <2>2 DEF AfterError
    <3>2. <<>> = SubSeq(file, Len(file) + 1, Len(file)) /\ Len(file) + 1 \in 1..Len(file) + 1
      BY <1>1, <1>3
    <3> QED BY <1>3, <3>1, <3>2 DEF Suffix
  <2>3. CASE row.table = "dev" /\ devices # {}
    <3>1. AfterError = SubSeq(io.todo, Min(devices), Len(io.todo))
      BY <2>3 DEF AfterError
    <3>2. devices \subseteq Nat
      BY <1>3
    <3>3. Min(devices) \in devices
      <4> HIDE DEF devices
      <4> QED BY <2>3, <3>2, MinInSet
    <3>4. Min(devices) \in 2..Len(io.todo)
      BY <3>3
    <3> HIDE DEF devices
    <3>5. Min(devices) \in 1..Len(io.todo) + 1
      BY <1>3, <3>4
    <3>6. Suffix(AfterError, file)
      BY <1>1, <3>1, <3>5, SuffixOf
    <3>7. Len(AfterError) = Len(io.todo) - Min(devices) + 1
      BY <1>3, <3>1, <3>4
    <3> QED BY <1>3, <3>4, <3>6, <3>7
  <2> QED BY <2>1, <2>2, <2>3
<1>5. AfterError \in Seq(FileRow)
  BY <1>1, <1>4, SuffixIndex
<1>6. io' \in Requests /\ io'.pc = "get" /\ io'.todo = AfterError
  BY <1>1, <1>5 DEF Report, Requests, Pcs, Importing
<1> QED BY <1>4, <1>6 DEF Advanced

\* The request moves on, and the tables have the rows they had.
LEMMA QuietAdvance ==
  ASSUME IndInv, io.pc \in Importing, io.todo # <<>>, Advanced,
         TablesInv', seq' = seq, \A u \in Tables : DOMAIN db'[u] = DOMAIN db[u],
         UNCHANGED <<file, other, home, clean, clash, newer>>
  PROVE  IndInv'
<1> USE DEF IndInv
<1>1. io' \in Requests /\ io'.pc = "get" /\ Suffix(io'.todo, file) /\ Len(io'.todo) < Len(io.todo)
  BY DEF Advanced
<1>2. Len(io.todo) \in Nat /\ Len(file) \in Nat /\ Len(io'.todo) \in Nat
  BY <1>1, RowOK DEF Requests
<1>3. FileInv'
  BY <1>1 DEF FileInv, Importing
<1>4. FlagsInv' /\ AgeInv'
  BY DEF FlagsInv, AgeInv
<1>5. NewerInv'
  <2>1. \A n \in newer : n \in Tables \X Nat /\ n[2] \in DOMAIN db'[n[1]]
    BY DEF NewerInv
  <2> QED BY <1>1, <2>1 DEF NewerInv, Importing
<1>6. SortInv'
  BY <1>1 DEF SortInv
<1>7. FreshInv'
  <2> SUFFICES ASSUME ~ home, clean, NEW k \in 1..Len(file), k > Len(file) - Len(io'.todo)
               PROVE  /\ file[k].table = "conn" => seq.conn < file[k].id
                      /\ file[k].table = "dev" /\ file[k].id # 0 =>
                           \A i \in DOMAIN db'["dev"] : i < file[k].id
    BY DEF FreshInv
  <2>1. k > Len(file) - Len(io.todo)
    BY <1>1, <1>2
  <2>2. DOMAIN db'["dev"] = DOMAIN db["dev"]
    BY DEF Tables
  <2> QED BY <2>1, <2>2 DEF FreshInv
<1>8. PhaseInv' /\ ClashesOnlyByReuse'
  BY <1>1 DEF PhaseInv, ClashesOnlyByReuse, Importing
<1> QED BY <1>3, <1>4, <1>5, <1>6, <1>7, <1>8

(* Steps that write no row keep the tables sound.                          *)
LEMMA SameTables ==
  ASSUME TablesInv, UNCHANGED <<db, seq>>
  PROVE  TablesInv' /\ seq' = seq /\ \A u \in Tables : DOMAIN db'[u] = DOMAIN db[u]
BY DEF TablesInv, IdsOK, RowsOK, ReferencesHold

(* The lookup of a row by the file's id.                                   *)
LEMMA GetStep ==
  ASSUME IndInv, Get
  PROVE  IndInv'
<1> USE DEF IndInv
<1>1. UNCHANGED <<db, seq, file, other, home, clash, newer>> /\ io.pc = "get"
      /\ io.todo # <<>> /\ ~ Unmapped
  BY DEF Get
<1>2. PICK p \in {"update", "create"} : io' = [io EXCEPT !.pc = p]
  BY DEF Get
<1>3. clean' = clean \/ clean' = FALSE
  BY DEF Get
<1>4. io' \in Requests /\ io'.pc \in {"update", "create"} /\ io'.todo = io.todo /\ io'.map = io.map
  BY <1>2 DEF FileInv, Requests, Pcs, Importing
<1>5. ~ Unmapped'
  BY <1>1, <1>4 DEF Unmapped, row
<1>6. FileInv'
  BY <1>1, <1>4, <1>5 DEF FileInv, Importing
<1>7. TablesInv'
  BY <1>1, SameTables
<1>8. FlagsInv' /\ AgeInv'
  BY <1>1, <1>3 DEF FlagsInv, AgeInv
<1>9. NewerInv' /\ SortInv'
  BY <1>1, <1>4 DEF NewerInv, SortInv, Importing
<1>10. FreshInv' /\ PhaseInv' /\ ClashesOnlyByReuse'
  BY <1>1, <1>3, <1>4 DEF FreshInv, PhaseInv, ClashesOnlyByReuse, Importing
<1> QED BY <1>6, <1>7, <1>8, <1>9, <1>10

(* The end of an import.                                                   *)
LEMMA ImportDoneStep ==
  ASSUME IndInv, ImportDone
  PROVE  IndInv'
<1> USE DEF IndInv
<1>1. UNCHANGED <<db, seq, file, other, home, clean, clash, newer>> /\ io.pc = "get"
      /\ io' = [io EXCEPT !.pc = "done"]
  BY DEF ImportDone
<1>2. io' \in Requests /\ io'.pc = "done"
  BY <1>1 DEF FileInv, Requests, Pcs
<1>3. FileInv'
  BY <1>1, <1>2 DEF FileInv, Importing
<1>4. TablesInv'
  BY <1>1, SameTables
<1>5. FlagsInv' /\ AgeInv' /\ NewerInv' /\ SortInv'
  BY <1>1, <1>2 DEF FlagsInv, AgeInv, NewerInv, SortInv, Importing
<1>6. FreshInv' /\ PhaseInv' /\ ClashesOnlyByReuse'
  BY <1>1, <1>2 DEF FreshInv, PhaseInv, ClashesOnlyByReuse, Importing
<1> QED BY <1>3, <1>4, <1>5, <1>6

(* A row that cannot be written.                                           *)
LEMMA ReportStep ==
  ASSUME IndInv, NoConnection \/ WriteFails
  PROVE  IndInv'
<1> USE DEF IndInv
<1>1. /\ UNCHANGED <<db, seq, file, other, home, clean, clash, newer>> /\ Report
      /\ io.pc \in Importing /\ io.todo # <<>>
  BY DEF NoConnection, WriteFails, FileInv, Importing
<1>2. Advanced
  BY <1>1, ReportAdvances
<1> QED BY <1>1, <1>2, SameTables, QuietAdvance

\* What a row is to refer to is an id.
LEMMA RefOK ==
  ASSUME FileInv, io.pc \in {"update", "create"}
  PROVE  Ref \in Nat
<1>1. io \in Requests /\ row \in FileRow /\ ~ Unmapped
  BY RowOK DEF FileInv, Importing
<1>2. row.table \in Tables /\ io.dev \in Nat /\ io.map \in Maps
  BY <1>1 DEF Requests, FileRow
<1>3. row.table = "dev" => io.map[row.ref] \in Nat
  <2>1. PICK S \in SUBSET Int : io.map \in [S -> Nat]
    BY <1>2 DEF Maps
  <2> QED BY <1>1, <2>1 DEF Unmapped
<1> QED BY <1>2, <1>3 DEF Ref, Tables

(* The update of a row by an import writes the row with the file's id and  *)
(* no other.                                                               *)
LEMMA ImportUpdateStep ==
  ASSUME IndInv, ImportUpdate
  PROVE  /\ IndInv'
         /\ db' # db => /\ row.id \in DOMAIN db[row.table] /\ row.table \in Tables
                        /\ \A u \in Tables : \A j \in DOMAIN db[u] :
                             u # row.table \/ j # row.id => db'[u][j] = db[u][j]
<1> USE DEF IndInv
<1>1. /\ UNCHANGED <<file, other, home, clean, clash, newer>> /\ io.pc = "update"
      /\ io.pc \in Importing /\ io.todo # <<>>
  BY DEF ImportUpdate, FileInv, Importing
<1>2. row \in FileRow /\ row.rev \in Revs /\ row.table \in Tables /\ row.id \in Nat /\ Ref \in Nat
  BY <1>1, RowOK, RefOK DEF FileRow
<1>3. CASE row.id \in DOMAIN db[row.table] /\ (row.table = "dev" => ParentExists("dev", Ref))
  <2>1. Update(row.table, row.id, row.rev, Ref) /\ Landed(row.id)
    BY <1>3 DEF ImportUpdate
  <2>2. row.table = "dev" => Ref \in DOMAIN db.conn
    BY <1>3 DEF ParentExists, Enforced, Parent
  <2>3. /\ TablesInv' /\ \A u \in Tables : DOMAIN db'[u] = DOMAIN db[u]
        /\ \A u \in Tables : \A j \in DOMAIN db[u] :
             u # row.table \/ j # row.id => db'[u][j] = db[u][j]
    BY <1>2, <1>3, <2>1, <2>2, UpdateEffect
  <2>4. Advanced
    BY <1>1, <1>2, <2>1, LandedAdvances
  <2>5. seq' = seq
    BY <2>1 DEF Update
  <2>6. IndInv'
    BY <1>1, <2>3, <2>4, <2>5, QuietAdvance
  <2> QED BY <1>2, <1>3, <2>3, <2>6
<1>4. CASE ~ (row.id \in DOMAIN db[row.table] /\ (row.table = "dev" => ParentExists("dev", Ref)))
  <2>1. Report /\ UNCHANGED <<db, seq>>
    BY <1>4 DEF ImportUpdate
  <2>2. Advanced
    BY <1>1, <2>1, ReportAdvances
  <2>3. IndInv'
    BY <1>1, <2>1, <2>2, SameTables, QuietAdvance
  <2> QED BY <2>1, <2>3
<1> QED BY <1>3, <1>4

(* Positions in a file, counted from its end.                              *)
LEMMA Positions ==
  ASSUME NEW a \in Nat, NEW b \in Nat
  PROVE  /\ a - b + 1 > a - b
         /\ \A k \in 1..a : k > a - b + 1 => a - b + 1 < k /\ k > a - b
         /\ \A c \in Nat : c < b => \A k \in 1..a : k > a - c => k > a - b + 1 /\ k > a - b
         /\ \A k \in 2..b : k \in 1..b /\ a - b + k > a - b + 1
OBVIOUS

\* On new hardware, the id a connection or device gets is below those of the
\* rows of its table that come later.
LEMMA NewIdBehind ==
  ASSUME IndInv, io.pc \in Importing, io.todo # <<>>, ~ home, clean, row.table # "point",
         NEW k \in 1..Len(file), k > Len(file) - Len(io.todo) + 1,
         file[k].table = row.table, file[k].id # 0
  PROVE  NewId(row.table) < file[k].id
<1> USE DEF IndInv
<1> DEFINE p == Len(file) - Len(io.todo) + 1
<1>1. /\ p \in 1..Len(file) /\ row = file[p] /\ row \in FileRow
      /\ Len(io.todo) \in Nat /\ Len(file) \in Nat
  BY RowOK
<1>2. p > Len(file) - Len(io.todo) /\ p < k
  BY <1>1, Positions
<1>3. file[k] \in FileRow
  BY DEF FileInv
<1>4. row.id \in Nat /\ file[k].id \in Nat /\ row.table \in Tables
  BY <1>1, <1>3 DEF FileRow
<1>5. 0 < row.id /\ row.id < file[k].id
  <2> HIDE DEF p
  <2> QED BY <1>1, <1>2 DEF SortInv
<1>6. CASE row.table = "conn"
  <2>1. seq.conn < row.id
    <3> HIDE DEF p
    <3> QED BY <1>1, <1>2, <1>6 DEF FreshInv, p
  <2>2. NewId(row.table) = seq.conn + 1 /\ seq.conn \in Nat
    BY <1>6 DEF NewId, TablesInv, IdsOK, Counted
  <2> QED BY <1>4, <1>5, <2>1, <2>2
<1>7. CASE row.table = "dev"
  <2> DEFINE m == Max(DOMAIN db.dev \cup {0})
  <2>1. \A i \in DOMAIN db.dev : i < row.id
    <3>1. row.id # 0
      BY <1>4, <1>5
    <3> HIDE DEF p
    <3> QED BY <1>1, <1>2, <1>7, <3>1 DEF FreshInv, p
  <2>2. m \in Nat /\ m < row.id
    BY <1>4, <1>5, <2>1, DeviceTop DEF TablesInv
  <2>3. NewId(row.table) = m + 1
    BY <1>7 DEF NewId
  <2> HIDE DEF m
  <2> QED BY <1>4, <1>5, <2>2, <2>3
<1> QED BY <1>4, <1>6, <1>7 DEF Tables

(* The creation of a row by an import: no row there is written.            *)
LEMMA ImportCreateStep ==
  ASSUME IndInv, ImportCreate
  PROVE  IndInv' /\ \A u \in Tables : \A j \in DOMAIN db[u] : db'[u][j] = db[u][j]
<1> USE DEF IndInv
<1>1. /\ UNCHANGED <<file, other, home, clean, newer>> /\ io.pc = "create"
      /\ io.pc \in Importing /\ io.todo # <<>>
  BY DEF ImportCreate, FileInv, Importing
<1> DEFINE t == row.table
           n == NewId(t)
           lost == {u \in {t} : \E k \in 2..Len(io.todo) : io.todo[k].table = u /\ io.todo[k].id = NewId(u)}
<1>2. row \in FileRow /\ row.rev \in Revs /\ t \in Tables /\ Ref \in Nat
  BY <1>1, RowOK, RefOK DEF FileRow
<1>3. CASE ParentExists(t, Ref)
  <2>1. Create(t, row.rev, Ref) /\ Landed(n) /\ clash' = clash \cup lost
    BY <1>3 DEF ImportCreate
  <2>2. n \in Nat \ {0} /\ (t # "dev" => n = seq[t] + 1)
    BY <1>2, NewIdIsNew DEF TablesInv
  <2>3. /\ TablesInv' /\ CountersGrow
        /\ \A u \in Tables : DOMAIN db[u] \subseteq DOMAIN db'[u]
        /\ \A u \in Tables : \A j \in DOMAIN db[u] : db'[u][j] = db[u][j]
        /\ \A u \in Tables : DOMAIN db'[u] = IF u = t THEN DOMAIN db[t] \cup {n} ELSE DOMAIN db[u]
        /\ t # "dev" => seq'[t] = n
        /\ \A u \in Counted \ {t} : seq'[u] = seq[u]
    BY <1>2, <1>3, <2>1, CreateEffect
  <2>4. Advanced
    BY <1>1, <2>1, <2>2, LandedAdvances
  <2>5. io' \in Requests /\ io'.pc = "get" /\ Suffix(io'.todo, file) /\ Len(io'.todo) < Len(io.todo)
    BY <2>4 DEF Advanced
  <2>6. Len(io.todo) \in Nat /\ Len(file) \in Nat /\ Len(io'.todo) \in Nat
    BY <1>1, <2>5, RowOK DEF Requests
  <2>7. \A k \in 1..Len(file) : file[k].table \in Tables /\ file[k].id \in Nat
    <3>1. \A k \in 1..Len(file) : file[k] \in FileRow
      BY DEF FileInv
    <3> QED BY <3>1 DEF FileRow
  <2>8. seq \in [Counted -> Nat] /\ seq' \in [Counted -> Nat]
    BY <2>3 DEF TablesInv, IdsOK
  <2> HIDE DEF n, lost
  <2>9. FileInv'
    BY <1>1, <2>5 DEF FileInv, Importing
  <2>10. AgeInv'
    <3> SUFFICES ASSUME home, NEW k \in 1..Len(file), file[k].table # "dev"
                 PROVE  file[k].id <= seq'[file[k].table]
      BY <1>1 DEF AgeInv
    <3>1. file[k].table \in Counted
      BY <2>7 DEF Tables, Counted
    <3>2. file[k].id <= seq[file[k].table]
      BY DEF AgeInv
    <3> QED BY <2>3, <2>7, <2>8, <3>1, <3>2 DEF CountersGrow
  <2>11. NewerInv'
    <3>1. \A x \in newer : x \in Tables \X Nat /\ x[2] \in DOMAIN db'[x[1]]
      BY <2>3 DEF NewerInv
    <3> QED BY <1>1, <2>5, <3>1 DEF NewerInv, Importing
  <2>12. SortInv'
    BY <1>1, <2>5 DEF SortInv
  <2>13. FreshInv'
    <3> SUFFICES ASSUME ~ home, clean, NEW k \in 1..Len(file), k > Len(file) - Len(io'.todo)
                 PROVE  /\ file[k].table = "conn" => seq'["conn"] < file[k].id
                        /\ file[k].table = "dev" /\ file[k].id # 0 =>
                             \A i \in DOMAIN db'["dev"] : i < file[k].id
      BY <1>1 DEF FreshInv
    <3>1. k > Len(file) - Len(io.todo) + 1 /\ k > Len(file) - Len(io.todo)
      BY <2>5, <2>6, Positions
    <3>2. ASSUME file[k].table = "conn" PROVE seq'["conn"] < file[k].id
      <4>1. CASE t = "conn"
        <5>1. file[k].id # 0
          BY <2>7, <3>2 DEF SortInv
        <5> QED BY <1>1, <2>3, <3>1, <3>2, <4>1, <5>1, NewIdBehind DEF n
      <4>2. CASE t # "conn"
        <5>1. seq'["conn"] = seq["conn"]
          BY <2>3, <4>2 DEF Counted
        <5> QED BY <1>1, <3>1, <3>2, <5>1 DEF FreshInv
      <4> QED BY <4>1, <4>2
    <3>3. ASSUME file[k].table = "dev", file[k].id # 0, NEW i \in DOMAIN db'["dev"]
          PROVE  i < file[k].id
      <4>1. CASE i \in DOMAIN db["dev"]
        BY <1>1, <3>1, <3>3, <4>1 DEF FreshInv
      <4>2. CASE i \notin DOMAIN db["dev"]
        <5>1. t = "dev" /\ i = n
          BY <2>3, <4>2 DEF Tables
        <5> QED BY <1>1, <3>1, <3>3, <5>1, NewIdBehind DEF n
      <4> QED BY <4>1, <4>2
    <3> QED BY <3>2, <3>3
  <2>14. ASSUME t \in lost
         PROVE  \E q \in 1..Len(file) :
                  q > Len(file) - Len(io.todo) + 1 /\ file[q].table = t /\ file[q].id = n
    <3>1. PICK k \in 2..Len(io.todo) : io.todo[k].table = t /\ io.todo[k].id = n
      BY <2>14 DEF lost, n
    <3>2. k \in 1..Len(io.todo)
      BY <2>6, Positions
    <3>3. /\ Len(file) - Len(io.todo) + k \in 1..Len(file)
          /\ io.todo[k] = file[Len(file) - Len(io.todo) + k]
      BY <1>1, <3>2, RowOK
    <3>4. Len(file) - Len(io.todo) + k > Len(file) - Len(io.todo) + 1
      BY <2>6, Positions
    <3> QED BY <3>1, <3>3, <3>4
  <2>15. home => lost \subseteq {"dev"}
    <3> SUFFICES ASSUME home, t \in lost PROVE t = "dev"
      BY DEF lost
    <3>1. PICK q \in 1..Len(file) : file[q].table = t /\ file[q].id = n
      BY <2>14
    <3> SUFFICES ASSUME t # "dev" PROVE FALSE
      OBVIOUS
    <3>2. n <= seq[t] /\ t \in Counted
      BY <1>2, <3>1 DEF AgeInv, Tables, Counted
    <3> QED BY <2>2, <2>8, <3>2
  <2>16. ~ home /\ clean => lost \subseteq {"point"}
    <3> SUFFICES ASSUME ~ home, clean, t \in lost PROVE t = "point"
      BY DEF lost
    <3>1. PICK q \in 1..Len(file) :
            q > Len(file) - Len(io.todo) + 1 /\ file[q].table = t /\ file[q].id = n
      BY <2>14
    <3> SUFFICES ASSUME t # "point" PROVE FALSE
      OBVIOUS
    <3>2. n < n
      BY <1>1, <2>2, <3>1, NewIdBehind DEF n
    <3> QED BY <2>2, <3>2
  <2>17. FlagsInv'
    BY <1>1, <1>2, <2>1 DEF FlagsInv, lost
  <2>18. ClashesOnlyByReuse'
    BY <1>1, <2>1, <2>15, <2>16 DEF ClashesOnlyByReuse
  <2>19. PhaseInv'
    BY <2>5 DEF PhaseInv, Importing
  <2> QED BY <2>3, <2>9, <2>10, <2>11, <2>12, <2>13, <2>17, <2>18, <2>19
<1>4. CASE ~ ParentExists(t, Ref)
  <2>1. Report /\ UNCHANGED <<db, seq, clash>>
    BY <1>4 DEF ImportCreate
  <2>2. Advanced
    BY <1>1, <2>1, ReportAdvances
  <2>3. IndInv'
    BY <1>1, <2>1, <2>2, SameTables, QuietAdvance
  <2> QED BY <2>1, <2>3
<1> QED BY <1>3, <1>4

-----------------------------------------------------------------------------
(* The other request.                                                      *)

LEMMA EditKeeps ==
  ASSUME IndInv, TablesInv', CountersGrow, NewerInv', Edit,
         other'.pc \in {"idle", "delete", "insert"}
  PROVE  IndInv'
<1> USE DEF IndInv
<1>1. UNCHANGED <<file, io, home, clash>> /\ clean' = (clean /\ io.pc \in {"start", "ready"})
  BY DEF Edit
<1>2. clean' \in BOOLEAN /\ (clean' => clean) /\ (io.pc \in Importing => ~ clean')
  BY <1>1 DEF FlagsInv, Importing
<1>3. FlagsInv'
  BY <1>1, <1>2 DEF FlagsInv
<1>4. FileInv'
  BY <1>1 DEF FileInv, Unmapped, row
<1>5. AgeInv'
  <2> SUFFICES ASSUME home, NEW k \in 1..Len(file), file[k].table # "dev"
               PROVE  file[k].id <= seq'[file[k].table]
    BY <1>1 DEF AgeInv
  <2>1. file[k] \in FileRow
    BY DEF FileInv
  <2>2. file[k].table \in Counted /\ file[k].id \in Nat
    BY <2>1 DEF FileRow, Tables, Counted
  <2>3. file[k].id <= seq[file[k].table]
    BY DEF AgeInv
  <2>4. seq \in [Counted -> Nat] /\ seq' \in [Counted -> Nat]
    BY DEF TablesInv, IdsOK
  <2> QED BY <2>2, <2>3, <2>4 DEF CountersGrow
<1>6. SortInv'
  BY <1>1 DEF SortInv
<1>7. FreshInv'
  BY <1>1, <1>2 DEF FreshInv
<1>8. PhaseInv' /\ ClashesOnlyByReuse'
  BY <1>1, <1>2 DEF PhaseInv, ClashesOnlyByReuse
<1> QED BY <1>3, <1>4, <1>5, <1>6, <1>7, <1>8

(* Another request creates a row.                                          *)
LEMMA AddRowStep ==
  ASSUME IndInv, NEW t \in Tables, NEW rev \in Revs,
         NEW ref \in IF t = "conn" THEN {0} ELSE Ids, AddRow(t, rev, ref)
  PROVE  IndInv'
<1> USE DEF IndInv
<1>1. Edit /\ other'.pc \in {"idle", "delete", "insert"}
  BY DEF AddRow
<1>2. UNCHANGED <<file, io, home>>
  BY <1>1 DEF Edit
<1>3. CASE ParentExists(t, ref)
  <2>1. Create(t, rev, ref) /\ newer' = newer \cup {<<t, NewId(t)>>}
    BY <1>3 DEF AddRow
  <2>2. ref \in Nat
    <3>1. CASE t = "conn"
      BY <3>1
    <3>2. CASE t # "conn"
      <4>1. ref \in DOMAIN db[Parent[t]] /\ Parent[t] \in Tables
        BY <1>3, <3>2 DEF ParentExists, Enforced, Parent, Tables
      <4> QED BY <4>1, IdsPositive DEF TablesInv
    <3> QED BY <3>1, <3>2
  <2>3. TablesInv' /\ CountersGrow /\ \A u \in Tables : DOMAIN db[u] \subseteq DOMAIN db'[u]
    BY <1>3, <2>1, <2>2, CreateEffect
  <2>4. NewId(t) \in DOMAIN db'[t]
    BY <1>3, <2>1, <2>2, CreateEffect
  <2>5. NewId(t) \in Nat /\ (t # "dev" => NewId(t) = seq[t] + 1)
    BY NewIdIsNew DEF TablesInv
  <2> DEFINE n == NewId(t)
  <2> HIDE DEF n
  <2>6. NewerInv'
    <3>1. ASSUME NEW x \in newer' PROVE x \in Tables \X Nat /\ x[2] \in DOMAIN db'[x[1]]
      <4>1. CASE x \in newer
        BY <2>3, <4>1 DEF NewerInv
      <4>2. CASE x = <<t, NewId(t)>>
        BY <2>4, <2>5, <4>2
      <4> QED BY <2>1, <4>1, <4>2
    <3>2. ASSUME home, io.pc \in {"ready"} \cup Importing, NEW x \in newer', x[1] # "dev",
                 NEW k \in 1..Len(file), file[k].table = x[1], file[k].id = x[2]
          PROVE  FALSE
      <4>1. CASE x \in newer
        BY <3>2, <4>1 DEF NewerInv
      <4>2. CASE x = <<t, NewId(t)>>
        <5>1. file[k].table = t /\ file[k].id = seq[t] + 1 /\ t # "dev"
          BY <2>5, <3>2, <4>2
        <5>2. file[k].id <= seq[t] /\ seq[t] \in Nat
          BY <3>2, <5>1 DEF AgeInv, TablesInv, IdsOK, Tables, Counted
        <5> QED BY <5>1, <5>2
      <4> QED BY <2>1, <4>1, <4>2
    <3> QED BY <1>2, <3>1, <3>2 DEF NewerInv
  <2> QED BY <1>1, <2>3, <2>6, EditKeeps
<1>4. CASE ~ ParentExists(t, ref)
  <2>1. UNCHANGED <<db, seq, newer>>
    BY <1>4 DEF AddRow
  <2>2. TablesInv' /\ CountersGrow
    BY <2>1, SameTables DEF CountersGrow, TablesInv, IdsOK, Counted
  <2>3. NewerInv'
    BY <1>2, <2>1 DEF NewerInv
  <2> QED BY <1>1, <2>2, <2>3, EditKeeps
<1> QED BY <1>3, <1>4

\* Rows of others stay where they are, unless they are deleted.
LEMMA NewerKeeps ==
  ASSUME NewerInv, UNCHANGED <<file, io, home>>, newer' \subseteq newer,
         \A n \in newer' : n[2] \in DOMAIN db'[n[1]]
  PROVE  NewerInv'
BY DEF NewerInv

(* Another request updates a row.                                          *)
LEMMA ChangeRowStep ==
  ASSUME IndInv, NEW t \in Tables, NEW i \in DOMAIN db[t], NEW rev \in Revs,
         NEW ref \in IF t = "dev" THEN DOMAIN db.conn ELSE {db[t][i].ref},
         ChangeRow(t, i, rev, ref)
  PROVE  IndInv'
<1> USE DEF IndInv
<1>1. Edit /\ Update(t, i, rev, ref) /\ UNCHANGED <<other, newer>>
  BY DEF ChangeRow
<1>2. ref \in Nat /\ (t = "dev" => ref \in DOMAIN db.conn)
  <2>1. CASE t = "dev"
    BY <2>1, IdsPositive DEF TablesInv, Tables
  <2>2. CASE t # "dev"
    <3>1. db[t][i] \in [rev : Revs, ref : Nat]
      BY DEF TablesInv, RowsOK
    <3> QED BY <2>2, <3>1
  <2> QED BY <2>1, <2>2
<1>3. TablesInv' /\ CountersGrow /\ \A u \in Tables : DOMAIN db'[u] = DOMAIN db[u]
  BY <1>1, <1>2, UpdateEffect
<1>4. NewerInv'
  <2>1. UNCHANGED <<file, io, home>>
    BY <1>1 DEF Edit
  <2>2. \A n \in newer' : n[2] \in DOMAIN db'[n[1]]
    BY <1>1, <1>3 DEF NewerInv
  <2> QED BY <1>1, <2>1, <2>2, NewerKeeps
<1>5. other'.pc \in {"idle", "delete", "insert"}
  BY <1>1 DEF FlagsInv
<1> QED BY <1>1, <1>3, <1>4, <1>5, EditKeeps

(* Another request deletes a device or a point.                            *)
LEMMA DeleteRowStep ==
  ASSUME IndInv, NEW t \in {"dev", "point"}, NEW i \in DOMAIN db[t], DeleteRow(t, i)
  PROVE  IndInv'
<1> USE DEF IndInv
<1>1. Edit /\ Delete(t, i) /\ UNCHANGED other /\ newer' = {n \in newer : n[2] \in DOMAIN db'[n[1]]}
  BY DEF DeleteRow
<1>2. TablesInv' /\ CountersGrow
  BY <1>1, DeleteEffect
<1>3. NewerInv'
  <2>1. UNCHANGED <<file, io, home>>
    BY <1>1 DEF Edit
  <2> QED BY <1>1, <2>1, NewerKeeps
<1>4. other'.pc \in {"idle", "delete", "insert"}
  BY <1>1 DEF FlagsInv
<1> QED BY <1>1, <1>2, <1>3, <1>4, EditKeeps

(* Another request deletes a connection.                                   *)
LEMMA DeleteConnectionStep ==
  ASSUME IndInv, NEW c, DeleteConnection(c)
  PROVE  IndInv'
<1> USE DEF IndInv
<1>1. Edit /\ other'.pc \in {"idle", "delete", "insert"}
  BY DEF DeleteConnection
<1>2. /\ TablesInv' /\ CountersGrow
      /\ \A u \in Tables : \A i \in DOMAIN db[u] : <<u, i>> # <<"conn", c>> => i \in DOMAIN db'[u]
      /\ newer' = newer \/ newer' = newer \ {<<"conn", c>>}
      /\ newer' = newer => db' = db \/ <<"conn", c>> \notin newer
  BY DeleteConnectionEffect
<1>3. NewerInv'
  <2>1. UNCHANGED <<file, io, home>> /\ newer' \subseteq newer
    BY <1>1, <1>2 DEF Edit
  <2>2. ASSUME NEW n \in newer' PROVE n[2] \in DOMAIN db'[n[1]]
    <3>1. n \in Tables \X Nat /\ n[2] \in DOMAIN db[n[1]]
      BY <2>1 DEF NewerInv
    <3>2. n = <<n[1], n[2]>> /\ n[1] \in Tables
      BY <3>1
    <3>3. db' = db \/ n # <<"conn", c>>
      BY <1>2
    <3>4. CASE db' = db
      BY <3>1, <3>4
    <3>5. CASE n # <<"conn", c>>
      BY <1>2, <3>1, <3>2, <3>5
    <3> QED BY <3>3, <3>4, <3>5
  <2> QED BY <2>1, <2>2, NewerKeeps
<1> QED BY <1>1, <1>2, <1>3, EditKeeps

(* Another request only reads.                                             *)
LEMMA LookStep ==
  ASSUME IndInv, UNCHANGED <<db, seq, file, io, home, clean, clash, newer>>,
         other'.pc \in {"idle", "delete", "insert"}
  PROVE  IndInv'
<1> USE DEF IndInv
<1>1. TablesInv'
  BY SameTables
<1>2. FileInv' /\ FlagsInv'
  BY DEF FileInv, FlagsInv, Unmapped, row
<1>3. AgeInv' /\ NewerInv' /\ SortInv'
  BY DEF AgeInv, NewerInv, SortInv
<1>4. FreshInv' /\ PhaseInv' /\ ClashesOnlyByReuse'
  BY DEF FreshInv, PhaseInv, ClashesOnlyByReuse
<1> QED BY <1>1, <1>2, <1>3, <1>4

(* Whatever another request does between two statements of the import.     *)
LEMMA OtherStepKeeps ==
  ASSUME IndInv, OtherStep
  PROVE  IndInv'
<1>1. CASE \E t \in Tables, rev \in Revs :
             \E ref \in IF t = "conn" THEN {0} ELSE Ids : AddRow(t, rev, ref)
  BY <1>1, AddRowStep
<1>2. CASE \E t \in Tables, rev \in Revs : \E i \in DOMAIN db[t] :
             \E ref \in IF t = "dev" THEN DOMAIN db.conn ELSE {db[t][i].ref} : ChangeRow(t, i, rev, ref)
  BY <1>2, ChangeRowStep
<1>3. CASE \E d \in DOMAIN db.dev : FindDevice(d)
  <2>1. UNCHANGED <<db, seq, file, io, home, clean, clash, newer>> /\ other'.pc = "insert"
    BY <1>3 DEF FindDevice
  <2> QED BY <2>1, LookStep
<1>4. CASE \E t \in {"dev", "point"} : \E i \in DOMAIN db[t] : DeleteRow(t, i)
  BY <1>4, DeleteRowStep
<1>5. CASE \E c \in DOMAIN db.conn : CountDevices(c)
  <2>1. UNCHANGED <<db, seq, file, io, home, clean, clash, newer>> /\ other'.pc = "delete"
    BY <1>5 DEF CountDevices
  <2> QED BY <2>1, LookStep
<1>6. CASE \E c \in Ids : DeleteConnection(c)
  BY <1>6, DeleteConnectionStep
<1> QED BY <1>1, <1>2, <1>3, <1>4, <1>5, <1>6 DEF OtherStep

-----------------------------------------------------------------------------
(* The theorems.                                                           *)

LEMMA NextInd == IndInv /\ [Next]_vars => IndInv'
<1> SUFFICES ASSUME IndInv, [Next]_vars PROVE IndInv'
  OBVIOUS
<1>1. CASE ExportConns \/ ExportDevices \/ ExportPoints \/ ExportDone \/ ExportFails
  BY <1>1, ExportConnsStep, ExportDevicesStep, ExportPointsStep, ExportEndStep
<1>2. CASE NewHardware \/ HandEdit \/ BeginImport \/ ImportDone
  BY <1>2, NewHardwareStep, HandEditStep, BeginImportStep, ImportDoneStep
<1>3. CASE ImportRow
  BY <1>3, GetStep, ReportStep, ImportUpdateStep, ImportCreateStep DEF ImportRow
<1>4. CASE OtherStep
  BY <1>4, OtherStepKeeps
<1>5. CASE UNCHANGED vars
  <2>1. UNCHANGED <<db, seq, file, io, home, clean, clash, newer>> /\ other' = other
    BY <1>5 DEF vars
  <2>2. other'.pc \in {"idle", "delete", "insert"}
    BY <2>1 DEF IndInv, FlagsInv
  <2> QED BY <2>1, <2>2, LookStep
<1> QED BY <1>1, <1>2, <1>3, <1>4, <1>5 DEF Next

(* The inductive invariant holds of export and import with another         *)
(* request's edits between any two of their statements.                    *)
THEOREM Inductive == Spec => []IndInv
BY InitInd, NextInd, PTL DEF Spec

\* Every device has its connection and every data point its device, whatever
\* statements of export, import and other requests interleave or fail.
THEOREM ReferencesStay == Spec => []ReferencesHold
<1>1. IndInv => ReferencesHold
  BY DEF IndInv, TablesInv
<1> QED BY <1>1, Inductive, PTL

\* The tables, the file and the requests are well typed: ids are positive and
\* not above their counters, and what is left to import is the end of the file.
THEOREM TypeCorrect == Spec => []TypeOK
<1>1. IndInv => TypeOK
  <2> SUFFICES ASSUME IndInv PROVE TypeOK
    OBVIOUS
  <2> USE DEF IndInv
  <2>1. DOMAIN db = Tables
    BY DEF TablesInv, IdsOK
  <2>2. ASSUME NEW t \in Tables, NEW i \in DOMAIN db[t] PROVE i > 0 /\ db[t][i].rev \in Revs
    <3>1. i > 0
      BY IdsPositive DEF TablesInv
    <3>2. db[t][i] \in [rev : Revs, ref : Nat]
      BY DEF TablesInv, RowsOK
    <3> QED BY <3>1, <3>2
  <2>3. ASSUME NEW t \in DOMAIN seq, NEW i \in DOMAIN db[t] PROVE i <= seq[t]
    BY DEF TablesInv, IdsOK, Counted
  <2>4. io.pc \in Pcs /\ (io.pc \in Importing => Suffix(io.todo, file))
    BY DEF FileInv, Requests
  <2>5. FlagsInv
    OBVIOUS
  <2> QED BY <2>1, <2>2, <2>3, <2>4, <2>5 DEF TypeOK, Pcs, Importing, Suffix, FlagsInv
<1> QED BY <1>1, Inductive, PTL

\* An import takes an id that its file still needs only for devices on the
\* gateway the file came from, and only for points on new hardware.
THEOREM ClashesByReuse == Spec => []ClashesOnlyByReuse
<1>1. IndInv => ClashesOnlyByReuse
  BY DEF IndInv
<1> QED BY <1>1, Inductive, PTL

(* An import at home writes no connection or point that is newer than the  *)
(* file: its id is above all ids of the file.                              *)
LEMMA NewerRowStays ==
  ASSUME IndInv, ImportRow, home, NEW n \in newer, n[1] # "dev"
  PROVE  db'[n[1]][n[2]] = db[n[1]][n[2]]
<1> USE DEF IndInv
<1>1. n[1] \in Tables /\ n[2] \in DOMAIN db[n[1]]
  BY DEF NewerInv
<1>2. CASE Get \/ NoConnection \/ WriteFails
  BY <1>2 DEF Get, NoConnection, WriteFails
<1>3. CASE ImportCreate
  BY <1>1, <1>3, ImportCreateStep
<1>4. CASE ImportUpdate
  <2>1. CASE db' = db
    BY <2>1
  <2>2. CASE db' # db
    <3>1. \A u \in Tables : \A j \in DOMAIN db[u] :
            u # row.table \/ j # row.id => db'[u][j] = db[u][j]
      BY <1>4, <2>2, ImportUpdateStep
    <3>2. io.pc \in Importing /\ io.todo # <<>> /\ io.pc \in {"ready"} \cup Importing
      BY <1>4 DEF ImportUpdate, FileInv, Importing
    <3>3. \E k \in 1..Len(file) : row = file[k]
      BY <3>2, RowOK
    <3>4. ~ (row.table = n[1] /\ row.id = n[2])
      BY <3>2, <3>3 DEF NewerInv
    <3> QED BY <1>1, <3>1, <3>4
  <2> QED BY <2>1, <2>2
<1> QED BY <1>2, <1>3, <1>4 DEF ImportRow

\* Importing the file on its own gateway leaves the connections and points
\* that were added since the export as they are.
THEOREM NewerRowsKept == Spec => KeepsNewerRows
<1>1. IndInv /\ [Next]_vars =>
        [ImportRow /\ home =>
           \A n \in newer : n[1] # "dev" => db'[n[1]][n[2]] = db[n[1]][n[2]]]_vars
  BY NewerRowStays
<1> QED BY <1>1, Inductive, PTL DEF Spec, KeepsNewerRows

-----------------------------------------------------------------------------
(* What an import restores.                                                *)

\* Row j of the file is the last device up to row k: the device of a point.
DevOf(f, j, k) ==
  j \in 1..k /\ f[j].table = "dev" /\ \A i \in 1..k : f[i].table = "dev" => i <= j

\* Every point comes after some device, and no two points have the same id.
PointsOK(f) ==
  /\ \A k \in 1..Len(f) : f[k].table = "point" =>
       \E j \in 1..Len(f) : j < k /\ f[j].table = "dev"
  /\ \A j, k \in 1..Len(f) :
       j < k /\ f[j].table = "point" /\ f[k].table = "point" =>
         f[k].id = 0 \/ f[j].id # f[k].id

\* A point of the file that is in the table is below the device it was
\* exported with.
HomeOK(f, points) ==
  \A j, k \in 1..Len(f) :
    f[k].table = "point" /\ DevOf(f, j, k) /\ f[k].id \in DOMAIN points =>
      points[f[k].id].ref = f[j].id

\* This stays so until the import begins: point ids are never used again and
\* an update keeps a point's device.
HomeInv ==
  /\ io.pc \in {"start", "xdevs", "xpoints"} => home
  /\ home /\ io.pc \notin Importing \cup {"done"} => HomeOK(file, db.point)

\* The rows landed so far, the first n of the file, are in the tables d, each
\* with its settings and below what its parent became.
LandedOK(f, d, n, landed) ==
  /\ DOMAIN landed = 1..n
  /\ \A k \in 1..n : /\ landed[k] \in DOMAIN d[f[k].table]
                     /\ d[f[k].table][landed[k]].rev = f[k].rev
  /\ \A k \in 1..n : f[k].table = "dev" =>
       \E j \in 1..n : /\ f[j].table = "conn" /\ f[j].id = f[k].ref
                       /\ d.dev[landed[k]].ref = landed[j]
  /\ \A j, k \in 1..n : f[k].table = "point" /\ DevOf(f, j, k) =>
       d.point[landed[k]].ref = landed[j]

\* No two of them are the same row, and none is a row that the rest of the
\* file names.
ApartOK(f, n, landed) ==
  /\ \A j, k \in 1..n : j < k /\ f[j].table = f[k].table => landed[j] # landed[k]
  /\ \A j \in 1..n, k \in 1..Len(f) : k > n /\ f[j].table = f[k].table =>
       landed[j] # f[k].id

\* What the import remembers of them: the connections by their id in the file,
\* and the last device.
MemoryOK(f, n, landed, map, dev) ==
  /\ \A x \in DOMAIN map : \E j \in 1..n :
       f[j].table = "conn" /\ f[j].id = x /\ landed[j] = map[x]
  /\ \A j \in 1..n : DevOf(f, j, n) => dev = landed[j]

\* Points that are still to come and in the tables are below what their device
\* became, or will become if it is found.
AheadOK(f, points, n, landed) ==
  \A j, k \in 1..Len(f) :
    k > n /\ f[k].table = "point" /\ DevOf(f, j, k) /\ f[k].id \in DOMAIN points =>
      points[f[k].id].ref = IF j <= n THEN landed[j] ELSE f[j].id

Good == clean /\ ~ io.failed /\ clash = {}

\* How many rows of the file the import has dealt with
Passed == Len(file) - Len(io.todo)

LandInv ==
  io.pc \in Importing /\ Good =>
    /\ LandedOK(file, db, Passed, io.landed) /\ ApartOK(file, Passed, io.landed)
    /\ MemoryOK(file, Passed, io.landed, io.map, io.dev)
    /\ AheadOK(file, db.point, Passed, io.landed)
    /\ io.pc = "create" => row.id \notin DOMAIN db[row.table]

\* At the end all rows of the file have landed.
DoneInv ==
  io.pc = "done" /\ Good =>
    LandedOK(file, db, Len(file), io.landed) /\ ApartOK(file, Len(file), io.landed)

RestInv == PointsOK(file) /\ HomeInv /\ LandInv /\ DoneInv

\* Row n + 1 of the file lands as id, and the tables d become e: it is a row of
\* its own, with its settings and its parent, and no other row is written.
LandsAs(f, d, e, n, l, id) ==
  LET p == n + 1
      t == f[p].table
  IN  /\ id \in DOMAIN e[t] /\ e[t][id].rev = f[p].rev
      /\ t = "dev" => \E j \in 1..n : /\ f[j].table = "conn" /\ f[j].id = f[p].ref
                                       /\ e.dev[id].ref = l[j]
      /\ t = "point" => \A j \in 1..n : DevOf(f, j, p) => e.point[id].ref = l[j]
      /\ \A u \in Tables : \A i \in DOMAIN d[u] : u # t \/ i # id =>
           i \in DOMAIN e[u] /\ e[u][i] = d[u][i]
      /\ \A j \in 1..n : f[j].table = t => l[j] # id
      /\ \A k \in 1..Len(f) : k > p /\ f[k].table = t => f[k].id # id

(* Then what held of the rows before it holds with it.                     *)
LEMMA LandsNext ==
  ASSUME NEW f, NEW n \in Nat, NEW p, p = n + 1, Len(f) \in Nat, p \in 1..Len(f),
         NEW d, NEW e, NEW id, NEW l, \A k \in 1..Len(f) : f[k].table \in Tables,
         LandedOK(f, d, n, l), ApartOK(f, n, l), LandsAs(f, d, e, n, l, id)
  PROVE  LandedOK(f, e, p, With(l, p, id)) /\ ApartOK(f, p, With(l, p, id))
<1> DEFINE t == f[p].table
<1>0. /\ t \in Tables /\ id \in DOMAIN e[t] /\ e[t][id].rev = f[p].rev
      /\ t = "dev" => \E j \in 1..n : /\ f[j].table = "conn" /\ f[j].id = f[p].ref
                                       /\ e.dev[id].ref = l[j]
      /\ t = "point" => \A j \in 1..n : DevOf(f, j, p) => e.point[id].ref = l[j]
      /\ \A u \in Tables : \A i \in DOMAIN d[u] : u # t \/ i # id =>
           i \in DOMAIN e[u] /\ e[u][i] = d[u][i]
      /\ \A j \in 1..n : f[j].table = t => l[j] # id
      /\ \A k \in 1..Len(f) : k > p /\ f[k].table = t => f[k].id # id
  BY DEF LandsAs
<1>00. t = f[p].table
  OBVIOUS
<1> HIDE DEF t
<1> DEFINE m == With(l, p, id)
<1>1. DOMAIN l = 1..n
  BY DEF LandedOK
<1>2. DOMAIN m = 1..p /\ m[p] = id /\ \A k \in 1..n : m[k] = l[k]
  <2>1. 1..p = (1..n) \cup {p} /\ p \notin 1..n
    OBVIOUS
  <2> QED BY <1>1, <2>1 DEF With
<1> HIDE DEF m
<1>3. \A k \in 1..p : k \in 1..n \/ k = p
  OBVIOUS
<1>4. \A k \in 1..n : k \in 1..Len(f) /\ k \in 1..p /\ k # p /\ k < p
  OBVIOUS
<1>5. ASSUME NEW k \in 1..n
      PROVE  /\ l[k] \in DOMAIN e[f[k].table] /\ l[k] \in DOMAIN d[f[k].table]
             /\ e[f[k].table][l[k]] = d[f[k].table][l[k]]
             /\ d[f[k].table][l[k]].rev = f[k].rev
  <2>1. l[k] \in DOMAIN d[f[k].table] /\ d[f[k].table][l[k]].rev = f[k].rev
    BY DEF LandedOK
  <2>2. f[k].table \in Tables /\ (f[k].table # t \/ l[k] # id)
    BY <1>0, <1>4
  <2> QED BY <1>0, <2>1, <2>2
<1>6. \A k \in 1..p : m[k] \in DOMAIN e[f[k].table] /\ e[f[k].table][m[k]].rev = f[k].rev
  BY <1>0, <1>00, <1>2, <1>3, <1>5
<1>7. ASSUME NEW k \in 1..p, f[k].table = "dev"
      PROVE  \E j \in 1..p : /\ f[j].table = "conn" /\ f[j].id = f[k].ref
                             /\ e.dev[m[k]].ref = m[j]
  <2>1. CASE k \in 1..n
    <3>1. PICK j \in 1..n : f[j].table = "conn" /\ f[j].id = f[k].ref /\ d.dev[l[k]].ref = l[j]
      BY <1>7, <2>1 DEF LandedOK
    <3>2. e.dev[l[k]] = d.dev[l[k]]
      BY <1>5, <1>7, <2>1
    <3> QED BY <1>2, <1>4, <2>1, <3>1, <3>2
  <2>2. CASE k = p
    <3>1. PICK j \in 1..n : f[j].table = "conn" /\ f[j].id = f[p].ref /\ e.dev[id].ref = l[j]
      BY <1>0, <1>00, <1>7, <2>2
    <3> QED BY <1>2, <1>4, <2>2, <3>1
  <2> QED BY <1>3, <2>1, <2>2
<1>8. ASSUME NEW j \in 1..p, NEW k \in 1..p, f[k].table = "point", DevOf(f, j, k)
      PROVE  e.point[m[k]].ref = m[j]
  <2>1. j \in 1..n
    <3>1. j \in 1..k /\ f[j].table = "dev"
      BY <1>8 DEF DevOf
    <3>2. j # k
      BY <1>8, <3>1
    <3> QED BY <3>1, <3>2
  <2>2. CASE k \in 1..n
    <3>1. d.point[l[k]].ref = l[j]
      BY <1>8, <2>1, <2>2 DEF LandedOK
    <3>2. e.point[l[k]] = d.point[l[k]]
      BY <1>5, <1>8, <2>2
    <3> QED BY <1>2, <2>1, <2>2, <3>1, <3>2
  <2>3. CASE k = p
    BY <1>0, <1>00, <1>2, <1>8, <2>1, <2>3
  <2> QED BY <1>3, <2>2, <2>3
<1>9. LandedOK(f, e, p, m)
  BY <1>2, <1>6, <1>7, <1>8 DEF LandedOK
<1>10. ASSUME NEW j \in 1..p, NEW k \in 1..p, j < k, f[j].table = f[k].table
       PROVE  m[j] # m[k]
  <2>1. j \in 1..n
    BY <1>10
  <2>2. CASE k \in 1..n
    BY <1>2, <1>10, <2>1, <2>2 DEF ApartOK
  <2>3. CASE k = p
    BY <1>0, <1>00, <1>2, <1>10, <2>1, <2>3
  <2> QED BY <1>3, <2>2, <2>3
<1>11. ASSUME NEW j \in 1..p, NEW k \in 1..Len(f), k > p, f[j].table = f[k].table
       PROVE  m[j] # f[k].id
  <2>1. CASE j \in 1..n
    <3>1. k > n
      BY <1>11
    <3> QED BY <1>2, <1>11, <2>1, <3>1 DEF ApartOK
  <2>2. CASE j = p
    BY <1>0, <1>00, <1>2, <1>11, <2>2
  <2> QED BY <1>3, <2>1, <2>2
<1>12. ApartOK(f, p, m)
  BY <1>10, <1>11 DEF ApartOK
<1> QED BY <1>9, <1>12 DEF m

(* So does what the import remembers.                                      *)
LEMMA RemembersNext ==
  ASSUME NEW f, NEW n \in Nat, NEW p, p = n + 1, NEW id, NEW l, DOMAIN l = 1..n,
         NEW m, NEW v, MemoryOK(f, n, l, m, v)
  PROVE  MemoryOK(f, p, With(l, p, id),
                  IF f[p].table = "conn" THEN With(m, f[p].id, id) ELSE m,
                  IF f[p].table = "dev" THEN id ELSE v)
<1> DEFINE l2 == With(l, p, id)
           m2 == IF f[p].table = "conn" THEN With(m, f[p].id, id) ELSE m
           v2 == IF f[p].table = "dev" THEN id ELSE v
<1>1. l2[p] = id /\ \A k \in 1..n : l2[k] = l[k]
  <2>1. p \notin 1..n
    OBVIOUS
  <2> QED BY <2>1 DEF With
<1>2. p \in 1..p /\ \A k \in 1..n : k \in 1..p
  OBVIOUS
<1>3. \A k \in 1..p : k \in 1..n \/ k = p
  OBVIOUS
<1>4. ASSUME NEW x \in DOMAIN m2
      PROVE  \/ f[p].table = "conn" /\ x = f[p].id /\ m2[x] = id
             \/ x \in DOMAIN m /\ m2[x] = m[x]
  BY DEF With
<1> HIDE DEF l2, m2
<1>5. ASSUME NEW x \in DOMAIN m2
      PROVE  \E j \in 1..p : f[j].table = "conn" /\ f[j].id = x /\ l2[j] = m2[x]
  <2>1. CASE f[p].table = "conn" /\ x = f[p].id /\ m2[x] = id
    BY <1>1, <1>2, <2>1
  <2>2. CASE x \in DOMAIN m /\ m2[x] = m[x]
    <3>1. PICK j \in 1..n : f[j].table = "conn" /\ f[j].id = x /\ l[j] = m[x]
      BY <2>2 DEF MemoryOK
    <3> QED BY <1>1, <1>2, <2>2, <3>1
  <2> QED BY <1>4, <2>1, <2>2
<1>6. ASSUME NEW j \in 1..p, DevOf(f, j, p) PROVE v2 = l2[j]
  <2>1. f[j].table = "dev" /\ \A i \in 1..p : f[i].table = "dev" => i <= j
    BY <1>6 DEF DevOf
  <2>2. CASE f[p].table = "dev"
    <3>1. j = p
      BY <1>2, <2>1, <2>2
    <3> QED BY <1>1, <2>2, <3>1
  <2>3. CASE f[p].table # "dev"
    <3>1. j \in 1..n
      BY <1>3, <2>1, <2>3
    <3>2. DevOf(f, j, n)
      BY <1>2, <2>1, <3>1 DEF DevOf
    <3>3. v = l[j]
      BY <3>1, <3>2 DEF MemoryOK
    <3> QED BY <1>1, <2>3, <3>1, <3>3
  <2> QED BY <2>2, <2>3
<1> HIDE DEF v2
<1>7. MemoryOK(f, p, l2, m2, v2)
  BY <1>5, <1>6 DEF MemoryOK
<1> QED BY <1>7 DEF l2, m2, v2

(* So does what holds of the points to come, whether the row was found, so *)
(* that a device keeps its id, or created, when no point was below it.     *)
LEMMA AheadNext ==
  ASSUME NEW f, NEW n \in Nat, NEW p, p = n + 1, Len(f) \in Nat, p \in 1..Len(f),
         NEW a, NEW b, NEW id, NEW l, DOMAIN l = 1..n, AheadOK(f, a, n, l),
         \A k \in 1..Len(f) : k > p /\ f[k].table = "point" /\ f[k].id \in DOMAIN b =>
           f[k].id \in DOMAIN a /\ b[f[k].id].ref = a[f[k].id].ref,
         \A k \in 1..Len(f) :
           /\ k > p /\ f[p].table = "dev" /\ f[k].table = "point"
           /\ f[k].id \in DOMAIN a /\ a[f[k].id].ref = f[p].id
           => id = f[p].id
  PROVE  AheadOK(f, b, p, With(l, p, id))
<1> DEFINE m == With(l, p, id)
<1>1. m[p] = id /\ \A k \in 1..n : m[k] = l[k]
  <2>1. p \notin 1..n
    OBVIOUS
  <2> QED BY <2>1 DEF With
<1> HIDE DEF m
<1>2. ASSUME NEW j \in 1..Len(f), NEW k \in 1..Len(f), k > p, f[k].table = "point",
             DevOf(f, j, k), f[k].id \in DOMAIN b
      PROVE  b[f[k].id].ref = IF j <= p THEN m[j] ELSE f[j].id
  <2>1. f[k].id \in DOMAIN a /\ b[f[k].id].ref = a[f[k].id].ref
    BY <1>2
  <2>2. k > n
    BY <1>2
  <2>3. a[f[k].id].ref = IF j <= n THEN l[j] ELSE f[j].id
    BY <1>2, <2>1, <2>2 DEF AheadOK
  <2>4. CASE j <= n
    <3>1. j \in 1..n /\ j <= p
      BY <2>4
    <3> QED BY <1>1, <2>1, <2>3, <3>1
  <2>5. CASE j = p
    <3>1. ~ (j <= n) /\ j <= p
      BY <2>5
    <3>2. f[p].table = "dev"
      BY <1>2, <2>5 DEF DevOf
    <3>3. a[f[k].id].ref = f[p].id
      BY <2>3, <2>5, <3>1
    <3>4. id = f[p].id
      BY <1>2, <2>1, <3>2, <3>3
    <3> QED BY <1>1, <2>1, <2>5, <3>1, <3>3, <3>4
  <2>6. CASE j > p
    <3>1. ~ (j <= n) /\ ~ (j <= p)
      BY <2>6
    <3> QED BY <2>1, <2>3, <3>1
  <2>7. j <= n \/ j = p \/ j > p
    OBVIOUS
  <2> QED BY <2>4, <2>5, <2>6, <2>7
<1>3. AheadOK(f, b, p, m)
  BY <1>2 DEF AheadOK
<1> QED BY <1>3 DEF m

-----------------------------------------------------------------------------
(* From the export to the import.                                          *)

(* Before the export there is nothing to restore.                          *)
LEMMA InitRest == Init => RestInv
<1> SUFFICES ASSUME Init PROVE RestInv
  OBVIOUS
<1>1. io.pc = "start" /\ file = <<>> /\ Len(file) = 0 /\ home
  BY DEF Init, NoRequest
<1>2. PointsOK(file)
  BY <1>1 DEF PointsOK
<1>3. HomeInv
  BY <1>1 DEF HomeInv, HomeOK
<1>4. LandInv /\ DoneInv
  BY <1>1 DEF LandInv, DoneInv, Importing
<1> QED BY <1>2, <1>3, <1>4 DEF RestInv

(* No import is under way or done: only the file and the points matter.    *)
LEMMA BeforeImport ==
  ASSUME io'.pc \in {"start", "xdevs", "xpoints", "ready"}, PointsOK(file'), HomeInv'
  PROVE  RestInv'
<1>1. LandInv' /\ DoneInv'
  BY DEF LandInv, DoneInv, Importing
<1> QED BY <1>1 DEF RestInv

(* Connections alone are no points.                                        *)
LEMMA ExportListsRest ==
  ASSUME IndInv, RestInv, ExportConns \/ ExportDevices
  PROVE  RestInv'
<1>1. UNCHANGED <<db, home>> /\ home /\ io'.pc \in {"xdevs", "xpoints"}
  BY DEF ExportConns, ExportDevices, RestInv, HomeInv, IndInv, FileInv, Requests
<1>2. PointsOK(file') /\ HomeOK(file', db.point)
  <2>1. CASE ExportConns
    <3>1. file' = List("conn", DOMAIN db.conn)
      BY <2>1 DEF ExportConns
    <3>2. \A k \in 1..Len(file') : file'[k].table = "conn"
      BY <3>1, ListOK DEF Tables, IndInv, TablesInv
    <3> QED BY <3>2 DEF PointsOK, HomeOK
  <2>2. CASE ExportDevices
    <3>1. file' = file /\ io.pc = "xdevs"
      BY <2>2 DEF ExportDevices
    <3>2. HomeOK(file, db.point)
      BY <1>1, <3>1 DEF RestInv, HomeInv, Importing
    <3> QED BY <3>1, <3>2 DEF RestInv
  <2> QED BY <2>1, <2>2
<1>3. HomeInv'
  BY <1>1, <1>2 DEF HomeInv
<1> QED BY <1>1, <1>2, <1>3, BeforeImport

(* Among the rows up to one there is a last device, if there is any.       *)
LEMMA LastDevice ==
  ASSUME NEW f, NEW k \in Nat, NEW j \in 1..k, f[j].table = "dev"
  PROVE  DevOf(f, Max({i \in 1..k : f[i].table = "dev"}), k)
<1> DEFINE T == {i \in 1..k : f[i].table = "dev"}
           x == Max(T)
<1>1. T \subseteq 0..k /\ T # {}
  <2>1. j \in T
    OBVIOUS
  <2> QED BY <2>1
<1>2. x \in T /\ \A y \in T : x >= y
  <2> HIDE DEF T
  <2> QED BY <1>1, MaxInSet
<1> HIDE DEF x
<1>3. x \in 1..k /\ f[x].table = "dev"
  BY <1>2
<1>4. \A y \in 1..k : f[y].table = "dev" => y \in T
  OBVIOUS
<1>5. \A y \in 1..k : f[y].table = "dev" => y <= x
  BY <1>2, <1>3, <1>4
<1>6. DevOf(f, x, k)
  BY <1>3, <1>5 DEF DevOf
<1> QED BY <1>6 DEF x

(* The points of a device are behind it in the file, in the tables below   *)
(* it, and none of the file yet.                                           *)
LEMMA ExportPointsRest ==
  ASSUME IndInv, RestInv, ExportPoints
  PROVE  RestInv'
<1> USE DEF IndInv
<1> DEFINE d == Head(io.todo)
           P == List("point", Children("point", d.id))
           n == Len(file)
<1>1. /\ P \in Seq(FileRow)
      /\ \A k \in 1..Len(P) : P[k].table = "point" /\ P[k].id \in Children("point", d.id)
      /\ \A j, k \in 1..Len(P) : j < k => P[j].id < P[k].id
  <2>1. Children("point", d.id) \in SUBSET DOMAIN db["point"]
    BY DEF Children
  <2> QED BY <2>1, ListOK DEF Tables, TablesInv
<1>2. /\ UNCHANGED <<db, home>> /\ io.pc = "xpoints" /\ io'.pc = "xpoints"
      /\ file' = file \o <<d>> \o P /\ io.todo # <<>>
  BY DEF ExportPoints, FileInv, Requests
<1>3. file \in Seq(FileRow) /\ n \in Nat /\ io.todo \in Seq(FileRow) /\ Len(P) \in Nat
  BY <1>1 DEF FileInv, Requests
<1>4. \A i \in Children("point", d.id) : i \in DOMAIN db.point /\ db.point[i].ref = d.id
  BY DEF Children
<1> HIDE DEF P
<1>5. d = io.todo[1] /\ 1 \in 1..Len(io.todo) /\ d \in FileRow
  BY <1>2, <1>3
<1> HIDE DEF d
<1>6. /\ d.table = "dev"
      /\ \A j \in 1..n : file[j].table = "dev" => file[j].id # d.id
  <2>1. d.table = "dev" /\ d.id \in Nat
    BY <1>2, <1>5 DEF SortInv, FileRow
  <2>2. \A j \in 1..n : file[j].table = "dev" => file[j].id < d.id
    BY <1>2, <1>5 DEF SortInv
  <2> QED BY <2>1, <2>2
<1>7. /\ Len(file') = n + 1 + Len(P)
      /\ \A k \in 1..n : file'[k] = file[k]
      /\ file'[n + 1] = d
      /\ \A k \in 1..Len(P) : file'[n + 1 + k] = P[k]
  <2> DEFINE g == file \o <<d>>
  <2>1. g \in Seq(FileRow) /\ Len(g) = n + 1 /\ g[n + 1] = d /\ \A k \in 1..n : g[k] = file[k]
    BY <1>3, <1>5
  <2>2. file' = g \o P
    BY <1>2
  <2> HIDE DEF g
  <2>3. g \o P \in Seq(FileRow) /\ Len(g \o P) = Len(g) + Len(P)
    BY <1>1, <2>1, ConcatIndex
  <2>4. \A k \in 1..Len(g) : (g \o P)[k] = g[k]
    BY <1>1, <2>1, ConcatIndex
  <2>5. \A k \in 1..Len(P) : (g \o P)[Len(g) + k] = P[k]
    BY <1>1, <2>1, ConcatIndex
  <2>6. \A k \in 1..n : k \in 1..(n + 1)
    BY <1>3
  <2>7. n + 1 \in 1..(n + 1)
    BY <1>3
  <2> HIDE DEF n
  <2> QED BY <2>1, <2>2, <2>3, <2>4, <2>5, <2>6, <2>7
<1> HIDE DEF n
<1>8. ASSUME NEW k \in 1..Len(file')
      PROVE  \/ k \in 1..n /\ file'[k] = file[k]
             \/ k = n + 1 /\ file'[k] = d
             \/ /\ k > n + 1 /\ k - n - 1 \in 1..Len(P) /\ file'[k] = P[k - n - 1]
                /\ file'[k].table = "point" /\ file'[k].id \in Children("point", d.id)
  <2>1. CASE k <= n
    BY <1>3, <1>7, <2>1
  <2>2. CASE k = n + 1
    BY <1>7, <2>2
  <2>3. CASE k > n + 1
    <3>1. k - n - 1 \in 1..Len(P) /\ k = n + 1 + (k - n - 1)
      BY <1>3, <1>7, <2>3
    <3>2. file'[k] = P[k - n - 1]
      BY <1>7, <3>1
    <3> QED BY <1>1, <2>3, <3>1, <3>2
  <2> QED BY <1>3, <1>7, <2>1, <2>2, <2>3
<1>9. n + 1 \in 1..Len(file') /\ \A k \in 1..n : k \in 1..Len(file') /\ k < n + 1
  BY <1>3, <1>7
<1>10. PointsOK(file) /\ HomeOK(file, db.point) /\ home
  BY <1>2 DEF RestInv, HomeInv, Importing
\* The device of a point before the new device is the one it was; the device
\* of a new point is the new device.
<1>11. ASSUME NEW j \in 1..Len(file'), NEW k \in 1..Len(file'), file'[k].table = "point",
              DevOf(file', j, k)
       PROVE  \/ k \in 1..n /\ j \in 1..n /\ file'[k] = file[k] /\ file'[j] = file[j] /\ DevOf(file, j, k)
              \/ k > n + 1 /\ j = n + 1 /\ file'[j] = d
  <2>1. j \in 1..k /\ file'[j].table = "dev" /\ \A i \in 1..k : file'[i].table = "dev" => i <= j
    BY <1>11 DEF DevOf
  <2>2. CASE k \in 1..n
    <3>1. j \in 1..n /\ \A i \in 1..k : i \in 1..n
      BY <1>3, <2>1, <2>2
    <3>2. file'[k] = file[k] /\ file'[j] = file[j] /\ \A i \in 1..k : file'[i] = file[i]
      BY <1>7, <2>2, <3>1
    <3>3. DevOf(file, j, k)
      BY <2>1, <3>2 DEF DevOf
    <3> QED BY <2>2, <3>1, <3>2, <3>3
  <2>3. CASE k > n + 1
    <3>1. n + 1 \in 1..k /\ file'[n + 1].table = "dev"
      BY <1>3, <1>6, <1>7, <2>3
    <3>2. j >= n + 1
      BY <1>3, <2>1, <3>1
    <3>3. j = n + 1
      <4> SUFFICES ASSUME j # n + 1 PROVE FALSE
        OBVIOUS
      <4>1. j > n + 1
        BY <1>3, <3>2
      <4>2. ~ (j \in 1..n) /\ j # n + 1
        BY <1>3, <4>1
      <4>3. file'[j].table = "point"
        BY <1>8, <4>2
      <4> QED BY <2>1, <4>3
    <3> QED BY <1>7, <2>3, <3>3
  <2> QED BY <1>6, <1>8, <1>11, <2>2, <2>3
<1>12. HomeOK(file', db.point)
  <2> SUFFICES ASSUME NEW j \in 1..Len(file'), NEW k \in 1..Len(file'), file'[k].table = "point",
                      DevOf(file', j, k), file'[k].id \in DOMAIN db.point
               PROVE  db.point[file'[k].id].ref = file'[j].id
    BY DEF HomeOK
  <2>1. CASE k \in 1..n /\ j \in 1..n /\ file'[k] = file[k] /\ file'[j] = file[j] /\ DevOf(file, j, k)
    BY <1>10, <2>1 DEF HomeOK, n
  <2>2. CASE k > n + 1 /\ j = n + 1 /\ file'[j] = d
    <3>1. ~ (k \in 1..n) /\ k # n + 1
      BY <1>3, <2>2
    <3>2. file'[k].id \in Children("point", d.id)
      BY <1>8, <3>1
    <3> QED BY <1>4, <2>2, <3>2
  <2> QED BY <1>11, <2>1, <2>2
<1>13. ASSUME NEW k \in 1..Len(file'), file'[k].table = "point"
       PROVE  \E j \in 1..Len(file') : j < k /\ file'[j].table = "dev"
  <2>1. CASE k \in 1..n /\ file'[k] = file[k]
    <3>1. PICK j \in 1..n : j < k /\ file[j].table = "dev"
      BY <1>10, <1>13, <2>1 DEF PointsOK, n
    <3> QED BY <1>7, <1>9, <3>1
  <2>2. CASE k > n + 1
    <3>1. n + 1 < k
      BY <1>3, <2>2
    <3> QED BY <1>6, <1>7, <1>9, <3>1
  <2> QED BY <1>6, <1>8, <1>13, <2>1, <2>2
<1>14. ASSUME NEW j \in 1..Len(file'), NEW k \in 1..Len(file'), j < k,
              file'[j].table = "point", file'[k].table = "point"
       PROVE  file'[k].id = 0 \/ file'[j].id # file'[k].id
  <2>1. CASE k \in 1..n /\ file'[k] = file[k]
    <3>1. j \in 1..n
      BY <1>3, <1>14, <2>1
    <3>2. file'[j] = file[j]
      BY <1>7, <3>1
    <3> QED BY <1>10, <1>14, <2>1, <3>1, <3>2 DEF PointsOK, n
  <2>2. CASE k > n + 1 /\ k - n - 1 \in 1..Len(P) /\ file'[k] = P[k - n - 1]
             /\ file'[k].id \in Children("point", d.id)
    <3>1. CASE j \in 1..n /\ file'[j] = file[j]
      <4> SUFFICES ASSUME file[j].id = file'[k].id PROVE FALSE
        BY <3>1
      <4>1. file[j].id \in DOMAIN db.point /\ db.point[file[j].id].ref = d.id
        BY <1>4, <2>2
      \* the device of the earlier point
      <4>2. PICK i \in 1..n : DevOf(file, i, j)
        <5>1. PICK i \in 1..n : i < j /\ file[i].table = "dev"
          BY <1>10, <1>14, <3>1 DEF PointsOK, n
        <5>2. j \in Nat /\ i \in 1..j
          BY <1>3, <3>1, <5>1
        <5> DEFINE x == Max({y \in 1..j : file[y].table = "dev"})
        <5>3. DevOf(file, x, j)
          BY <5>1, <5>2, LastDevice
        <5> HIDE DEF x
        <5>4. x \in 1..n
          BY <1>3, <3>1, <5>3 DEF DevOf
        <5> QED BY <5>3, <5>4
      <4>3. db.point[file[j].id].ref = file[i].id /\ file[i].table = "dev"
        BY <1>10, <1>14, <3>1, <4>1, <4>2 DEF HomeOK, DevOf, n
      <4> QED BY <1>6, <4>1, <4>3
    <3>2. CASE j > n + 1 /\ j - n - 1 \in 1..Len(P) /\ file'[j] = P[j - n - 1]
      <4>1. j - n - 1 < k - n - 1
        BY <1>3, <1>14
      <4>2. P[j - n - 1].id < P[k - n - 1].id
        BY <1>1, <2>2, <3>2, <4>1
      <4>3. P[j - n - 1] \in FileRow /\ P[k - n - 1] \in FileRow
        BY <1>1, <2>2, <3>2
      <4>4. P[j - n - 1].id # P[k - n - 1].id
        BY <4>2, <4>3 DEF FileRow
      <4> QED BY <2>2, <3>2, <4>4
    <3> QED BY <1>6, <1>8, <1>14, <3>1, <3>2
  <2> QED BY <1>6, <1>8, <1>14, <2>1, <2>2
<1>15. PointsOK(file')
  BY <1>13, <1>14 DEF PointsOK
<1>16. HomeInv'
  BY <1>2, <1>10, <1>12 DEF HomeInv
<1> QED BY <1>2, <1>15, <1>16, BeforeImport

(* The end of an export, new hardware, and editing the file by hand.       *)
LEMMA ReadyRest ==
  ASSUME IndInv, RestInv, ExportDone \/ ExportFails \/ NewHardware \/ HandEdit
  PROVE  RestInv'
<1> USE DEF IndInv
<1>1. CASE ExportFails
  <2>1. io'.pc = "start" /\ file' = <<>> /\ UNCHANGED home
        /\ io.pc \in {"start", "xdevs", "xpoints"}
    BY <1>1, NoRequestOK DEF ExportFails
  <2>2. home /\ Len(file') = 0
    BY <2>1 DEF RestInv, HomeInv
  <2>3. PointsOK(file') /\ HomeOK(file', db.point')
    BY <2>2 DEF PointsOK, HomeOK
  <2>4. HomeInv'
    BY <2>1, <2>2, <2>3 DEF HomeInv
  <2> QED BY <2>1, <2>3, <2>4, BeforeImport
<1>2. CASE ExportDone
  <2>1. io'.pc = "ready" /\ UNCHANGED <<file, db, home>> /\ io.pc = "xpoints"
    BY <1>2 DEF ExportDone, NoRequest
  <2>2. HomeInv'
    BY <2>1 DEF RestInv, HomeInv, Importing
  <2> QED BY <2>1, <2>2, BeforeImport DEF RestInv
<1>3. CASE NewHardware
  <2>1. UNCHANGED <<file, io>> /\ io.pc = "ready" /\ home' = FALSE
    BY <1>3 DEF NewHardware
  <2>2. HomeInv'
    BY <2>1 DEF HomeInv
  <2> QED BY <2>1, <2>2, BeforeImport DEF RestInv
<1>4. CASE HandEdit
  <2>1. UNCHANGED <<db, io, home>> /\ io.pc = "ready"
    BY <1>4 DEF HandEdit
  <2>0. file \in Seq(FileRow) /\ Len(file) \in Nat /\ DOMAIN file = 1..Len(file)
        /\ \A k \in 1..Len(file) : file[k] \in FileRow
    BY DEF FileInv
  <2>2. Len(file') = Len(file) /\ \A k \in 1..Len(file) : file'[k].table = file[k].table
    BY <1>4, EditedFile
  <2>3. \/ \A k \in 1..Len(file) : file'[k].id = file[k].id
        \/ \A k \in 1..Len(file) : file[k].table # "conn" => file'[k].id = 0
    BY <1>4, EditedFile
  <2>4. PointsOK(file')
    <3>1. PointsOK(file)
      BY DEF RestInv
    <3>2. \A k \in 1..Len(file) : file'[k].table = "point" =>
            \E j \in 1..Len(file) : j < k /\ file'[j].table = "dev"
      BY <2>2, <3>1 DEF PointsOK
    <3>3. \A j, k \in 1..Len(file) :
            j < k /\ file'[j].table = "point" /\ file'[k].table = "point" =>
              file'[k].id = 0 \/ file'[j].id # file'[k].id
      <4>1. CASE \A k \in 1..Len(file) : file'[k].id = file[k].id
        BY <2>2, <3>1, <4>1 DEF PointsOK
      <4>2. CASE \A k \in 1..Len(file) : file[k].table # "conn" => file'[k].id = 0
        BY <2>2, <4>2
      <4> QED BY <2>3, <4>1, <4>2
    <3> QED BY <2>2, <3>2, <3>3 DEF PointsOK
  <2>5. ASSUME home PROVE HomeOK(file', db.point)
    <3>1. HomeOK(file, db.point)
      BY <2>1, <2>5 DEF RestInv, HomeInv, Importing
    <3> SUFFICES ASSUME NEW j \in 1..Len(file), NEW k \in 1..Len(file), file[k].table = "point",
                        DevOf(file', j, k), file'[k].id \in DOMAIN db.point
                 PROVE  db.point[file'[k].id].ref = file'[j].id
      BY <2>2 DEF HomeOK
    <3>2. DevOf(file, j, k)
      <4>1. \A i \in 1..k : i \in 1..Len(file)
        BY <2>0
      <4>2. \A i \in 1..k : file'[i].table = file[i].table
        BY <2>2, <4>1
      <4> QED BY <4>2 DEF DevOf
    <3>3. CASE \A i \in 1..Len(file) : file'[i].id = file[i].id
      BY <3>1, <3>2, <3>3 DEF HomeOK
    <3>4. CASE \A i \in 1..Len(file) : file[i].table # "conn" => file'[i].id = 0
      <4>1. file'[k].id = 0
        BY <3>4
      <4>2. DOMAIN db.point \subseteq Nat \ {0}
        BY IdsPositive DEF Tables, TablesInv
      <4> QED BY <4>1, <4>2
    <3> QED BY <2>3, <3>3, <3>4
  <2>6. HomeInv'
    BY <2>1, <2>5 DEF HomeInv
  <2> QED BY <2>1, <2>4, <2>6, BeforeImport
<1> QED BY <1>1, <1>2, <1>3, <1>4

-----------------------------------------------------------------------------
(* Edits by the other request.                                             *)

\* Points that were there have the device they had, and a new point has an id
\* above all that were given out.
PointsStay ==
  \A i \in DOMAIN db'.point :
    IF i \in DOMAIN db.point THEN db'.point[i].ref = db.point[i].ref ELSE i = seq.point + 1

(* Adding a row.                                                           *)
LEMMA AddRowPoints ==
  ASSUME IndInv, NEW t \in Tables, NEW rev \in Revs,
         NEW ref \in IF t = "conn" THEN {0} ELSE Ids, AddRow(t, rev, ref)
  PROVE  PointsStay /\ Edit
<1> USE DEF IndInv
<1>1. CASE ~ ParentExists(t, ref)
  BY <1>1 DEF AddRow, PointsStay
<1>2. CASE ParentExists(t, ref)
  <2>1. db' = [db EXCEPT ![t] = With(@, NewId(t), [rev |-> rev, ref |-> ref])]
    BY <1>2 DEF AddRow, Create
  <2>2. DOMAIN db = Tables
    BY DEF TablesInv, IdsOK
  <2>3. CASE t # "point"
    <3>1. db'.point = db.point
      BY <2>1, <2>2, <2>3 DEF Tables
    <3> QED BY <3>1 DEF PointsStay, AddRow
  <2>4. CASE t = "point"
    <3>1. NewId(t) = seq.point + 1 /\ NewId(t) \notin DOMAIN db.point
      BY <2>4, NewIdIsNew DEF TablesInv
    <3>2. db'.point = With(db.point, NewId(t), [rev |-> rev, ref |-> ref])
      BY <2>1, <2>2, <2>4 DEF Tables
    <3>3. DOMAIN db'.point = DOMAIN db.point \cup {NewId(t)}
          /\ \A i \in DOMAIN db.point : db'.point[i] = db.point[i]
      BY <3>1, <3>2 DEF With
    <3> QED BY <3>1, <3>3 DEF PointsStay, AddRow
  <2> QED BY <2>3, <2>4
<1> QED BY <1>1, <1>2 DEF AddRow

(* Changing or deleting one.                                               *)
LEMMA ChangePoints ==
  ASSUME IndInv,
         \/ \E t \in Tables, rev \in Revs : \E i \in DOMAIN db[t] :
              \E ref \in IF t = "dev" THEN DOMAIN db.conn ELSE {db[t][i].ref} : ChangeRow(t, i, rev, ref)
         \/ \E t \in {"dev", "point"} : \E i \in DOMAIN db[t] : DeleteRow(t, i)
         \/ \E c \in Ids : DeleteConnection(c)
  PROVE  PointsStay /\ Edit
<1> USE DEF IndInv
<1>0. DOMAIN db = Tables
  BY DEF TablesInv, IdsOK
<1>1. ASSUME NEW t \in Tables, NEW rev \in Revs, NEW i \in DOMAIN db[t], NEW ref, ChangeRow(t, i, rev, ref)
      PROVE  PointsStay /\ Edit
  <2>1. Edit /\ db' = [db EXCEPT ![t][i] = [rev |-> rev, ref |-> IF t = "point" THEN @.ref ELSE ref]]
    BY <1>1 DEF ChangeRow, Update
  <2>2. CASE t # "point"
    <3>1. db'.point = db.point
      BY <1>0, <2>1, <2>2 DEF Tables
    <3> QED BY <2>1, <3>1 DEF PointsStay
  <2>3. CASE t = "point"
    <3>1. db'.point = [db.point EXCEPT ![i] = [rev |-> rev, ref |-> db.point[i].ref]]
      BY <1>0, <2>1, <2>3 DEF Tables
    <3>2. DOMAIN db'.point = DOMAIN db.point /\ \A k \in DOMAIN db.point : db'.point[k].ref = db.point[k].ref
      BY <3>1
    <3> QED BY <2>1, <3>2 DEF PointsStay
  <2> QED BY <2>2, <2>3
<1>2. ASSUME NEW t \in {"dev", "point"}, NEW i \in DOMAIN db[t], DeleteRow(t, i)
      PROVE  PointsStay /\ Edit
  <2>1. Edit /\ Delete(t, i)
    BY <1>2 DEF DeleteRow
  <2>2. DOMAIN db'.point \subseteq DOMAIN db.point /\ \A k \in DOMAIN db'.point : db'.point[k] = db.point[k]
    <3>1. CASE t = "dev"
      <4>1. db'.point = Without(db.point, Children("point", i))
        BY <1>0, <2>1, <3>1 DEF Delete, Tables
      <4> QED BY <4>1 DEF Without
    <3>2. CASE t = "point"
      <4>1. DOMAIN db'.point \subseteq DOMAIN db.point /\ \A k \in DOMAIN db'.point : db'.point[k] = db.point[k]
        BY <1>0, <2>1, <3>2 DEF Delete, Tables, Without
      <4> QED BY <4>1
    <3> QED BY <3>1, <3>2
  <2> QED BY <2>1, <2>2 DEF PointsStay
<1>3. ASSUME NEW c, DeleteConnection(c)
      PROVE  PointsStay /\ Edit
  <2>1. Edit /\ (db' = db \/ db' = [db EXCEPT !.conn = Without(@, {c})])
    BY <1>3 DEF DeleteConnection
  <2>2. db'.point = db.point
    BY <1>0, <2>1 DEF Tables
  <2> QED BY <2>1, <2>2 DEF PointsStay
<1> QED BY <1>1, <1>2, <1>3

(* An edit before the import leaves the points of the file below their     *)
(* devices; one during the import ends what is claimed of it.              *)
LEMMA EditRest ==
  ASSUME IndInv, RestInv, PointsStay, Edit, io.pc # "done"
  PROVE  RestInv'
<1> USE DEF IndInv
<1>1. UNCHANGED <<file, io, home>> /\ clean' = (clean /\ io.pc \in {"start", "ready"})
  BY DEF Edit
<1>2. ASSUME home, io.pc \notin Importing PROVE HomeOK(file, db'.point)
  <2>1. HomeOK(file, db.point)
    BY <1>2 DEF RestInv, HomeInv
  <2> SUFFICES ASSUME NEW j \in 1..Len(file), NEW k \in 1..Len(file), file[k].table = "point",
                      DevOf(file, j, k), file[k].id \in DOMAIN db'.point
               PROVE  db'.point[file[k].id].ref = file[j].id
    BY DEF HomeOK
  <2>2. file[k].id <= seq.point /\ seq.point \in Nat
    BY <1>2 DEF AgeInv, TablesInv, IdsOK, Counted
  <2>3. file[k].id # seq.point + 1
    BY <2>2
  <2>4. file[k].id \in DOMAIN db.point /\ db'.point[file[k].id].ref = db.point[file[k].id].ref
    BY <2>3 DEF PointsStay
  <2> QED BY <2>1, <2>4 DEF HomeOK
<1>3. HomeInv'
  BY <1>1, <1>2 DEF RestInv, HomeInv
<1>4. LandInv'
  BY <1>1 DEF LandInv, Good, Importing
<1>5. DoneInv'
  BY <1>1 DEF DoneInv
<1>6. PointsOK(file')
  BY <1>1 DEF RestInv
<1> QED BY <1>3, <1>4, <1>5, <1>6 DEF RestInv

(* A look at the tables changes nothing.                                   *)
LEMMA LookRest ==
  ASSUME RestInv, UNCHANGED <<db, file, io, home, clean, clash>>
  PROVE  RestInv'
<1>1. PointsOK(file') /\ HomeInv'
  BY DEF RestInv, HomeInv
<1>2. Good' = Good /\ Passed' = Passed /\ row' = row
  BY DEF Good, Passed, row
<1>3. LandInv'
  BY <1>2 DEF RestInv, LandInv
<1>4. DoneInv'
  BY <1>2 DEF RestInv, DoneInv
<1> QED BY <1>1, <1>3, <1>4 DEF RestInv

(* Whatever the other request does.                                        *)
LEMMA OtherRest ==
  ASSUME IndInv, RestInv, OtherStep, io.pc # "done"
  PROVE  RestInv'
<1>1. CASE \E t \in Tables, rev \in Revs :
             \E ref \in IF t = "conn" THEN {0} ELSE Ids : AddRow(t, rev, ref)
  BY <1>1, AddRowPoints, EditRest
<1>2. CASE \/ \E t \in Tables, rev \in Revs : \E i \in DOMAIN db[t] :
                \E ref \in IF t = "dev" THEN DOMAIN db.conn ELSE {db[t][i].ref} : ChangeRow(t, i, rev, ref)
           \/ \E t \in {"dev", "point"} : \E i \in DOMAIN db[t] : DeleteRow(t, i)
           \/ \E c \in Ids : DeleteConnection(c)
  BY <1>2, ChangePoints, EditRest
<1>3. CASE (\E d \in DOMAIN db.dev : FindDevice(d)) \/ (\E c \in DOMAIN db.conn : CountDevices(c))
  <2>1. UNCHANGED <<db, file, io, home, clean, clash>>
    BY <1>3 DEF FindDevice, CountDevices
  <2> QED BY <2>1, LookRest
<1> QED BY <1>1, <1>2, <1>3 DEF OtherStep

-----------------------------------------------------------------------------
(* The import.                                                             *)

(* At its beginning no row has landed, and the points of the file that are *)
(* in the tables are below their devices: on new hardware there are none.  *)
LEMMA BeginImportRest ==
  ASSUME IndInv, RestInv, BeginImport
  PROVE  RestInv'
<1> USE DEF IndInv
<1>1. UNCHANGED <<db, seq, file, home, clash>> /\ io.pc = "ready"
  BY DEF BeginImport
<1>2. CASE ~ \A k \in DOMAIN file : Valid(file[k])
  <2>1. io' = [NoRequest EXCEPT !.pc = "done", !.failed = TRUE]
    BY <1>2 DEF BeginImport
  <2>2. io'.pc = "done" /\ io'.failed
    BY <2>1 DEF NoRequest
  <2>3. HomeInv' /\ LandInv' /\ DoneInv'
    BY <2>2 DEF HomeInv, LandInv, DoneInv, Good, Importing
  <2> QED BY <1>1, <2>3 DEF RestInv
<1>3. CASE \A k \in DOMAIN file : Valid(file[k])
  <2>1. /\ io' = [NoRequest EXCEPT !.pc = "get", !.todo = file]
        /\ clean' = (clean /\ (home \/ seq = [conn |-> 0, point |-> 0]))
    BY <1>3 DEF BeginImport
  <2>2. io'.pc = "get" /\ io'.todo = file /\ io'.map = Empty /\ io'.landed = Empty
    BY <2>1 DEF NoRequest
  <2>3. Len(file) \in Nat
    BY DEF FileInv
  <2>4. Passed' = 0 /\ 1..0 = {} /\ DOMAIN Empty = {}
    BY <1>1, <2>2, <2>3 DEF Passed, Empty
  <2>5. ASSUME clean' PROVE HomeOK(file, db.point)
    <3>1. CASE home
      BY <1>1, <3>1 DEF RestInv, HomeInv, Importing
    <3>2. CASE ~ home
      <4>1. seq = [conn |-> 0, point |-> 0]
        BY <2>1, <2>5, <3>2
      <4>2. DOMAIN db.point = {}
        BY <4>1 DEF TablesInv, IdsOK
      <4> QED BY <4>2 DEF HomeOK
    <3> QED BY <3>1, <3>2
  <2>6. LandedOK(file, db, 0, Empty) /\ ApartOK(file, 0, Empty)
    BY <2>4 DEF LandedOK, ApartOK
  <2>7. MemoryOK(file, 0, Empty, Empty, io'.dev)
    BY <2>4 DEF MemoryOK
  <2>8. ASSUME clean' PROVE AheadOK(file, db.point, 0, Empty)
    <3>1. \A j \in 1..Len(file) : ~ (j <= 0)
      BY <2>3
    <3> QED BY <2>5, <2>8, <3>1 DEF HomeOK, AheadOK
  <2>9. LandInv'
    BY <1>1, <2>2, <2>4, <2>6, <2>7, <2>8 DEF LandInv, Good
  <2>10. HomeInv' /\ DoneInv'
    BY <2>2 DEF HomeInv, DoneInv, Importing
  <2> QED BY <1>1, <2>9, <2>10 DEF RestInv
<1> QED BY <1>2, <1>3

(* The lookup: what it does not find is not there, unless it failed.       *)
LEMMA GetRest ==
  ASSUME IndInv, RestInv, Get
  PROVE  RestInv'
<1> USE DEF IndInv
<1>1. UNCHANGED <<db, file, home, clash>> /\ io.pc = "get"
  BY DEF Get
<1>2. /\ io \in Requests
      /\ \/ /\ io' = [io EXCEPT !.pc = IF row.id \in DOMAIN db[row.table] THEN "update" ELSE "create"]
            /\ clean' = clean
         \/ io' = [io EXCEPT !.pc = "create"] /\ clean' = FALSE
  BY DEF Get, FileInv
<1>3. /\ io'.pc \in {"update", "create"} /\ io'.todo = io.todo /\ io'.landed = io.landed
      /\ io'.map = io.map /\ io'.dev = io.dev /\ io'.failed = io.failed
      /\ clean' => clean /\ (io'.pc = "create" => row.id \notin DOMAIN db[row.table])
  BY <1>2 DEF Requests
<1>4. Passed' = Passed /\ row' = row /\ (Good' => Good)
  BY <1>1, <1>3 DEF Passed, row, Good
<1>5. LandInv'
  <2> SUFFICES ASSUME Good'
               PROVE  /\ LandedOK(file, db, Passed, io.landed) /\ ApartOK(file, Passed, io.landed)
                      /\ MemoryOK(file, Passed, io.landed, io.map, io.dev)
                      /\ AheadOK(file, db.point, Passed, io.landed)
                      /\ io'.pc = "create" => row.id \notin DOMAIN db[row.table]
    BY <1>1, <1>3, <1>4 DEF LandInv
  <2>1. Good /\ clean'
    BY <1>4 DEF Good
  <2>2. io.pc \in Importing
    BY <1>1 DEF Importing
  <2> QED BY <1>3, <2>1, <2>2 DEF RestInv, LandInv
<1>6. HomeInv' /\ DoneInv'
  BY <1>3 DEF HomeInv, DoneInv, Importing
<1> QED BY <1>1, <1>5, <1>6 DEF RestInv

(* A reported error ends what is claimed of the import.                    *)
LEMMA ReportRest ==
  ASSUME IndInv, RestInv, Report, UNCHANGED file
  PROVE  RestInv'
<1>1. io \in Requests
  BY DEF IndInv, FileInv
<1>2. io'.pc = "get" /\ io'.failed
  BY <1>1 DEF Report, Requests
<1>3. HomeInv' /\ LandInv' /\ DoneInv'
  BY <1>2 DEF HomeInv, LandInv, DoneInv, Good, Importing
<1> QED BY <1>3 DEF RestInv

(* What the request is after a row has landed.                             *)
LEMMA LandedFields ==
  ASSUME FileInv, io.pc \in Importing, io.todo # <<>>, NEW id, Landed(id), UNCHANGED file
  PROVE  /\ Passed \in Nat /\ Passed + 1 \in 1..Len(file) /\ Passed' = Passed + 1
         /\ row = file[Passed + 1] /\ io'.pc = "get" /\ io'.failed = io.failed
         /\ io'.landed = With(io.landed, Passed + 1, id)
         /\ io'.map = IF row.table = "conn" THEN With(io.map, row.id, id) ELSE io.map
         /\ io'.dev = IF row.table = "dev" THEN id ELSE io.dev
<1>1. io \in Requests /\ io.todo \in Seq(FileRow)
  BY DEF FileInv, Requests
<1>2. /\ Len(io.todo) \in Nat \ {0} /\ Len(file) \in Nat /\ Len(io.todo) <= Len(file)
      /\ Len(file) - Len(io.todo) + 1 \in 1..Len(file)
      /\ row = file[Len(file) - Len(io.todo) + 1]
  BY RowOK
<1>3. /\ io'.pc = "get" /\ io'.failed = io.failed /\ io'.todo = Tail(io.todo)
      /\ io'.landed = With(io.landed, Len(file) - Len(io.todo) + 1, id)
      /\ io'.map = IF row.table = "conn" THEN With(io.map, row.id, id) ELSE io.map
      /\ io'.dev = IF row.table = "dev" THEN id ELSE io.dev
  BY <1>1 DEF Landed, Requests
<1>4. Len(Tail(io.todo)) = Len(io.todo) - 1
  BY <1>1, <1>2
<1>5. Passed' = Len(file) - (Len(io.todo) - 1)
  BY <1>3, <1>4 DEF Passed
<1>6. Len(file) - Len(io.todo) \in Nat
      /\ Len(file) - (Len(io.todo) - 1) = Len(file) - Len(io.todo) + 1
  BY <1>2
<1> QED BY <1>2, <1>3, <1>5, <1>6 DEF Passed

(* A row has landed as id, in tables that differ in that row alone.        *)
LEMMA LandRest ==
  ASSUME IndInv, RestInv, Good, io.pc \in Importing, io.todo # <<>>,
         NEW id, Landed(id), UNCHANGED file, TablesInv',
         id \in DOMAIN db'[row.table], db'[row.table][id].rev = row.rev,
         \A u \in Tables : \A i \in DOMAIN db[u] : u # row.table \/ i # id =>
           i \in DOMAIN db'[u] /\ db'[u][i] = db[u][i],
         \A i \in DOMAIN db'["point"] : i \in DOMAIN db["point"] \/ (row.table = "point" /\ i = id),
         row.table = "dev" => /\ row.ref \in DOMAIN io.map
                              /\ db'["dev"][id].ref = io.map[row.ref],
         row.table = "point" => \A j \in 1..Passed : DevOf(file, j, Passed + 1) =>
                                  db'["point"][id].ref = io.landed[j],
         \A j \in 1..Passed : file[j].table = row.table => io.landed[j] # id,
         \A k \in 1..Len(file) : k > Passed + 1 /\ file[k].table = row.table => file[k].id # id,
         row.table = "dev" => \A i \in DOMAIN db["point"] : db["point"][i].ref = row.id => id = row.id
  PROVE  RestInv'
<1> USE DEF IndInv
<1> DEFINE n == Passed
           p == Passed + 1
           l == io.landed
<1>1. /\ n \in Nat /\ p = n + 1 /\ p \in 1..Len(file) /\ Passed' = p
      /\ row = file[p] /\ io'.pc = "get"
      /\ io'.landed = With(l, p, id)
      /\ io'.map = IF row.table = "conn" THEN With(io.map, row.id, id) ELSE io.map
      /\ io'.dev = IF row.table = "dev" THEN id ELSE io.dev
  BY LandedFields
<1>2. Len(file) \in Nat /\ \A k \in 1..Len(file) : file[k].table \in Tables
  <2>1. file \in Seq(FileRow)
    BY DEF FileInv
  <2>2. \A k \in 1..Len(file) : file[k] \in FileRow
    BY <2>1
  <2> QED BY <2>1, <2>2 DEF FileRow
<1>3. /\ LandedOK(file, db, n, l) /\ ApartOK(file, n, l)
      /\ MemoryOK(file, n, l, io.map, io.dev) /\ AheadOK(file, db.point, n, l)
  BY DEF RestInv, LandInv
<1>4. DOMAIN l = 1..n
  BY <1>3 DEF LandedOK
<1>5. row.table \in Tables /\ row.table = file[p].table
  BY <1>1, <1>2
<1> HIDE DEF n, l
<1>6. row.table = "dev" => \E j \in 1..n : /\ file[j].table = "conn" /\ file[j].id = file[p].ref
                                           /\ db'["dev"][id].ref = l[j]
  BY <1>1, <1>3 DEF MemoryOK
<1>7. /\ row.table = "point" => \A j \in 1..n : DevOf(file, j, p) => db'["point"][id].ref = l[j]
      /\ \A j \in 1..n : file[j].table = row.table => l[j] # id
      /\ \A k \in 1..Len(file) : k > p /\ file[k].table = row.table => file[k].id # id
  BY DEF n, l
<1> HIDE DEF p
<1>8. LandedOK(file, db', p, With(l, p, id)) /\ ApartOK(file, p, With(l, p, id))
  <2> DEFINE e == db'
  <2>1. LandsAs(file, db, e, n, l, id)
    BY <1>1, <1>5, <1>6, <1>7 DEF LandsAs
  <2> HIDE DEF e, IndInv
  <2>2. LandedOK(file, e, p, With(l, p, id)) /\ ApartOK(file, p, With(l, p, id))
    BY <1>1, <1>2, <1>3, <2>1, LandsNext
  <2> QED BY <2>2 DEF e
<1>9. MemoryOK(file, p, With(l, p, id), io'.map, io'.dev)
  <2>1. MemoryOK(file, p, With(l, p, id),
                 IF file[p].table = "conn" THEN With(io.map, file[p].id, id) ELSE io.map,
                 IF file[p].table = "dev" THEN id ELSE io.dev)
    BY <1>1, <1>3, <1>4, RemembersNext
  <2> QED BY <1>1, <2>1
<1>10. AheadOK(file, db'["point"], p, With(l, p, id))
  <2>1. ASSUME NEW k \in 1..Len(file), k > p, file[k].table = "point", file[k].id \in DOMAIN db'["point"]
        PROVE  file[k].id \in DOMAIN db["point"] /\ db'["point"][file[k].id].ref = db["point"][file[k].id].ref
    <3>1. row.table # "point" \/ file[k].id # id
      BY <1>7, <2>1
    <3>2. file[k].id \in DOMAIN db["point"]
      BY <2>1, <3>1
    <3>3. db'["point"][file[k].id] = db["point"][file[k].id]
      BY <3>1, <3>2 DEF Tables
    <3> QED BY <3>2, <3>3
  <2>2. \A k \in 1..Len(file) :
          /\ k > p /\ file[p].table = "dev" /\ file[k].table = "point"
          /\ file[k].id \in DOMAIN db["point"] /\ db["point"][file[k].id].ref = file[p].id
          => id = file[p].id
    BY <1>1
  <2>3. AheadOK(file, db["point"], n, l)
    BY <1>3
  <2> QED BY <1>1, <1>2, <1>4, <2>1, <2>2, <2>3, AheadNext
<1>11. LandInv'
  BY <1>1, <1>8, <1>9, <1>10 DEF LandInv
<1>12. HomeInv' /\ DoneInv'
  BY <1>1 DEF HomeInv, DoneInv, Importing
<1> QED BY <1>11, <1>12 DEF RestInv

(* Nothing is claimed of an import that met a clash, an error or an edit.  *)
LEMMA NotGoodRest ==
  ASSUME IndInv, RestInv, io.pc \in Importing, io.todo # <<>>, NEW id, Landed(id),
         UNCHANGED file, ~ Good'
  PROVE  RestInv'
<1>1. io'.pc = "get"
  BY LandedFields DEF IndInv
<1>2. HomeInv' /\ LandInv' /\ DoneInv'
  BY <1>1 DEF HomeInv, LandInv, DoneInv, Importing
<1> QED BY <1>2 DEF RestInv

(* Two rows of a table have different ids in the file, unless they are     *)
(* cleared.                                                                *)
LEMMA FileIdsDiffer ==
  ASSUME FileInv, SortInv, PointsOK(file), NEW j \in 1..Len(file), NEW k \in 1..Len(file), j < k,
         file[j].table = file[k].table, file[j].id # 0
  PROVE  file[j].id # file[k].id
<1>1. file[j] \in FileRow /\ file[k] \in FileRow
  BY DEF FileInv
<1>2. file[j].id \in Nat /\ file[k].id \in Nat
  BY <1>1 DEF FileRow
<1>3. CASE file[k].table = "point"
  BY <1>3 DEF PointsOK
<1>4. CASE file[k].table # "point"
  <2>1. file[k].id = 0 \/ file[j].id < file[k].id
    BY <1>4 DEF SortInv
  <2> QED BY <1>2, <2>1
<1> QED BY <1>3, <1>4

(* A row that is found is updated where it is.                             *)
LEMMA UpdateRest ==
  ASSUME IndInv, RestInv, ImportUpdate
  PROVE  RestInv'
<1> USE DEF IndInv
<1>1. /\ UNCHANGED <<file, home, clean, clash>> /\ io.pc = "update"
      /\ io.pc \in Importing /\ io.todo # <<>> /\ ~ Unmapped
  BY DEF ImportUpdate, FileInv, Importing
<1> DEFINE t == row.table
           id == row.id
<1>2. row \in FileRow /\ row.rev \in Revs /\ t \in Tables /\ id \in Nat /\ Ref \in Nat
  BY <1>1, RowOK, RefOK DEF FileRow
<1>3. CASE ~ (id \in DOMAIN db[t] /\ (t = "dev" => ParentExists("dev", Ref)))
  <2>1. Report
    BY <1>3 DEF ImportUpdate
  <2> QED BY <1>1, <2>1, ReportRest
<1>4. CASE id \in DOMAIN db[t] /\ (t = "dev" => ParentExists("dev", Ref))
  <2>1. Update(t, id, row.rev, Ref) /\ Landed(id)
    BY <1>4 DEF ImportUpdate
  <2>2. CASE ~ Good'
    BY <1>1, <2>1, <2>2, NotGoodRest
  <2>3. CASE Good'
    <3>1. Good
      <4>1. io'.failed = io.failed
        BY <1>1, <2>1, LandedFields
      <4> QED BY <1>1, <2>3, <4>1 DEF Good
    <3>2. t = "dev" => Ref \in DOMAIN db.conn
      BY <1>4 DEF ParentExists, Enforced, Parent
    <3>3. /\ TablesInv' /\ \A u \in Tables : DOMAIN db'[u] = DOMAIN db[u]
          /\ \A u \in Tables : \A j \in DOMAIN db[u] : u # t \/ j # id => db'[u][j] = db[u][j]
      BY <1>2, <1>4, <2>1, <3>2, UpdateEffect
    <3>4. db'[t][id] = [rev |-> row.rev, ref |-> IF t = "point" THEN db[t][id].ref ELSE Ref]
      <4>1. DOMAIN db = Tables
        BY DEF TablesInv, IdsOK
      <4> QED BY <1>2, <1>4, <2>1, <4>1 DEF Update
    <3>5. /\ Passed \in Nat /\ Passed + 1 \in 1..Len(file) /\ row = file[Passed + 1]
      BY <1>1, <2>1, LandedFields
    <3>6. /\ ApartOK(file, Passed, io.landed) /\ AheadOK(file, db.point, Passed, io.landed)
          /\ PointsOK(file)
      BY <1>1, <3>1 DEF RestInv, LandInv
    <3> DEFINE n == Passed
    <3> HIDE DEF n
    <3>7. n \in Nat /\ n + 1 \in 1..Len(file) /\ row = file[n + 1] /\ n + 1 > n
      <4>1. n \in Nat /\ n + 1 \in 1..Len(file) /\ row = file[n + 1]
        BY <3>5 DEF n
      <4> QED BY <4>1
    <3>8. \A j \in 1..n : file[j].table = t => io.landed[j] # id
      BY <3>6, <3>7 DEF ApartOK, n
    <3>9. \A k \in 1..Len(file) : k > n + 1 /\ file[k].table = t => file[k].id # id
      <4>1. id # 0
        BY <1>2, <1>4, IdsPositive DEF TablesInv
      <4>2. ASSUME NEW k \in 1..Len(file), k > n + 1, file[k].table = t PROVE file[k].id # id
        <5>1. n + 1 < k
          BY <3>7, <4>2
        <5> QED BY <3>6, <3>7, <4>1, <4>2, <5>1, FileIdsDiffer
      <4> QED BY <4>2
    <3>10. ASSUME t = "point", NEW j \in 1..n, DevOf(file, j, n + 1)
           PROVE  db'["point"][id].ref = io.landed[j]
      <4>1. j \in 1..Len(file) /\ j <= n
        BY <3>7
      <4>2. db["point"][id].ref = io.landed[j]
        BY <1>4, <3>6, <3>7, <3>10, <4>1 DEF AheadOK, n
      <4> QED BY <3>4, <3>10, <4>2
    <3>11. t = "dev" => /\ row.ref \in DOMAIN io.map /\ db'["dev"][id].ref = io.map[row.ref]
      BY <1>1, <3>4 DEF Unmapped, Ref
    <3>12. id \in DOMAIN db'[t] /\ db'[t][id].rev = row.rev
      BY <1>2, <1>4, <3>3, <3>4
    <3>13. \A u \in Tables : \A i \in DOMAIN db[u] : u # t \/ i # id =>
             i \in DOMAIN db'[u] /\ db'[u][i] = db[u][i]
      BY <3>3
    <3>14. \A i \in DOMAIN db'["point"] : i \in DOMAIN db["point"]
      BY <3>3 DEF Tables
    <3> HIDE DEF IndInv
    <3> QED BY <1>1, <2>1, <3>1, <3>3, <3>8, <3>9, <3>10, <3>11, <3>12, <3>13, <3>14, LandRest DEF n
  <2> QED BY <2>2, <2>3
<1> QED BY <1>3, <1>4

(* A row that is not found is created: below its parent, with an id no row *)
(* of the tables has, nor any to come unless it clashes.                   *)
LEMMA CreateRest ==
  ASSUME IndInv, RestInv, ImportCreate
  PROVE  RestInv'
<1> USE DEF IndInv
<1>1. /\ UNCHANGED <<file, home, clean>> /\ io.pc = "create"
      /\ io.pc \in Importing /\ io.todo # <<>> /\ ~ Unmapped
  BY DEF ImportCreate, FileInv, Importing
<1> DEFINE t == row.table
           id == NewId(t)
<1>2. row \in FileRow /\ row.rev \in Revs /\ t \in Tables /\ Ref \in Nat
  BY <1>1, RowOK, RefOK DEF FileRow
<1>3. CASE ~ ParentExists(t, Ref)
  <2>1. Report
    BY <1>3 DEF ImportCreate
  <2> QED BY <1>1, <2>1, ReportRest
<1>4. CASE ParentExists(t, Ref)
  <2>1. /\ Create(t, row.rev, Ref) /\ Landed(id)
        /\ clash' = clash \cup {u \in {t} : \E k \in 2..Len(io.todo) :
                                  io.todo[k].table = u /\ io.todo[k].id = NewId(u)}
    BY <1>4 DEF ImportCreate
  <2>2. CASE ~ Good'
    BY <1>1, <2>1, <2>2, NotGoodRest
  <2>3. CASE Good'
    <3>1. Good /\ \A k \in 2..Len(io.todo) : io.todo[k].table = t => io.todo[k].id # id
      <4>1. io'.failed = io.failed
        BY <1>1, <2>1, LandedFields
      <4> QED BY <1>1, <2>1, <2>3, <4>1 DEF Good
    <3>2. id \in Nat /\ id \notin DOMAIN db[t]
      BY <1>2, NewIdIsNew DEF TablesInv
    <3>3. /\ TablesInv'
          /\ \A u \in Tables : DOMAIN db[u] \subseteq DOMAIN db'[u]
          /\ \A u \in Tables : \A j \in DOMAIN db[u] : db'[u][j] = db[u][j]
          /\ \A u \in Tables : DOMAIN db'[u] = IF u = t THEN DOMAIN db[t] \cup {id} ELSE DOMAIN db[u]
      BY <1>2, <1>4, <2>1, CreateEffect
    <3>4. db'[t][id] = [rev |-> row.rev, ref |-> Ref]
      <4>1. DOMAIN db = Tables
        BY DEF TablesInv, IdsOK
      <4>2. db'[t] = With(db[t], id, [rev |-> row.rev, ref |-> Ref])
        BY <1>2, <2>1, <4>1 DEF Create
      <4> QED BY <4>2 DEF With
    <3> HIDE DEF id
    <3>5. /\ Passed \in Nat /\ Passed + 1 \in 1..Len(file) /\ row = file[Passed + 1]
      BY <1>1, <2>1, LandedFields
    <3>6. /\ LandedOK(file, db, Passed, io.landed)
          /\ MemoryOK(file, Passed, io.landed, io.map, io.dev)
          /\ row.id \notin DOMAIN db[t]
      BY <1>1, <3>1 DEF RestInv, LandInv
    <3> DEFINE n == Passed
    <3> HIDE DEF n
    <3>7. n \in Nat /\ n + 1 \in 1..Len(file) /\ row = file[n + 1]
      BY <3>5 DEF n
    <3>8. \A j \in 1..n : file[j].table = t => io.landed[j] # id
      <4>1. \A j \in 1..n : io.landed[j] \in DOMAIN db[file[j].table]
        BY <3>6 DEF LandedOK, n
      <4> QED BY <3>2, <4>1
    <3>9. ASSUME NEW k \in 1..Len(file), k > n + 1, file[k].table = t PROVE file[k].id # id
      <4> DEFINE m == Len(io.todo)
                 q == k - n
      <4>1. /\ m \in Nat /\ Len(file) \in Nat /\ n = Len(file) - m
            /\ \A i \in 1..m : io.todo[i] = file[Len(file) - m + i]
        BY <1>1, RowOK DEF n, Passed
      <4> HIDE DEF m
      <4>2. q \in 2..m /\ q \in 1..m /\ Len(file) - m + q = k
        BY <3>7, <3>9, <4>1
      <4> HIDE DEF q
      <4>3. io.todo[q] = file[k]
        BY <4>1, <4>2
      <4> QED BY <3>1, <3>9, <4>2, <4>3 DEF m
    <3>10. ASSUME t = "point", NEW j \in 1..n, DevOf(file, j, n + 1)
           PROVE  db'["point"][id].ref = io.landed[j]
      <4>1. \A i \in 1..n : i \in 1..(n + 1)
        BY <3>7
      <4>2. DevOf(file, j, n)
        BY <3>10, <4>1 DEF DevOf
      <4>3. io.dev = io.landed[j]
        BY <3>6, <4>2 DEF MemoryOK, n
      <4>4. Ref = io.dev
        BY <3>10 DEF Ref
      <4> QED BY <3>4, <3>10, <4>3, <4>4
    <3>11. t = "dev" => /\ row.ref \in DOMAIN io.map /\ db'["dev"][id].ref = io.map[row.ref]
      BY <1>1, <3>4 DEF Unmapped, Ref
    <3>12. id \in DOMAIN db'[t] /\ db'[t][id].rev = row.rev
      BY <1>2, <3>3, <3>4
    <3>13. \A u \in Tables : \A i \in DOMAIN db[u] : u # t \/ i # id =>
             i \in DOMAIN db'[u] /\ db'[u][i] = db[u][i]
      BY <3>3
    <3>14. \A i \in DOMAIN db'["point"] : i \in DOMAIN db["point"] \/ (t = "point" /\ i = id)
      BY <3>3 DEF Tables
    <3>15. ASSUME t = "dev", NEW i \in DOMAIN db["point"] PROVE db["point"][i].ref # row.id
      <4>1. db["point"][i].ref \in DOMAIN db["dev"]
        BY DEF TablesInv, ReferencesHold, Parent
      <4> QED BY <3>6, <3>15, <4>1
    <3> HIDE DEF IndInv
    <3>16. \A k \in 1..Len(file) : k > n + 1 /\ file[k].table = t => file[k].id # id
      BY <3>9
    <3>17. t = "point" => \A j \in 1..n : DevOf(file, j, n + 1) => db'["point"][id].ref = io.landed[j]
      BY <3>10
    <3>18. t = "dev" => \A i \in DOMAIN db["point"] : db["point"][i].ref = row.id => id = row.id
      BY <3>15
    <3>19. Landed(id)
      BY <2>1 DEF id
    <3> QED BY <1>1, <3>1, <3>3, <3>8, <3>11, <3>12, <3>13, <3>14, <3>16, <3>17, <3>18, <3>19, LandRest DEF n
  <2> QED BY <2>2, <2>3
<1> QED BY <1>3, <1>4

(* The import ends when it has passed every row.                           *)
LEMMA DoneRest ==
  ASSUME IndInv, RestInv, ImportDone
  PROVE  RestInv'
<1>1. /\ UNCHANGED <<db, file, home, clean, clash>> /\ io.pc = "get" /\ io.todo = <<>>
      /\ io \in Requests /\ io' = [io EXCEPT !.pc = "done"]
  BY DEF ImportDone, IndInv, FileInv
<1>2. io'.pc = "done" /\ io'.failed = io.failed /\ io'.landed = io.landed
  BY <1>1 DEF Requests
<1>3. Len(file) \in Nat
  BY DEF IndInv, FileInv
<1>4. Passed = Len(file)
  BY <1>1, <1>3 DEF Passed
<1>5. DoneInv'
  BY <1>1, <1>2, <1>4 DEF RestInv, LandInv, DoneInv, Good, Importing
<1>6. HomeInv' /\ LandInv'
  BY <1>2 DEF HomeInv, LandInv, Importing
<1> QED BY <1>1, <1>5, <1>6 DEF RestInv

(* Every step keeps the rows that have landed, until the import is done.   *)
LEMMA NextRest == IndInv /\ RestInv /\ [Next]_vars => RestInv'
<1> SUFFICES ASSUME IndInv, RestInv, [Next]_vars PROVE RestInv'
  OBVIOUS
<1>1. CASE ExportConns \/ ExportDevices \/ ExportPoints \/ ExportDone \/ ExportFails
  BY <1>1, ExportListsRest, ExportPointsRest, ReadyRest
<1>2. CASE NewHardware \/ HandEdit \/ BeginImport \/ ImportDone
  BY <1>2, ReadyRest, BeginImportRest, DoneRest
<1>3. CASE ImportRow
  <2>1. CASE NoConnection \/ WriteFails
    <3>1. Report /\ UNCHANGED file
      BY <2>1 DEF NoConnection, WriteFails
    <3> QED BY <3>1, ReportRest
  <2> QED BY <1>3, <2>1, GetRest, UpdateRest, CreateRest DEF ImportRow
<1>4. CASE io.pc \notin {"start", "done"} /\ OtherStep
  BY <1>4, OtherRest
<1>5. CASE UNCHANGED vars
  BY <1>5, LookRest DEF vars
<1> QED BY <1>1, <1>2, <1>3, <1>4, <1>5 DEF Next

(* The parent of a row of the file, as the property names it.              *)
LEMMA ParentIs ==
  ASSUME IndInv, PointsOK(file), NEW k \in 1..Len(file)
  PROVE  /\ file[k].table = "dev" => \A j \in 1..Len(file) :
              file[j].table = "conn" /\ file[j].id = file[k].ref => ParentAt(k) = j
         /\ file[k].table = "point" => ParentAt(k) \in 1..Len(file) /\ DevOf(file, ParentAt(k), k)
<1> USE DEF IndInv
<1>1. file \in Seq(FileRow) /\ Len(file) \in Nat /\ DOMAIN file = 1..Len(file)
  BY DEF FileInv
<1>2. ASSUME file[k].table = "dev", NEW j \in 1..Len(file), file[j].table = "conn", file[j].id = file[k].ref
      PROVE  ParentAt(k) = j
  <2> DEFINE q == CHOOSE i \in DOMAIN file : file[i].table = "conn" /\ file[i].id = file[k].ref
  <2>1. q \in 1..Len(file) /\ file[q].table = "conn" /\ file[q].id = file[k].ref
    BY <1>1, <1>2
  <2>2. ParentAt(k) = q
    BY <1>2 DEF ParentAt
  <2> HIDE DEF q
  <2>3. file[j].id # 0
    <3>1. file[j].id > 0
      BY <1>2 DEF SortInv
    <3> QED BY <3>1
  <2>4. ~ (q < j) /\ ~ (j < q)
    BY <1>2, <2>1, <2>3, FileIdsDiffer
  <2>5. q = j
    BY <2>1, <2>4
  <2> QED BY <2>2, <2>5
<1>3. ASSUME file[k].table = "point"
      PROVE  ParentAt(k) \in 1..Len(file) /\ DevOf(file, ParentAt(k), k)
  <2>1. PICK j \in 1..Len(file) : j < k /\ file[j].table = "dev"
    BY <1>3 DEF PointsOK
  <2>2. k \in Nat /\ j \in 1..k
    BY <1>1, <2>1
  <2>3. DevOf(file, Max({i \in 1..k : file[i].table = "dev"}), k)
    BY <2>1, <2>2, LastDevice
  <2>4. ParentAt(k) = Max({i \in 1..k : file[i].table = "dev"})
    BY <1>3 DEF ParentAt
  <2>5. DevOf(file, ParentAt(k), k)
    BY <2>3, <2>4
  <2>6. ParentAt(k) \in 1..k
    BY <2>5 DEF DevOf
  <2> QED BY <1>1, <2>5, <2>6
<1> QED BY <1>2, <1>3

\* An import that reports no error has restored every connection, device and
\* point of the file, each as a row of its own and below what its own parent
\* became, whatever was edited between export and import and on whichever
\* gateway, unless a row it created took an id that the file still needs.
THEOREM Restores == Spec => []ImportRestores
<1>1. Spec => []RestInv
  BY InitRest, NextRest, Inductive, PTL DEF Spec
<1>2. IndInv /\ RestInv => ImportRestores
  <2> SUFFICES ASSUME IndInv, RestInv, io.pc = "done", clean, ~ io.failed, clash = {} PROVE Restored
    BY DEF ImportRestores
  <2>1. /\ LandedOK(file, db, Len(file), io.landed) /\ ApartOK(file, Len(file), io.landed)
        /\ PointsOK(file)
    BY DEF RestInv, DoneInv, Good
  <2>2. Len(file) \in Nat /\ DOMAIN file = 1..Len(file)
    BY DEF IndInv, FileInv
  <2>0. \A k \in 1..Len(file) : file[k].table \in Tables
    <3>1. \A k \in 1..Len(file) : file[k] \in FileRow
      BY DEF IndInv, FileInv
    <3> QED BY <3>1 DEF FileRow
  <2>3. ASSUME NEW k \in 1..Len(file)
        PROVE  /\ db[file[k].table][io.landed[k]].rev = file[k].rev
               /\ file[k].table # "conn" =>
                    db[file[k].table][io.landed[k]].ref = io.landed[ParentAt(k)]
               /\ \A j \in 1..k - 1 : file[j].table = file[k].table => io.landed[j] # io.landed[k]
    <3>1. db[file[k].table][io.landed[k]].rev = file[k].rev
      BY <2>1 DEF LandedOK
    <3>2. ASSUME file[k].table = "dev" PROVE db["dev"][io.landed[k]].ref = io.landed[ParentAt(k)]
      <4>1. PICK j \in 1..Len(file) : /\ file[j].table = "conn" /\ file[j].id = file[k].ref
                                      /\ db["dev"][io.landed[k]].ref = io.landed[j]
        BY <2>1, <3>2 DEF LandedOK
      <4>2. ParentAt(k) = j
        BY <2>1, <3>2, <4>1, ParentIs
      <4> QED BY <4>1, <4>2
    <3>3. ASSUME file[k].table = "point" PROVE db["point"][io.landed[k]].ref = io.landed[ParentAt(k)]
      <4> DEFINE j == ParentAt(k)
      <4>1. j \in 1..Len(file) /\ DevOf(file, j, k)
        BY <2>1, <3>3, ParentIs
      <4> HIDE DEF j
      <4>2. db["point"][io.landed[k]].ref = io.landed[j]
        BY <2>1, <3>3, <4>1 DEF LandedOK
      <4> QED BY <4>2 DEF j
    <3>4. \A j \in 1..k - 1 : j \in 1..Len(file) /\ j < k
      BY <2>2
    <3>5. \A j \in 1..k - 1 : file[j].table = file[k].table => io.landed[j] # io.landed[k]
      BY <2>1, <3>4 DEF ApartOK
    <3> QED BY <2>0, <3>1, <3>2, <3>3, <3>5 DEF Tables
  <2>4. DOMAIN io.landed = DOMAIN file
    BY <2>1, <2>2 DEF LandedOK
  <2> QED BY <2>2, <2>3, <2>4 DEF Restored
<1> QED BY <1>1, <1>2, Inductive, PTL
=============================================================================
