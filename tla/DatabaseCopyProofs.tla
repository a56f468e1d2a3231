------------------------- MODULE DatabaseCopyProofs -------------------------
(***************************************************************************)
(* Theorems about the copy of a database (DatabaseCopy): what an import    *)
(* that reports success has left in the target, and when one may fail;     *)
(* for any rows and values, any number of workers, batches of any size,    *)
(* and any number of attempts.                                             *)
(*                                                                         *)
(* Two parts lead there.  The first follows the rows: what was read of the *)
(* dump is committed or on its way, and the barrier keeps rows on their    *)
(* way to one table.  The second follows the bytes of a row: quoting,      *)
(* splitting and parsing give its values back.                             *)
(***************************************************************************)
EXTENDS DatabaseCopy, SequenceTheorems, FiniteSetTheorems, WellFoundedInduction, TLAPS

------------------------------------------------------------------------------
(* Sequences as the sets of what is in them. *)

\* A sequence, whatever is in it.
Listed(s) == \E S : s \in Seq(S)

LEMMA ListedDomain ==
  ASSUME NEW s, Listed(s)
  PROVE  Len(s) \in Nat /\ DOMAIN s = 1..Len(s)
BY DEF Listed

LEMMA EmptyListed == Listed(<<>>) /\ ToSet(<<>>) = {}
<1>1. <<>> \in Seq({})
  OBVIOUS
<1> QED
  BY <1>1 DEF Listed, ToSet

LEMMA AppendListed ==
  ASSUME NEW s, Listed(s), NEW x
  PROVE  Listed(Append(s, x)) /\ ToSet(Append(s, x)) = ToSet(s) \cup {x}
<1>1. PICK S : s \in Seq(S)
  BY DEF Listed
<1>2. s \in Seq(S \cup {x})
  BY <1>1
<1>3. Append(s, x) \in Seq(S \cup {x})
  BY <1>2
<1> DEFINE a == Append(s, x)
           n == Len(s)
<1>4. n \in Nat /\ DOMAIN s = 1..n /\ DOMAIN a = 1..n + 1 /\ a[n + 1] = x /\ \A i \in 1..n : a[i] = s[i]
  BY <1>2
<1> HIDE DEF a, n
<1>5. ToSet(a) \subseteq ToSet(s) \cup {x}
  BY <1>4 DEF ToSet
<1>6. ToSet(s) \subseteq ToSet(a)
  <2> SUFFICES ASSUME NEW i \in 1..n PROVE s[i] \in ToSet(a)
    BY <1>4 DEF ToSet
  <2>1. i \in 1..n + 1
    BY <1>4
  <2> QED
    BY <1>4, <2>1 DEF ToSet
<1>7. x \in ToSet(a)
  <2>1. n + 1 \in 1..n + 1
    BY <1>4
  <2> QED
    BY <1>4, <2>1 DEF ToSet
<1> QED
  BY <1>3, <1>5, <1>6, <1>7 DEF Listed, a

LEMMA TailListed ==
  ASSUME NEW s, Listed(s), s # <<>>
  PROVE  Listed(Tail(s)) /\ ToSet(s) = {Head(s)} \cup ToSet(Tail(s))
<1>1. PICK S : s \in Seq(S)
  BY DEF Listed
<1>2. Tail(s) \in Seq(S)
  BY <1>1
<1> DEFINE t == Tail(s)
           n == Len(s)
<1>3. /\ n \in Nat /\ n > 0 /\ DOMAIN s = 1..n /\ DOMAIN t = 1..n - 1 /\ Head(s) = s[1]
      /\ \A i \in 1..n - 1 : t[i] = s[i + 1]
  BY <1>1
<1> HIDE DEF t, n
<1>4. ToSet(s) \subseteq {Head(s)} \cup ToSet(t)
  <2> SUFFICES ASSUME NEW i \in 1..n, i # 1 PROVE s[i] \in ToSet(t)
    BY <1>3 DEF ToSet
  <2>1. i - 1 \in 1..n - 1 /\ (i - 1) + 1 = i
    BY <1>3
  <2> QED
    BY <1>3, <2>1 DEF ToSet
<1>5. ToSet(t) \subseteq ToSet(s)
  <2> SUFFICES ASSUME NEW i \in 1..n - 1 PROVE s[i + 1] \in ToSet(s)
    BY <1>3 DEF ToSet
  <2>1. i + 1 \in 1..n
    BY <1>3
  <2> QED
    BY <1>3, <2>1 DEF ToSet
<1>6. Head(s) \in ToSet(s)
  BY <1>3 DEF ToSet
<1> QED
  BY <1>2, <1>4, <1>5, <1>6 DEF Listed, t

LEMMA ListedFinite ==
  ASSUME NEW s, Listed(s)
  PROVE  IsFiniteSet(ToSet(s))
<1>1. Len(s) \in Nat /\ DOMAIN s = 1..Len(s) /\ s = [i \in 1..Len(s) |-> s[i]]
  BY DEF Listed
<1>2. s \in Surjection(1..Len(s), ToSet(s))
  BY <1>1 DEF Surjection, ToSet
<1>3. IsFiniteSet(1..Len(s))
  BY <1>1, FS_Interval
<1> QED
  BY <1>2, <1>3, FS_Surjection

\* The rows of a table, one after the other.
LEMMA ListOfSet ==
  ASSUME NEW S, IsFiniteSet(S)
  PROVE  SetToSeq(S) \in Seq(S)
<1> DEFINE n == Cardinality(S)
<1>1. n \in Nat /\ ExistsBijection(1..n, S)
  BY FS_CardinalityType
<1>2. \E f \in [1..n -> S] : IsInjective(f)
  BY <1>1 DEF ExistsBijection, Bijection, Injection, IsInjective
<1>3. SetToSeq(S) \in [1..n -> S]
  BY <1>2 DEF SetToSeq
<1> QED
  BY <1>1, <1>3

\* A finite set of numbers has a greatest one.
Below == {p \in Nat \X Nat : p[1] < p[2]}

LEMMA BelowWellFounded == IsWellFoundedOn(Below, Nat)
<1>1. OpToRel(<, Nat) = Below
  BY Zenon DEF OpToRel, Below
<1> QED
  BY NatLessThanWellFounded, <1>1, Zenon

LEMMA SmallestNat ==
  ASSUME NEW T \in SUBSET Nat, T # {}
  PROVE  \E x \in T : \A y \in T : x <= y
<1>1. \E x \in T : \A y \in T : ~(<<y, x>> \in Below)
  BY BelowWellFounded, WFMin, Zenon
<1>2. PICK x \in T : \A y \in T : ~(<<y, x>> \in Below)
  BY <1>1
<1>3. ASSUME NEW y \in T PROVE x <= y
  <2>1. x \in Nat /\ y \in Nat
    OBVIOUS
  <2>2. <<y, x>> \in Nat \X Nat
    BY <2>1
  <2>3. ~(<<y, x>>[1] < <<y, x>>[2])
    BY <1>2, <2>2, Zenon DEF Below
  <2> QED
    BY <2>1, <2>3
<1> QED
  BY <1>3

HasMax(S) == \E x \in S : \A y \in S : x >= y

LEMMA GreatestExists ==
  ASSUME NEW S \in SUBSET Nat, IsFiniteSet(S), S # {}
  PROVE  HasMax(S)
<1> DEFINE Bad(T) == T \in SUBSET Nat /\ IsFiniteSet(T) /\ T # {} /\ ~HasMax(T)
           C == {n \in Nat : \E T \in SUBSET Nat : Bad(T) /\ Cardinality(T) = n}
<1> SUFFICES ASSUME Bad(S) PROVE FALSE
  OBVIOUS
<1>1. C \in SUBSET Nat /\ Cardinality(S) \in C
  BY FS_CardinalityType
<1>2. PICK n \in C : \A m \in C : n <= m
  <2> HIDE DEF C
  <2> QED
    BY <1>1, SmallestNat
<1>3. PICK T \in SUBSET Nat : Bad(T) /\ Cardinality(T) = n
  BY <1>2
<1>4. PICK x \in T : TRUE
  BY <1>3
<1> DEFINE U == T \ {x}
<1>5. IsFiniteSet(U) /\ Cardinality(U) = n - 1 /\ U \in SUBSET Nat /\ n - 1 \in Nat
  <2>1. IsFiniteSet(U) /\ Cardinality(U) = Cardinality(T) - 1
    BY <1>3, <1>4, FS_RemoveElement
  <2>2. Cardinality(U) \in Nat
    BY <2>1, FS_CardinalityType
  <2> QED
    BY <1>3, <2>1, <2>2
<1>6. n - 1 \notin C
  BY <1>2, <1>5
<1>7. U = {} \/ HasMax(U)
  <2> SUFFICES ASSUME U # {}, ~HasMax(U) PROVE FALSE
    OBVIOUS
  <2> HIDE DEF U
  <2> QED
    BY <1>5, <1>6
<1>8. HasMax(T)
  <2>1. CASE U = {}
    BY <1>4, <2>1 DEF HasMax
  <2>2. CASE HasMax(U)
    <3>1. PICK u \in U : \A y \in U : u >= y
      BY <2>2 DEF HasMax
    <3>2. u \in Nat /\ x \in Nat /\ u \in T
      OBVIOUS
    <3>3. \A y \in T : y = x \/ u >= y
      BY <3>1
    <3>4. CASE u >= x
      BY <3>2, <3>3, <3>4 DEF HasMax
    <3>5. CASE ~(u >= x)
      BY <1>4, <3>2, <3>3, <3>5 DEF HasMax
    <3> QED
      BY <3>4, <3>5
  <2> QED
    BY <1>7, <2>1, <2>2
<1> QED
  BY <1>3, <1>8

LEMMA MaxIsGreatest ==
  ASSUME NEW S \in SUBSET Nat, IsFiniteSet(S), S # {}
  PROVE  Max(S) \in Nat /\ \A y \in S : y <= Max(S)
<1>1. \E x \in S : \A y \in S : x >= y
  BY GreatestExists DEF HasMax
<1>2. Max(S) \in S /\ \A y \in S : Max(S) >= y
  BY <1>1 DEF Max
<1> QED
  BY <1>2

------------------------------------------------------------------------------
(* The invariant. *)

\* All rows the database may ever hold.
AllRows == instance.source \cup instance.later

LEMMA Tables ==
  /\ Len(exportTables) = 6 /\ DOMAIN exportTables = 1..6
  /\ \A m, n \in 1..6 : exportTables[m] = exportTables[n] => m = n
BY DEF exportTables

\* The tables of the dump follow each other in the order of exportTables, and
\* its rows are rows of the database.
DumpInv ==
  /\ instance \in Instances
  /\ source \subseteq AllRows
  /\ exported \in 0..6
  /\ Listed(dump)
  /\ \A i \in DOMAIN dump : \E r \in AllRows : dump[i] = DumpedRow(r)
  /\ \A i \in DOMAIN dump : \E n \in 1..exported : dump[i].table = exportTables[n]
  /\ \A i, j \in DOMAIN dump : \A m, n \in 1..6 :
       i <= j /\ dump[i].table = exportTables[m] /\ dump[j].table = exportTables[n] => m <= n

\* What has been read of the dump and not been committed.
InFlight == ToSet(imp.pending) \cup (UNION {ToSet(b) : b \in ToSet(jobs)}) \cup (UNION {ToSet(busy[w]) : w \in Workers})

Steps == {"off", "read", "submit", "barrier", "last", "stopping", "failed", "done"}

ImportShape ==
  /\ DOMAIN imp = {"pc", "then", "line", "table", "pending", "runs"}
  /\ imp.pc \in Steps /\ imp.then \in {"read", "barrier", "last"}
  /\ imp.line \in Nat \ {0}
  /\ Listed(imp.pending)
  /\ Listed(jobs) /\ \A b \in ToSet(jobs) : Listed(b)
  /\ busy = [w \in Workers |-> busy[w]] /\ \A w \in Workers : Listed(busy[w])
  /\ poolErr \in BOOLEAN /\ errors \in Nat
  /\ imp.pc # "off" \/ poolErr => exported = 6
  /\ imp.pc \in {"off", "failed", "done"} => ~Outstanding
  /\ imp.pc \in {"off", "barrier", "last", "done"} => imp.pending = <<>>
  /\ imp.pc \in {"last", "done"} \/ (imp.pc = "submit" /\ imp.then = "last") => imp.line > Len(dump)
  /\ imp.pc = "barrier" \/ (imp.pc = "submit" /\ imp.then = "barrier") => imp.line <= Len(dump)

\* A row on its way is of the current table; a row that was read is on its way or
\* committed, unless a batch has failed.
FlightInv ==
  /\ \A r \in InFlight : r.table = imp.table /\ \E i \in DOMAIN dump : i < imp.line /\ dump[i] = r
  /\ ~poolErr /\ imp.pc # "off" =>
       \A i \in DOMAIN dump : i < imp.line => Key(dump[i]) \in DOMAIN target \/ dump[i] \in InFlight

\* Some row refers to one that is neither in the dump nor was in the target.
Dangling == LET keys == {Key(dump[i]) : i \in DOMAIN dump}
            IN  \E i \in DOMAIN dump : ~(dump[i].refs \subseteq keys \cup instance.target)

BlameInv ==
  /\ poolErr /\ errors = 0 => Dangling
  /\ imp.pc \in {"stopping", "failed"} => poolErr \/ errors > 0
  /\ imp.pc = "done" => ~poolErr

TargetInv ==
  /\ instance.target \subseteq DOMAIN target
  /\ IsFiniteSet(DOMAIN target)
  /\ \A k \in DOMAIN target : k[1] = "audit_events" => k[2] \in Nat
  /\ inserted \subseteq DOMAIN target /\ IsFiniteSet(inserted) /\ counted = Cardinality(inserted)
  /\ imp.pc = "done" => SequencePast

CopyInv == DumpInv /\ ImportShape /\ FlightInv /\ BlameInv /\ TargetInv

LEMMA CopyStarts ==
  ASSUME CopyInit
  PROVE  CopyInv
<1>1. DumpInv
  <2>1. Listed(dump) /\ DOMAIN dump = {}
    BY EmptyListed DEF CopyInit
  <2> QED
    BY <2>1 DEF CopyInit, DumpInv, AllRows
<1>2. ImportShape
  <2>1. Listed(<<>>) /\ ToSet(<<>>) = {}
    BY EmptyListed
  <2>2. ~Outstanding
    BY DEF CopyInit, Outstanding
  <2>3. /\ DOMAIN imp = {"pc", "then", "line", "table", "pending", "runs"}
        /\ imp.pc = "off" /\ imp.then = "read" /\ imp.line = 1 /\ imp.pending = <<>>
    BY DEF CopyInit, NoImport
  <2>4. jobs = <<>> /\ busy = [w \in Workers |-> <<>>] /\ poolErr = FALSE /\ errors = 0
    BY DEF CopyInit
  <2>5. busy = [w \in Workers |-> busy[w]] /\ \A w \in Workers : Listed(busy[w])
    BY <2>1, <2>4
  <2>6. Listed(imp.pending) /\ Listed(jobs) /\ ToSet(jobs) = {}
    BY <2>1, <2>3, <2>4
  <2>7. ~poolErr /\ poolErr \in BOOLEAN
    BY <2>4, Zenon
  <2>8. imp.pc \in Steps
    BY <2>3 DEF Steps
  <2>9. errors \in Nat
    BY <2>4
  <2> QED
    BY <2>2, <2>3, <2>5, <2>6, <2>7, <2>8, <2>9 DEF ImportShape
<1>3. FlightInv
  <2>1. InFlight = {}
    BY EmptyListed DEF CopyInit, InFlight, NoImport
  <2> QED
    BY <2>1 DEF FlightInv, CopyInit, NoImport
<1>4. BlameInv
  BY DEF CopyInit, BlameInv, NoImport
<1>5. TargetInv
  <2>1. DOMAIN target = instance.target /\ IsFiniteSet(instance.target)
        /\ \A k \in instance.target : k[1] = "audit_events" => k[2] \in Nat
    BY CopyAssumption DEF CopyInit
  <2>2. IsFiniteSet({}) /\ Cardinality({}) = 0
    BY FS_EmptySet
  <2> QED
    BY <2>1, <2>2 DEF CopyInit, TargetInv, NoImport
<1> QED
  BY <1>1, <1>2, <1>3, <1>4, <1>5 DEF CopyInv

------------------------------------------------------------------------------
(* The export. *)

LEMMA RowsFinite ==
  ASSUME DumpInv
  PROVE  IsFiniteSet(source)
<1>1. IsFiniteSet(AllRows)
  BY CopyAssumption DEF DumpInv, AllRows
<1> QED
  BY <1>1, FS_Subset DEF DumpInv

LEMMA ConcatListed ==
  ASSUME NEW s, NEW t, Listed(s), Listed(t)
  PROVE  /\ Listed(s \o t) /\ Len(s) \in Nat /\ Len(t) \in Nat
         /\ Len(s \o t) = Len(s) + Len(t) /\ DOMAIN (s \o t) = 1..Len(s) + Len(t)
         /\ DOMAIN s = 1..Len(s) /\ DOMAIN t = 1..Len(t)
         /\ \A i \in 1..Len(s) : (s \o t)[i] = s[i]
         /\ \A i \in 1..Len(s) + Len(t) : i > Len(s) => (s \o t)[i] = t[i - Len(s)]
<1>1. PICK S : s \in Seq(S)
  BY DEF Listed
<1>2. PICK T : t \in Seq(T)
  BY DEF Listed
<1>3. s \in Seq(S \cup T) /\ t \in Seq(S \cup T)
  BY <1>1, <1>2
<1>4. s \o t \in Seq(S \cup T)
  BY <1>3
<1>5. Listed(s \o t)
  BY <1>4 DEF Listed
<1> QED
  BY <1>3, <1>5

LEMMA ExportKeeps ==
  ASSUME CopyInv, writeTableSQL
  PROVE  CopyInv'
<1> DEFINE n == exported + 1
           rows == {r \in source : r.table = exportTables[n]}
           X == {DumpedRow(r) : r \in rows}
           q == SetToSeq(X)
           N == Len(dump)
<1>1. /\ exported < 6 /\ n \in 1..6 /\ exported' = n /\ dump' = dump \o q
      /\ UNCHANGED <<instance, dialect, source, target, sequence, imp, jobs, busy, poolErr, counted, inserted, errors>>
  BY Tables DEF writeTableSQL, CopyInv, DumpInv
<1>2. IsFiniteSet(X)
  <2>1. IsFiniteSet(rows)
    BY RowsFinite, FS_Subset DEF CopyInv
  <2>2. [r \in rows |-> DumpedRow(r)] \in Surjection(rows, X)
    BY DEF Surjection
  <2> QED
    BY <2>1, <2>2, FS_Surjection
<1>3. q \in Seq(X) /\ Listed(q)
  BY <1>2, ListOfSet DEF Listed
<1>4. Listed(dump) /\ imp.pc = "off" /\ ~poolErr
  BY <1>1 DEF CopyInv, DumpInv, ImportShape
<1>5. \A x \in X : x.table = exportTables[n] /\ \E r \in AllRows : x = DumpedRow(r)
  BY DEF CopyInv, DumpInv, DumpedRow
<1>6. /\ N \in Nat /\ Len(q) \in Nat /\ DOMAIN dump = 1..N /\ DOMAIN dump' = 1..N + Len(q) /\ Listed(dump')
      /\ \A i \in 1..N : dump'[i] = dump[i]
      /\ \A i \in 1..N + Len(q) : i > N => dump'[i] \in X
  <2>1. /\ Listed(dump') /\ N \in Nat /\ Len(q) \in Nat /\ DOMAIN dump' = 1..N + Len(q) /\ DOMAIN dump = 1..N
        /\ \A i \in 1..N : dump'[i] = dump[i]
        /\ \A i \in 1..N + Len(q) : i > N => dump'[i] = q[i - N]
    BY <1>1, <1>3, <1>4, ConcatListed
  <2>2. \A j \in 1..Len(q) : q[j] \in X
    <3> HIDE DEF X, q
    <3> QED
      BY <1>3
  <2>3. ASSUME NEW i \in 1..N + Len(q), i > N PROVE dump'[i] \in X
    <3>1. i - N \in 1..Len(q)
      BY <2>1, <2>3
    <3> QED
      BY <2>1, <2>2, <2>3, <3>1
  <2> QED
    BY <2>1, <2>3
<1> HIDE DEF n, X, q, N
<1>7. DumpInv'
  <2>1. \A i \in DOMAIN dump' : \E r \in AllRows : dump'[i] = DumpedRow(r)
    BY <1>5, <1>6 DEF CopyInv, DumpInv
  <2>2. ASSUME NEW i \in DOMAIN dump' PROVE \E m \in 1..n : dump'[i].table = exportTables[m]
    <3>1. CASE i \in 1..N
      <4>1. PICK m \in 1..exported : dump[i].table = exportTables[m]
        BY <1>6, <3>1 DEF CopyInv, DumpInv
      <4>2. m \in 1..n
        BY <1>1 DEF n, CopyInv, DumpInv
      <4> QED
        BY <1>6, <3>1, <4>1, <4>2
    <3>2. CASE i \notin 1..N
      <4>1. dump'[i] \in X
        BY <1>6, <3>2
      <4>2. n \in 1..n
        BY <1>1
      <4> QED
        BY <1>5, <4>1, <4>2
    <3> QED
      BY <3>1, <3>2
  <2>3. ASSUME NEW i \in DOMAIN dump', NEW j \in DOMAIN dump', NEW m \in 1..6, NEW p \in 1..6, i <= j,
               dump'[i].table = exportTables[m], dump'[j].table = exportTables[p]
        PROVE  m <= p
    <3>1. CASE j \in 1..N
      <4>1. i \in 1..N
        BY <1>6, <2>3, <3>1
      <4> QED
        BY <1>6, <2>3, <3>1, <4>1 DEF CopyInv, DumpInv
    <3>2. CASE j \notin 1..N
      <4>1. dump'[j].table = exportTables[n]
        BY <1>5, <1>6, <3>2
      <4>2. p = n
        BY <1>1, <2>3, <4>1, Tables
      <4>3. PICK k \in 1..n : dump'[i].table = exportTables[k]
        BY <2>2
      <4>4. k = m
        <5>1. k \in 1..6
          BY <1>1
        <5> QED
          BY <2>3, <4>3, <5>1, Tables
      <4> QED
        BY <1>1, <4>2, <4>4
    <3> QED
      BY <3>1, <3>2
  <2>4. exported' \in 0..6
    BY <1>1
  <2> QED
    BY <1>1, <1>6, <2>1, <2>2, <2>3, <2>4 DEF CopyInv, DumpInv, AllRows
<1>8. ImportShape' /\ BlameInv' /\ TargetInv'
  BY <1>1, <1>4 DEF CopyInv, ImportShape, BlameInv, TargetInv, Outstanding, SequencePast
<1>9. FlightInv'
  <2>1. InFlight = {}
    BY <1>4, EmptyListed DEF CopyInv, ImportShape, InFlight, Outstanding
  <2>2. InFlight' = InFlight
    BY <1>1 DEF InFlight
  <2> QED
    BY <1>1, <1>4, <2>1, <2>2 DEF FlightInv
<1> QED
  BY <1>7, <1>8, <1>9 DEF CopyInv

LEMMA SourceKeeps ==
  ASSUME CopyInv, NEW row \in instance.later, SourceWrites(row)
  PROVE  CopyInv'
<1>1. /\ source' = source \cup {row}
      /\ UNCHANGED <<instance, dialect, dump, exported, target, sequence, imp, jobs, busy, poolErr, counted, inserted, errors>>
  BY DEF SourceWrites
<1>2. DumpInv'
  BY <1>1 DEF CopyInv, DumpInv, AllRows
<1>3. ImportShape' /\ FlightInv' /\ TargetInv'
  BY <1>1 DEF CopyInv, ImportShape, FlightInv, TargetInv, Outstanding, InFlight, SequencePast
<1>4. BlameInv'
  BY <1>1 DEF CopyInv, BlameInv, Dangling
<1> QED
  BY <1>2, <1>3, <1>4 DEF CopyInv

------------------------------------------------------------------------------
(* The steps of the import. *)

\* What stays when only the import moves.
LEMMA RestKept ==
  ASSUME CopyInv, UNCHANGED fileVars
  PROVE  DumpInv' /\ (Dangling' <=> Dangling) /\ dump' = dump /\ exported' = exported
BY DEF CopyInv, DumpInv, fileVars, Dangling, AllRows

LEMMA NothingInFlight ==
  ASSUME imp.pending = <<>>, ~Outstanding
  PROVE  InFlight = {}
<1>1. jobs = <<>> /\ \A w \in Workers : busy[w] = <<>>
  BY DEF Outstanding
<1> QED
  BY <1>1, EmptyListed DEF InFlight

LEMMA BeginKeeps ==
  ASSUME CopyInv, importFromDump
  PROVE  CopyInv'
<1>1. /\ UNCHANGED fileVars /\ UNCHANGED <<target, sequence, jobs, busy, errors>>
      /\ exported = 6 /\ imp.pc \in {"off", "failed", "done"} /\ poolErr' = FALSE /\ counted' = 0 /\ inserted' = {}
  BY Tables DEF importFromDump
<1>2. /\ DOMAIN imp' = {"pc", "then", "line", "table", "pending", "runs"}
      /\ imp'.pc = "read" /\ imp'.then = "read" /\ imp'.line = 1 /\ imp'.pending = <<>>
  BY DEF importFromDump, NoImport
<1>3. DumpInv' /\ dump' = dump /\ exported' = exported
  BY <1>1, RestKept
<1>4. ImportShape'
  <2>1. Listed(imp'.pending)
    BY <1>2, EmptyListed
  <2>2. imp'.pc \in Steps
    BY <1>2 DEF Steps
  <2>3. ~poolErr' /\ poolErr' \in BOOLEAN
    BY <1>1, Zenon
  <2>4. UNCHANGED <<jobs, busy, errors>> /\ exported' = 6
    BY <1>1, <1>3
  <2> QED
    BY <1>2, <2>1, <2>2, <2>3, <2>4 DEF CopyInv, ImportShape
<1>5. FlightInv'
  <2>1. ~Outstanding
    BY <1>1 DEF CopyInv, ImportShape
  <2>2. InFlight' = {}
    <3>1. jobs' = <<>> /\ \A w \in Workers : busy'[w] = <<>>
      BY <1>1, <2>1 DEF Outstanding
    <3> QED
      BY <1>2, <3>1, EmptyListed DEF InFlight
  <2>3. \A i \in DOMAIN dump' : ~(i < imp'.line)
    BY <1>2, <1>3, ListedDomain DEF CopyInv, DumpInv
  <2> QED
    BY <2>2, <2>3 DEF FlightInv
<1>6. BlameInv'
  BY <1>1, <1>2 DEF BlameInv
<1>7. TargetInv'
  <2>1. IsFiniteSet({}) /\ Cardinality({}) = 0
    BY FS_EmptySet
  <2>2. UNCHANGED instance
    BY <1>1 DEF fileVars
  <2> QED
    BY <1>1, <1>2, <2>1, <2>2 DEF CopyInv, TargetInv
<1> QED
  BY <1>3, <1>4, <1>5, <1>6, <1>7 DEF CopyInv

\* A step of the import that changes neither batches nor the target.
LEMMA MoveKeeps ==
  ASSUME CopyInv, UNCHANGED fileVars, UNCHANGED <<target, jobs, busy, poolErr, counted, inserted>>,
         imp.pc \notin {"off", "done"},
         DOMAIN imp' = DOMAIN imp, imp'.line = imp.line, imp'.pending = imp.pending,
         imp'.pc \in Steps \ {"off"}, imp'.then \in {"read", "barrier", "last"}, errors' \in {errors, errors + 1},
         imp'.table = imp.table \/ InFlight = {},
         imp'.pc \in {"failed", "done"} => ~Outstanding,
         imp'.pc \in {"barrier", "last", "done"} => imp.pending = <<>>,
         imp'.pc \in {"last", "done"} \/ (imp'.pc = "submit" /\ imp'.then = "last") => imp.line > Len(dump),
         imp'.pc = "barrier" \/ (imp'.pc = "submit" /\ imp'.then = "barrier") => imp.line <= Len(dump),
         imp'.pc \in {"stopping", "failed"} => poolErr \/ errors' > 0,
         imp'.pc = "done" => ~poolErr /\ SequencePast'
  PROVE  CopyInv'
<1>1. DumpInv' /\ (Dangling' <=> Dangling) /\ dump' = dump /\ exported' = exported
  BY RestKept
<1>2. errors \in Nat /\ errors' \in Nat /\ (errors' = 0 => errors = 0)
  BY DEF CopyInv, ImportShape
<1>3. Outstanding' = Outstanding
  BY DEF Outstanding
<1>4. ImportShape'
  <2>1. imp'.pc \in Steps /\ imp'.pc # "off"
    BY DEF Steps
  <2> QED
    BY <1>1, <1>2, <1>3, <2>1 DEF CopyInv, ImportShape
<1>5. FlightInv'
  <2>1. InFlight' = InFlight
    BY DEF InFlight
  <2> QED
    BY <1>1, <2>1 DEF CopyInv, FlightInv
<1>6. BlameInv'
  BY <1>1, <1>2 DEF CopyInv, BlameInv
<1>7. TargetInv'
  BY DEF CopyInv, TargetInv, fileVars
<1> QED
  BY <1>1, <1>4, <1>5, <1>6, <1>7 DEF CopyInv

LEMMA ReadKeeps ==
  ASSUME CopyInv, processLine \/ LastLine \/ LineFails
  PROVE  CopyInv'
<1>1. /\ DOMAIN imp = {"pc", "then", "line", "table", "pending", "runs"} /\ imp.pc = "read" /\ UNCHANGED fileVars
      /\ UNCHANGED <<target, jobs, busy, poolErr, counted, inserted>>
      /\ imp.then \in {"read", "barrier", "last"} /\ errors \in Nat /\ imp.line \in Nat \ {0}
      /\ Listed(imp.pending) /\ Listed(dump) /\ Len(dump) \in Nat /\ DOMAIN dump = 1..Len(dump)
  BY ListedDomain DEF CopyInv, DumpInv, ImportShape, processLine, LastLine, LineFails, Import
<1>2. CASE LastLine
  <2>1. /\ DOMAIN imp' = DOMAIN imp /\ imp'.line = imp.line /\ imp'.pending = imp.pending /\ imp'.table = imp.table
        /\ imp'.pc = "submit" /\ imp'.then = "last" /\ errors' = errors /\ imp.line > Len(dump)
    BY <1>1, <1>2 DEF LastLine
  <2> QED
    BY <1>1, <2>1, MoveKeeps DEF Steps
<1>3. CASE LineFails
  <2>1. /\ DOMAIN imp' = DOMAIN imp /\ imp'.line = imp.line /\ imp'.pending = imp.pending /\ imp'.table = imp.table
        /\ imp'.pc = "stopping" /\ imp'.then = imp.then /\ errors' = errors + 1 /\ errors' > 0
    BY <1>1, <1>3 DEF LineFails, Import
  <2> QED
    BY <1>1, <2>1, MoveKeeps DEF Steps
<1>4. CASE processLine /\ dump[imp.line].table # imp.table
  <2>1. /\ DOMAIN imp' = DOMAIN imp /\ imp'.line = imp.line /\ imp'.pending = imp.pending /\ imp'.table = imp.table
        /\ imp'.pc = "submit" /\ imp'.then = "barrier" /\ errors' = errors /\ imp.line <= Len(dump)
    BY <1>1, <1>4 DEF processLine
  <2> QED
    BY <1>1, <2>1, MoveKeeps DEF Steps
<1>5. CASE processLine /\ dump[imp.line].table = imp.table
  <2> DEFINE row == dump[imp.line]
  <2>1. /\ DOMAIN imp' = DOMAIN imp /\ imp'.line = imp.line + 1 /\ imp'.table = imp.table
        /\ imp'.pending = Append(imp.pending, row) /\ imp'.then = "read" /\ imp'.pc \in {"read", "submit"}
        /\ errors' = errors /\ sequence' = sequence /\ imp.line \in DOMAIN dump
    BY <1>1, <1>5 DEF processLine
  <2>2. Listed(imp'.pending) /\ ToSet(imp'.pending) = ToSet(imp.pending) \cup {row}
    BY <1>1, <2>1, AppendListed
  <2>3. InFlight' = InFlight \cup {row}
    BY <1>1, <2>2 DEF InFlight
  <2>4. DumpInv' /\ (Dangling' <=> Dangling) /\ dump' = dump /\ exported' = exported
    BY <1>1, RestKept
  <2>5. ImportShape'
    <3>1. imp'.pc \in Steps
      BY <2>1 DEF Steps
    <3>2. exported' = 6
      BY <1>1, <2>4 DEF CopyInv, ImportShape
    <3> QED
      BY <1>1, <2>1, <2>2, <2>4, <3>1, <3>2 DEF CopyInv, ImportShape
  <2>6. FlightInv'
    <3>1. ASSUME NEW r \in InFlight'
          PROVE  r.table = imp'.table /\ \E i \in DOMAIN dump : i < imp'.line /\ dump[i] = r
      <4>1. CASE r = row
        BY <1>1, <1>5, <2>1, <4>1
      <4>2. CASE r \in InFlight
        <5>1. r.table = imp.table /\ \E i \in DOMAIN dump : i < imp.line /\ dump[i] = r
          BY <4>2 DEF CopyInv, FlightInv
        <5> QED
          BY <1>1, <2>1, <5>1
      <4> QED
        BY <2>3, <4>1, <4>2
    <3>2. ASSUME ~poolErr, NEW i \in DOMAIN dump, i < imp'.line
          PROVE  Key(dump[i]) \in DOMAIN target \/ dump[i] \in InFlight'
      <4>1. CASE i = imp.line
        BY <2>3, <4>1
      <4>2. CASE i # imp.line
        <5>1. i < imp.line
          BY <1>1, <2>1, <3>2, <4>2
        <5> QED
          BY <1>1, <2>3, <3>2, <5>1 DEF CopyInv, FlightInv
      <4> QED
        BY <4>1, <4>2
    <3> QED
      BY <1>1, <2>4, <3>1, <3>2 DEF FlightInv
  <2>7. BlameInv'
    BY <1>1, <2>1, <2>4 DEF CopyInv, BlameInv
  <2>8. TargetInv'
    BY <1>1, <2>1 DEF CopyInv, TargetInv, fileVars
  <2> QED
    BY <2>4, <2>5, <2>6, <2>7, <2>8 DEF CopyInv
<1> QED
  BY <1>2, <1>3, <1>4, <1>5

LEMMA OneMoreBatch ==
  ASSUME NEW J, NEW p
  PROVE  (UNION {ToSet(b) : b \in J \cup {p}}) = (UNION {ToSet(b) : b \in J}) \cup ToSet(p)
<1> DEFINE A == (UNION {ToSet(b) : b \in J \cup {p}})
           B == (UNION {ToSet(b) : b \in J}) \cup ToSet(p)
<1>1. ASSUME NEW x \in A PROVE x \in B
  <2>1. PICK b \in J \cup {p} : x \in ToSet(b)
    OBVIOUS
  <2>2. CASE b = p
    BY <2>1, <2>2
  <2>3. CASE b \in J
    BY <2>1, <2>3
  <2> QED
    BY <2>2, <2>3
<1>2. ASSUME NEW x \in B PROVE x \in A
  <2>1. CASE x \in ToSet(p)
    BY <2>1
  <2>2. CASE x \in (UNION {ToSet(b) : b \in J})
    <3>1. PICK b \in J : x \in ToSet(b)
      BY <2>2
    <3> QED
      BY <3>1
  <2> QED
    BY <2>1, <2>2
<1> HIDE DEF A, B
<1>3. A = B
  BY <1>1, <1>2
<1> QED
  BY <1>3 DEF A, B

LEMMA SubmitKeeps ==
  ASSUME CopyInv, submitPending
  PROVE  CopyInv'
<1>1. /\ DOMAIN imp = {"pc", "then", "line", "table", "pending", "runs"} /\ imp.pc = "submit" /\ UNCHANGED fileVars
      /\ UNCHANGED <<target, sequence, busy, poolErr, counted, inserted, errors>>
      /\ imp.then \in {"read", "barrier", "last"} /\ errors \in Nat
      /\ Listed(imp.pending) /\ Listed(jobs) /\ \A b \in ToSet(jobs) : Listed(b)
  BY DEF CopyInv, ImportShape, submitPending
<1>2. CASE imp.pending = <<>>
  <2>1. /\ DOMAIN imp' = DOMAIN imp /\ imp'.line = imp.line /\ imp'.pending = imp.pending /\ imp'.table = imp.table
        /\ imp'.pc = imp.then /\ imp'.then = imp.then /\ jobs' = jobs
    BY <1>1, <1>2 DEF submitPending, Import
  <2>2. /\ imp.then = "last" => imp.line > Len(dump)
        /\ imp.then = "barrier" => imp.line <= Len(dump)
    BY <1>1 DEF CopyInv, ImportShape
  <2> QED
    BY <1>1, <1>2, <2>1, <2>2, MoveKeeps DEF Steps
<1>3. CASE imp.pending # <<>> /\ poolErr
  <2>1. /\ DOMAIN imp' = DOMAIN imp /\ imp'.line = imp.line /\ imp'.pending = imp.pending /\ imp'.table = imp.table
        /\ imp'.pc = "stopping" /\ imp'.then = imp.then /\ jobs' = jobs
    BY <1>1, <1>3 DEF submitPending, Import
  <2> QED
    BY <1>1, <1>3, <2>1, MoveKeeps DEF Steps
<1>4. CASE imp.pending # <<>> /\ ~poolErr
  <2>1. /\ DOMAIN imp' = DOMAIN imp /\ imp'.line = imp.line /\ imp'.pending = <<>> /\ imp'.table = imp.table
        /\ imp'.pc = imp.then /\ imp'.then = imp.then /\ jobs' = Append(jobs, imp.pending)
    BY <1>1, <1>4 DEF submitPending
  <2>2. Listed(jobs') /\ ToSet(jobs') = ToSet(jobs) \cup {imp.pending}
    BY <1>1, <2>1, AppendListed
  <2>3. InFlight' = InFlight
    <3> DEFINE U == (UNION {ToSet(busy[w]) : w \in Workers})
               J == ToSet(jobs)
               p == imp.pending
    <3>1. ToSet(imp'.pending) = {}
      BY <2>1, EmptyListed
    <3>2. InFlight' = (UNION {ToSet(b) : b \in J \cup {p}}) \cup U
      BY <1>1, <2>2, <3>1 DEF InFlight
    <3>3. InFlight = ToSet(p) \cup (UNION {ToSet(b) : b \in J}) \cup U
      BY DEF InFlight
    <3> HIDE DEF U, J, p
    <3>4. (UNION {ToSet(b) : b \in J \cup {p}}) = (UNION {ToSet(b) : b \in J}) \cup ToSet(p)
      BY OneMoreBatch
    <3> QED
      BY <3>2, <3>3, <3>4
  <2>4. DumpInv' /\ (Dangling' <=> Dangling) /\ dump' = dump /\ exported' = exported
    BY <1>1, RestKept
  <2>5. ImportShape'
    <3>1. imp'.pc \in Steps /\ imp'.pc \in {"read", "barrier", "last"}
      BY <1>1, <2>1 DEF Steps
    <3>2. exported' = 6
      BY <1>1, <2>4 DEF CopyInv, ImportShape
    <3>3. Listed(imp'.pending)
      BY <2>1, EmptyListed
    <3> QED
      BY <1>1, <2>1, <2>2, <2>4, <3>1, <3>2, <3>3 DEF CopyInv, ImportShape
  <2>6. FlightInv'
    BY <1>1, <2>1, <2>3, <2>4 DEF CopyInv, FlightInv
  <2>7. BlameInv'
    BY <1>1, <2>1, <2>4 DEF CopyInv, BlameInv
  <2>8. TargetInv'
    BY <1>1, <2>1 DEF CopyInv, TargetInv, fileVars
  <2> QED
    BY <2>4, <2>5, <2>6, <2>7, <2>8 DEF CopyInv
<1> QED
  BY <1>2, <1>3, <1>4

LEMMA WaitKeeps ==
  ASSUME CopyInv, barrierWait \/ stop
  PROVE  CopyInv'
<1>1. /\ DOMAIN imp = {"pc", "then", "line", "table", "pending", "runs"} /\ UNCHANGED fileVars
      /\ UNCHANGED <<target, sequence, jobs, busy, poolErr, counted, inserted, errors>>
      /\ imp.then \in {"read", "barrier", "last"} /\ ~Outstanding /\ imp.pc \in {"barrier", "stopping"}
      /\ (imp.pc = "barrier" => imp.pending = <<>>) /\ (imp.pc = "stopping" => poolErr \/ errors > 0)
  BY DEF CopyInv, ImportShape, BlameInv, barrierWait, stop
<1>2. CASE barrierWait
  <2>1. InFlight = {}
    BY <1>1, <1>2, NothingInFlight DEF barrierWait
  <2>2. /\ DOMAIN imp' = DOMAIN imp /\ imp'.line = imp.line /\ imp'.pending = imp.pending
        /\ imp'.then = imp.then /\ imp'.pc \in {"read", "stopping"} /\ (imp'.pc = "stopping" => poolErr)
    BY <1>1, <1>2 DEF barrierWait
  <2> QED
    BY <1>1, <2>1, <2>2, MoveKeeps DEF Steps
<1>3. CASE stop
  <2>1. /\ DOMAIN imp' = DOMAIN imp /\ imp'.line = imp.line /\ imp'.pending = imp.pending /\ imp'.table = imp.table
        /\ imp'.then = imp.then /\ imp'.pc = "failed" /\ imp.pc = "stopping"
    BY <1>1, <1>3 DEF stop, Import
  <2> QED
    BY <1>1, <2>1, MoveKeeps DEF Steps
<1> QED
  BY <1>2, <1>3

LEMMA FinishKeeps ==
  ASSUME CopyInv, Finish
  PROVE  CopyInv'
<1>1. /\ DOMAIN imp = {"pc", "then", "line", "table", "pending", "runs"} /\ UNCHANGED fileVars
      /\ UNCHANGED <<target, jobs, busy, poolErr, counted, inserted, errors>>
      /\ imp.then \in {"read", "barrier", "last"} /\ ~Outstanding /\ imp.pc = "last"
      /\ imp.pending = <<>> /\ imp.line > Len(dump)
  BY DEF CopyInv, ImportShape, Finish
<1>2. /\ DOMAIN imp' = DOMAIN imp /\ imp'.line = imp.line /\ imp'.pending = imp.pending /\ imp'.table = imp.table
      /\ imp'.then = imp.then /\ imp'.pc = IF poolErr THEN "failed" ELSE "done"
  BY <1>1 DEF Finish, Import
<1>3. ASSUME ~poolErr PROVE SequencePast'
  <2> SUFFICES ASSUME dialect = "postgres" PROVE \A k \in DOMAIN target : k[1] = "audit_events" => k[2] <= sequence'
    BY <1>1 DEF SequencePast, fileVars
  <2> DEFINE A == {x \in DOMAIN target : x[1] = "audit_events"}
             I == {k[2] : k \in A}
             S == {0} \cup I
  <2>1. sequence' = Max(S)
    BY <1>3 DEF Finish, syncAuditEventsSequence
  <2>2. IsFiniteSet(A) /\ \A k \in A : k[2] \in Nat
    BY FS_Subset DEF CopyInv, TargetInv
  <2>3. IsFiniteSet(I)
    <3>1. [k \in A |-> k[2]] \in Surjection(A, I)
      BY DEF Surjection
    <3> QED
      BY <2>2, <3>1, FS_Surjection
  <2>4. IsFiniteSet(S)
    <3>1. IsFiniteSet({0})
      BY FS_Singleton
    <3> QED
      BY <2>3, <3>1, FS_Union
  <2>5. S \in SUBSET Nat /\ S # {}
    BY <2>2
  <2>6. \A y \in S : y <= Max(S)
    <3> HIDE DEF S
    <3> QED
      BY <2>4, <2>5, MaxIsGreatest
  <2> QED
    BY <2>1, <2>6
<1>4. poolErr \in BOOLEAN
  BY DEF CopyInv, ImportShape
<1> QED
  BY <1>1, <1>2, <1>3, <1>4, MoveKeeps DEF Steps

------------------------------------------------------------------------------
(* The workers. *)

LEMMA RunKeeps ==
  ASSUME CopyInv, NEW w \in Workers, run(w)
  PROVE  CopyInv'
<1> DEFINE b == Head(jobs)
<1>1. /\ busy[w] = <<>> /\ jobs # <<>> /\ jobs' = Tail(jobs) /\ UNCHANGED fileVars
      /\ UNCHANGED <<target, sequence, imp, poolErr, counted, inserted, errors>>
  BY DEF run
<1>2. /\ DOMAIN busy' = Workers /\ busy' = [v \in Workers |-> busy'[v]] /\ busy'[w] = b
      /\ \A v \in Workers : v # w => busy'[v] = busy[v]
  BY DEF run, CopyInv, ImportShape
<1>3. Listed(jobs') /\ ToSet(jobs) = {b} \cup ToSet(jobs')
  BY <1>1, TailListed DEF CopyInv, ImportShape
<1>4. Listed(b) /\ \A v \in Workers : Listed(busy'[v])
  BY <1>2, <1>3 DEF CopyInv, ImportShape
<1>5. InFlight' = InFlight
  <2>1. ToSet(busy[w]) = {}
    BY <1>1, EmptyListed
  <2>2. ASSUME NEW x \in InFlight PROVE x \in InFlight'
    <3>1. CASE x \in ToSet(imp.pending)
      BY <1>1, <3>1 DEF InFlight
    <3>2. CASE \E j \in ToSet(jobs) : x \in ToSet(j)
      <4>1. PICK j \in ToSet(jobs) : x \in ToSet(j)
        BY <3>2
      <4>2. CASE j = b
        BY <1>2, <4>1, <4>2 DEF InFlight
      <4>3. CASE j \in ToSet(jobs')
        BY <4>1, <4>3 DEF InFlight
      <4> QED
        BY <1>3, <4>2, <4>3
    <3>3. CASE \E v \in Workers : x \in ToSet(busy[v])
      <4>1. PICK v \in Workers : x \in ToSet(busy[v])
        BY <3>3
      <4>2. v # w
        BY <2>1, <4>1
      <4> QED
        BY <1>2, <4>1, <4>2 DEF InFlight
    <3> QED
      BY <3>1, <3>2, <3>3 DEF InFlight
  <2>3. ASSUME NEW x \in InFlight' PROVE x \in InFlight
    <3>1. CASE x \in ToSet(imp.pending)
      BY <1>1, <3>1 DEF InFlight
    <3>2. CASE \E j \in ToSet(jobs') : x \in ToSet(j)
      BY <1>3, <3>2 DEF InFlight
    <3>3. CASE \E v \in Workers : x \in ToSet(busy'[v])
      <4>1. PICK v \in Workers : x \in ToSet(busy'[v])
        BY <3>3
      <4>2. CASE v = w
        BY <1>2, <1>3, <4>1, <4>2 DEF InFlight
      <4>3. CASE v # w
        BY <1>2, <4>1, <4>3 DEF InFlight
      <4> QED
        BY <4>2, <4>3
    <3> QED
      BY <1>1, <3>1, <3>2, <3>3 DEF InFlight
  <2> QED
    BY <2>2, <2>3
<1>6. DumpInv' /\ (Dangling' <=> Dangling) /\ dump' = dump /\ exported' = exported
  BY <1>1, RestKept
<1>7. imp.pc \notin {"off", "failed", "done"}
  BY <1>1 DEF CopyInv, ImportShape, Outstanding
<1>8. ImportShape'
  <2>1. \A j \in ToSet(jobs') : Listed(j)
    BY <1>3 DEF CopyInv, ImportShape
  <2> QED
    BY <1>1, <1>2, <1>3, <1>4, <1>6, <1>7, <2>1 DEF CopyInv, ImportShape
<1>9. FlightInv'
  BY <1>1, <1>5, <1>6 DEF CopyInv, FlightInv
<1>10. BlameInv'
  BY <1>1, <1>6 DEF CopyInv, BlameInv
<1>11. TargetInv'
  BY <1>1 DEF CopyInv, TargetInv, SequencePast, fileVars
<1> QED
  BY <1>6, <1>8, <1>9, <1>10, <1>11 DEF CopyInv

LEMMA DieKeeps ==
  ASSUME CopyInv, Die
  PROVE  CopyInv'
<1>1. /\ UNCHANGED fileVars /\ UNCHANGED <<target, sequence, poolErr, counted, inserted, errors>>
      /\ jobs' = <<>> /\ busy' = [w \in Workers |-> <<>>] /\ exported = 6
  BY DEF Die, CopyInv, ImportShape
<1>2. /\ DOMAIN imp' = {"pc", "then", "line", "table", "pending", "runs"}
      /\ imp'.pc = "off" /\ imp'.then = "read" /\ imp'.line = 1 /\ imp'.pending = <<>>
  BY DEF Die, NoImport
<1>3. DumpInv' /\ (Dangling' <=> Dangling) /\ dump' = dump /\ exported' = exported
  BY <1>1, RestKept
<1>4. ImportShape'
  <2>1. Listed(imp'.pending) /\ Listed(jobs') /\ ToSet(jobs') = {}
    BY <1>1, <1>2, EmptyListed
  <2>2. imp'.pc \in Steps
    BY <1>2 DEF Steps
  <2>3. busy' = [w \in Workers |-> busy'[w]] /\ \A w \in Workers : Listed(busy'[w])
    BY <1>1, EmptyListed
  <2>4. ~Outstanding'
    BY <1>1 DEF Outstanding
  <2> QED
    BY <1>1, <1>2, <1>3, <2>1, <2>2, <2>3, <2>4 DEF CopyInv, ImportShape
<1>5. FlightInv'
  <2>1. InFlight' = {}
    BY <1>1, <1>2, EmptyListed DEF InFlight
  <2> QED
    BY <1>2, <2>1 DEF FlightInv
<1>6. BlameInv'
  BY <1>1, <1>2, <1>3 DEF CopyInv, BlameInv
<1>7. TargetInv'
  BY <1>1, <1>2 DEF CopyInv, TargetInv, fileVars
<1> QED
  BY <1>3, <1>4, <1>5, <1>6, <1>7 DEF CopyInv

\* A worker is done with its batch.
LEMMA BatchGone ==
  ASSUME CopyInv, NEW w \in Workers, busy' = [busy EXCEPT ![w] = <<>>], UNCHANGED <<imp, jobs>>
  PROVE  /\ busy' = [v \in Workers |-> busy'[v]] /\ \A v \in Workers : Listed(busy'[v])
         /\ InFlight' \subseteq InFlight
         /\ \A x \in InFlight : x \in InFlight' \/ x \in ToSet(busy[w])
<1>1. /\ busy' = [v \in Workers |-> busy'[v]] /\ busy'[w] = <<>>
      /\ \A v \in Workers : v # w => busy'[v] = busy[v]
  BY DEF CopyInv, ImportShape
<1>2. ToSet(busy'[w]) = {} /\ Listed(busy'[w])
  BY <1>1, EmptyListed
<1>3. \A v \in Workers : Listed(busy'[v])
  BY <1>1, <1>2 DEF CopyInv, ImportShape
<1>4. InFlight' \subseteq InFlight
  <2> SUFFICES ASSUME NEW v \in Workers, NEW x \in ToSet(busy'[v]) PROVE x \in ToSet(busy[v])
    BY DEF InFlight
  <2> QED
    BY <1>1, <1>2
<1>5. ASSUME NEW x \in InFlight PROVE x \in InFlight' \/ x \in ToSet(busy[w])
  <2>1. CASE \E v \in Workers : x \in ToSet(busy[v])
    <3>1. PICK v \in Workers : x \in ToSet(busy[v])
      BY <2>1
    <3> QED
      BY <1>1, <3>1 DEF InFlight
  <2>2. CASE ~\E v \in Workers : x \in ToSet(busy[v])
    BY <2>2 DEF InFlight
  <2> QED
    BY <2>1, <2>2
<1> QED
  BY <1>1, <1>3, <1>4, <1>5

\* A dump holds rows of the database, with their keys and references.
LEMMA RowsOfDump ==
  ASSUME CopyInv, NEW i \in DOMAIN dump
  PROVE  /\ \E d \in AllRows : dump[i] = DumpedRow(d) /\ Key(dump[i]) = Key(d)
                               /\ dump[i].table = d.table /\ dump[i].refs = d.refs
         /\ \E n \in 1..6 : dump[i].table = exportTables[n]
<1>1. PICK d \in AllRows : dump[i] = DumpedRow(d)
  BY DEF CopyInv, DumpInv
<1>2. Key(dump[i]) = Key(d) /\ dump[i].table = d.table /\ dump[i].refs = d.refs
  BY <1>1 DEF DumpedRow, Key
<1>3. PICK n \in 1..exported : dump[i].table = exportTables[n]
  BY DEF CopyInv, DumpInv
<1>4. n \in 1..6
  BY DEF CopyInv, DumpInv
<1> QED
  BY <1>1, <1>2, <1>3, <1>4

\* The barrier and the order of the tables: what a row on its way refers to is
\* committed, unless the dump does not have it.
LEMMA MissingDangles ==
  ASSUME CopyInv, ~poolErr, imp.pc # "off", NEW r \in InFlight, NEW k \in r.refs, k \notin DOMAIN target
  PROVE  Dangling
<1> SUFFICES ASSUME ~Dangling PROVE FALSE
  OBVIOUS
<1>1. PICK i \in DOMAIN dump : i < imp.line /\ dump[i] = r
  BY DEF CopyInv, FlightInv
<1>2. PICK d \in AllRows : Key(r) = Key(d) /\ r.table = d.table /\ r.refs = d.refs
  BY <1>1, RowsOfDump
<1>3. PICK n \in 1..6 : r.table = exportTables[n]
  BY <1>1, RowsOfDump
<1>4. PICK j \in DOMAIN dump : k = Key(dump[j])
  <2>1. k \notin instance.target
    BY DEF CopyInv, TargetInv
  <2>2. k \in {Key(dump[x]) : x \in DOMAIN dump}
    BY <1>1, <2>1 DEF Dangling
  <2> QED
    BY <2>2
<1>5. PICK m \in 1..6 : dump[j].table = exportTables[m]
  BY RowsOfDump
<1>6. m < n
  <2>1. instance \in Instances
    BY DEF CopyInv, DumpInv
  <2>2. k[1] = exportTables[m]
    BY <1>4, <1>5 DEF Key
  <2>3. k \in d.refs /\ d.table = exportTables[n]
    BY <1>2, <1>3
  <2> QED
    BY <2>1, <2>2, <2>3, CopyAssumption, Tables DEF AllRows
<1>7. i \in Nat /\ j \in Nat /\ imp.line \in Nat
  <2>1. Len(dump) \in Nat /\ DOMAIN dump = 1..Len(dump)
    BY ListedDomain DEF CopyInv, DumpInv
  <2> QED
    BY <2>1 DEF CopyInv, ImportShape
<1>8. j < i
  <2> SUFFICES ASSUME i <= j PROVE FALSE
    BY <1>7
  <2>1. n <= m
    BY <1>1, <1>3, <1>5 DEF CopyInv, DumpInv
  <2> QED
    BY <1>6, <2>1
<1>9. j < imp.line
  BY <1>1, <1>7, <1>8
<1>10. dump[j] \in InFlight
  BY <1>4, <1>9 DEF CopyInv, FlightInv
<1>11. dump[j].table = r.table
  BY <1>10 DEF CopyInv, FlightInv
<1>12. exportTables[m] = exportTables[n]
  BY <1>3, <1>5, <1>11
<1>13. m = n
  BY <1>12, Tables
<1> QED
  BY <1>6, <1>13

\* A batch that fails leaves the target alone.
LEMMA FailKeeps ==
  ASSUME CopyInv, NEW w \in Workers, busy[w] # <<>>, busy' = [busy EXCEPT ![w] = <<>>], poolErr' = TRUE,
         UNCHANGED fileVars, UNCHANGED <<target, counted, inserted, sequence, imp, jobs>>,
         errors' \in Nat, errors' = 0 => Dangling
  PROVE  CopyInv'
<1>1. DumpInv' /\ (Dangling' <=> Dangling) /\ dump' = dump /\ exported' = exported
  BY RestKept
<1>2. imp.pc \notin {"off", "failed", "done"}
  BY DEF CopyInv, ImportShape, Outstanding
<1>3. poolErr' /\ poolErr' \in BOOLEAN
  BY Zenon
<1>4. /\ busy' = [v \in Workers |-> busy'[v]] /\ \A v \in Workers : Listed(busy'[v])
      /\ InFlight' \subseteq InFlight
  BY BatchGone
<1>5. ImportShape'
  <2>1. UNCHANGED <<imp, jobs>>
    OBVIOUS
  <2>2. exported = 6
    BY <1>2 DEF CopyInv, ImportShape
  <2> QED
    BY <1>1, <1>2, <1>3, <1>4, <2>1, <2>2 DEF CopyInv, ImportShape
<1>6. FlightInv'
  BY <1>1, <1>3, <1>4 DEF CopyInv, FlightInv
<1>7. BlameInv'
  BY <1>1, <1>2, <1>3 DEF BlameInv
<1>8. TargetInv'
  BY <1>2 DEF CopyInv, TargetInv, fileVars
<1> QED
  BY <1>1, <1>5, <1>6, <1>7, <1>8 DEF CopyInv

\* The keys of new rows are as many as the rows, and none was inserted before.
LEMMA NewKeys ==
  ASSUME CopyInv, NEW new, new \subseteq InFlight, IsFiniteSet(new), \A r \in new : Key(r) \notin DOMAIN target
  PROVE  /\ IsFiniteSet({Key(r) : r \in new})
         /\ IsFiniteSet(inserted \cup {Key(r) : r \in new})
         /\ Cardinality(inserted \cup {Key(r) : r \in new}) = counted + Cardinality(new)
         /\ \A k \in {Key(r) : r \in new} : k[1] = "audit_events" => k[2] \in Nat
<1> DEFINE K == {Key(r) : r \in new}
           f == [r \in new |-> Key(r)]
<1>1. ASSUME NEW r \in new
      PROVE  \E d \in AllRows : r = DumpedRow(d) /\ Key(r) = Key(d) /\ r.table = d.table
  <2>1. PICK i \in DOMAIN dump : dump[i] = r
    BY DEF CopyInv, FlightInv
  <2> QED
    BY <2>1, RowsOfDump
<1>2. ASSUME NEW r \in new, NEW s \in new, Key(r) = Key(s) PROVE r = s
  <2>1. PICK d \in AllRows : r = DumpedRow(d) /\ Key(r) = Key(d)
    BY <1>1
  <2>2. PICK e \in AllRows : s = DumpedRow(e) /\ Key(s) = Key(e)
    BY <1>1
  <2>3. d = e
    BY <1>2, <2>1, <2>2, CopyAssumption DEF CopyInv, DumpInv, AllRows
  <2> QED
    BY <2>1, <2>2, <2>3
<1>3. f \in Bijection(new, K)
  BY <1>2 DEF Bijection, Injection, Surjection, IsInjective
<1>4. IsFiniteSet(K) /\ Cardinality(K) = Cardinality(new)
  <2>1. ExistsBijection(new, K)
    BY <1>3 DEF ExistsBijection
  <2> QED
    BY <1>3, <2>1, FS_Bijection
<1>5. inserted \cap K = {}
  BY DEF CopyInv, TargetInv
<1>6. IsFiniteSet(inserted \cup K) /\ Cardinality(inserted \cup K) = counted + Cardinality(new)
  <2> HIDE DEF K
  <2>1. IsFiniteSet(inserted) /\ counted = Cardinality(inserted)
    BY DEF CopyInv, TargetInv
  <2>2. /\ IsFiniteSet(inserted \cup K)
        /\ Cardinality(inserted \cup K) = Cardinality(inserted) + Cardinality(K) - Cardinality(inserted \cap K)
    BY <1>4, <2>1, FS_Union
  <2>3. Cardinality(inserted \cap K) = 0
    BY <1>5, FS_EmptySet
  <2>4. Cardinality(inserted) \in Nat /\ Cardinality(K) \in Nat
    BY <1>4, <2>1, FS_CardinalityType
  <2> QED
    BY <1>4, <2>1, <2>2, <2>3, <2>4
<1>7. ASSUME NEW r \in new, Key(r)[1] = "audit_events" PROVE Key(r)[2] \in Nat
  <2>1. PICK d \in AllRows : Key(r) = Key(d)
    BY <1>1
  <2>2. d.table = "audit_events" /\ Key(d)[2] = d.id
    BY <1>7, <2>1 DEF Key
  <2> QED
    BY <2>1, <2>2, CopyAssumption DEF CopyInv, DumpInv, AllRows
<1> QED
  BY <1>4, <1>6, <1>7

\* A batch that is committed.
LEMMA CommitKeeps ==
  ASSUME CopyInv, NEW w \in Workers, busy[w] # <<>>, busy' = [busy EXCEPT ![w] = <<>>], poolErr' = poolErr,
         NEW new, new = {r \in ToSet(busy[w]) : Key(r) \notin DOMAIN target},
         DOMAIN target' = DOMAIN target \cup {Key(r) : r \in new},
         counted' = counted + Cardinality(new), inserted' = inserted \cup {Key(r) : r \in new},
         UNCHANGED fileVars, UNCHANGED <<errors, sequence, imp, jobs>>
  PROVE  CopyInv'
<1> DEFINE K == {Key(r) : r \in new}
<1>1. DumpInv' /\ (Dangling' <=> Dangling) /\ dump' = dump /\ exported' = exported
  BY RestKept
<1>2. imp.pc \notin {"off", "failed", "done"}
  BY DEF CopyInv, ImportShape, Outstanding
<1>3. /\ busy' = [v \in Workers |-> busy'[v]] /\ \A v \in Workers : Listed(busy'[v])
      /\ InFlight' \subseteq InFlight
      /\ \A x \in InFlight : x \in InFlight' \/ x \in ToSet(busy[w])
  BY BatchGone
<1>4. ToSet(busy[w]) \subseteq InFlight
  BY DEF InFlight
<1>5. \A r \in ToSet(busy[w]) : Key(r) \in DOMAIN target'
  OBVIOUS
<1>6. ImportShape'
  <2>1. UNCHANGED <<imp, jobs, poolErr, errors>>
    OBVIOUS
  <2> QED
    BY <1>1, <1>2, <1>3, <2>1 DEF CopyInv, ImportShape
<1>7. FlightInv'
  <2>1. \A r \in InFlight' : r.table = imp'.table /\ \E i \in DOMAIN dump' : i < imp'.line /\ dump'[i] = r
    BY <1>1, <1>3 DEF CopyInv, FlightInv
  <2>2. ASSUME ~poolErr, NEW i \in DOMAIN dump, i < imp.line
        PROVE  Key(dump[i]) \in DOMAIN target' \/ dump[i] \in InFlight'
    <3>1. Key(dump[i]) \in DOMAIN target \/ dump[i] \in InFlight
      BY <1>2, <2>2 DEF CopyInv, FlightInv
    <3> QED
      BY <1>3, <1>5, <3>1
  <2> QED
    BY <1>1, <2>1, <2>2 DEF FlightInv
<1>8. BlameInv'
  BY <1>1, <1>2 DEF CopyInv, BlameInv
<1>9. TargetInv'
  <2>1. IsFiniteSet(new)
    <3>1. IsFiniteSet(ToSet(busy[w]))
      BY ListedFinite DEF CopyInv, ImportShape
    <3> QED
      BY <3>1, FS_Subset
  <2>2. new \subseteq InFlight /\ \A r \in new : Key(r) \notin DOMAIN target
    BY <1>4
  <2> HIDE DEF K
  <2>3. /\ IsFiniteSet(K) /\ IsFiniteSet(inserted \cup K)
        /\ Cardinality(inserted \cup K) = counted + Cardinality(new)
        /\ \A k \in K : k[1] = "audit_events" => k[2] \in Nat
    BY <2>1, <2>2, NewKeys DEF K
  <2>4. IsFiniteSet(DOMAIN target \cup K)
    BY <2>3, FS_Union DEF CopyInv, TargetInv
  <2>5. DOMAIN target' = DOMAIN target \cup K /\ inserted' = inserted \cup K /\ counted' = Cardinality(inserted')
    BY <2>3 DEF K
  <2>6. instance' = instance /\ imp' = imp
    BY DEF fileVars
  <2> QED
    BY <1>2, <2>3, <2>4, <2>5, <2>6 DEF CopyInv, TargetInv
<1> QED
  BY <1>1, <1>6, <1>7, <1>8, <1>9 DEF CopyInv

LEMMA ExecKeeps ==
  ASSUME CopyInv, NEW w \in Workers, exec(w)
  PROVE  CopyInv'
<1> DEFINE batch == ToSet(busy[w])
           new == {r \in batch : Key(r) \notin DOMAIN target}
           after == DOMAIN target \cup {Key(r) : r \in new}
<1>1. /\ busy[w] # <<>> /\ busy' = [busy EXCEPT ![w] = <<>>]
      /\ UNCHANGED fileVars /\ UNCHANGED <<sequence, imp, jobs>>
  BY DEF exec
<1>2. poolErr \in BOOLEAN /\ errors \in Nat /\ imp.pc # "off"
  BY <1>1 DEF CopyInv, ImportShape, Outstanding
<1>3. CASE /\ poolErr' = TRUE /\ UNCHANGED <<errors, target, counted, inserted>>
           /\ \E r \in new : ~(r.refs \subseteq after)
  <2>1. PICK r \in new : ~(r.refs \subseteq after)
    BY <1>3
  <2>2. PICK k \in r.refs : k \notin DOMAIN target
    BY <2>1
  <2>3. r \in InFlight
    BY DEF InFlight
  <2>4. ~poolErr => Dangling
    BY <1>2, <2>2, <2>3, MissingDangles
  <2>5. poolErr /\ errors = 0 => Dangling
    BY DEF CopyInv, BlameInv
  <2> QED
    BY <1>1, <1>2, <1>3, <2>4, <2>5, FailKeeps
<1>4. CASE /\ poolErr' = poolErr /\ errors' = errors /\ DOMAIN target' = after
           /\ counted' = counted + Cardinality(new) /\ inserted' = inserted \cup {Key(r) : r \in new}
  BY <1>1, <1>4, CommitKeeps
<1>5. CASE poolErr' = TRUE /\ errors' = errors + 1 /\ UNCHANGED <<target, counted, inserted>>
  <2>1. errors' \in Nat /\ errors' # 0
    BY <1>2, <1>5
  <2> QED
    BY <1>1, <1>5, <2>1, FailKeeps
<1> DEFINE FKFails == /\ busy' = [busy EXCEPT ![w] = <<>>] /\ poolErr' = (poolErr \/ TRUE)
                      /\ UNCHANGED <<target, counted, inserted>>
           Commits == /\ target' = [k \in after |-> IF k \in DOMAIN target THEN target[k]
                                                    ELSE parseInsertLine(CHOOSE r \in new : Key(r) = k)]
                      /\ counted' = counted + Cardinality(new)
                      /\ inserted' = inserted \cup {Key(r) : r \in new}
                      /\ busy' = [busy EXCEPT ![w] = <<>>] /\ poolErr' = (poolErr \/ FALSE)
           Missing == \E r \in new : ~(r.refs \subseteq after)
<1>6. \/ UNCHANGED errors /\ \E enforced \in Enforced : IF enforced /\ Missing THEN FKFails ELSE Commits
      \/ errors' = errors + 1 /\ FKFails
  BY Zenon DEF exec
<1>7. FKFails => poolErr' = TRUE /\ UNCHANGED <<target, counted, inserted>>
  BY <1>2
<1>8. Commits => DOMAIN target' = after
  <2> HIDE DEF after, new
  <2> QED
    OBVIOUS
<1>9. Commits => /\ poolErr' = poolErr /\ counted' = counted + Cardinality(new)
                 /\ inserted' = inserted \cup {Key(r) : r \in new}
  BY <1>2
<1> HIDE DEF FKFails, Commits, Missing, after, new
<1>10. \/ Missing /\ FKFails /\ UNCHANGED errors
       \/ Commits /\ UNCHANGED errors
       \/ FKFails /\ errors' = errors + 1
  BY <1>6
<1> QED
  BY <1>3, <1>4, <1>5, <1>7, <1>8, <1>9, <1>10 DEF Missing

\* Induction on numbers, for sets of them.
LEMMA Induction ==
  ASSUME NEW T \in SUBSET Nat, 0 \in T, \A n \in T : n + 1 \in T
  PROVE  Nat \subseteq T
<1> SUFFICES ASSUME Nat \ T # {} PROVE FALSE
  OBVIOUS
<1>1. PICK x \in Nat \ T : \A y \in Nat \ T : x <= y
  BY SmallestNat
<1>2. x - 1 \in Nat /\ x - 1 \notin Nat \ T
  BY <1>1
<1>3. x - 1 \in T /\ (x - 1) + 1 = x
  BY <1>2
<1> QED
  BY <1>1, <1>3

------------------------------------------------------------------------------
(* Text: from a row to its line and back. *)

Bytes == Chars \cup Figures \cup {"NULL", "CAST", "X", "AS", "TEXT", Terminator} \cup {HexOf[c] : c \in Chars}
Texts == Seq(Bytes)

\* FlattenSeq puts sequences one after the other.
FlatUpTo(g, q, m) == g = [i \in 1..m |-> IF i = 1 THEN q[i] ELSE g[i - 1] \o q[i]]

LEMMA FlatExists ==
  ASSUME NEW q, NEW m \in Nat
  PROVE  \E g : FlatUpTo(g, q, m)
<1> USE DEF FlatUpTo
<1> DEFINE Fn(g, k) == FlatUpTo(g, q, k)
           T == {k \in Nat : \E g : Fn(g, k)}
<1>1. 0 \in T
  <2> DEFINE g == [n \in 1..0 |-> q[n]]
  <2>1. Fn(g, 0)
    OBVIOUS
  <2> HIDE DEF g, Fn
  <2> QED
    BY <2>1
<1>2. ASSUME NEW k \in T PROVE k + 1 \in T
  <2>1. PICK g : Fn(g, k)
    OBVIOUS
  <2> DEFINE h == [n \in 1..k + 1 |-> IF n = k + 1 THEN IF n = 1 THEN q[n] ELSE g[n - 1] \o q[n] ELSE g[n]]
  <2>2. ASSUME NEW n \in 1..k + 1
        PROVE  h[n] = IF n = 1 THEN q[n] ELSE h[n - 1] \o q[n]
    <3>1. CASE n = k + 1
      <4>1. n # 1 => n - 1 \in 1..k + 1 /\ n - 1 # k + 1
        BY <3>1
      <4> QED
        BY <3>1, <4>1
    <3>2. CASE n # k + 1
      <4>1. n \in 1..k /\ h[n] = g[n] /\ (n # 1 => n - 1 \in 1..k + 1 /\ h[n - 1] = g[n - 1])
        BY <3>2
      <4>2. g[n] = IF n = 1 THEN q[n] ELSE g[n - 1] \o q[n]
        BY <2>1, <4>1
      <4> QED
        BY <4>1, <4>2
    <3> QED
      BY <3>1, <3>2
  <2>3. Fn(h, k + 1)
    BY <2>2
  <2> HIDE DEF h, Fn
  <2> QED
    BY <2>3
<1> HIDE DEF T
<1>3. Nat \subseteq T
  <2>1. T \in SUBSET Nat
    BY DEF T
  <2> QED
    BY <2>1, <1>1, <1>2, Induction
<1> QED
  BY <1>3 DEF T

\* Where the parts of a flattened sequence are: the i-th begins after off[i - 1].
Flat(q, f, off) ==
  /\ f \in Texts /\ off \in [0..Len(q) -> Nat]
  /\ off[0] = 0 /\ off[Len(q)] = Len(f)
  /\ \A i \in 1..Len(q) :
       /\ off[i] = off[i - 1] + Len(q[i]) /\ off[i] <= Len(f)
       /\ \A j \in 1..Len(q[i]) : f[off[i - 1] + j] = q[i][j]

Joined(c, s, t) == c = s \o t

LEMMA Concatenated ==
  ASSUME NEW s \in Texts, NEW t \in Texts, NEW c, Joined(c, s, t)
  PROVE  /\ c \in Texts /\ Len(s) \in Nat /\ Len(t) \in Nat /\ Len(c) = Len(s) + Len(t)
         /\ \A j \in 1..Len(s) : c[j] = s[j]
         /\ \A j \in 1..Len(t) : c[Len(s) + j] = t[j]
<1>1. /\ s \o t \in Texts /\ Len(s) \in Nat /\ Len(t) \in Nat /\ Len(s \o t) = Len(s) + Len(t)
      /\ \A j \in 1..Len(s) : (s \o t)[j] = s[j]
      /\ \A j \in 1..Len(t) : (s \o t)[Len(s) + j] = t[j]
  BY DEF Texts
<1> QED
  BY <1>1, Zenon DEF Joined

LEMMA FlattenedParts ==
  ASSUME NEW q \in Seq(Texts), q # <<>>
  PROVE  \E off : Flat(q, FlattenSeq(q), off)
<1> DEFINE n == Len(q)
           F == CHOOSE g : FlatUpTo(g, q, n)
           P(i) == F[i]
           Q(i) == q[i]
<1>1. n \in Nat \ {0} /\ \A i \in 1..n : Q(i) \in Texts
  OBVIOUS
<1>2. FlattenSeq(q) = P(n)
  BY <1>1 DEF FlattenSeq, FlatUpTo
<1> HIDE DEF F
<1>3. F = [i \in 1..n |-> IF i = 1 THEN q[i] ELSE F[i - 1] \o q[i]]
  <2>1. FlatUpTo(F, q, n)
    BY <1>1, FlatExists DEF F
  <2> QED
    BY <2>1 DEF FlatUpTo
<1>4. P(1) = Q(1) /\ \A i \in 2..n : P(i) = P(i - 1) \o Q(i)
  <2>1. 1 \in 1..n /\ \A i \in 2..n : i \in 1..n /\ i # 1
    BY <1>1
  <2> QED
    BY <2>1, <1>3, Zenon
<1> HIDE DEF P, Q, n
<1> DEFINE Good(i) == /\ P(i) \in Texts
                      /\ \A k \in 1..i : Len(P(k)) <= Len(P(i)) /\ \A j \in 1..Len(P(k)) : P(i)[j] = P(k)[j]
           T == {i \in Nat : i \in 1..n => \A k \in 1..i : Good(k)}
<1>5. 0 \in T
  OBVIOUS
<1>6. ASSUME NEW i \in T PROVE i + 1 \in T
  <2> SUFFICES ASSUME i + 1 \in 1..n PROVE Good(i + 1)
    <3>1. i \in Nat /\ (i \in 1..n => \A k \in 1..i : Good(k))
      OBVIOUS
    <3> HIDE DEF Good
    <3>2. ASSUME i + 1 \in 1..n, Good(i + 1), NEW k \in 1..i + 1 PROVE Good(k)
      <4>1. k = i + 1 \/ (k \in 1..i /\ i \in 1..n)
        BY <1>1, <3>1, <3>2
      <4> QED
        BY <3>1, <3>2, <4>1
    <3> QED
      BY <3>1, <3>2
  <2>1. CASE i = 0
    <3>1. P(i + 1) \in Texts /\ \A k \in 1..i + 1 : k = i + 1
      BY <1>1, <1>4, <2>1
    <3>2. Len(P(i + 1)) \in Nat
      BY <3>1 DEF Texts
    <3> QED
      BY <3>1, <3>2
  <2>2. CASE i # 0
    <3>1. i \in Nat /\ i \in 1..n /\ i + 1 \in 2..n /\ (i + 1) - 1 = i
      BY <1>1, <2>2
    <3>2. P(i + 1) = P(i) \o Q(i + 1) /\ Q(i + 1) \in Texts
      BY <1>1, <1>4, <3>1
    <3>3. Good(i)
      BY <3>1
    <3> HIDE DEF T
    <3>4. /\ P(i + 1) \in Texts /\ Len(P(i)) <= Len(P(i + 1))
          /\ \A j \in 1..Len(P(i)) : P(i + 1)[j] = P(i)[j]
      <4>1. P(i) \in Texts
        BY <3>3
      <4> HIDE DEF Good
      <4> DEFINE c == P(i + 1)
                 b == Q(i + 1)
      <4>2. b \in Texts /\ Joined(c, P(i), b)
        BY <3>2 DEF Joined
      <4> HIDE DEF c, b
      <4>3. /\ c \in Texts /\ Len(P(i)) \in Nat /\ Len(b) \in Nat /\ Len(c) = Len(P(i)) + Len(b)
            /\ \A j \in 1..Len(P(i)) : c[j] = P(i)[j]
        BY <4>1, <4>2, Concatenated
      <4>4. c \in Texts /\ Len(P(i)) <= Len(c) /\ \A j \in 1..Len(P(i)) : c[j] = P(i)[j]
        BY <4>3
      <4> QED
        BY <4>4 DEF c
    <3>5. ASSUME NEW k \in 1..i + 1
          PROVE  Len(P(k)) <= Len(P(i + 1)) /\ \A j \in 1..Len(P(k)) : P(i + 1)[j] = P(k)[j]
      <4>1. CASE k = i + 1
        BY <3>4, <4>1 DEF Texts
      <4>2. CASE k # i + 1
        <5>1. k \in 1..i
          BY <4>2, <3>1
        <5>2. P(k) \in Texts
          BY <5>1, <1>6, <3>1 DEF T
        <5>3. Len(P(k)) \in Nat /\ Len(P(i)) \in Nat /\ Len(P(i + 1)) \in Nat
          BY <5>2, <3>3, <3>4 DEF Texts
        <5> QED
          BY <3>3, <3>4, <5>1, <5>3
      <4> QED
        BY <4>1, <4>2
    <3> QED
      BY <3>4, <3>5
  <2> QED
    BY <2>1, <2>2
<1>7. \A i \in 1..n : Good(i)
  <2>1. T \in SUBSET Nat
    OBVIOUS
  <2> HIDE DEF T
  <2>2. Nat \subseteq T
    BY <2>1, <1>5, <1>6, Induction
  <2> QED
    BY <2>2, <1>1 DEF T
<1> DEFINE off == [i \in 0..n |-> IF i = 0 THEN 0 ELSE Len(P(i))]
<1> HIDE DEF T
<1>8. off \in [0..n -> Nat] /\ off[0] = 0 /\ off[n] = Len(P(n))
  BY <1>1, <1>7 DEF Texts
<1>9. ASSUME NEW i \in 1..n
      PROVE  /\ off[i] = off[i - 1] + Len(Q(i)) /\ off[i] <= Len(P(n))
             /\ \A j \in 1..Len(Q(i)) : P(n)[off[i - 1] + j] = Q(i)[j]
  <2>1. off[i] = Len(P(i)) /\ P(i) \in Texts /\ Q(i) \in Texts /\ n \in 1..n
    BY <1>1, <1>7
  <2>2. Len(P(i)) <= Len(P(n)) /\ \A j \in 1..Len(P(i)) : P(n)[j] = P(i)[j]
    BY <1>7, <2>1
  <2>3. CASE i = 1
    <3>1. off[i - 1] = 0
      BY <1>1, <2>3
    <3>2. P(i) = Q(i) /\ Len(Q(i)) \in Nat
      BY <1>4, <2>1, <2>3 DEF Texts
    <3> HIDE DEF off
    <3> QED
      BY <2>1, <2>2, <3>1, <3>2
  <2>4. CASE i # 1
    <3>1. i - 1 \in 1..n /\ i \in 2..n
      BY <1>1, <2>4
    <3>2. off[i - 1] = Len(P(i - 1)) /\ P(i - 1) \in Texts /\ Joined(P(i), P(i - 1), Q(i))
      BY <3>1, <1>1, <1>4, <1>7 DEF Joined
    <3> HIDE DEF off
    <3>3. /\ Len(P(i)) = Len(P(i - 1)) + Len(Q(i)) /\ Len(Q(i)) \in Nat /\ Len(P(i - 1)) \in Nat
          /\ \A j \in 1..Len(Q(i)) : P(i)[Len(P(i - 1)) + j] = Q(i)[j]
      BY <2>1, <3>2, Concatenated
    <3>4. off[i] = off[i - 1] + Len(Q(i)) /\ off[i] <= Len(P(n))
      BY <2>1, <2>2, <3>2, <3>3
    <3>5. ASSUME NEW j \in 1..Len(Q(i)) PROVE P(n)[off[i - 1] + j] = Q(i)[j]
      <4>1. off[i - 1] + j \in 1..Len(P(i))
        BY <3>2, <3>3
      <4>2. P(i)[off[i - 1] + j] = Q(i)[j]
        BY <3>2, <3>3
      <4> QED
        BY <2>2, <4>1, <4>2
    <3> QED
      BY <3>4, <3>5
  <2> QED
    BY <2>3, <2>4
<1> HIDE DEF off
<1>10. P(n) \in Texts
  BY <1>1, <1>7
<1>11. Flat(q, P(n), off)
  BY <1>8, <1>9, <1>10 DEF Flat, Q, n
<1> QED
  BY <1>2, <1>11

LEMMA Flattened ==
  ASSUME NEW q \in Seq(Texts)
  PROVE  \E off : Flat(q, FlattenSeq(q), off)
<1>1. CASE q = <<>>
  <2> DEFINE f == <<>>
             off == [i \in 0..0 |-> 0]
  <2>1. FlattenSeq(q) = f /\ Len(q) = 0 /\ f \in Texts /\ Len(f) = 0
    BY <1>1 DEF FlattenSeq, Texts
  <2>2. off \in [0..Len(q) -> Nat] /\ off[0] = 0 /\ off[Len(q)] = 0
    BY <2>1
  <2> HIDE DEF f, off
  <2>3. Flat(q, f, off)
    BY <2>1, <2>2 DEF Flat
  <2> QED
    BY <2>1, <2>3
<1> QED
  BY <1>1, FlattenedParts

\* The loops of splitSQLValues and of Unescaped.
ScanState(start, depth, inStr, skip, values) ==
  [start |-> start, depth |-> depth, inStr |-> inStr, skip |-> skip, values |-> values]

ByteLoop(kind, s, v, i) == IF kind = "scan" THEN ScanByte(s, v, i) ELSE UnescapeByte(s, v, i)
Begin(kind) == IF kind = "scan" THEN Outside(1, <<>>) ELSE [text |-> <<>>, skip |-> FALSE]
BytesUpTo(g, kind, s, m) ==
  g = [i \in 0..m |-> IF i = 0 THEN Begin(kind) ELSE ByteLoop(kind, s, g[i - 1], i)]

LEMMA BytesExist ==
  ASSUME NEW kind, NEW s, NEW m \in Nat
  PROVE  \E g : BytesUpTo(g, kind, s, m)
<1> USE DEF BytesUpTo
<1> DEFINE Fn(g, k) == BytesUpTo(g, kind, s, k)
           T == {k \in Nat : \E g : Fn(g, k)}
<1>1. 0 \in T
  <2> DEFINE g == [n \in 0..0 |-> Begin(kind)]
  <2>1. Fn(g, 0)
    OBVIOUS
  <2> HIDE DEF g, Fn
  <2> QED
    BY <2>1
<1>2. ASSUME NEW k \in T PROVE k + 1 \in T
  <2>1. PICK g : Fn(g, k)
    OBVIOUS
  <2> DEFINE h == [n \in 0..k + 1 |-> IF n = k + 1 THEN ByteLoop(kind, s, g[k], k + 1) ELSE g[n]]
  <2>2. ASSUME NEW n \in 0..k + 1
        PROVE  h[n] = IF n = 0 THEN Begin(kind) ELSE ByteLoop(kind, s, h[n - 1], n)
    <3>1. CASE n = k + 1
      BY <3>1
    <3>2. CASE n # k + 1
      <4>1. n \in 0..k /\ h[n] = g[n] /\ (n # 0 => n - 1 \in 0..k + 1 /\ h[n - 1] = g[n - 1])
        BY <3>2
      <4>2. g[n] = IF n = 0 THEN Begin(kind) ELSE ByteLoop(kind, s, g[n - 1], n)
        BY <2>1, <4>1
      <4> QED
        BY <4>1, <4>2
    <3> QED
      BY <3>1, <3>2
  <2>3. Fn(h, k + 1)
    BY <2>2
  <2> HIDE DEF h, Fn
  <2> QED
    BY <2>3
<1> HIDE DEF T
<1>3. Nat \subseteq T
  <2>1. T \in SUBSET Nat
    BY DEF T
  <2> QED
    BY <2>1, <1>1, <1>2, Induction
<1> QED
  BY <1>3 DEF T

\* g is what the loop has made of each prefix of s.
Loops(g, kind, s) ==
  /\ s \in Texts /\ DOMAIN g = 0..Len(s)
  /\ g[0] = Begin(kind)
  /\ \A i \in 1..Len(s) : g[i] = ByteLoop(kind, s, g[i - 1], i)

LEMMA LoopsRun ==
  ASSUME NEW kind, NEW s \in Texts, NEW g, BytesUpTo(g, kind, s, Len(s))
  PROVE  Loops(g, kind, s)
<1>1. Len(s) \in Nat
  BY DEF Texts
<1> QED
  BY <1>1 DEF BytesUpTo, Loops

LEMMA SplitLoops ==
  ASSUME NEW s \in Texts
  PROVE  \E g : /\ Loops(g, "scan", s)
                /\ splitSQLValues(s) = Append(g[Len(s)].values, TrimSpace(SubSeq(s, g[Len(s)].start, Len(s))))
<1> DEFINE g == CHOOSE g : BytesUpTo(g, "scan", s, Len(s))
<1>1. Len(s) \in Nat
  BY DEF Texts
<1>2. splitSQLValues(s) = Append(g[Len(s)].values, TrimSpace(SubSeq(s, g[Len(s)].start, Len(s))))
  BY DEF splitSQLValues, BytesUpTo, ByteLoop, Begin, Outside, ScanState
<1>3. BytesUpTo(g, "scan", s, Len(s))
  BY <1>1, BytesExist
<1> HIDE DEF g
<1>4. Loops(g, "scan", s)
  BY <1>3, LoopsRun
<1> QED
  BY <1>2, <1>4

LEMMA UnescapeLoops ==
  ASSUME NEW s \in Texts
  PROVE  \E g : Loops(g, "unescape", s) /\ Unescaped(s) = g[Len(s)].text
<1> DEFINE g == CHOOSE g : BytesUpTo(g, "unescape", s, Len(s))
<1>1. Len(s) \in Nat
  BY DEF Texts
<1>2. Unescaped(s) = g[Len(s)].text
  BY DEF Unescaped, BytesUpTo, ByteLoop, Begin
<1>3. BytesUpTo(g, "unescape", s, Len(s))
  BY <1>1, BytesExist
<1> HIDE DEF g
<1>4. Loops(g, "unescape", s)
  BY <1>3, LoopsRun
<1> QED
  BY <1>2, <1>4

\* The bytes of l are those of s after the a-th.
Here(l, s, a) ==
  /\ a \in Nat /\ l \in Texts /\ s \in Texts /\ a + Len(l) <= Len(s)
  /\ \A j \in 1..Len(l) : s[a + j] = l[j]

LEMMA HereNumbers ==
  ASSUME NEW l, NEW s, NEW a, Here(l, s, a)
  PROVE  Len(l) \in Nat /\ Len(s) \in Nat /\ a \in Nat /\ a + Len(l) <= Len(s)
<1>1. a \in Nat /\ l \in Texts /\ s \in Texts /\ a + Len(l) <= Len(s)
  BY DEF Here
<1> QED
  BY <1>1 DEF Texts

LEMMA ScanUpdates ==
  ASSUME NEW start, NEW d, NEW inStr, NEW skip, NEW values, NEW v, v = ScanState(start, d, inStr, skip, values), NEW x
  PROVE  /\ [v EXCEPT !.inStr = x] = ScanState(start, d, x, skip, values)
         /\ [v EXCEPT !.skip = x] = ScanState(start, d, inStr, x, values)
         /\ [v EXCEPT !.depth = x] = ScanState(start, x, inStr, skip, values)
<1>1. [v EXCEPT !.inStr = x] = ScanState(start, d, x, skip, values)
  BY DEF ScanState
<1>2. [v EXCEPT !.skip = x] = ScanState(start, d, inStr, x, values)
  BY DEF ScanState
<1>3. [v EXCEPT !.depth = x] = ScanState(start, x, inStr, skip, values)
  BY DEF ScanState
<1> QED
  BY <1>1, <1>2, <1>3

\* The loop outside of strings, in a string, and between two quotes.
Within(start, d, values) == ScanState(start, d, FALSE, FALSE, values)
Inside(start, d, values) == ScanState(start, d, TRUE, FALSE, values)
Skipping(start, d, values) == ScanState(start, d, TRUE, TRUE, values)
Doubled(s, i) == i < Len(s) /\ s[i + 1] = "'"

\* A byte that separates nothing, and the values after a comma.
Distinct == /\ Comma \notin {"'", "(", ")", Blank}
            /\ Blank \notin {"'", "(", ")", Comma}
Plain(c) == c \notin {"'", "(", ")", Comma}
More(s, values, start, i) == Append(values, TrimSpace(SubSeq(s, start, i - 1)))

LEMMA OutsideWithin == \A start, values : Outside(start, values) = Within(start, 0, values)
BY DEF Outside, Within, ScanState

LEMMA DistinctLetters == Distinct
BY Zenon DEF Distinct, Comma, Blank

LEMMA ScanSteps ==
  ASSUME NEW s, NEW i, NEW start, NEW d \in Int, NEW values
  PROVE  /\ Plain(s[i]) => ScanByte(s, Within(start, d, values), i) = Within(start, d, values)
         /\ s[i] # "'" => ScanByte(s, Inside(start, d, values), i) = Inside(start, d, values)
         /\ s[i] = "'" => ScanByte(s, Within(start, d, values), i) = Inside(start, d, values)
         /\ s[i] = "'" /\ ~Doubled(s, i) => ScanByte(s, Inside(start, d, values), i) = Within(start, d, values)
         /\ s[i] = "'" /\ Doubled(s, i) => ScanByte(s, Inside(start, d, values), i) = Skipping(start, d, values)
         /\ ScanByte(s, Skipping(start, d, values), i) = Inside(start, d, values)
         /\ s[i] = "(" => ScanByte(s, Within(start, d, values), i) = Within(start, d + 1, values)
         /\ s[i] = ")" => ScanByte(s, Within(start, d, values), i) = Within(start, d - 1, values)
         /\ s[i] = Comma /\ d = 0 =>
              ScanByte(s, Within(start, d, values), i) = Within(i + 1, 0, More(s, values, start, i))
<1> DEFINE yes == TRUE
           no == FALSE
           out == ScanState(start, d, no, no, values)
           in == ScanState(start, d, yes, no, values)
           skipping == ScanState(start, d, yes, yes, values)
           doubled == Doubled(s, i)
           Trimmed(v) == TrimSpace(SubSeq(s, v.start, i - 1))
           opened == ScanState(start, d + 1, no, no, values)
           closed == ScanState(start, d - 1, no, no, values)
           next == Outside(i + 1, Append(values, Trimmed(out)))
<1>1. \A v : ScanByte(s, v, i) =
        CASE v.skip -> [v EXCEPT !.skip = no]
          [] ~v.skip /\ v.inStr /\ s[i] = "'" /\ doubled -> [v EXCEPT !.skip = yes]
          [] ~v.skip /\ v.inStr /\ s[i] = "'" /\ ~doubled -> [v EXCEPT !.inStr = no]
          [] ~v.skip /\ ~v.inStr /\ s[i] = "'" -> [v EXCEPT !.inStr = yes]
          [] ~v.skip /\ ~v.inStr /\ s[i] = "(" -> [v EXCEPT !.depth = @ + 1]
          [] ~v.skip /\ ~v.inStr /\ s[i] = ")" -> [v EXCEPT !.depth = @ - 1]
          [] ~v.skip /\ ~v.inStr /\ s[i] = Comma /\ v.depth = 0 -> Outside(i + 1, Append(v.values, Trimmed(v)))
          [] OTHER -> v
  BY DEF ScanByte, Doubled
<1> HIDE DEF Trimmed, doubled
<1>2. /\ out.skip = FALSE /\ out.inStr = FALSE /\ out.depth = d
      /\ in.skip = FALSE /\ in.inStr = TRUE
      /\ skipping.skip = TRUE
  BY DEF ScanState
<1> HIDE DEF yes, no
<1>3. [out EXCEPT !.inStr = yes] = in
  BY DEF ScanState
<1>4. [in EXCEPT !.inStr = no] = out
  BY ScanUpdates
<1>5. [in EXCEPT !.skip = yes] = skipping
  BY ScanUpdates
<1>6. [skipping EXCEPT !.skip = no] = in
  BY ScanUpdates
<1>7. [out EXCEPT !.depth = @ + 1] = opened
  <2> DEFINE x == out.depth + 1
  <2>1. x = d + 1
    BY <1>2
  <2> HIDE DEF x
  <2>2. [out EXCEPT !.depth = x] = ScanState(start, x, no, no, values)
    BY DEF ScanState
  <2> QED
    BY <2>1, <2>2, Zenon DEF x
<1>8. [out EXCEPT !.depth = @ - 1] = closed
  <2> DEFINE x == out.depth - 1
  <2>1. x = d - 1
    BY <1>2
  <2> HIDE DEF x
  <2>2. [out EXCEPT !.depth = x] = ScanState(start, x, no, no, values)
    BY DEF ScanState
  <2> QED
    BY <2>1, <2>2, Zenon DEF x
<1>9. Outside(i + 1, Append(out.values, Trimmed(out))) = next
  BY DEF ScanState
<1> HIDE DEF in, out, skipping, opened, closed, next
<1>10. /\ Plain(s[i]) => ScanByte(s, out, i) = out
       /\ s[i] # "'" => ScanByte(s, in, i) = in
       /\ s[i] = "'" => ScanByte(s, out, i) = in
       /\ s[i] = "'" /\ ~doubled => ScanByte(s, in, i) = out
       /\ s[i] = "'" /\ doubled => ScanByte(s, in, i) = skipping
       /\ ScanByte(s, skipping, i) = in
       /\ s[i] = "(" => ScanByte(s, out, i) = opened
       /\ s[i] = ")" => ScanByte(s, out, i) = closed
       /\ s[i] = Comma /\ d = 0 => ScanByte(s, out, i) = next
  <2>1. Plain(s[i]) => ScanByte(s, out, i) = out
    BY DistinctLetters, <1>1, <1>2 DEF Plain, Distinct
  <2>2. s[i] # "'" => ScanByte(s, in, i) = in
    BY DistinctLetters, <1>1, <1>2 DEF Distinct
  <2>3. s[i] = "'" => ScanByte(s, out, i) = in
    BY DistinctLetters, <1>1, <1>2, <1>3 DEF Distinct
  <2>4. s[i] = "'" /\ ~doubled => ScanByte(s, in, i) = out
    BY DistinctLetters, <1>1, <1>2, <1>4 DEF Distinct
  <2>5. s[i] = "'" /\ doubled => ScanByte(s, in, i) = skipping
    BY DistinctLetters, <1>1, <1>2, <1>5 DEF Distinct
  <2>6. ScanByte(s, skipping, i) = in
    BY DistinctLetters, <1>1, <1>2, <1>6 DEF Distinct
  <2>7. s[i] = "(" => ScanByte(s, out, i) = opened
    BY DistinctLetters, <1>1, <1>2, <1>7 DEF Distinct
  <2>8. s[i] = ")" => ScanByte(s, out, i) = closed
    BY DistinctLetters, <1>1, <1>2, <1>8 DEF Distinct
  <2>9. s[i] = Comma /\ d = 0 => ScanByte(s, out, i) = next
    BY DistinctLetters, <1>1, <1>2, <1>9 DEF Distinct
  <2> QED
    BY <2>1, <2>2, <2>3, <2>4, <2>5, <2>6, <2>7, <2>8, <2>9
<1>11. Trimmed(out) = TrimSpace(SubSeq(s, start, i - 1))
  BY DEF Trimmed, ScanState, out
<1>12. next = Within(i + 1, 0, More(s, values, start, i))
  BY <1>11, OutsideWithin DEF next, More
<1> QED
  BY <1>10, <1>12 DEF doubled, in, out, skipping, opened, closed, yes, no, Within, Inside, Skipping

\* The same, step by step.
LEMMA OtherByte ==
  ASSUME NEW s, NEW i, NEW start, NEW d \in Int, NEW values, Plain(s[i])
  PROVE  ScanByte(s, Within(start, d, values), i) = Within(start, d, values)
BY ScanSteps

LEMMA StringByte ==
  ASSUME NEW s, NEW i, NEW start, NEW d \in Int, NEW values, s[i] # "'"
  PROVE  ScanByte(s, Inside(start, d, values), i) = Inside(start, d, values)
BY ScanSteps

LEMMA OpeningQuote ==
  ASSUME NEW s, NEW i, NEW start, NEW d \in Int, NEW values, s[i] = "'"
  PROVE  ScanByte(s, Within(start, d, values), i) = Inside(start, d, values)
BY ScanSteps

LEMMA ClosingQuote ==
  ASSUME NEW s, NEW i, NEW start, NEW d \in Int, NEW values, s[i] = "'", ~Doubled(s, i)
  PROVE  ScanByte(s, Inside(start, d, values), i) = Within(start, d, values)
BY ScanSteps

LEMMA DoubledQuote ==
  ASSUME NEW s, NEW i, NEW start, NEW d \in Int, NEW values, s[i] = "'", Doubled(s, i)
  PROVE  ScanByte(s, Inside(start, d, values), i) = Skipping(start, d, values)
BY ScanSteps

LEMMA SkippedQuote ==
  ASSUME NEW s, NEW i, NEW start, NEW d \in Int, NEW values
  PROVE  ScanByte(s, Skipping(start, d, values), i) = Inside(start, d, values)
BY ScanSteps

LEMMA OpeningParenthesis ==
  ASSUME NEW s, NEW i, NEW start, NEW d \in Int, NEW values, s[i] = "("
  PROVE  ScanByte(s, Within(start, d, values), i) = Within(start, d + 1, values)
BY ScanSteps

LEMMA ClosingParenthesis ==
  ASSUME NEW s, NEW i, NEW start, NEW d \in Int, NEW values, s[i] = ")"
  PROVE  ScanByte(s, Within(start, d, values), i) = Within(start, d - 1, values)
BY ScanSteps

LEMMA SeparatingComma ==
  ASSUME NEW s, NEW i, NEW start, NEW values, s[i] = Comma
  PROVE  ScanByte(s, Within(start, 0, values), i)
           = Within(i + 1, 0, More(s, values, start, i))
<1>1. 0 \in Int
  OBVIOUS
<1> QED
  BY <1>1, ScanSteps

\* A stretch that does not move the loop.
Unmoved(kind, s, v, a, n) == \A i \in a + 1..a + n : ByteLoop(kind, s, v, i) = v

LEMMA Still ==
  ASSUME NEW kind, NEW s, NEW g, Loops(g, kind, s), NEW a \in Nat, NEW n \in Nat, a + n <= Len(s),
         NEW v, g[a] = v, Unmoved(kind, s, v, a, n)
  PROVE  g[a + n] = v
<1> DEFINE G(i) == g[i]
           B(i) == ByteLoop(kind, s, v, i)
           T == {m \in Nat : m <= n => G(a + m) = v}
<1>1. \A i \in a + 1..a + n : B(i) = v /\ (G(i - 1) = v => G(i) = B(i))
  BY DEF Loops, Texts, Unmoved
<1>2. 0 \in T
  <2>1. a + 0 = a
    OBVIOUS
  <2> QED
    BY <2>1
<1> HIDE DEF G, B
<1>3. ASSUME NEW m \in T PROVE m + 1 \in T
  <2> SUFFICES ASSUME m + 1 <= n PROVE G(a + (m + 1)) = v
    OBVIOUS
  <2>1. G(a + m) = v
    OBVIOUS
  <2>2. a + (m + 1) \in a + 1..a + n /\ (a + (m + 1)) - 1 = a + m
    OBVIOUS
  <2> QED
    BY <1>1, <2>1, <2>2
<1>4. n \in T
  <2>1. T \in SUBSET Nat
    OBVIOUS
  <2> HIDE DEF T
  <2> QED
    BY <2>1, <1>2, <1>3, Induction
<1> QED
  BY <1>4 DEF G

LEMMA HereParts ==
  ASSUME NEW x \in Texts, NEW y \in Texts, NEW c, Joined(c, x, y), NEW s, NEW a, Here(c, s, a)
  PROVE  /\ Here(x, s, a) /\ Here(y, s, a + Len(x))
         /\ Len(x) \in Nat /\ Len(y) \in Nat /\ Len(c) = Len(x) + Len(y)
<1>1. /\ c \in Texts /\ Len(x) \in Nat /\ Len(y) \in Nat /\ Len(c) = Len(x) + Len(y)
      /\ \A j \in 1..Len(x) : c[j] = x[j]
      /\ \A j \in 1..Len(y) : c[Len(x) + j] = y[j]
  BY Concatenated
<1>2. s \in Texts /\ a \in Nat /\ a + Len(c) <= Len(s) /\ \A j \in 1..Len(c) : s[a + j] = c[j]
  BY DEF Here
<1>3. a + Len(x) <= Len(s) /\ a + Len(x) + Len(y) <= Len(s)
  BY <1>1, <1>2 DEF Texts
<1>4. ASSUME NEW j \in 1..Len(x) PROVE s[a + j] = x[j]
  <2>1. j \in 1..Len(c)
    BY <1>1
  <2> QED
    BY <1>1, <1>2, <2>1
<1>5. ASSUME NEW j \in 1..Len(y) PROVE s[(a + Len(x)) + j] = y[j]
  <2>1. Len(x) + j \in 1..Len(c) /\ a + (Len(x) + j) = (a + Len(x)) + j
    BY <1>1, <1>2
  <2>2. s[a + (Len(x) + j)] = c[Len(x) + j]
    BY <1>2, <2>1
  <2> QED
    BY <1>1, <2>1, <2>2
<1> QED
  BY <1>1, <1>2, <1>3, <1>4, <1>5 DEF Here

\* Scanning a byte, in the words of Loops.
LEMMA ScanStep ==
  ASSUME NEW s, NEW g, Loops(g, "scan", s), NEW i \in 1..Len(s)
  PROVE  g[i] = ScanByte(s, g[i - 1], i)
BY DEF Loops, ByteLoop

\* Bytes that are neither quotes, parentheses nor commas, and bytes of a string.
LEMMA PlainRun ==
  ASSUME NEW s, NEW g, Loops(g, "scan", s), NEW l, NEW a, Here(l, s, a), NEW start, NEW d \in Int, NEW values,
         g[a] = Within(start, d, values), \A j \in 1..Len(l) : Plain(l[j])
  PROVE  g[a + Len(l)] = Within(start, d, values)
<1> DEFINE v == Within(start, d, values)
           n == Len(l)
<1>1. n \in Nat /\ a \in Nat /\ a + n <= Len(s)
  BY HereNumbers
<1>2. \A j \in 1..n : s[a + j] = l[j]
  BY DEF Here
<1> HIDE DEF v, n
<1>3. ASSUME NEW i \in a + 1..a + n PROVE ByteLoop("scan", s, v, i) = v
  <2>1. i - a \in 1..n /\ a + (i - a) = i
    BY <1>1
  <2>2. s[i] = l[i - a]
    BY <1>2, <2>1
  <2>3. Plain(s[i])
    BY <2>1, <2>2 DEF n
  <2> QED
    BY <2>3, OtherByte DEF ByteLoop, v
<1>4. g[a] = v /\ Unmoved("scan", s, v, a, n)
  BY <1>3 DEF v, Unmoved
<1>5. g[a + n] = v
  BY <1>1, <1>4, Still
<1> QED
  BY <1>5 DEF v, n

LEMMA StringRun ==
  ASSUME NEW s, NEW g, Loops(g, "scan", s), NEW l, NEW a, Here(l, s, a), NEW start, NEW d \in Int, NEW values,
         g[a] = Inside(start, d, values), \A j \in 1..Len(l) : l[j] # "'"
  PROVE  g[a + Len(l)] = Inside(start, d, values)
<1> DEFINE v == Inside(start, d, values)
           n == Len(l)
<1>1. n \in Nat /\ a \in Nat /\ a + n <= Len(s)
  BY HereNumbers
<1>2. \A j \in 1..n : s[a + j] = l[j]
  BY DEF Here
<1> HIDE DEF v, n
<1>3. ASSUME NEW i \in a + 1..a + n PROVE ByteLoop("scan", s, v, i) = v
  <2>1. i - a \in 1..n /\ a + (i - a) = i
    BY <1>1
  <2>2. s[i] = l[i - a]
    BY <1>2, <2>1
  <2>3. s[i] # "'"
    BY <2>1, <2>2 DEF n
  <2> QED
    BY <2>3, StringByte DEF ByteLoop, v
<1>4. g[a] = v /\ Unmoved("scan", s, v, a, n)
  BY <1>3 DEF v, Unmoved
<1>5. g[a + n] = v
  BY <1>1, <1>4, Still
<1> QED
  BY <1>5 DEF v, n

\* What Escaped puts for a character.
Escape(x) == x = <<"'", "'">> \/ \E c : c # "'" /\ x = <<c>>

LEMMA TwoMore ==
  ASSUME NEW a \in Nat, NEW o \in Nat, NEW l \in Nat, NEW n \in Nat, a + l <= n, NEW b, b = o + 2, b <= l
  PROVE  /\ a + (o + 1) = (a + o) + 1 /\ a + (o + 2) = (a + o) + 2 /\ a + b = (a + o) + 2
         /\ ((a + o) + 1) + 1 = (a + o) + 2 /\ (a + o) + 1 \in 1..n /\ (a + o) + 2 \in 1..n
         /\ (a + o) + 1 < n /\ ((a + o) + 1) - 1 = a + o /\ ((a + o) + 2) - 1 = (a + o) + 1
OBVIOUS

LEMMA OneMore ==
  ASSUME NEW a \in Nat, NEW o \in Nat, NEW l \in Nat, NEW n \in Nat, a + l <= n, NEW b, b = o + 1, b <= l
  PROVE  /\ a + (o + 1) = (a + o) + 1 /\ a + b = (a + o) + 1
         /\ (a + o) + 1 \in 1..n /\ ((a + o) + 1) - 1 = a + o
OBVIOUS

LEMMA EscapedRun ==
  ASSUME NEW s, NEW g, Loops(g, "scan", s), NEW l, NEW a, Here(l, s, a), NEW start, NEW d \in Int, NEW values,
         g[a] = Inside(start, d, values),
         NEW q \in Seq(Texts), NEW off, Flat(q, l, off), \A i \in 1..Len(q) : Escape(q[i])
  PROVE  g[a + Len(l)] = Inside(start, d, values)
<1> DEFINE n == Len(q)
           G(i) == g[i]
           O(i) == off[i]
           Q(i) == q[i]
           T == {m \in Nat : m <= n => G(a + O(m)) = Inside(start, d, values)}
<1>1. /\ n \in Nat /\ a \in Nat /\ Len(s) \in Nat /\ Len(l) \in Nat /\ a + Len(l) <= Len(s)
      /\ O(0) = 0 /\ O(n) = Len(l) /\ \A i \in 0..n : O(i) \in Nat
  <2>1. n \in Nat
    OBVIOUS
  <2>2. O(0) = 0 /\ O(n) = Len(l) /\ \A i \in 0..n : O(i) \in Nat
    BY DEF Flat
  <2> HIDE DEF n, O
  <2> QED
    BY <2>1, <2>2, HereNumbers
<1>2. \A i \in 1..n : /\ O(i) = O(i - 1) + Len(Q(i)) /\ O(i) <= Len(l) /\ Escape(Q(i))
                      /\ \A j \in 1..Len(Q(i)) : l[O(i - 1) + j] = Q(i)[j]
  BY DEF Flat
<1>3. \A j \in 1..Len(l) : s[a + j] = l[j]
  BY DEF Here
<1>4. \A i \in 1..Len(s) : G(i) = ScanByte(s, G(i - 1), i)
  BY ScanStep
<1>5. G(a) = Inside(start, d, values)
  OBVIOUS
<1> HIDE DEF n, G, O, Q
<1>6. 0 \in T
  <2>1. a + O(0) = a
    BY <1>1
  <2> QED
    BY <1>5, <2>1
<1>7. ASSUME NEW m \in T PROVE m + 1 \in T
  <2> SUFFICES ASSUME m + 1 <= n PROVE G(a + O(m + 1)) = Inside(start, d, values)
    OBVIOUS
  <2>1. m \in Nat /\ G(a + O(m)) = Inside(start, d, values)
    BY <1>1
  <2> DEFINE p == a + O(m)
             x == Q(m + 1)
             o == O(m + 1)
  <2> HIDE DEF T
  <2>2. m + 1 \in 1..n /\ (m + 1) - 1 = m /\ m \in 0..n
    BY <1>1, <2>1
  <2>3. /\ o = O(m) + Len(x) /\ o <= Len(l) /\ Escape(x) /\ O(m) \in Nat
        /\ \A j \in 1..Len(x) : l[O(m) + j] = x[j]
    BY <1>1, <1>2, <2>2
  <2>4. p \in Nat
    BY <1>1, <2>3
  <2> HIDE DEF x, o
  <2>5. CASE x = <<"'", "'">>
    <3>1. Len(x) = 2 /\ x[1] = "'" /\ x[2] = "'"
      BY <2>5
    <3>2. o = O(m) + 2 /\ O(m) + 1 \in 1..Len(l) /\ O(m) + 2 \in 1..Len(l)
      BY <1>1, <2>3, <3>1
    <3>3. l[O(m) + 1] = "'" /\ l[O(m) + 2] = "'"
      BY <2>3, <3>1
    <3>4. s[a + (O(m) + 1)] = "'" /\ s[a + (O(m) + 2)] = "'"
      BY <1>3, <3>2, <3>3
    <3>5. /\ a + (O(m) + 1) = p + 1 /\ a + (O(m) + 2) = p + 2 /\ a + o = p + 2 /\ (p + 1) + 1 = p + 2
          /\ p + 1 \in 1..Len(s) /\ p + 2 \in 1..Len(s) /\ p + 1 < Len(s)
          /\ (p + 1) - 1 = p /\ (p + 2) - 1 = p + 1
      <4>1. /\ a \in Nat /\ O(m) \in Nat /\ Len(l) \in Nat /\ Len(s) \in Nat
            /\ a + Len(l) <= Len(s) /\ o = O(m) + 2 /\ o <= Len(l)
        BY <1>1, <2>3, <3>2
      <4> QED
        BY <4>1, TwoMore, SMTT(60)
    <3> HIDE DEF p
    <3>6. G(p + 1) = Skipping(start, d, values)
      <4>1. G(p + 1) = ScanByte(s, Inside(start, d, values), p + 1)
        BY <1>4, <2>1, <3>5 DEF p
      <4>2. s[p + 1] = "'" /\ Doubled(s, p + 1)
        BY <3>4, <3>5 DEF Doubled
      <4> QED
        BY <4>1, <4>2, DoubledQuote
    <3>7. G(p + 2) = Inside(start, d, values)
      <4>1. G(p + 2) = ScanByte(s, Skipping(start, d, values), p + 2)
        BY <1>4, <3>5, <3>6
      <4> QED
        BY <4>1, SkippedQuote
    <3> QED
      BY <3>5, <3>7 DEF o
  <2>6. CASE \E c : c # "'" /\ x = <<c>>
    <3>1. Len(x) = 1 /\ x[1] # "'"
      BY <2>6
    <3>2. o = O(m) + 1 /\ O(m) + 1 \in 1..Len(l)
      BY <1>1, <2>3, <3>1
    <3>3. l[O(m) + 1] # "'"
      BY <2>3, <3>1
    <3>4. s[a + (O(m) + 1)] # "'"
      BY <1>3, <3>2, <3>3
    <3>5. a + (O(m) + 1) = p + 1 /\ a + o = p + 1 /\ p + 1 \in 1..Len(s) /\ (p + 1) - 1 = p
      <4>1. /\ a \in Nat /\ O(m) \in Nat /\ Len(l) \in Nat /\ Len(s) \in Nat
            /\ a + Len(l) <= Len(s) /\ o = O(m) + 1 /\ o <= Len(l)
        BY <1>1, <2>3, <3>2
      <4> QED
        BY <4>1, OneMore, Zenon
    <3> HIDE DEF p
    <3>6. G(p + 1) = ScanByte(s, Inside(start, d, values), p + 1)
      BY <1>4, <2>1, <3>5 DEF p
    <3>7. G(p + 1) = Inside(start, d, values)
      <4>1. s[p + 1] # "'"
        BY <3>4, <3>5
      <4> QED
        BY <3>6, <4>1, StringByte
    <3> QED
      BY <3>5, <3>7 DEF o
  <2> QED
    BY <2>3, <2>5, <2>6 DEF Escape
<1>8. n \in T
  <2>1. T \in SUBSET Nat
    OBVIOUS
  <2> HIDE DEF T
  <2> QED
    BY <1>1, <2>1, <1>6, <1>7, Induction
<1>9. n <= n => G(a + O(n)) = Inside(start, d, values)
  BY <1>8
<1>10. n <= n /\ O(n) = Len(l)
  BY <1>1
<1> HIDE DEF n, T
<1> QED
  BY <1>9, <1>10 DEF G


LEMMA JoinedLength ==
  ASSUME NEW s \in Texts, NEW t \in Texts, NEW c, Joined(c, s, t)
  PROVE  c \in Texts /\ Len(s) \in Nat /\ Len(t) \in Nat /\ Len(c) = Len(s) + Len(t)
BY Concatenated

\* What stands between a head and a tail.
Framed(c, x, m, y) ==
  /\ c \in Texts /\ Len(x) \in Nat /\ Len(m) \in Nat /\ Len(y) \in Nat
  /\ Len(c) = Len(x) + Len(m) + Len(y)
  /\ SubSeq(c, Len(x) + 1, Len(c) - Len(y)) = m
  /\ \A j \in 1..Len(x) : c[j] = x[j]
  /\ \A j \in 1..Len(y) : c[Len(x) + Len(m) + j] = y[j]

LEMMA Middle ==
  ASSUME NEW x \in Texts, NEW m \in Texts, NEW y \in Texts, NEW p, Joined(p, x, m), NEW c, Joined(c, p, y)
  PROVE  Framed(c, x, m, y)
<1>1. /\ p \in Texts /\ Len(x) \in Nat /\ Len(m) \in Nat /\ Len(p) = Len(x) + Len(m)
      /\ \A j \in 1..Len(x) : p[j] = x[j]
      /\ \A j \in 1..Len(m) : p[Len(x) + j] = m[j]
  BY Concatenated
<1>2. /\ c \in Texts /\ Len(y) \in Nat /\ Len(c) = Len(p) + Len(y)
      /\ \A j \in 1..Len(p) : c[j] = p[j]
      /\ \A j \in 1..Len(y) : c[Len(p) + j] = y[j]
  BY <1>1, Concatenated
<1>3. Len(c) = Len(x) + Len(m) + Len(y) /\ \A j \in 1..Len(x) : c[j] = x[j]
  <2>1. \A j \in 1..Len(x) : j \in 1..Len(p)
    BY <1>1
  <2> QED
    BY <1>1, <1>2, <2>1
<1>4. \A j \in 1..Len(m) : c[Len(x) + j] = m[j]
  <2>1. \A j \in 1..Len(m) : Len(x) + j \in 1..Len(p)
    BY <1>1
  <2> QED
    BY <1>1, <1>2, <2>1
<1>5. SubSeq(c, Len(x) + 1, Len(c) - Len(y)) = m
  <2> DEFINE a == Len(x) + 1
             b == Len(c) - Len(y)
             sub == SubSeq(c, a, b)
  <2>1. a \in Int /\ b \in Int /\ b - a + 1 = Len(m) /\ (a <= b => b - a + 1 = Len(m)) /\ (~(a <= b) => Len(m) = 0)
    BY <1>1, <1>2, <1>3
  <2>2. \A i \in a..b : i \in 1..Len(c)
    BY <1>1, <1>2, <1>3
  <2>3. \A i \in 1..Len(c) : c[i] \in Bytes
    BY <1>2 DEF Texts
  <2>4. \A j \in 1..Len(m) : a + j - 1 = Len(x) + j
    BY <1>1
  <2> HIDE DEF a, b
  <2>5. \A i \in a..b : c[i] \in Bytes
    BY <2>2, <2>3
  <2>6. /\ sub \in Seq(Bytes) /\ Len(sub) = IF a <= b THEN b - a + 1 ELSE 0
        /\ \A i \in 1..b - a + 1 : sub[i] = c[a + i - 1]
    BY <2>1, <2>5, SubSeqProperties
  <2> HIDE DEF sub
  <2>7. Len(sub) = Len(m)
    BY <2>1, <2>6
  <2>8. \A j \in 1..Len(sub) : sub[j] = m[j]
    BY <2>1, <2>4, <2>6, <2>7, <1>4
  <2>9. sub = m
    BY <2>6, <2>7, <2>8, SeqEqual DEF Texts
  <2> QED
    BY <2>9 DEF sub, a, b
<1> QED
  BY <1>1, <1>2, <1>3, <1>5 DEF Framed

LEMMA MiddleLength ==
  ASSUME NEW x \in Texts, NEW m \in Texts, NEW y \in Texts, NEW p, Joined(p, x, m), NEW c, Joined(c, p, y)
  PROVE  /\ c \in Texts /\ Len(x) \in Nat /\ Len(m) \in Nat /\ Len(y) \in Nat
         /\ Len(c) = Len(x) + Len(m) + Len(y)
<1>1. p \in Texts /\ Len(x) \in Nat /\ Len(m) \in Nat /\ Len(p) = Len(x) + Len(m)
  BY Concatenated
<1>2. c \in Texts /\ Len(y) \in Nat /\ Len(c) = Len(p) + Len(y)
  BY <1>1, Concatenated
<1> QED
  BY <1>1, <1>2

LEMMA HereMiddle ==
  ASSUME NEW x \in Texts, NEW m \in Texts, NEW y \in Texts, NEW p, Joined(p, x, m), NEW c, Joined(c, p, y),
         NEW s, NEW a, Here(c, s, a)
  PROVE  Here(x, s, a) /\ Here(m, s, a + Len(x)) /\ Here(y, s, a + (Len(x) + Len(m)))
<1>1. p \in Texts /\ Len(p) = Len(x) + Len(m)
  BY Concatenated
<1>2. Here(p, s, a) /\ Here(y, s, a + Len(p))
  BY <1>1, HereParts
<1> QED
  BY <1>1, <1>2, HereParts

\* A byte and what the loop makes of it.
LEMMA HereByte ==
  ASSUME NEW s, NEW g, Loops(g, "scan", s), NEW l, NEW a, Here(l, s, a), NEW j \in 1..Len(l), NEW v, g[a + (j - 1)] = v
  PROVE  /\ a + j \in 1..Len(s) /\ s[a + j] = l[j]
         /\ g[a + j] = ScanByte(s, v, a + j)
<1>1. Len(l) \in Nat /\ Len(s) \in Nat /\ a \in Nat /\ a + Len(l) <= Len(s)
  BY HereNumbers
<1>2. a + j \in 1..Len(s) /\ (a + j) - 1 = a + (j - 1)
  BY <1>1
<1>3. s[a + j] = l[j]
  BY DEF Here
<1>4. g[a + j] = ScanByte(s, g[(a + j) - 1], a + j)
  BY <1>2, ScanStep
<1> QED
  BY <1>2, <1>3, <1>4


LEMMA Moves ==
  ASSUME NEW s, NEW g, Loops(g, "scan", s), NEW k \in Nat, k + 1 <= Len(s)
  PROVE  g[k + 1] = ScanByte(s, g[k], k + 1)
<1>1. s \in Texts
  BY DEF Loops
<1>2. k + 1 \in 1..Len(s) /\ (k + 1) - 1 = k
  BY <1>1 DEF Texts
<1> QED
  BY <1>2, ScanStep

\* The loop stays inside of a string throughout e.
StaysInside(e, s, g, start, d, values) ==
  \A b : Here(e, s, b) /\ g[b] = Inside(start, d, values) => g[b + Len(e)] = Inside(start, d, values)

\* A string from its quote at k + 1 to the other one.
LEMMA StringBetween ==
  ASSUME NEW s, NEW g, Loops(g, "scan", s), NEW start, NEW d \in Int, NEW values,
         NEW e, NEW k \in Nat, Here(e, s, k + 1), StaysInside(e, s, g, start, d, values),
         NEW z, z = k + 1 + Len(e), z + 1 <= Len(s), s[k + 1] = "'", s[z + 1] = "'", ~Doubled(s, z + 1),
         g[k] = Within(start, d, values)
  PROVE  g[z + 1] = Within(start, d, values)
<1>1. Len(e) \in Nat /\ Len(s) \in Nat /\ k + 1 <= Len(s) /\ z \in Nat
  BY HereNumbers
<1>2. g[k + 1] = Inside(start, d, values)
  <2>1. g[k + 1] = ScanByte(s, Within(start, d, values), k + 1)
    BY <1>1, Moves
  <2> QED
    BY <2>1, OpeningQuote
<1>3. g[z] = Inside(start, d, values)
  <2>1. g[(k + 1) + Len(e)] = Inside(start, d, values)
    BY <1>2 DEF StaysInside
  <2> QED
    BY <2>1
<1>4. g[z + 1] = ScanByte(s, Inside(start, d, values), z + 1)
  BY <1>1, <1>3, Moves
<1> QED
  BY <1>4, ClosingQuote

Quote == <<"'">>
LEMMA OneByte ==
  ASSUME NEW c \in Bytes
  PROVE  <<c>> \in Texts /\ Len(<<c>>) = 1 /\ <<c>>[1] = c
BY DEF Texts

LEMMA QuoteText == Quote \in Texts /\ Len(Quote) = 1 /\ Quote[1] = "'"
<1>1. "'" \in Bytes
  BY DEF Bytes, Chars
<1> QED
  BY <1>1, OneByte, Zenon DEF Quote

\* The loop passes a literal that no quote follows.
Passes(l) ==
  \A s, g, a, start, values :
    Loops(g, "scan", s) /\ Here(l, s, a) /\ g[a] = Within(start, 0, values) /\ ~Doubled(s, a + Len(l))
    => g[a + Len(l)] = Within(start, 0, values)

LEMMA QuotedPasses ==
  ASSUME NEW e \in Texts, \A s, g, start, values : Loops(g, "scan", s) => StaysInside(e, s, g, start, 0, values),
         NEW p, Joined(p, Quote, e), NEW l, Joined(l, p, Quote)
  PROVE  Passes(l)
<1> SUFFICES ASSUME NEW s, NEW g, NEW a, NEW start, NEW values, Loops(g, "scan", s), Here(l, s, a),
                    g[a] = Within(start, 0, values), ~Doubled(s, a + Len(l))
             PROVE  g[a + Len(l)] = Within(start, 0, values)
  BY DEF Passes
<1>1. /\ Len(e) \in Nat /\ Len(s) \in Nat /\ a \in Nat /\ a + Len(l) <= Len(s) /\ Len(l) = 1 + Len(e) + 1
  <2>1. Len(l) = Len(Quote) + Len(e) + Len(Quote) /\ Len(e) \in Nat
    <3>1. p \in Texts /\ Len(p) = Len(Quote) + Len(e) /\ Len(e) \in Nat
      BY QuoteText, Concatenated
    <3>2. Len(l) = Len(p) + Len(Quote)
      BY <3>1, QuoteText, Concatenated
    <3> QED
      BY <3>1, <3>2
  <2> QED
    BY <2>1, QuoteText, HereNumbers
<1>2. Here(Quote, s, a) /\ Here(e, s, a + Len(Quote)) /\ Here(Quote, s, a + (Len(Quote) + Len(e)))
  BY QuoteText, HereMiddle
<1>3. s[a + 1] = "'" /\ Here(e, s, a + 1) /\ s[(a + (1 + Len(e))) + 1] = "'"
  BY <1>2, QuoteText DEF Here
<1> DEFINE z == a + 1 + Len(e)
<1>4. z = a + (1 + Len(e)) /\ a + Len(l) = z + 1 /\ z + 1 <= Len(s) /\ z = a + 1 + Len(e)
  BY <1>1
<1> HIDE DEF z
<1>5. s[z + 1] = "'" /\ ~Doubled(s, z + 1)
  BY <1>3, <1>4
<1>6. g[z + 1] = Within(start, 0, values)
  <2>1. StaysInside(e, s, g, start, 0, values) /\ 0 \in Int
    OBVIOUS
  <2> QED
    BY <1>1, <1>3, <1>4, <1>5, <2>1, StringBetween
<1> QED
  BY <1>4, <1>6


EscapedParts(t) == [i \in DOMAIN t |-> IF t[i] = "'" THEN <<"'", "'">> ELSE <<t[i]>>]

LEMMA TwoQuotes == <<"'", "'">> \in Texts /\ Len(<<"'", "'">>) = 2
<1>1. "'" \in Bytes
  BY DEF Bytes, Chars
<1> QED
  BY <1>1 DEF Texts

LEMMA PartsOfEscaped ==
  ASSUME NEW t \in Seq(Chars)
  PROVE  /\ EscapedParts(t) \in Seq(Texts) /\ Len(EscapedParts(t)) = Len(t) /\ Len(t) \in Nat
         /\ \A i \in 1..Len(t) : /\ t[i] = "'" => EscapedParts(t)[i] = <<"'", "'">>
                                 /\ t[i] # "'" => EscapedParts(t)[i] = <<t[i]>>
                                 /\ Escape(EscapedParts(t)[i])
         /\ Escaped(t) = FlattenSeq(EscapedParts(t))
<1> DEFINE q == EscapedParts(t)
<1>1. Len(t) \in Nat /\ DOMAIN t = 1..Len(t) /\ \A i \in 1..Len(t) : t[i] \in Chars
  OBVIOUS
<1>2. \A i \in 1..Len(t) : q[i] = IF t[i] = "'" THEN <<"'", "'">> ELSE <<t[i]>>
  BY <1>1 DEF EscapedParts
<1>3. ASSUME NEW i \in 1..Len(t)
      PROVE  q[i] \in Texts /\ Escape(q[i])
  <2>1. t[i] \in Bytes
    BY <1>1 DEF Bytes
  <2>2. CASE t[i] = "'"
    BY <1>2, <2>2, TwoQuotes DEF Escape
  <2>3. CASE t[i] # "'"
    <3>1. q[i] = <<t[i]>> /\ <<t[i]>> \in Texts
      BY <1>2, <2>1, <2>3, OneByte
    <3> QED
      BY <2>3, <3>1 DEF Escape
  <2> QED
    BY <2>2, <2>3
<1>4. q \in [1..Len(t) -> Texts]
  BY <1>1, <1>3 DEF EscapedParts
<1> HIDE DEF q
<1>5. q \in Seq(Texts) /\ Len(q) = Len(t)
  BY <1>1, <1>4
<1>6. Escaped(t) = FlattenSeq(EscapedParts(t))
  BY DEF Escaped, EscapedParts
<1> QED
  BY <1>1, <1>2, <1>3, <1>5, <1>6 DEF q

LEMMA EscapedStays ==
  ASSUME NEW t \in Seq(Chars), NEW s, NEW g, Loops(g, "scan", s), NEW start, NEW d \in Int, NEW values
  PROVE  StaysInside(Escaped(t), s, g, start, d, values) /\ Escaped(t) \in Texts
<1> DEFINE e == Escaped(t)
           q == EscapedParts(t)
<1>1. q \in Seq(Texts) /\ e = FlattenSeq(q) /\ \A i \in 1..Len(q) : Escape(q[i])
  BY PartsOfEscaped
<1> HIDE DEF e, q
<1>2. PICK off : Flat(q, e, off)
  BY <1>1, Flattened
<1>3. ASSUME NEW b, Here(e, s, b), g[b] = Inside(start, d, values)
      PROVE  g[b + Len(e)] = Inside(start, d, values)
  BY <1>1, <1>2, <1>3, EscapedRun
<1>4. StaysInside(e, s, g, start, d, values)
  BY <1>3 DEF StaysInside
<1>5. e \in Texts
  BY <1>2 DEF Flat
<1> QED
  BY <1>4, <1>5 DEF e

LEMMA EscapedText ==
  ASSUME NEW t \in Seq(Chars)
  PROVE  Escaped(t) \in Texts
<1> DEFINE q == EscapedParts(t)
<1>1. q \in Seq(Texts) /\ Escaped(t) = FlattenSeq(q)
  BY PartsOfEscaped
<1> HIDE DEF q
<1>2. PICK off : Flat(q, FlattenSeq(q), off)
  BY <1>1, Flattened
<1> QED
  BY <1>1, <1>2 DEF Flat

\* Hexadecimal digits are not quotes, and tell the characters apart.
LEMMA HexDigits ==
  /\ \A c \in Chars : HexOf[c] \in Bytes /\ HexOf[c] # "'"
  /\ \A c, b \in Chars : HexOf[c] = HexOf[b] => c = b
<1>1. \A c \in Chars : HexOf[c] \in Bytes
  BY DEF Bytes
<1>2. /\ HexOf["'"] = "27" /\ HexOf[Comma] = "2c" /\ HexOf["("] = "28" /\ HexOf[")"] = "29"
      /\ HexOf[Blank] = "20" /\ HexOf["n"] = "0a" /\ HexOf["z"] = "00" /\ HexOf["c"] = "63"
  BY DEF HexOf, Chars, Comma, Blank
<1>3. \A c \in Chars : c \in {"'", Comma, "(", ")", Blank, "n", "z", "c"}
  BY DEF Chars
<1> QED
  BY <1>1, <1>2, <1>3

LEMMA HexText ==
  ASSUME NEW t \in Seq(Chars)
  PROVE  /\ Hex(t) \in Texts /\ Len(Hex(t)) = Len(t)
         /\ \A j \in 1..Len(t) : Hex(t)[j] # "'"
         /\ Unhex(Hex(t)) = t
<1>1. Len(t) \in Nat /\ DOMAIN t = 1..Len(t) /\ \A i \in 1..Len(t) : t[i] \in Chars
  OBVIOUS
<1> DEFINE h == Hex(t)
           n == Len(t)
<1>2. h \in [1..n -> Bytes] /\ \A i \in 1..n : h[i] = HexOf[t[i]]
  BY <1>1, HexDigits DEF Hex
<1>3. \A i \in 1..n : h[i] # "'"
  BY <1>1, <1>2, HexDigits
<1> HIDE DEF h
<1>4. h \in Seq(Bytes) /\ Len(h) = n /\ DOMAIN h = 1..n
  BY <1>1, <1>2
<1>5. Unhex(h) = t
  <2>1. ASSUME NEW i \in 1..n PROVE (CHOOSE c \in Chars : HexOf[c] = h[i]) = t[i]
    <3>1. \A c \in Chars : HexOf[c] = h[i] <=> c = t[i]
      BY <1>1, <1>2, HexDigits
    <3>2. t[i] \in Chars
      BY <1>1
    <3> QED
      BY <3>1, <3>2
  <2>2. Unhex(h) = [i \in 1..n |-> CHOOSE c \in Chars : HexOf[c] = h[i]]
    BY <1>4 DEF Unhex
  <2>3. Unhex(h) = [i \in 1..n |-> t[i]]
    BY <2>1, <2>2
  <2> QED
    BY <1>1, <2>3
<1> QED
  BY <1>3, <1>4, <1>5 DEF h, Texts


\* Undoing the escape: a step of the loop.
Replaced(text, skip) == [text |-> text, skip |-> skip]

LEMMA UnescapeSteps ==
  ASSUME NEW s, NEW i, NEW text
  PROVE  /\ s[i] # "'" => UnescapeByte(s, Replaced(text, FALSE), i) = Replaced(Append(text, s[i]), FALSE)
         /\ s[i] = "'" /\ Doubled(s, i) => UnescapeByte(s, Replaced(text, FALSE), i) = Replaced(Append(text, s[i]), TRUE)
<1> DEFINE yes == TRUE
           no == FALSE
           more == Append(text, s[i])
           double == s[i] = "'" /\ i < Len(s) /\ s[i + 1] = "'"
           u == Replaced(text, no)
<1>1. u.skip = FALSE /\ u.text = text
  BY DEF Replaced
<1>2. UnescapeByte(s, u, i) = Replaced(more, double)
  BY <1>1 DEF UnescapeByte, Replaced
<1> HIDE DEF no
<1>5. s[i] # "'" => double = FALSE
  OBVIOUS
<1>6. s[i] = "'" /\ Doubled(s, i) => double = TRUE
  BY DEF Doubled
<1> HIDE DEF double, yes
<1>7. s[i] # "'" => UnescapeByte(s, u, i) = Replaced(more, no)
  BY <1>2, <1>5 DEF no
<1>8. s[i] = "'" /\ Doubled(s, i) => UnescapeByte(s, u, i) = Replaced(more, yes)
  BY <1>2, <1>6 DEF yes
<1> QED
  BY <1>7, <1>8 DEF no, yes

Copying(text) == Replaced(text, FALSE)
AfterQuote(text) == Replaced(text, TRUE)

LEMMA CopiesByte ==
  ASSUME NEW s, NEW i, NEW text, s[i] # "'"
  PROVE  UnescapeByte(s, Copying(text), i) = Copying(Append(text, s[i]))
BY UnescapeSteps, Zenon DEF Copying

LEMMA CopiesQuote ==
  ASSUME NEW s, NEW i, NEW text, s[i] = "'", Doubled(s, i)
  PROVE  UnescapeByte(s, Copying(text), i) = AfterQuote(Append(text, s[i]))
BY UnescapeSteps, Zenon DEF Copying, AfterQuote

LEMMA DropsQuote ==
  ASSUME NEW s, NEW i, NEW text
  PROVE  UnescapeByte(s, AfterQuote(text), i) = Copying(text)
<1> DEFINE no == FALSE
<1>1. AfterQuote(text).skip = TRUE
  BY DEF AfterQuote, Replaced
<1>2. UnescapeByte(s, AfterQuote(text), i) = [AfterQuote(text) EXCEPT !.skip = no]
  BY <1>1 DEF UnescapeByte
<1> HIDE DEF no
<1>3. [AfterQuote(text) EXCEPT !.skip = no] = Replaced(text, no)
  BY DEF AfterQuote, Replaced
<1> QED
  BY <1>2, <1>3 DEF Copying, no

LEMMA UnescapeStep ==
  ASSUME NEW s, NEW g, Loops(g, "unescape", s), NEW k \in Nat, k + 1 <= Len(s)
  PROVE  g[k + 1] = UnescapeByte(s, g[k], k + 1)
<1>1. s \in Texts
  BY DEF Loops
<1>2. k + 1 \in 1..Len(s) /\ (k + 1) - 1 = k
  BY <1>1 DEF Texts
<1> QED
  BY <1>2 DEF Loops, ByteLoop

LEMMA Unescape ==
  ASSUME NEW t \in Seq(Chars)
  PROVE  Unescaped(Escaped(t)) = t
<1> DEFINE s == Escaped(t)
           q == EscapedParts(t)
           n == Len(t)
<1>1. /\ q \in Seq(Texts) /\ s = FlattenSeq(q) /\ n \in Nat /\ Len(q) = n
      /\ \A i \in 1..n : /\ t[i] = "'" => q[i] = <<"'", "'">>
                         /\ t[i] # "'" => q[i] = <<t[i]>>
  BY PartsOfEscaped
<1>2. s \in Texts
  BY EscapedText
<1> HIDE DEF s, q
<1>3. PICK off : Flat(q, s, off)
  BY <1>1, Flattened
<1>4. PICK g : Loops(g, "unescape", s) /\ Unescaped(s) = g[Len(s)].text
  BY <1>2, UnescapeLoops
<1> DEFINE G(i) == g[i]
           O(i) == off[i]
           S(i) == s[i]
           C(i) == t[i]
           Done(i) == SubSeq(t, 1, i)
           T == {m \in Nat : m <= n => G(O(m)) = Copying(Done(m))}
<1>5. /\ Len(s) \in Nat /\ O(0) = 0 /\ O(n) = Len(s) /\ \A i \in 0..n : O(i) \in Nat
  <2>1. Len(s) \in Nat
    BY <1>2 DEF Texts
  <2>2. O(0) = 0 /\ O(n) = Len(s) /\ \A i \in 0..n : O(i) \in Nat
    BY <1>1, <1>3 DEF Flat
  <2> QED
    BY <2>1, <2>2
<1>6. \A i \in 1..n : /\ C(i) = "'" => /\ O(i) = O(i - 1) + 2 /\ O(i) <= Len(s)
                                       /\ S(O(i - 1) + 1) = "'" /\ S(O(i - 1) + 2) = "'"
                      /\ C(i) # "'" => /\ O(i) = O(i - 1) + 1 /\ O(i) <= Len(s)
                                       /\ S(O(i - 1) + 1) = C(i)
  <2> SUFFICES ASSUME NEW i \in 1..n
               PROVE  /\ C(i) = "'" => /\ O(i) = O(i - 1) + 2 /\ O(i) <= Len(s)
                                       /\ S(O(i - 1) + 1) = "'" /\ S(O(i - 1) + 2) = "'"
                      /\ C(i) # "'" => /\ O(i) = O(i - 1) + 1 /\ O(i) <= Len(s)
                                       /\ S(O(i - 1) + 1) = C(i)
    OBVIOUS
  <2> DEFINE x == q[i]
  <2>1. /\ O(i) = O(i - 1) + Len(x) /\ O(i) <= Len(s)
        /\ \A j \in 1..Len(x) : S(O(i - 1) + j) = x[j]
    BY <1>1, <1>3 DEF Flat
  <2>2. (C(i) = "'" => x = <<"'", "'">>) /\ (C(i) # "'" => x = <<C(i)>>)
    BY <1>1
  <2> HIDE DEF x, O, S, C
  <2>3. CASE C(i) = "'"
    <3>1. Len(x) = 2 /\ x[1] = "'" /\ x[2] = "'"
      BY <2>2, <2>3
    <3> QED
      BY <2>1, <2>3, <3>1
  <2>4. CASE C(i) # "'"
    <3>1. Len(x) = 1 /\ x[1] = C(i)
      BY <2>2, <2>4
    <3> QED
      BY <2>1, <2>4, <3>1
  <2> QED
    BY <2>3, <2>4
<1>7. \A k \in Nat : k + 1 <= Len(s) => G(k + 1) = UnescapeByte(s, G(k), k + 1)
  BY <1>4, UnescapeStep
<1>8. G(0) = Copying(<<>>)
  BY <1>4 DEF Loops, Begin, Replaced, Copying
<1>9. Done(0) = <<>> /\ Done(n) = t /\ \A i \in 1..n : Done(i) = Append(Done(i - 1), C(i))
  <2>1. SubSeq(t, 1, n) = t
    BY SubSeqFull
  <2>2. SubSeq(t, 1, 0) = <<>>
    BY SubSeqEmpty
  <2>3. ASSUME NEW i \in 1..n PROVE Done(i) = Append(Done(i - 1), C(i))
    <3>1. SubSeq(t, 1, i) = SubSeq(t, 1, i - 1) \o <<t[i]>>
      <4>1. 1 \in 1..Len(t) /\ i \in 1..Len(t)
        BY <1>1
      <4> QED
        BY <4>1, SubSeqRecursiveSecond
    <3>2. SubSeq(t, 1, i - 1) \in Seq(Chars) /\ t[i] \in Chars
      <4>1. \A j \in 1..i - 1 : t[j] \in Chars
        BY <1>1
      <4>2. i - 1 \in Int
        BY <1>1
      <4> QED
        BY <4>1, <4>2, SubSeqProperties
    <3> QED
      BY <3>1, <3>2, AppendIsConcat
  <2> QED
    BY <2>1, <2>2, <2>3
<1> HIDE DEF G, O, S, C, Done, n
<1>10. 0 \in T
  BY <1>5, <1>8, <1>9
<1>11. ASSUME NEW m \in T PROVE m + 1 \in T
  <2> SUFFICES ASSUME m + 1 <= n PROVE G(O(m + 1)) = Copying(Done(m + 1))
    OBVIOUS
  <2>1. m \in Nat /\ m + 1 \in 1..n /\ (m + 1) - 1 = m /\ m \in 0..n /\ G(O(m)) = Copying(Done(m))
    BY <1>1
  <2> HIDE DEF T
  <2> DEFINE o == O(m)
             c == C(m + 1)
             f == Done(m)
  <2>2. o \in Nat /\ G(o) = Copying(f) /\ Done(m + 1) = Append(f, c)
    BY <1>5, <1>9, <2>1
  <2>3. /\ c = "'" => O(m + 1) = o + 2 /\ O(m + 1) <= Len(s) /\ S(o + 1) = "'" /\ S(o + 2) = "'"
        /\ c # "'" => O(m + 1) = o + 1 /\ O(m + 1) <= Len(s) /\ S(o + 1) = c
    BY <1>6, <2>1
  <2> HIDE DEF o, c, f
  <2>4. CASE c = "'"
    <3>1. G(o + 1) = UnescapeByte(s, Copying(f), o + 1)
      BY <1>5, <1>7, <2>2, <2>3, <2>4
    <3>2. s[o + 1] = "'" /\ Doubled(s, o + 1)
      <4>1. (o + 1) + 1 = o + 2 /\ o + 1 < Len(s)
        BY <1>5, <2>2, <2>3, <2>4
      <4> QED
        BY <2>3, <2>4, <4>1 DEF Doubled, S
    <3>3. G(o + 1) = AfterQuote(Append(f, c))
      BY <3>1, <3>2, <2>4, <2>3, CopiesQuote DEF S
    <3>4. G(o + 2) = UnescapeByte(s, AfterQuote(Append(f, c)), o + 2)
      <4>1. o + 1 \in Nat /\ (o + 1) + 1 = o + 2 /\ (o + 1) + 1 <= Len(s)
        BY <1>5, <2>2, <2>3, <2>4
      <4>2. G((o + 1) + 1) = UnescapeByte(s, G(o + 1), (o + 1) + 1)
        BY <1>7, <4>1
      <4> QED
        BY <3>3, <4>1, <4>2
    <3>5. G(o + 2) = Copying(Append(f, c))
      BY <3>4, DropsQuote
    <3> QED
      BY <2>2, <2>3, <2>4, <3>5
  <2>5. CASE c # "'"
    <3>1. G(o + 1) = UnescapeByte(s, Copying(f), o + 1)
      BY <1>5, <1>7, <2>2, <2>3, <2>5
    <3>2. s[o + 1] = c /\ s[o + 1] # "'"
      BY <2>3, <2>5 DEF S
    <3>3. G(o + 1) = Copying(Append(f, c))
      BY <3>1, <3>2, CopiesByte
    <3> QED
      BY <2>2, <2>3, <2>5, <3>3
  <2> QED
    BY <2>4, <2>5
<1>12. n \in T
  <2>1. T \in SUBSET Nat
    OBVIOUS
  <2> HIDE DEF T
  <2> QED
    BY <1>1, <2>1, <1>10, <1>11, Induction
<1>13. G(Len(s)) = Copying(t)
  BY <1>1, <1>5, <1>9, <1>12
<1>14. g[Len(s)].text = t
  BY <1>13 DEF G, Replaced, Copying
<1> QED
  BY <1>4, <1>14 DEF s


\* What a literal of the dump has: it neither begins nor ends with a blank, and
\* the loop passes it.
Literal(l) ==
  /\ l \in Texts /\ Len(l) \in Nat \ {0}
  /\ l[1] # Blank /\ l[Len(l)] # Blank
  /\ Passes(l)

LEMMA PlainLiteral ==
  ASSUME NEW l \in Texts, Len(l) # 0, \A j \in 1..Len(l) : Plain(l[j]) /\ l[j] # Blank
  PROVE  Literal(l)
<1>1. Len(l) \in Nat /\ 1 \in 1..Len(l) /\ Len(l) \in 1..Len(l)
  BY DEF Texts
<1>2. Passes(l)
  <2> SUFFICES ASSUME NEW s, NEW g, NEW a, NEW start, NEW values, Loops(g, "scan", s), Here(l, s, a),
                      g[a] = Within(start, 0, values)
               PROVE  g[a + Len(l)] = Within(start, 0, values)
    BY DEF Passes
  <2>1. 0 \in Int /\ \A j \in 1..Len(l) : Plain(l[j])
    OBVIOUS
  <2> QED
    BY <2>1, PlainRun
<1> QED
  BY <1>1, <1>2 DEF Literal

LEMMA HexStays ==
  ASSUME NEW t \in Seq(Chars), NEW s, NEW g, Loops(g, "scan", s), NEW start, NEW d \in Int, NEW values
  PROVE  StaysInside(Hex(t), s, g, start, d, values)
<1> DEFINE e == Hex(t)
<1>1. \A j \in 1..Len(e) : e[j] # "'"
  BY HexText
<1> HIDE DEF e
<1>2. ASSUME NEW b, Here(e, s, b), g[b] = Inside(start, d, values)
      PROVE  g[b + Len(e)] = Inside(start, d, values)
  BY <1>1, <1>2, StringRun
<1>3. StaysInside(e, s, g, start, d, values)
  BY <1>2 DEF StaysInside
<1> QED
  BY <1>3 DEF e

CastHead == <<"CAST", "(", "X", "'">>
CastTail == <<"'", Blank, "AS", Blank, "TEXT", ")">>
HexHead == <<"X", "'">>

LEMMA Heads ==
  /\ CastHead \in Texts /\ Len(CastHead) = 4
  /\ CastHead[1] = "CAST" /\ CastHead[2] = "(" /\ CastHead[3] = "X" /\ CastHead[4] = "'"
  /\ CastTail \in Texts /\ Len(CastTail) = 6
  /\ CastTail[1] = "'" /\ CastTail[2] = Blank /\ CastTail[3] = "AS" /\ CastTail[4] = Blank
  /\ CastTail[5] = "TEXT" /\ CastTail[6] = ")"
  /\ HexHead \in Texts /\ Len(HexHead) = 2 /\ HexHead[1] = "X" /\ HexHead[2] = "'"
<1>1. {"'", "(", ")", Blank, "X", "CAST", "AS", "TEXT"} \subseteq Bytes
  BY DEF Bytes, Chars
<1> QED
  BY <1>1 DEF CastHead, CastTail, HexHead, Texts

LEMMA PlainBytes ==
  /\ Plain("X") /\ Plain("CAST") /\ Plain("AS") /\ Plain("TEXT") /\ Plain(Blank) /\ Plain("NULL")
  /\ \A f \in Figures : Plain(f)
  /\ Blank \notin {"X", "'", ")", "CAST", "NULL"} \cup Figures
<1>1. /\ Comma \notin {"X", "CAST", "AS", "TEXT", "NULL", "-", "+", ".", "e", "0", "1"}
      /\ Blank \notin {"X", "CAST", "NULL", "'", ")", "-", "+", ".", "e", "0", "1"}
  BY Zenon DEF Comma, Blank
<1> QED
  BY <1>1, DistinctLetters DEF Distinct, Plain, Figures

LEMMA HexPasses ==
  ASSUME NEW t \in Seq(Chars), NEW p, Joined(p, HexHead, Hex(t)), NEW l, Joined(l, p, Quote)
  PROVE  Passes(l) /\ l \in Texts /\ Len(l) = 3 + Len(t)
<1> DEFINE e == Hex(t)
<1>1. e \in Texts /\ Len(e) = Len(t) /\ Len(t) \in Nat /\ Joined(p, HexHead, e)
  BY HexText
<1>2. \A s, g, start, values : Loops(g, "scan", s) => StaysInside(e, s, g, start, 0, values)
  BY HexStays
<1> HIDE DEF e
<1>3. l \in Texts /\ Len(l) = 3 + Len(e)
  <2>1. p \in Texts /\ Len(p) = 2 + Len(e)
    <3>1. HexHead \in Texts /\ Len(HexHead) = 2
      BY Heads
    <3> QED
      BY <1>1, <3>1, JoinedLength
  <2>2. l \in Texts /\ Len(l) = Len(p) + 1
    BY <2>1, QuoteText, JoinedLength
  <2> QED
    BY <1>1, <2>1, <2>2
<1>4. ASSUME NEW s, NEW g, NEW a, NEW start, NEW values, Loops(g, "scan", s), Here(l, s, a),
             g[a] = Within(start, 0, values), ~Doubled(s, a + Len(l))
      PROVE  g[a + Len(l)] = Within(start, 0, values)
  <2>1. Len(s) \in Nat /\ a \in Nat /\ a + Len(l) <= Len(s)
    BY <1>4, HereNumbers
  <2>2. Here(HexHead, s, a) /\ Here(e, s, a + Len(HexHead)) /\ Here(Quote, s, a + (Len(HexHead) + Len(e)))
    BY <1>1, <1>4, Heads, QuoteText, HereMiddle
  <2>3. s[a + 1] = "X" /\ s[a + 2] = "'" /\ Here(e, s, a + 2) /\ s[(a + (2 + Len(e))) + 1] = "'"
    BY <2>2, Heads, QuoteText DEF Here
  <2> DEFINE k == a + 1
             z == a + (2 + Len(e))
  <2>4. /\ k = a + 1 /\ k + 1 = a + 2 /\ z = k + 1 + Len(e) /\ a + Len(l) = z + 1
        /\ z + 1 <= Len(s) /\ k \in Nat /\ a + 1 <= Len(s)
    BY <1>1, <1>3, <2>1
  <2>5. s[z + 1] = "'"
    BY <2>3
  <2> HIDE DEF k, z
  <2>6. g[k] = Within(start, 0, values)
    <3>1. g[a + 1] = ScanByte(s, Within(start, 0, values), a + 1)
      BY <1>4, <2>1, <2>4, Moves
    <3>2. Plain(s[a + 1]) /\ 0 \in Int
      BY <2>3, PlainBytes
    <3> QED
      BY <2>4, <3>1, <3>2, OtherByte
  <2>7. s[k + 1] = "'" /\ Here(e, s, k + 1) /\ ~Doubled(s, z + 1) /\ 0 \in Int
        /\ StaysInside(e, s, g, start, 0, values)
    <3>1. StaysInside(e, s, g, start, 0, values)
      BY <1>2, <1>4, Zenon
    <3>2. ~Doubled(s, z + 1)
      BY <1>4, <2>4, Zenon
    <3>3. s[k + 1] = "'" /\ Here(e, s, k + 1)
      BY <2>3, <2>4, Zenon
    <3> QED
      BY <3>1, <3>2, <3>3
  <2>8. g[z + 1] = Within(start, 0, values)
    BY <1>4, <2>4, <2>5, <2>6, <2>7, StringBetween, SMTT(60)
  <2> QED
    BY <2>4, <2>8
<1>5. Passes(l)
  BY <1>4 DEF Passes
<1> QED
  BY <1>1, <1>3, <1>5


LEMMA CastPasses ==
  ASSUME NEW t \in Seq(Chars), NEW p, Joined(p, CastHead, Hex(t)), NEW l, Joined(l, p, CastTail)
  PROVE  Passes(l) /\ l \in Texts /\ Len(l) = 10 + Len(t)
<1> DEFINE e == Hex(t)
<1>1. e \in Texts /\ Len(e) = Len(t) /\ Len(t) \in Nat /\ Joined(p, CastHead, e)
  BY HexText
<1>2. \A s, g, start, values : Loops(g, "scan", s) => StaysInside(e, s, g, start, 1, values)
  BY HexStays
<1>3. CastHead \in Texts /\ Len(CastHead) = 4 /\ CastTail \in Texts /\ Len(CastTail) = 6
  BY Heads
<1> HIDE DEF e
<1>4. l \in Texts /\ Len(l) = 10 + Len(e)
  <2>1. p \in Texts /\ Len(p) = 4 + Len(e)
    <3>1. p \in Texts /\ Len(p) = Len(CastHead) + Len(e)
      BY <1>1, <1>3, JoinedLength, Zenon
    <3> QED
      BY <1>3, <3>1
  <2>2. l \in Texts /\ Len(l) = Len(p) + 6
    BY <2>1, <1>3, JoinedLength
  <2> QED
    BY <1>1, <2>1, <2>2
<1>5. ASSUME NEW s, NEW g, NEW a, NEW start, NEW values, Loops(g, "scan", s), Here(l, s, a),
             g[a] = Within(start, 0, values)
      PROVE  g[a + Len(l)] = Within(start, 0, values)
  <2>1. Len(s) \in Nat /\ a \in Nat /\ a + Len(l) <= Len(s)
    BY <1>5, HereNumbers
  <2>2. Here(CastHead, s, a) /\ Here(e, s, a + Len(CastHead)) /\ Here(CastTail, s, a + (Len(CastHead) + Len(e)))
    BY <1>1, <1>3, <1>5, HereMiddle
  <2> DEFINE outside == Within(start, 0, values)
             within == Within(start, 1, values)
             k == a + 3
             z == a + (4 + Len(e))
             G(i) == g[i]
             S(i) == s[i]
  <2>3. /\ S(a + 1) = "CAST" /\ S(a + 2) = "(" /\ S(a + 3) = "X" /\ S(k + 1) = "'" /\ Here(e, s, k + 1)
        /\ k + 1 = a + 4
    <3>1. \A j \in 1..4 : s[a + j] = CastHead[j]
      BY <1>3, <2>2 DEF Here
    <3>2. a + 4 = k + 1 /\ Len(CastHead) = 4
      BY <1>3, <2>1
    <3> HIDE DEF k
    <3> QED
      BY <2>2, <3>1, <3>2, Heads
  <2>4. /\ S(z + 1) = "'" /\ S(z + 2) = Blank /\ S(z + 3) = "AS" /\ S(z + 4) = Blank
        /\ S(z + 5) = "TEXT" /\ S(z + 6) = ")"
    <3>1. a + (Len(CastHead) + Len(e)) = z
      BY <1>3
    <3> HIDE DEF z
    <3>2. \A j \in 1..6 : s[z + j] = CastTail[j]
      BY <1>3, <2>2, <3>1 DEF Here
    <3> QED
      BY <3>2, Heads
  <2>5. /\ z = k + 1 + Len(e) /\ z \in Nat /\ z + 6 = a + Len(l) /\ z + 6 <= Len(s)
        /\ k = a + 3 /\ k \in Nat /\ a + 3 <= Len(s)
    BY <1>1, <1>4, <2>1
  <2>6. \A i \in Nat : i + 1 <= Len(s) => G(i + 1) = ScanByte(s, G(i), i + 1)
    BY <1>5, Moves
  <2>7. G(a) = outside
    BY <1>5
  <2> HIDE DEF k, z, G
  <2>8. ASSUME NEW i \in Nat, i + 1 <= Len(s), Plain(S(i + 1))
        PROVE  /\ G(i) = outside => G(i + 1) = outside
               /\ G(i) = within => G(i + 1) = within
    <3>1. G(i + 1) = ScanByte(s, G(i), i + 1) /\ Plain(s[i + 1]) /\ 0 \in Int /\ 1 \in Int
      BY <2>6, <2>8
    <3>2. ScanByte(s, outside, i + 1) = outside
      BY <3>1, OtherByte
    <3>3. ScanByte(s, within, i + 1) = within
      BY <3>1, OtherByte
    <3> QED
      BY <3>1, <3>2, <3>3
  <2>9. G(k) = within
    <3>1. /\ a + 1 <= Len(s) /\ a + 1 \in Nat /\ (a + 1) + 1 = a + 2 /\ (a + 1) + 1 <= Len(s)
          /\ a + 2 \in Nat /\ (a + 2) + 1 = k /\ (a + 2) + 1 <= Len(s) /\ k = a + 3
      BY <2>1, <2>5
    <3>2. G(a + 1) = outside
      BY <2>1, <2>3, <2>7, <2>8, <3>1, PlainBytes
    <3>3. G(a + 2) = within
      <4>1. G((a + 1) + 1) = ScanByte(s, outside, (a + 1) + 1)
        BY <2>6, <3>1, <3>2
      <4>2. s[a + 2] = "(" /\ 0 \in Int
        BY <2>3
      <4>3. ScanByte(s, outside, a + 2) = Within(start, 0 + 1, values)
        BY <4>2, OpeningParenthesis
      <4> QED
        BY <3>1, <4>1, <4>3
    <3>4. G((a + 2) + 1) = within
      BY <2>3, <2>8, <3>1, <3>3, PlainBytes
    <3> QED
      BY <3>1, <3>4
  <2>10. G(z + 1) = within
    <3>1. g[k] = within /\ s[k + 1] = "'" /\ s[z + 1] = "'" /\ z + 1 <= Len(s) /\ 1 \in Int
          /\ StaysInside(e, s, g, start, 1, values)
      <4>1. g[k] = Within(start, 1, values)
        BY <2>9 DEF G
      <4>2. StaysInside(e, s, g, start, 1, values)
        BY <1>2, <1>5
      <4>3. z + 1 <= Len(s)
        BY <2>1, <2>5
      <4> QED
        BY <2>3, <2>4, <4>1, <4>2, <4>3
    <3>2. ~Doubled(s, z + 1)
      <4>1. (z + 1) + 1 = z + 2 /\ S(z + 2) # "'"
        BY <2>4, <2>5, PlainBytes
      <4> QED
        BY <4>1 DEF Doubled
    <3>3. g[z + 1] = Within(start, 1, values)
      <4>1. Loops(g, "scan", s) /\ Here(e, s, k + 1) /\ z = k + 1 + Len(e) /\ k \in Nat
        BY <1>5, <2>3, <2>5
      <4> HIDE DEF S
      <4> QED
        BY <4>1, <3>1, <3>2, StringBetween
    <3> QED
      BY <3>3 DEF G
  <2>11. G(z + 5) = within
    <3>1. /\ (z + 1) + 1 = z + 2 /\ (z + 2) + 1 = z + 3 /\ (z + 3) + 1 = z + 4 /\ (z + 4) + 1 = z + 5
          /\ z + 1 \in Nat /\ z + 2 \in Nat /\ z + 3 \in Nat /\ z + 4 \in Nat
          /\ z + 2 <= Len(s) /\ z + 3 <= Len(s) /\ z + 4 <= Len(s) /\ z + 5 <= Len(s)
      BY <2>1, <2>5
    <3>2. Plain(S(z + 2)) /\ Plain(S(z + 3)) /\ Plain(S(z + 4)) /\ Plain(S(z + 5))
      BY <2>4, PlainBytes
    <3> HIDE DEF S, within, outside
    <3>3. G(z + 2) = within
      BY <2>8, <2>10, <3>1, <3>2
    <3>4. G(z + 3) = within
      BY <2>8, <3>1, <3>2, <3>3
    <3>5. G(z + 4) = within
      BY <2>8, <3>1, <3>2, <3>4
    <3> QED
      BY <2>8, <3>1, <3>2, <3>5
  <2>12. G(z + 6) = outside
    <3>1. (z + 5) + 1 = z + 6 /\ z + 5 \in Nat /\ z + 6 <= Len(s)
      BY <2>1, <2>5
    <3>2. G((z + 5) + 1) = ScanByte(s, within, (z + 5) + 1)
      BY <2>6, <2>11, <3>1
    <3>3. s[z + 6] = ")" /\ 1 \in Int
      BY <2>4
    <3>4. ScanByte(s, within, z + 6) = Within(start, 1 - 1, values)
      BY <3>3, ClosingParenthesis
    <3> QED
      BY <3>1, <3>2, <3>4
  <2> QED
    BY <2>5, <2>12 DEF G
<1>6. Passes(l)
  BY <1>5 DEF Passes
<1> QED
  BY <1>1, <1>4, <1>6


\* What is read back of a literal, by its first byte.
LEMMA ParsesText ==
  ASSUME NEW s \in Texts, Len(s) >= 2, s[1] = "'", s[Len(s)] = "'", NEW m, SubSeq(s, 2, Len(s) - 1) = m
  PROVE  parseSQLLiteralToGo(s) = [type |-> "text", text |-> Unescaped(m)]
<1>1. s # <<"NULL">>
  OBVIOUS
<1>2. Last(s) = "'"
  BY DEF Last
<1> HIDE DEF Last
<1> QED
  BY <1>1, <1>2, Zenon DEF parseSQLLiteralToGo

LEMMA ParsesCast ==
  ASSUME NEW s \in Texts, s[1] = "CAST", NEW m, SubSeq(s, 5, Len(s) - 6) = m
  PROVE  parseSQLLiteralToGo(s) = [type |-> "text", text |-> Unhex(m)]
<1>1. s # <<"NULL">> /\ s[1] # "'"
  OBVIOUS
<1> QED
  BY <1>1, Zenon DEF parseSQLLiteralToGo

LEMMA ParsesBytes ==
  ASSUME NEW s \in Texts, s[1] = "X", Len(s) >= 4, NEW m, SubSeq(s, 3, Len(s) - 1) = m
  PROVE  parseSQLLiteralToGo(s) = [type |-> "bytes", text |-> Unhex(m)]
<1>1. s # <<"NULL">> /\ s[1] # "'" /\ s[1] # "CAST"
  OBVIOUS
<1> QED
  BY <1>1, Zenon DEF parseSQLLiteralToGo

LEMMA ParsesNumber ==
  ASSUME NEW s \in Texts, s[1] \in Figures
  PROVE  parseSQLLiteralToGo(s) = [type |-> "int", text |-> s]
<1>1. s[1] # "NULL" /\ s[1] # "'" /\ s[1] # "CAST" /\ s[1] # "X"
  BY DEF Figures
<1>2. s # <<"NULL">>
  BY <1>1
<1> QED
  BY <1>1, <1>2, Zenon DEF parseSQLLiteralToGo

\* The value that is read back, before it is bound to a statement.
Parsed(v) == [type |-> IF v.type = "bool" THEN "int" ELSE v.type, text |-> v.text]

LEMMA QuotedLiteral ==
  ASSUME NEW t \in Seq(Chars), NEW l, l = <<"'">> \o Escaped(t) \o <<"'">>
  PROVE  Literal(l) /\ parseSQLLiteralToGo(l) = [type |-> "text", text |-> t]
<1> DEFINE e == Escaped(t)
           p == <<"'">> \o e
<1>1. e \in Texts /\ Unescaped(e) = t
  BY EscapedText, Unescape
<1>2. \A s, g, start, values : Loops(g, "scan", s) => StaysInside(e, s, g, start, 0, values)
  BY EscapedStays
<1>3. Joined(p, Quote, e) /\ Joined(l, p, Quote)
  BY Zenon DEF Joined, Quote
<1> HIDE DEF e, p
<1>4. Passes(l)
  BY <1>1, <1>2, <1>3, QuotedPasses
<1>5. /\ l \in Texts /\ Len(l) = Len(Quote) + Len(e) + Len(Quote) /\ Len(e) \in Nat
      /\ SubSeq(l, Len(Quote) + 1, Len(l) - Len(Quote)) = e
      /\ l[1] = Quote[1] /\ l[Len(Quote) + Len(e) + 1] = Quote[1]
  <2>1. 1 \in 1..Len(Quote)
    BY QuoteText
  <2>2. Framed(l, Quote, e, Quote)
    BY <1>1, <1>3, QuoteText, Middle
  <2> QED
    BY <2>1, <2>2 DEF Framed
<1>6. /\ Len(l) = Len(e) + 2 /\ l[1] = "'" /\ l[Len(l)] = "'" /\ Len(l) \in Nat \ {0} /\ Len(l) >= 2
      /\ SubSeq(l, 2, Len(l) - 1) = e
  <2>1. Len(Quote) = 1 /\ Quote[1] = "'"
    BY QuoteText
  <2>2. Len(l) = Len(e) + 2 /\ Len(Quote) + 1 = 2 /\ Len(Quote) + Len(e) + 1 = Len(l)
    BY <1>5, <2>1
  <2>3. SubSeq(l, 2, Len(l) - 1) = e /\ l[1] = "'" /\ l[Len(l)] = "'"
    BY <1>5, <2>1, <2>2, Zenon
  <2> QED
    BY <1>5, <2>2, <2>3
<1>7. Literal(l)
  BY <1>4, <1>5, <1>6, PlainBytes DEF Literal
<1> QED
  BY <1>1, <1>5, <1>6, <1>7, ParsesText

LEMMA HexLiteral ==
  ASSUME NEW t \in Seq(Chars), t # <<>>, NEW l, l = <<"X", "'">> \o Hex(t) \o <<"'">>
  PROVE  Literal(l) /\ parseSQLLiteralToGo(l) = [type |-> "bytes", text |-> t]
<1> DEFINE e == Hex(t)
           p == <<"X", "'">> \o e
<1>1. e \in Texts /\ Unhex(e) = t /\ Len(e) = Len(t) /\ Len(t) \in Nat \ {0}
  BY HexText
<1>2. Joined(p, HexHead, e) /\ Joined(l, p, Quote)
  BY Zenon DEF Joined, Quote, HexHead
<1>3. Passes(l) /\ l \in Texts /\ Len(l) = 3 + Len(t)
  <2> HIDE DEF p
  <2> QED
    BY <1>2, HexPasses
<1> HIDE DEF e, p
<1>4. HexHead \in Texts /\ Len(HexHead) = 2 /\ HexHead[1] = "X"
  BY Heads
<1>5. /\ SubSeq(l, Len(HexHead) + 1, Len(l) - Len(Quote)) = e
      /\ l[1] = HexHead[1] /\ l[Len(HexHead) + Len(e) + 1] = Quote[1]
  <2>1. 1 \in 1..Len(Quote) /\ 1 \in 1..Len(HexHead)
    BY <1>4, QuoteText
  <2>2. Framed(l, HexHead, e, Quote)
    BY <1>1, <1>2, <1>4, QuoteText, Middle
  <2> QED
    BY <2>1, <2>2 DEF Framed
<1>6. /\ l[1] = "X" /\ l[Len(l)] = "'" /\ Len(l) \in Nat \ {0} /\ Len(l) >= 4
      /\ SubSeq(l, 3, Len(l) - 1) = e
  <2>1. Len(Quote) = 1 /\ Quote[1] = "'"
    BY QuoteText
  <2>2. Len(HexHead) + 1 = 3 /\ Len(HexHead) + Len(e) + 1 = Len(l)
    BY <1>1, <1>3, <1>4
  <2>3. SubSeq(l, 3, Len(l) - 1) = e /\ l[1] = "X" /\ l[Len(l)] = "'"
    BY <1>4, <1>5, <2>1, <2>2, Zenon
  <2> QED
    BY <1>1, <1>3, <2>3
<1>7. Literal(l)
  BY <1>3, <1>6, PlainBytes DEF Literal
<1> QED
  BY <1>1, <1>3, <1>6, <1>7, ParsesBytes

LEMMA CastLiteral ==
  ASSUME NEW t \in Seq(Chars), NEW l, l = <<"CAST", "(", "X", "'">> \o Hex(t) \o <<"'", Blank, "AS", Blank, "TEXT", ")">>
  PROVE  Literal(l) /\ parseSQLLiteralToGo(l) = [type |-> "text", text |-> t]
<1> DEFINE e == Hex(t)
           p == <<"CAST", "(", "X", "'">> \o e
<1>1. e \in Texts /\ Unhex(e) = t /\ Len(e) = Len(t) /\ Len(t) \in Nat
  BY HexText
<1>2. Joined(p, CastHead, e) /\ Joined(l, p, CastTail)
  BY Zenon DEF Joined, CastTail, CastHead
<1>3. Passes(l) /\ l \in Texts /\ Len(l) = 10 + Len(t)
  <2> HIDE DEF p
  <2> QED
    BY <1>2, CastPasses
<1> HIDE DEF e, p
<1>4. /\ CastHead \in Texts /\ Len(CastHead) = 4 /\ CastHead[1] = "CAST"
      /\ CastTail \in Texts /\ Len(CastTail) = 6 /\ CastTail[6] = ")"
  BY Heads
<1>5. /\ SubSeq(l, Len(CastHead) + 1, Len(l) - Len(CastTail)) = e
      /\ l[1] = CastHead[1] /\ l[Len(CastHead) + Len(e) + 6] = CastTail[6]
  <2>1. 6 \in 1..Len(CastTail) /\ 1 \in 1..Len(CastHead)
    BY <1>4
  <2>2. Framed(l, CastHead, e, CastTail)
    BY <1>1, <1>2, <1>4, Middle
  <2> QED
    BY <2>1, <2>2 DEF Framed
<1>6. /\ l[1] = "CAST" /\ l[Len(l)] = ")" /\ Len(l) \in Nat \ {0}
      /\ SubSeq(l, 5, Len(l) - 6) = e
  <2>1. Len(CastHead) + 1 = 5 /\ Len(CastHead) + Len(e) + 6 = Len(l) /\ Len(CastTail) = 6
    BY <1>1, <1>3, <1>4
  <2>2. SubSeq(l, 5, Len(l) - 6) = e /\ l[1] = "CAST" /\ l[Len(l)] = ")"
    BY <1>4, <1>5, <2>1, Zenon
  <2> QED
    BY <1>1, <1>3, <2>2
<1>7. Literal(l)
  BY <1>3, <1>6, PlainBytes DEF Literal
<1> QED
  BY <1>1, <1>3, <1>6, <1>7, ParsesCast


LEMMA LiteralParses ==
  ASSUME NEW v \in Values
  PROVE  Literal(sqlLiteral(v)) /\ parseSQLLiteralToGo(sqlLiteral(v)) = Parsed(v)
<1> DEFINE l == sqlLiteral(v)
           t == v.text
<1>1. CASE v.type = "null" /\ t = <<>>
  <2>1. "NULL" \in Bytes
    BY DEF Bytes
  <2>2. l = <<"NULL">> /\ l \in Texts /\ Len(l) = 1 /\ l[1] = "NULL"
    BY <1>1, <2>1, OneByte DEF sqlLiteral
  <2>3. Literal(l)
    BY <2>2, PlainBytes, PlainLiteral
  <2>4. parseSQLLiteralToGo(l) = [type |-> "null", text |-> <<>>]
    BY <2>2, Zenon DEF parseSQLLiteralToGo
  <2> QED
    BY <1>1, <2>3, <2>4 DEF Parsed
<1>2. CASE v.type \in {"int", "bool"} /\ t \in Seq(Figures) \ {<<>>}
  <2>1. l = t
    BY <1>2 DEF sqlLiteral
  <2>2. Len(t) \in Nat \ {0} /\ \A j \in 1..Len(t) : t[j] \in Figures
    BY <1>2
  <2>3. t \in Texts
    <3>1. Figures \subseteq Bytes
      BY DEF Bytes
    <3> QED
      BY <1>2, <3>1 DEF Texts
  <2>4. \A j \in 1..Len(t) : Plain(t[j]) /\ t[j] # Blank
    BY <2>2, PlainBytes
  <2>5. Literal(t)
    BY <2>2, <2>3, <2>4, PlainLiteral
  <2>6. t[1] \in Figures
    BY <2>2
  <2>7. parseSQLLiteralToGo(t) = [type |-> "int", text |-> t]
    BY <2>3, <2>6, ParsesNumber
  <2> QED
    BY <1>2, <2>1, <2>5, <2>7 DEF Parsed
<1>3. CASE v.type = "text" /\ t \in Seq(Chars)
  <2>1. l = quoteSQL(t)
    BY <1>3 DEF sqlLiteral
  <2>2. Literal(quoteSQL(t)) /\ parseSQLLiteralToGo(quoteSQL(t)) = [type |-> "text", text |-> t]
    <3>1. CASE {"n", "z"} \cap ToSet(t) = {}
      <4>1. quoteSQL(t) = <<"'">> \o Escaped(t) \o <<"'">>
        BY <3>1, Zenon DEF quoteSQL
      <4> QED
        BY <1>3, <4>1, QuotedLiteral, Zenon
    <3>2. CASE ~({"n", "z"} \cap ToSet(t) = {})
      <4>1. quoteSQL(t) = <<"CAST", "(", "X", "'">> \o Hex(t) \o <<"'", Blank, "AS", Blank, "TEXT", ")">>
        BY <3>2, Zenon DEF quoteSQL
      <4> QED
        BY <1>3, <4>1, CastLiteral, Zenon
    <3> QED
      BY <3>1, <3>2
  <2> QED
    BY <1>3, <2>1, <2>2 DEF Parsed
<1>4. CASE v.type = "bytes" /\ t \in Seq(Chars) \ {<<>>}
  <2>1. l = <<"X", "'">> \o Hex(t) \o <<"'">>
    BY <1>4, Zenon DEF sqlLiteral
  <2>2. Literal(l) /\ parseSQLLiteralToGo(l) = [type |-> "bytes", text |-> t]
    <3> HIDE DEF l, t
    <3> QED
      BY <1>4, <2>1, HexLiteral, Zenon
  <2> QED
    BY <1>4, <2>2 DEF Parsed
<1> QED
  BY <1>1, <1>2, <1>3, <1>4 DEF Values

\* Binding what was read back gives what arrives.
LEMMA BoundArrives ==
  ASSUME NEW v \in Values, dialect \in {"sqlite", "postgres"}
  PROVE  Bound(Parsed(v), v.type = "bool") = Arrives(v)
<1>1. v = [type |-> v.type, text |-> v.text] /\ v.type \in {"text", "bytes", "int", "bool", "null"}
  BY DEF Values
<1>2. \A x : [v EXCEPT !.type = x] = [type |-> x, text |-> v.text]
  BY <1>1
<1>3. v.type # "bool" => Parsed(v) = v
  BY <1>1 DEF Parsed
<1>4. v.type = "bool" => Parsed(v) = [type |-> "int", text |-> v.text]
  BY DEF Parsed
<1>5. CASE v.type = "bool"
  <2>1. CASE dialect = "sqlite"
    BY <1>2, <1>4, <1>5, <2>1 DEF Bound, Arrives
  <2>2. CASE dialect # "sqlite"
    <3>1. Parsed(v).type = "int" /\ [Parsed(v) EXCEPT !.type = "bool"] = v
      BY <1>1, <1>4, <1>5
    <3> QED
      BY <1>5, <2>2, <3>1 DEF Bound, Arrives
  <2> QED
    BY <2>1, <2>2
<1>6. CASE v.type # "bool"
  BY <1>3, <1>6 DEF Bound, Arrives
<1> QED
  BY <1>5, <1>6

\* Blanks at the ends go.
LEMMA TrimmedLiteral ==
  ASSUME NEW l, NEW s, NEW a, Here(l, s, a), Len(l) # 0, l[1] # Blank, l[Len(l)] # Blank,
         NEW b \in Nat, b = a + 1 \/ (b = a /\ a >= 1 /\ s[a] = Blank)
  PROVE  TrimSpace(SubSeq(s, b, a + Len(l))) = l
<1>1. a \in Nat /\ Len(l) \in Nat \ {0} /\ Len(s) \in Nat /\ a + Len(l) <= Len(s)
  BY HereNumbers
<1>2. l \in Texts /\ s \in Texts /\ \A j \in 1..Len(l) : s[a + j] = l[j]
  BY DEF Here
<1> DEFINE e == a + Len(l)
           x == SubSeq(s, b, e)
           k == a + 1 - b
<1>3. x \in Texts /\ Len(x) = k + Len(l) /\ \A i \in 1..k + Len(l) : x[i] = s[b + i - 1]
  <2>1. /\ \A i \in b..e : i \in 1..Len(s)
        /\ b <= e /\ e - b + 1 = k + Len(l) /\ b \in Int /\ e \in Int
    BY <1>1
  <2>2. \A i \in 1..Len(s) : s[i] \in Bytes
    BY <1>2 DEF Texts
  <2> HIDE DEF k, e
  <2>3. \A i \in b..e : s[i] \in Bytes
    BY <2>1, <2>2
  <2>4. /\ x \in Seq(Bytes) /\ Len(x) = (IF b <= e THEN e - b + 1 ELSE 0)
        /\ \A i \in 1..e - b + 1 : x[i] = s[b + i - 1]
    BY <2>1, <2>3, SubSeqProperties
  <2> HIDE DEF x
  <2> QED
    BY <2>1, <2>4 DEF Texts
<1>4. k \in {0, 1} /\ (k = 1 => b = a /\ a >= 1) /\ b - 1 + k = a
  BY <1>1
<1> HIDE DEF x
<1>5. \A j \in 1..Len(l) : x[k + j] = l[j]
  <2> SUFFICES ASSUME NEW j \in 1..Len(l) PROVE x[k + j] = l[j]
    OBVIOUS
  <2>1. k + j \in 1..k + Len(l) /\ b + (k + j) - 1 = a + j
    BY <1>1, <1>4
  <2> HIDE DEF k
  <2> QED
    BY <1>2, <1>3, <2>1
<1>6. k = 1 => x[1] = Blank
  <2> SUFFICES ASSUME k = 1 PROVE x[1] = Blank
    OBVIOUS
  <2>1. 1 \in 1..k + Len(l) /\ b + 1 - 1 = a /\ s[a] = Blank
    BY <1>1, <1>4
  <2> HIDE DEF k
  <2> QED
    BY <1>3, <2>1
<1> HIDE DEF k
<1> DEFINE n == k + Len(l)
           solid == {i \in DOMAIN x : x[i] # Blank}
<1>7. n \in Nat /\ DOMAIN x = 1..n /\ Len(x) = n /\ n >= 1 /\ k + 1 \in 1..n /\ n \in 1..n
  BY <1>1, <1>3, <1>4 DEF Texts
<1>8. k + 1 \in solid /\ n \in solid
  <2>1. x[k + 1] = l[1] /\ x[n] = l[Len(l)]
    BY <1>1, <1>5
  <2> QED
    BY <1>7, <2>1
<1>9. \A i \in solid : k + 1 <= i /\ i <= n /\ i \in Nat
  <2> SUFFICES ASSUME NEW i \in 1..n, x[i] # Blank PROVE k + 1 <= i /\ i <= n /\ i \in Nat
    BY <1>7
  <2> QED
    BY <1>4, <1>6, <1>7
<1> HIDE DEF solid, n
<1>10. Min(solid) = k + 1
  <2>1. \A z \in solid : (\A i \in solid : z <= i) <=> z = k + 1
    <3> SUFFICES ASSUME NEW z \in solid PROVE (\A i \in solid : z <= i) <=> z = k + 1
      OBVIOUS
    <3>1. z \in Nat /\ k + 1 <= z /\ k + 1 \in Nat
      BY <1>4, <1>9
    <3> QED
      BY <1>8, <1>9, <3>1
  <2> QED
    BY <1>8, <2>1 DEF Min
<1>11. Max(solid) = n
  <2>1. \A z \in solid : (\A i \in solid : z >= i) <=> z = n
    <3> SUFFICES ASSUME NEW z \in solid PROVE (\A i \in solid : z >= i) <=> z = n
      OBVIOUS
    <3>1. z \in Nat /\ z <= n /\ n \in Nat
      BY <1>7, <1>9
    <3> QED
      BY <1>8, <1>9, <3>1
  <2> QED
    BY <1>8, <2>1 DEF Max
<1>12. SubSeq(x, k + 1, n) = l
  <2> DEFINE f == k + 1
             y == SubSeq(x, f, n)
  <2>1. /\ f \in Int /\ n \in Int /\ f <= n /\ n - f + 1 = Len(l) /\ \A j \in 1..Len(l) : f + j - 1 = k + j
        /\ \A i \in f..n : i \in 1..n
    BY <1>1, <1>4, <1>7 DEF n
  <2>2. \A i \in 1..n : x[i] \in Bytes
    BY <1>3, <1>7 DEF Texts
  <2> HIDE DEF f
  <2>3. \A i \in f..n : x[i] \in Bytes
    BY <2>1, <2>2
  <2>4. /\ y \in Seq(Bytes) /\ Len(y) = (IF f <= n THEN n - f + 1 ELSE 0)
        /\ \A i \in 1..n - f + 1 : y[i] = x[f + i - 1]
    BY <2>1, <2>3, SubSeqProperties
  <2> HIDE DEF y
  <2>5. Len(y) = Len(l)
    BY <2>1, <2>4
  <2>6. ASSUME NEW j \in 1..Len(y) PROVE y[j] = l[j]
    <3>1. j \in 1..n - f + 1 /\ j \in 1..Len(l) /\ f + j - 1 = k + j
      BY <2>1, <2>5
    <3> QED
      BY <1>5, <2>4, <3>1
  <2>7. y = l
    BY <1>2, <2>4, <2>5, <2>6, SeqEqual DEF Texts
  <2> QED
    BY <2>7 DEF y, f
<1>13. TrimSpace(x) = SubSeq(x, Min(solid), Max(solid))
  <2>1. solid # {}
    BY <1>8
  <2> QED
    BY <2>1, Zenon DEF TrimSpace, solid
<1> QED
  BY <1>10, <1>11, <1>12, <1>13 DEF x


\* The values of a line, with what precedes each.
Separator == <<Comma, Blank>>
Lead(i) == IF i = 1 THEN <<>> ELSE Separator
Separated(lits) == [i \in DOMAIN lits |-> Lead(i) \o lits[i]]

LEMMA SeparatorText ==
  /\ Separator \in Texts /\ Len(Separator) = 2 /\ Separator[1] = Comma /\ Separator[2] = Blank
  /\ <<>> \in Texts /\ Len(<<>>) = 0
<1>1. Comma \in Bytes /\ Blank \in Bytes
  BY DEF Bytes, Chars
<1> QED
  BY <1>1 DEF Separator, Texts

\* Where the values are in the line s: the i-th begins after a lead of two
\* bytes, but the first one.
Laid(s, lits, off) ==
  /\ s \in Texts /\ off \in [0..Len(lits) -> Nat] /\ off[0] = 0 /\ off[Len(lits)] = Len(s)
  /\ Here(lits[1], s, 0) /\ off[1] = Len(lits[1])
  /\ \A i \in 2..Len(lits) :
       /\ Here(lits[i], s, off[i - 1] + 2) /\ off[i] = off[i - 1] + 2 + Len(lits[i])
       /\ s[off[i - 1] + 1] = Comma /\ s[off[i - 1] + 2] = Blank /\ off[i] <= Len(s)

LEMMA LaidOut ==
  ASSUME NEW lits \in Seq(Texts), lits # <<>>
  PROVE  \E off : Laid(FlattenSeq(Separated(lits)), lits, off)
<1> DEFINE n == Len(lits)
           q == Separated(lits)
           s == FlattenSeq(q)
<1>1. n \in Nat \ {0} /\ DOMAIN lits = 1..n /\ \A i \in 1..n : lits[i] \in Texts
  OBVIOUS
<1>2. \A i \in 1..n : q[i] = Lead(i) \o lits[i]
  BY <1>1 DEF Separated
<1>3. \A i \in 1..n : Lead(i) \in Texts /\ Joined(q[i], Lead(i), lits[i])
  BY <1>2, SeparatorText DEF Lead, Joined
<1>4. \A i \in 1..n : q[i] \in Texts
  BY <1>1, <1>3, JoinedLength
<1>5. q \in Seq(Texts) /\ Len(q) = n
  <2>1. q = [i \in 1..n |-> q[i]]
    BY <1>1 DEF Separated
  <2> HIDE DEF q
  <2>2. q \in [1..n -> Texts]
    BY <1>4, <2>1
  <2> QED
    BY <1>1, <2>2
<1> HIDE DEF q, s
<1>6. PICK off : Flat(q, s, off)
  BY <1>5, Flattened DEF s
<1>7. s \in Texts /\ off \in [0..n -> Nat] /\ off[0] = 0 /\ off[n] = Len(s)
  BY <1>5, <1>6 DEF Flat
<1>8. ASSUME NEW i \in 1..n
      PROVE  Here(q[i], s, off[i - 1]) /\ off[i] = off[i - 1] + Len(q[i]) /\ off[i] <= Len(s) /\ off[i - 1] \in Nat
  <2>1. /\ off[i] = off[i - 1] + Len(q[i]) /\ off[i] <= Len(s)
        /\ \A j \in 1..Len(q[i]) : s[off[i - 1] + j] = q[i][j]
    BY <1>5, <1>6 DEF Flat
  <2>2. off[i - 1] \in Nat
    BY <1>1, <1>7
  <2> QED
    BY <1>4, <1>7, <2>1, <2>2 DEF Here
<1>9. ASSUME NEW i \in 1..n
      PROVE  /\ Here(Lead(i), s, off[i - 1]) /\ Here(lits[i], s, off[i - 1] + Len(Lead(i)))
             /\ off[i] = off[i - 1] + Len(Lead(i)) + Len(lits[i])
  <2>1. Lead(i) \in Texts /\ lits[i] \in Texts /\ Joined(q[i], Lead(i), lits[i]) /\ Here(q[i], s, off[i - 1])
    BY <1>1, <1>3, <1>8
  <2>2. /\ Here(Lead(i), s, off[i - 1]) /\ Here(lits[i], s, off[i - 1] + Len(Lead(i)))
        /\ Len(Lead(i)) \in Nat /\ Len(lits[i]) \in Nat /\ Len(q[i]) = Len(Lead(i)) + Len(lits[i])
    BY <2>1, HereParts
  <2> QED
    BY <1>8, <2>2
<1>10. Here(lits[1], s, 0) /\ off[1] = Len(lits[1])
  <2>1. 1 \in 1..n /\ 1 - 1 = 0 /\ Len(Lead(1)) = 0
    BY <1>1, SeparatorText DEF Lead
  <2>2. Here(lits[1], s, off[0] + 0) /\ off[1] = off[0] + 0 + Len(lits[1])
    BY <1>9, <2>1
  <2>3. Len(lits[1]) \in Nat
    BY <1>1, <2>1 DEF Texts
  <2> QED
    BY <1>7, <2>2, <2>3
<1>11. ASSUME NEW i \in 2..n
       PROVE  /\ Here(lits[i], s, off[i - 1] + 2) /\ off[i] = off[i - 1] + 2 + Len(lits[i])
              /\ s[off[i - 1] + 1] = Comma /\ s[off[i - 1] + 2] = Blank /\ off[i] <= Len(s)
  <2>1. i \in 1..n /\ i # 1
    BY <1>1
  <2>2. Lead(i) = Separator /\ Len(Separator) = 2
    BY <2>1, SeparatorText DEF Lead
  <2>3. Here(Separator, s, off[i - 1])
    BY <1>9, <2>1, <2>2
  <2>4. s[off[i - 1] + 1] = Separator[1] /\ s[off[i - 1] + 2] = Separator[2]
    BY <2>2, <2>3 DEF Here
  <2> QED
    BY <1>8, <1>9, <2>1, <2>2, <2>4, SeparatorText
<1>12. Laid(s, lits, off)
  BY <1>7, <1>10, <1>11 DEF Laid
<1> QED
  BY <1>12 DEF s, q


\* Splitting finds the values again.
LEMMA SplitFindsValues ==
  ASSUME NEW lits \in Seq(Texts), lits # <<>>, \A i \in 1..Len(lits) : Literal(lits[i])
  PROVE  splitSQLValues(FlattenSeq(Separated(lits))) = lits
<1> DEFINE n == Len(lits)
           s == FlattenSeq(Separated(lits))
<1>1. n \in Nat \ {0} /\ \A i \in 1..n : lits[i] \in Texts
  OBVIOUS
<1>2. PICK off : Laid(s, lits, off)
  BY LaidOut
<1> HIDE DEF s
<1>3. s \in Texts
  BY <1>2 DEF Laid
<1>4. PICK g : /\ Loops(g, "scan", s)
               /\ splitSQLValues(s) = Append(g[Len(s)].values, TrimSpace(SubSeq(s, g[Len(s)].start, Len(s))))
  BY <1>3, SplitLoops
<1> DEFINE G(i) == g[i]
           O(i) == off[i]
           S(i) == s[i]
           L(i) == lits[i]
           Start(i) == IF i = 1 THEN 1 ELSE O(i - 1) + 2
           Begun(i) == IF i = 1 THEN 0 ELSE O(i - 1) + 2
           Before(i) == SubSeq(lits, 1, i)
<1>5. /\ Len(s) \in Nat /\ O(0) = 0 /\ O(n) = Len(s) /\ O(1) = Len(L(1))
      /\ \A i \in 0..n : O(i) \in Nat
      /\ \A i \in 2..n : /\ O(i) = O(i - 1) + 2 + Len(L(i)) /\ O(i) <= Len(s)
                         /\ S(O(i - 1) + 1) = Comma /\ S(O(i - 1) + 2) = Blank
  <2>1. Len(s) \in Nat
    BY <1>3 DEF Texts
  <2> QED
    BY <1>2, <2>1 DEF Laid
<1>6. \A i \in 1..n : /\ Len(L(i)) \in Nat \ {0} /\ L(i)[1] # Blank /\ L(i)[Len(L(i))] # Blank
                      /\ Passes(L(i))
  BY DEF Literal
<1>7. Before(0) = <<>> /\ Before(n) = lits /\ \A i \in 1..n : Before(i) = Append(Before(i - 1), L(i))
  <2>1. SubSeq(lits, 1, n) = lits
    BY SubSeqFull
  <2>2. SubSeq(lits, 1, 0) = <<>>
    BY SubSeqEmpty
  <2>3. ASSUME NEW i \in 1..n PROVE Before(i) = Append(Before(i - 1), L(i))
    <3>1. SubSeq(lits, 1, i) = SubSeq(lits, 1, i - 1) \o <<lits[i]>>
      <4>1. 1 \in 1..Len(lits) /\ i \in 1..Len(lits)
        BY <1>1
      <4> QED
        BY <4>1, SubSeqRecursiveSecond
    <3>2. SubSeq(lits, 1, i - 1) \in Seq(Texts) /\ lits[i] \in Texts
      <4>1. \A j \in 1..i - 1 : lits[j] \in Texts
        BY <1>1
      <4>2. i - 1 \in Int
        BY <1>1
      <4> QED
        BY <1>1, <4>1, <4>2, SubSeqProperties
    <3> QED
      BY <3>1, <3>2, AppendIsConcat
  <2> QED
    BY <2>1, <2>2, <2>3
<1>8. ASSUME NEW i \in 1..n
      PROVE  Here(L(i), s, Begun(i)) /\ O(i) = Begun(i) + Len(L(i))
  <2>1. CASE i = 1
    <3>1. Len(L(1)) \in Nat
      BY <1>6, <2>1
    <3> QED
      BY <1>2, <1>5, <2>1, <3>1 DEF Laid
  <2>2. CASE i # 1
    <3>1. i \in 2..n
      BY <1>1, <2>2
    <3> QED
      BY <1>2, <1>5, <2>2, <3>1 DEF Laid
  <2> QED
    BY <2>1, <2>2
<1>9. G(0) = Within(1, 0, <<>>)
  BY <1>4, OutsideWithin DEF Loops, Begin
<1>10. \A i \in Nat : i + 1 <= Len(s) => G(i + 1) = ScanByte(s, G(i), i + 1)
  BY <1>4, Moves
<1> HIDE DEF n, G, O, S, L, Before
<1>11. ASSUME NEW i \in 1..n
       PROVE  TrimSpace(SubSeq(s, Start(i), O(i))) = L(i)
  <2> DEFINE a == Begun(i)
             b == Start(i)
             l == L(i)
  <2>1. a \in Nat /\ b \in Nat /\ (b = a + 1 \/ (b = a /\ a >= 1 /\ s[a] = Blank))
    <3>1. CASE i = 1
      BY <3>1
    <3>2. CASE i # 1
      <4>1. i \in 2..n /\ i - 1 \in 0..n
        BY <1>1, <3>2
      <4>2. O(i - 1) \in Nat /\ S(O(i - 1) + 2) = Blank
        BY <1>5, <4>1
      <4> QED
        BY <3>2, <4>2 DEF S
    <3> QED
      BY <3>1, <3>2
  <2>2. Here(l, s, a) /\ Len(l) # 0 /\ l[1] # Blank /\ l[Len(l)] # Blank /\ O(i) = a + Len(l)
    BY <1>6, <1>8
  <2> HIDE DEF a, b, l
  <2>3. TrimSpace(SubSeq(s, b, a + Len(l))) = l
    BY <2>1, <2>2, TrimmedLiteral
  <2> QED
    BY <2>2, <2>3 DEF a, b, l
\* After a value comes a comma, or nothing.
<1>12. ASSUME NEW i \in 1..n
       PROVE  ~Doubled(s, O(i)) /\ (i # n => S(O(i) + 1) = Comma /\ S(O(i) + 2) = Blank /\ O(i) + 2 < Len(s))
  <2>1. CASE i = n
    BY <1>5, <2>1 DEF Doubled
  <2>2. CASE i # n
    <3>1. i + 1 \in 2..n /\ (i + 1) - 1 = i /\ i + 1 \in 1..n /\ i \in 0..n
      BY <1>1, <2>2
    <3>2. /\ S(O(i) + 1) = Comma /\ S(O(i) + 2) = Blank /\ O(i + 1) <= Len(s)
          /\ O(i + 1) = O(i) + 2 + Len(L(i + 1)) /\ Len(L(i + 1)) \in Nat \ {0} /\ O(i) \in Nat
      BY <1>5, <1>6, <3>1
    <3>3. S(O(i) + 1) # "'"
      BY <3>2, DistinctLetters DEF Distinct
    <3>4. O(i) + 2 < Len(s)
      BY <1>5, <3>2
    <3> QED
      BY <2>2, <3>2, <3>3, <3>4 DEF Doubled, S
  <2> QED
    BY <2>1, <2>2
<1>13. ASSUME NEW i \in 1..n, NEW start, NEW values, G(Begun(i)) = Within(start, 0, values)
       PROVE  G(O(i)) = Within(start, 0, values)
  <2> DEFINE a == Begun(i)
             l == L(i)
  <2>1. Passes(l) /\ Here(l, s, a) /\ O(i) = a + Len(l) /\ ~Doubled(s, O(i)) /\ g[a] = Within(start, 0, values)
    BY <1>6, <1>8, <1>12, <1>13 DEF G
  <2> HIDE DEF a, l
  <2>2. g[a + Len(l)] = Within(start, 0, values)
    BY <1>4, <2>1 DEF Passes
  <2> QED
    BY <2>1, <2>2 DEF G
<1> DEFINE T == {m \in Nat : m + 1 <= n => G(O(m + 1)) = Within(Start(m + 1), 0, Before(m))}
<1>14. 0 \in T
  <2>1. 1 \in 1..n /\ Begun(1) = 0 /\ Start(1) = 1 /\ 0 + 1 = 1
    BY <1>1
  <2>2. G(O(1)) = Within(1, 0, <<>>)
    BY <1>9, <1>13, <2>1
  <2> QED
    BY <1>7, <2>1, <2>2
<1>15. ASSUME NEW m \in T PROVE m + 1 \in T
  <2>0. m \in Nat /\ (m + 1 <= n => G(O(m + 1)) = Within(Start(m + 1), 0, Before(m)))
    OBVIOUS
  <2> SUFFICES ASSUME (m + 1) + 1 <= n
               PROVE  G(O((m + 1) + 1)) = Within(Start((m + 1) + 1), 0, Before(m + 1))
    BY <2>0
  <2> DEFINE i == m + 1
             o == O(i)
             start == Start(i)
             f == Before(m)
  <2>1. /\ i \in 1..n /\ i \in 0..n /\ i # n /\ i + 1 \in 1..n /\ i + 1 # 1 /\ (i + 1) - 1 = i /\ i - 1 = m
    BY <1>1, <2>0
  <2>2. G(o) = Within(start, 0, f) /\ o \in Nat /\ Before(i) = Append(f, L(i))
    <3>1. G(O(m + 1)) = Within(Start(m + 1), 0, Before(m))
      BY <2>0, <2>1
    <3>2. O(i) \in Nat
      BY <1>5, <2>1
    <3>3. Before(i) = Append(Before(i - 1), L(i))
      BY <1>7, <2>1
    <3>4. i - 1 = m
      BY <2>1
    <3> QED
      BY <3>1, <3>2, <3>3, <3>4, Zenon
  <2>3. s[o + 1] = Comma /\ s[o + 2] = Blank /\ o + 2 < Len(s)
    BY <1>12, <2>1 DEF S
  <2>4. TrimSpace(SubSeq(s, start, o)) = L(i)
    BY <1>11, <2>1
  <2>5. Start(i + 1) = o + 2 /\ Begun(i + 1) = o + 2
    BY <2>1
  <2> HIDE DEF i, o, start, f, Start, Begun
  <2>6. /\ (o + 1) + 1 = o + 2 /\ (o + 1) - 1 = o /\ o + 1 \in Nat /\ o + 1 <= Len(s) /\ o + 2 <= Len(s)
        /\ o + 2 \in Nat
    BY <1>5, <2>2, <2>3
  <2>7. G(o + 1) = Within(o + 2, 0, Before(i))
    <3>1. G(o + 1) = ScanByte(s, Within(start, 0, f), o + 1)
      BY <1>10, <2>2, <2>6
    <3>2. ScanByte(s, Within(start, 0, f), o + 1) = Within((o + 1) + 1, 0, More(s, f, start, o + 1))
      BY <2>3, SeparatingComma
    <3>3. More(s, f, start, o + 1) = Before(i)
      BY <2>2, <2>4, <2>6, Zenon DEF More
    <3> QED
      BY <2>6, <3>1, <3>2, <3>3
  <2>8. G(o + 2) = Within(o + 2, 0, Before(i))
    <3>1. G((o + 1) + 1) = ScanByte(s, G(o + 1), (o + 1) + 1)
      BY <1>10, <2>6
    <3>2. G(o + 2) = ScanByte(s, Within(o + 2, 0, Before(i)), o + 2)
      BY <2>6, <2>7, <3>1
    <3>3. Plain(s[o + 2]) /\ 0 \in Int
      BY <2>3, PlainBytes
    <3> QED
      BY <3>2, <3>3, OtherByte
  <2>9. G(O(i + 1)) = Within(o + 2, 0, Before(i))
    BY <1>13, <2>1, <2>5, <2>8
  <2> QED
    BY <2>5, <2>9 DEF i
<1>16. \A m \in Nat : m \in T
  <2>1. T \in SUBSET Nat
    OBVIOUS
  <2> HIDE DEF T
  <2> QED
    BY <2>1, <1>14, <1>15, Induction
<1>17. G(Len(s)) = Within(Start(n), 0, Before(n - 1))
  <2>1. n - 1 \in Nat /\ (n - 1) + 1 = n
    BY <1>1
  <2>2. G(O((n - 1) + 1)) = Within(Start((n - 1) + 1), 0, Before(n - 1))
    BY <1>16, <2>1
  <2> HIDE DEF T, Start
  <2> QED
    BY <1>5, <2>1, <2>2
<1> HIDE DEF T, Start, Begun
<1>18. g[Len(s)].values = Before(n - 1) /\ g[Len(s)].start = Start(n)
  BY <1>17 DEF Within, ScanState, G
<1>19. TrimSpace(SubSeq(s, Start(n), Len(s))) = L(n) /\ Append(Before(n - 1), L(n)) = lits
  <2>1. n \in 1..n
    BY <1>1
  <2>2. TrimSpace(SubSeq(s, Start(n), O(n))) = L(n) /\ Before(n) = Append(Before(n - 1), L(n))
    BY <1>7, <1>11, <2>1
  <2>3. Before(n) = lits /\ O(n) = Len(s)
    BY <1>5, <1>7
  <2> QED
    BY <2>2, <2>3, Zenon
<1> QED
  BY <1>4, <1>18, <1>19, Zenon DEF s


\* A line of the dump, read back.
Opening == <<"(">>
Closing == <<")", Terminator>>

LEMMA Brackets ==
  Opening \in Texts /\ Len(Opening) = 1 /\ Closing \in Texts /\ Len(Closing) = 2
<1>1. "(" \in Bytes /\ ")" \in Bytes /\ Terminator \in Bytes
  BY DEF Bytes, Chars
<1> QED
  BY <1>1 DEF Opening, Closing, Texts

LEMMA LineSplits ==
  ASSUME NEW cells \in Seq(Values) \ {<<>>}, NEW lits, lits = [i \in DOMAIN cells |-> sqlLiteral(cells[i])]
  PROVE  splitSQLValues(SubSeq(Line(cells), 2, Len(Line(cells)) - 2)) = lits
<1> DEFINE m == FlattenSeq(Separated(lits))
           p == Opening \o m
           l == p \o Closing
<1>1. Len(cells) \in Nat \ {0} /\ DOMAIN cells = 1..Len(cells) /\ \A i \in 1..Len(cells) : cells[i] \in Values
  OBVIOUS
<1>2. \A i \in 1..Len(cells) : lits[i] = sqlLiteral(cells[i]) /\ Literal(lits[i])
  BY <1>1, LiteralParses
<1>3. /\ lits \in Seq(Texts) /\ lits # <<>> /\ Len(lits) = Len(cells) /\ DOMAIN lits = DOMAIN cells
  <2>1. lits = [i \in 1..Len(cells) |-> lits[i]] /\ \A i \in 1..Len(cells) : lits[i] \in Texts
    BY <1>1, <1>2 DEF Literal
  <2>2. lits \in [1..Len(cells) -> Texts]
    BY <2>1
  <2> QED
    BY <1>1, <2>2
<1>4. splitSQLValues(m) = lits
  BY <1>2, <1>3, SplitFindsValues
<1>5. Line(cells) = l
  <2>1. Separated(lits) = [i \in DOMAIN cells |-> (IF i = 1 THEN <<>> ELSE <<Comma, Blank>>) \o sqlLiteral(cells[i])]
    <3>1. \A i \in DOMAIN cells : lits[i] = sqlLiteral(cells[i])
      BY <1>1, <1>2
    <3> QED
      BY <1>3, <3>1 DEF Separated, Lead, Separator
  <2> QED
    BY <2>1, Zenon DEF Line, Opening, Closing
<1>6. m \in Texts
  <2>1. PICK off : Laid(m, lits, off)
    BY <1>3, LaidOut
  <2> QED
    BY <2>1 DEF Laid
<1>7. Joined(p, Opening, m) /\ Joined(l, p, Closing)
  BY DEF Joined
<1> HIDE DEF m, p, l
<1>8. Framed(l, Opening, m, Closing)
  BY <1>6, <1>7, Brackets, Middle
<1>9. SubSeq(l, 2, Len(l) - 2) = m
  <2>1. Len(Opening) + 1 = 2 /\ Len(Closing) = 2
    BY Brackets
  <2> QED
    BY <1>8, <2>1, Zenon DEF Framed
<1> QED
  BY <1>4, <1>5, <1>9, Zenon

LEMMA RoundTrip ==
  ASSUME NEW cells \in Seq(Values) \ {<<>>}, dialect \in {"sqlite", "postgres"},
         NEW row, row.line = Line(cells), row.bools = {i \in DOMAIN cells : cells[i].type = "bool"}
  PROVE  parseInsertLine(row) = [i \in DOMAIN cells |-> Arrives(cells[i])]
<1> DEFINE lits == [i \in DOMAIN cells |-> sqlLiteral(cells[i])]
           raw == splitSQLValues(SubSeq(row.line, 2, Len(row.line) - 2))
<1>1. raw = lits
  BY LineSplits
<1>2. parseInsertLine(row) = [i \in DOMAIN raw |-> Bound(parseSQLLiteralToGo(raw[i]), i \in row.bools)]
  BY DEF parseInsertLine
<1>3. DOMAIN lits = DOMAIN cells /\ \A i \in DOMAIN cells : lits[i] = sqlLiteral(cells[i]) /\ cells[i] \in Values
  OBVIOUS
<1> HIDE DEF raw, lits
<1>4. ASSUME NEW i \in DOMAIN cells
      PROVE  Bound(parseSQLLiteralToGo(raw[i]), i \in row.bools) = Arrives(cells[i])
  <2>1. parseSQLLiteralToGo(raw[i]) = Parsed(cells[i])
    BY <1>1, <1>3, LiteralParses
  <2>2. (i \in row.bools) = (cells[i].type = "bool")
    OBVIOUS
  <2>3. Bound(Parsed(cells[i]), cells[i].type = "bool") = Arrives(cells[i])
    BY <1>3, BoundArrives
  <2> QED
    BY <2>1, <2>2, <2>3, Zenon
<1> QED
  BY <1>1, <1>2, <1>3, <1>4

LEMMA CopyInvariant == CopySpec => []CopyInv
<1>1. CopyInit => CopyInv
  BY CopyStarts
<1>2. CopyInv /\ [CopyNext]_copyVars => CopyInv'
  <2> SUFFICES ASSUME CopyInv, [CopyNext]_copyVars PROVE CopyInv'
    OBVIOUS
  <2>1. ASSUME NEW row \in instance.later, SourceWrites(row) PROVE CopyInv'
    BY <2>1, SourceKeeps
  <2>2. CASE writeTableSQL
    BY <2>2, ExportKeeps
  <2>3. CASE importFromDump
    BY <2>3, BeginKeeps
  <2>4. CASE processLine \/ LastLine \/ LineFails
    BY <2>4, ReadKeeps
  <2>5. CASE submitPending
    BY <2>5, SubmitKeeps
  <2>6. CASE barrierWait \/ stop
    BY <2>6, WaitKeeps
  <2>7. CASE Finish
    BY <2>7, FinishKeeps
  <2>8. CASE Die
    BY <2>8, DieKeeps
  <2>9. ASSUME NEW w \in Workers, run(w) PROVE CopyInv'
    BY <2>9, RunKeeps
  <2>10. ASSUME NEW w \in Workers, exec(w) PROVE CopyInv'
    BY <2>10, ExecKeeps
  <2>11. CASE UNCHANGED copyVars
    BY <2>11 DEF copyVars, fileVars, CopyInv, DumpInv, AllRows, ImportShape, Outstanding, FlightInv, InFlight,
                 BlameInv, Dangling, TargetInv, SequencePast
  <2> QED
    BY <2>1, <2>2, <2>3, <2>4, <2>5, <2>6, <2>7, <2>8, <2>9, <2>10, <2>11 DEF CopyNext
<1> QED
  BY <1>1, <1>2, PTL DEF CopySpec

------------------------------------------------------------------------------
(* What the rows of the target hold. *)

\* What a row that is in the target has: nothing is known of one that was there.
Wanted(r) == IF Key(r) \in instance.target THEN <<>> ELSE [i \in DOMAIN r.cells |-> Arrives(r.cells[i])]

ImportedInv ==
  /\ dialect \in {"sqlite", "postgres"}
  /\ \A r \in AllRows : Key(r) \in DOMAIN target => target[Key(r)] = Wanted(r)

LEMMA WantedStays ==
  ASSUME UNCHANGED <<instance, dialect>>
  PROVE  \A r : Wanted(r)' = Wanted(r)
BY DEF Wanted, Arrives, Key

LEMMA TargetStays ==
  ASSUME ImportedInv, UNCHANGED <<instance, dialect, target>>
  PROVE  ImportedInv'
<1>1. \A r : Wanted(r)' = Wanted(r)
  BY WantedStays
<1>2. AllRows' = AllRows
  BY DEF AllRows
<1>3. ASSUME NEW r \in AllRows, Key(r) \in DOMAIN target PROVE target'[Key(r)] = Wanted(r)'
  BY <1>1, <1>3 DEF ImportedInv
<1> QED
  BY <1>2, <1>3 DEF ImportedInv

\* A row is committed with the values of its line.
Commits(new, after) ==
  target' = [k \in after |-> IF k \in DOMAIN target THEN target[k]
                             ELSE parseInsertLine(CHOOSE r \in new : Key(r) = k)]

LEMMA CommitImports ==
  ASSUME CopyInv, ImportedInv, NEW w \in Workers,
         NEW new, new = {r \in ToSet(busy[w]) : Key(r) \notin DOMAIN target},
         NEW after, after = DOMAIN target \cup {Key(r) : r \in new},
         Commits(new, after),
         UNCHANGED <<instance, dialect>>
  PROVE  ImportedInv'
<1> USE DEF Commits
<1>1. (\A r : Wanted(r)' = Wanted(r)) /\ AllRows' = AllRows
  BY WantedStays DEF AllRows
<1>2. ASSUME NEW r \in new
      PROVE  \E d \in AllRows : r = DumpedRow(d) /\ Key(r) = Key(d)
  <2>1. r \in InFlight
    BY DEF InFlight
  <2>2. PICK i \in DOMAIN dump : dump[i] = r
    BY <2>1 DEF CopyInv, FlightInv
  <2> QED
    BY <2>2, RowsOfDump
<1>3. ASSUME NEW d \in AllRows, Key(d) \in after
      PROVE  target'[Key(d)] = Wanted(d)
  <2>1. CASE Key(d) \in DOMAIN target
    BY <1>3, <2>1 DEF ImportedInv
  <2>2. CASE Key(d) \notin DOMAIN target
    <3> DEFINE k == Key(d)
               r == CHOOSE r \in new : Key(r) = k
    <3>1. target'[k] = parseInsertLine(r)
      BY <1>3, <2>2
    <3>2. r \in new /\ Key(r) = k
      BY <1>3, <2>2
    <3> HIDE DEF r
    <3>3. PICK e \in AllRows : r = DumpedRow(e) /\ Key(r) = Key(e)
      BY <1>2, <3>2
    <3>4. instance \in Instances
      BY DEF CopyInv, DumpInv
    <3>5. e = d /\ d.cells \in Seq(Values) \ {<<>>}
      BY <3>2, <3>3, <3>4, CopyAssumption DEF AllRows
    <3>6. r.line = Line(d.cells) /\ r.bools = {i \in DOMAIN d.cells : d.cells[i].type = "bool"}
      BY <3>3, <3>5 DEF DumpedRow
    <3>7. parseInsertLine(r) = [i \in DOMAIN d.cells |-> Arrives(d.cells[i])]
      BY <3>5, <3>6, RoundTrip DEF ImportedInv
    <3>8. k \notin instance.target
      BY <2>2 DEF CopyInv, TargetInv
    <3> QED
      BY <3>1, <3>7, <3>8 DEF Wanted
  <2> QED
    BY <2>1, <2>2
<1>4. DOMAIN target' = after
  OBVIOUS
<1> QED
  BY <1>1, <1>3, <1>4 DEF ImportedInv

LEMMA ExecImports ==
  ASSUME CopyInv, ImportedInv, NEW w \in Workers, exec(w)
  PROVE  ImportedInv'
<1> DEFINE new == {r \in ToSet(busy[w]) : Key(r) \notin DOMAIN target}
           after == DOMAIN target \cup {Key(r) : r \in new}
<1>1. UNCHANGED <<instance, dialect>> /\ (Commits(new, after) \/ UNCHANGED target)
  BY Zenon DEF exec, fileVars, Commits
<1>2. CASE Commits(new, after)
  <2>1. new = {r \in ToSet(busy[w]) : Key(r) \notin DOMAIN target} /\ after = DOMAIN target \cup {Key(r) : r \in new}
    OBVIOUS
  <2> HIDE DEF new, after
  <2> QED
    BY <1>1, <1>2, <2>1, CommitImports
<1>3. CASE UNCHANGED target
  BY <1>1, <1>3, TargetStays
<1> QED
  BY <1>1, <1>2, <1>3

LEMMA ImportedInvariant == CopySpec => []ImportedInv
<1>1. CopyInit => ImportedInv
  BY DEF CopyInit, ImportedInv, Wanted, AllRows
<1>2. CopyInv /\ ImportedInv /\ [CopyNext]_copyVars => ImportedInv'
  <2> SUFFICES ASSUME CopyInv, ImportedInv, [CopyNext]_copyVars PROVE ImportedInv'
    OBVIOUS
  <2>1. ASSUME NEW w \in Workers, exec(w) PROVE ImportedInv'
    BY <2>1, ExecImports
  <2>2. CASE ~\E w \in Workers : exec(w)
    <3>1. UNCHANGED <<instance, dialect, target>>
      BY <2>2 DEF CopyNext, copyVars, fileVars, SourceWrites, writeTableSQL, importFromDump, processLine, LastLine,
                  LineFails, submitPending, barrierWait, Finish, stop, Die, run
    <3> QED
      BY <3>1, TargetStays
  <2> QED
    BY <2>1, <2>2
<1> QED
  BY <1>1, <1>2, CopyInvariant, PTL DEF CopySpec

------------------------------------------------------------------------------
(* The theorems. *)

\* An import fails only because the database does or the dump has a reference
\* that resolves nowhere: whatever the workers, their number and their order, no
\* batch is executed before the rows it refers to are committed.
THEOREM ConsistentImportsSucceed == CopySpec => []ConsistentDumpImports
<1>1. CopyInv => ConsistentDumpImports
  <2> SUFFICES ASSUME CopyInv, imp.pc = "failed", errors = 0 PROVE Dangling
    BY DEF ConsistentDumpImports, Dangling
  <2> QED
    BY DEF CopyInv, BlameInv, ImportShape
<1> QED
  BY <1>1, CopyInvariant, PTL

\* An import that reports success, also one after others that failed half way or
\* died, has a row for every line of the dump in the target, reports the number of
\* rows it inserted, and leaves the audit sequence past every id.
LEMMA SuccessfulImportIsWhole ==
  CopySpec => [](imp.pc = "done" => NothingLeftOut /\ CountsInserted /\ SequencePast)
<1>1. ASSUME CopyInv, imp.pc = "done" PROVE NothingLeftOut /\ CountsInserted /\ SequencePast
  <2>1. InFlight = {}
    BY <1>1, NothingInFlight DEF CopyInv, ImportShape
  <2>2. \A i \in DOMAIN dump : i < imp.line
    <3>1. Len(dump) \in Nat /\ DOMAIN dump = 1..Len(dump)
      BY <1>1, ListedDomain DEF CopyInv, DumpInv
    <3>2. imp.line \in Nat /\ imp.line > Len(dump)
      BY <1>1 DEF CopyInv, ImportShape
    <3> QED
      BY <3>1, <3>2
  <2>3. ~poolErr
    BY <1>1 DEF CopyInv, BlameInv
  <2> QED
    BY <1>1, <2>1, <2>2, <2>3 DEF CopyInv, FlightInv, TargetInv, NothingLeftOut, CountsInserted
<1> QED
  BY <1>1, CopyInvariant, PTL

\* Every row of the source that is in the target has the values it had in the
\* source, for any valid text, whatever quotes, commas, line ends and parentheses are in
\* it, unless the target had a row of that key already.
LEMMA ValuesSurvive == CopySpec => []ValuesExact
<1>1. CopyInv /\ ImportedInv => ValuesExact
  BY DEF CopyInv, DumpInv, ImportedInv, ValuesExact, Wanted
<1> QED
  BY <1>1, CopyInvariant, ImportedInvariant, PTL

\* An import that reports success, also one after others that failed half way or
\* died, is complete: a row for every line of the dump in the target, with the
\* values it had, those that were there left alone, the rows it inserted counted
\* and the audit sequence past every id.
THEOREM ImportsComplete == CopySpec => []ImportComplete
<1>1. (imp.pc = "done" => NothingLeftOut /\ CountsInserted /\ SequencePast) /\ ValuesExact => ImportComplete
  BY DEF ImportComplete
<1> QED
  BY <1>1, SuccessfulImportIsWhole, ValuesSurvive, PTL
=============================================================================
