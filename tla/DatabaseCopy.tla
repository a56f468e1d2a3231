---------------------------- MODULE DatabaseCopy ----------------------------
(***************************************************************************)
(* Moving the data to another database: `db export` reads table after      *)
(* table, with a statement each, while the server may go on writing; `db   *)
(* import` parses the dump line by line and hands batches of rows to       *)
(* workers, each batch a transaction of its own.  Either command may die   *)
(* and be run again.                                                       *)
(*                                                                         *)
(* A row is [table, id, refs, cells]: refs are the keys <<table, id>> its  *)
(* foreign keys name, cells are its other columns.  Text is a sequence of  *)
(* characters, of which only those that matter to quoting are told apart:  *)
(* quote, comma, parentheses, space, newline "n", NUL "z" and any other.   *)
(***************************************************************************)
EXTENDS Integers, Sequences, SequencesExt, FiniteSetsExt

CONSTANTS
    Instances,      \* [source, later, target]: the rows of the exported database,
                    \* rows written meanwhile, and keys the other one already has
    Workers,        \* --workers
    importBatchSize,
    MaxImports,     \* bound on the attempts to import
    MaxErrors       \* bound on the statements that fail

\* The tables in the order of the export.
exportTables == <<"oidc_users", "teams", "team_memberships", "proxy_keys", "request_logs", "audit_events">>

Key(row) == <<row.table, row.id>>

\* What a column may hold: text is valid UTF-8 (ToValidUTF8 leaves it alone);
\* of the digits, two are told apart.  No column of the schema holds bytes: an
\* empty one would not be parsed.
Comma == ","
Blank == " "
Terminator == ";"
Chars == {"'", Comma, "(", ")", Blank, "n", "z", "c"}
Figures == {"-", "+", ".", "e", "0", "1"}
Values == [type : {"text"}, text : Seq(Chars)]
          \cup [type : {"bytes"}, text : Seq(Chars) \ {<<>>}]
          \cup [type : {"int", "bool"}, text : Seq(Figures) \ {<<>>}]
          \cup [type : {"null"}, text : {<<>>}]

\* Of a database: keys identify rows, and foreign keys name tables that are
\* exported earlier (the migrations of internal/store).
ASSUME CopyAssumption ==
    \A d \in Instances :
        LET rows == d.source \cup d.later
        IN  /\ IsFiniteSet(rows) /\ IsFiniteSet(d.target)
            /\ \A r, s \in rows : Key(r) = Key(s) => r = s
            /\ \A r \in rows : \A k \in r.refs : \A m, n \in DOMAIN exportTables :
                  r.table = exportTables[n] /\ k[1] = exportTables[m] => m < n
            /\ \A r \in rows : r.table = "audit_events" => r.id \in Nat
            /\ \A k \in d.target : k[1] = "audit_events" => k[2] \in Nat
            /\ \A r \in rows : r.cells \in Seq(Values) \ {<<>>}

VARIABLES
    instance,
    dialect,    \* of the target
    source,     \* rows of the exported database
    dump,       \* the file: [table, id, refs, line] per row
    exported,   \* how many tables are in it
    target,     \* rows committed in the target: key -> cells (<<>> if it was there)
    sequence,   \* the last value of the target's audit_events sequence
    imp,        \* importFromDump: where it is, its line, table and pending rows
    jobs,       \* the channel to the workers
    busy,       \* the batch each worker executes
    poolErr,    \* a worker has failed
    counted,    \* ImportStats
    inserted,   \* history: rows this import has committed
    errors      \* statements that failed for reasons of the database

fileVars == <<instance, dialect, source, dump, exported>>
copyVars == <<fileVars, target, sequence, imp, jobs, busy, poolErr, counted, inserted, errors>>

NoImport == [pc |-> "off", then |-> "read", line |-> 1, table |-> "", pending |-> <<>>, runs |-> 0]

-----------------------------------------------------------------------------
(* The text of the dump. *)

HexOf == [c \in Chars |->
    CASE c = "'" -> "27" [] c = Comma -> "2c" [] c = "(" -> "28" [] c = ")" -> "29"
      [] c = Blank -> "20" [] c = "n" -> "0a" [] c = "z" -> "00" [] c = "c" -> "63"]
Escaped(s) == FlattenSeq([i \in DOMAIN s |-> IF s[i] = "'" THEN <<"'", "'">> ELSE <<s[i]>>])
Hex(s) == [i \in DOMAIN s |-> HexOf[s[i]]]
Unhex(s) == [i \in DOMAIN s |-> CHOOSE c \in Chars : HexOf[c] = s[i]]

\* A quoting that forgets the quotes inside.
quoteSQLPlain(s) ==
    IF {"n", "z"} \cap ToSet(s) = {} THEN <<"'">> \o s \o <<"'">>
    ELSE <<"CAST", "(", "X", "'">> \o Hex(s) \o <<"'", Blank, "AS", Blank, "TEXT", ")">>

\* Text with line ends or NUL bytes is written in hexadecimal.
quoteSQL(s) ==
    IF {"n", "z"} \cap ToSet(s) = {} THEN <<"'">> \o Escaped(s) \o <<"'">>
    ELSE <<"CAST", "(", "X", "'">> \o Hex(s) \o <<"'", Blank, "AS", Blank, "TEXT", ")">>

sqlLiteral(v) ==
    CASE v.type = "null"          -> <<"NULL">>
      [] v.type \in {"int", "bool"} -> v.text
      [] v.type = "text"          -> quoteSQL(v.text)
      [] v.type = "bytes"         -> <<"X", "'">> \o Hex(v.text) \o <<"'">>

\* One line of the file: (literal, literal, ...);
Line(cells) ==
    LET joined == FlattenSeq([i \in DOMAIN cells |->
                     (IF i = 1 THEN <<>> ELSE <<Comma, Blank>>) \o sqlLiteral(cells[i])])
    IN  <<"(">> \o joined \o <<")", Terminator>>

TrimSpace(s) ==
    LET solid == {i \in DOMAIN s : s[i] # Blank}
    IN  IF solid = {} THEN <<>> ELSE SubSeq(s, Min(solid), Max(solid))

\* Between values: the next one starts at start, values are those before it.
Outside(start, values) ==
    [start |-> start, depth |-> 0, inStr |-> FALSE, skip |-> FALSE, values |-> values]

\* What the loop makes of the i-th byte of s.  Commas separate values outside of
\* strings and parentheses; in a string, a doubled quote stands for one.
ScanByte(s, v, i) ==
    LET c == s[i]
        doubled == i < Len(s) /\ s[i + 1] = "'"
    IN  CASE v.skip -> [v EXCEPT !.skip = FALSE]
          [] ~v.skip /\ v.inStr /\ c = "'" /\ doubled -> [v EXCEPT !.skip = TRUE]
          [] ~v.skip /\ v.inStr /\ c = "'" /\ ~doubled -> [v EXCEPT !.inStr = FALSE]
          [] ~v.skip /\ ~v.inStr /\ c = "'" -> [v EXCEPT !.inStr = TRUE]
          [] ~v.skip /\ ~v.inStr /\ c = "(" -> [v EXCEPT !.depth = @ + 1]
          [] ~v.skip /\ ~v.inStr /\ c = ")" -> [v EXCEPT !.depth = @ - 1]
          [] ~v.skip /\ ~v.inStr /\ c = Comma /\ v.depth = 0 ->
               Outside(i + 1, Append(v.values, TrimSpace(SubSeq(s, v.start, i - 1))))
          [] OTHER -> v

splitSQLValues(s) ==
    LET scan[i \in 0..Len(s)] ==
            IF i = 0 THEN Outside(1, <<>>) ELSE ScanByte(s, scan[i - 1], i)
        end == scan[Len(s)]
    IN  Append(end.values, TrimSpace(SubSeq(s, end.start, Len(s))))

\* Replacing doubled quotes, from left to right.
UnescapeByte(s, u, i) ==
    IF u.skip THEN [u EXCEPT !.skip = FALSE]
    ELSE [text |-> Append(u.text, s[i]), skip |-> s[i] = "'" /\ i < Len(s) /\ s[i + 1] = "'"]
Unescaped(s) ==
    LET replace[i \in 0..Len(s)] == IF i = 0 THEN [text |-> <<>>, skip |-> FALSE]
                                    ELSE UnescapeByte(s, replace[i - 1], i)
    IN  replace[Len(s)].text

parseSQLLiteralToGo(s) ==
    CASE s = <<"NULL">> -> [type |-> "null", text |-> <<>>]
      [] Len(s) >= 2 /\ s[1] = "'" /\ Last(s) = "'" ->
           [type |-> "text", text |-> Unescaped(SubSeq(s, 2, Len(s) - 1))]
      [] s[1] = "CAST" -> [type |-> "text", text |-> Unhex(SubSeq(s, 5, Len(s) - 6))]
      [] s[1] = "X" /\ Len(s) >= 4 -> [type |-> "bytes", text |-> Unhex(SubSeq(s, 3, Len(s) - 1))]
      [] OTHER         -> [type |-> "int", text |-> s]

SansNUL(s) == SelectSeq(s, LAMBDA c : c # "z")

\* What is bound to the statement: PostgreSQL gets its booleans back, and no NUL
\* bytes.  boolean holds the columns it declares so.
Bound(v, isBool) ==
    IF dialect = "sqlite" THEN v
    ELSE IF isBool /\ v.type = "int" THEN [v EXCEPT !.type = "bool"]
    ELSE IF v.type = "text" THEN [v EXCEPT !.text = SansNUL(@)] ELSE v

\* Reading a line of the dump back.
parseInsertLine(row) ==
    LET raw == splitSQLValues(SubSeq(row.line, 2, Len(row.line) - 2))
    IN  [i \in DOMAIN raw |-> Bound(parseSQLLiteralToGo(raw[i]), i \in row.bools)]

-----------------------------------------------------------------------------
\* The server inserts a row: its references exist.
SourceWrites(row) ==
    /\ row \in instance.later \ source
    /\ row.refs \subseteq {Key(r) : r \in source}
    /\ exported < Len(exportTables)
    /\ source' = source \cup {row}
    /\ UNCHANGED <<instance, dialect, dump, exported, target, sequence, imp, jobs, busy, poolErr, counted, inserted, errors>>

\* writeTableSQL: one statement reads the next table.
DumpedRow(r) == [table |-> r.table, id |-> r.id, refs |-> r.refs, line |-> Line(r.cells),
                 bools |-> {i \in DOMAIN r.cells : r.cells[i].type = "bool"}]
writeTableSQL ==
    LET rows == {r \in source : r.table = exportTables[exported + 1]}
    IN  /\ exported < Len(exportTables)
        /\ dump' = dump \o SetToSeq({DumpedRow(r) : r \in rows})
        /\ exported' = exported + 1
        /\ UNCHANGED <<instance, dialect, source, target, sequence, imp, jobs, busy, poolErr, counted, inserted, errors>>

-----------------------------------------------------------------------------
Running == IF dialect = "sqlite" THEN {CHOOSE w \in Workers : TRUE} ELSE Workers
Outstanding == jobs # <<>> \/ \E w \in Workers : busy[w] # <<>>
Import(pc) == imp' = [imp EXCEPT !.pc = pc]

importFromDump ==
    /\ exported = Len(exportTables)
    /\ imp.pc \in {"off", "failed", "done"}
    /\ imp.runs < MaxImports
    /\ imp' = [NoImport EXCEPT !.pc = "read", !.runs = imp.runs + 1]
    /\ poolErr' = FALSE
    /\ counted' = 0
    /\ inserted' = {}
    /\ UNCHANGED <<fileVars, target, sequence, jobs, busy, errors>>

\* A line of another table first sends off what is pending, then waits at the
\* barrier; a full batch is sent off too.
processLine ==
    LET row == dump[imp.line]
    IN  /\ imp.pc = "read"
        /\ imp.line <= Len(dump)
        /\ imp' = IF row.table # imp.table THEN [imp EXCEPT !.pc = "submit", !.then = "barrier"]
                  ELSE [imp EXCEPT !.line = @ + 1, !.pending = Append(@, row), !.then = "read",
                                   !.pc = IF Len(imp.pending) + 1 >= importBatchSize THEN "submit" ELSE "read"]
        /\ UNCHANGED <<fileVars, target, sequence, jobs, busy, poolErr, counted, inserted, errors>>

\* The file ends, and the last rows are sent off.
LastLine ==
    /\ imp.pc = "read"
    /\ imp.line > Len(dump)
    /\ imp' = [imp EXCEPT !.pc = "submit", !.then = "last"]
    /\ UNCHANGED <<fileVars, target, sequence, jobs, busy, poolErr, counted, inserted, errors>>

\* A line does not parse, or is longer than the scanner's 10 MB.
LineFails ==
    /\ imp.pc = "read"
    /\ errors < MaxErrors
    /\ Import("stopping")
    /\ errors' = errors + 1
    /\ UNCHANGED <<fileVars, target, sequence, jobs, busy, poolErr, counted, inserted>>

\* submit: an earlier error ends the import; the channel may be full.
submitPending ==
    /\ imp.pc = "submit"
    /\ IF imp.pending = <<>> THEN Import(imp.then) /\ UNCHANGED jobs
       ELSE IF poolErr THEN Import("stopping") /\ UNCHANGED jobs
       ELSE /\ Len(jobs) < 2 * Cardinality(Running)
            /\ jobs' = Append(jobs, imp.pending)
            /\ imp' = [imp EXCEPT !.pc = imp.then, !.pending = <<>>]
    /\ UNCHANGED <<fileVars, target, sequence, busy, poolErr, counted, inserted, errors>>

\* Starting a table without waiting for the one before it.
barrierWaitSkipped ==
    /\ imp.pc = "barrier"
    /\ imp' = IF poolErr THEN [imp EXCEPT !.pc = "stopping"]
              ELSE [imp EXCEPT !.pc = "read", !.table = dump[imp.line].table]
    /\ UNCHANGED <<fileVars, target, sequence, jobs, busy, poolErr, counted, inserted, errors>>

\* The next table starts when the workers are done with the one before it.
barrierWait ==
    /\ imp.pc = "barrier"
    /\ ~Outstanding
    /\ imp' = IF poolErr THEN [imp EXCEPT !.pc = "stopping"]
              ELSE [imp EXCEPT !.pc = "read", !.table = dump[imp.line].table]
    /\ UNCHANGED <<fileVars, target, sequence, jobs, busy, poolErr, counted, inserted, errors>>

\* setval: the highest id that is in use.
syncAuditEventsSequence ==
    sequence' = IF dialect = "postgres"
                THEN Max({0} \cup {k[2] : k \in {x \in DOMAIN target : x[1] = "audit_events"}})
                ELSE sequence

\* Everything was sent off: the workers are waited for and stopped.
Finish ==
    /\ imp.pc = "last"
    /\ ~Outstanding
    /\ IF poolErr THEN Import("failed") /\ UNCHANGED sequence
       ELSE Import("done") /\ syncAuditEventsSequence
    /\ UNCHANGED <<fileVars, target, jobs, busy, poolErr, counted, inserted, errors>>

\* stop after an error: the workers first do what is still in the channel.
stop ==
    /\ imp.pc = "stopping"
    /\ ~Outstanding
    /\ Import("failed")
    /\ UNCHANGED <<fileVars, target, sequence, jobs, busy, poolErr, counted, inserted, errors>>

run(w) ==
    /\ w \in Running
    /\ busy[w] = <<>>
    /\ jobs # <<>>
    /\ busy' = [busy EXCEPT ![w] = Head(jobs)]
    /\ jobs' = Tail(jobs)
    /\ UNCHANGED <<fileVars, target, sequence, imp, poolErr, counted, inserted, errors>>

\* Foreign keys: switched off on one connection of SQLite's pool, on on others.
Enforced == IF dialect = "sqlite" THEN BOOLEAN ELSE {TRUE}

\* A batch in a transaction: rows that conflict with what is there are skipped,
\* a row without what it refers to fails the batch, and so may the database.
exec(w) ==
    LET batch == ToSet(busy[w])
        new == {r \in batch : Key(r) \notin DOMAIN target}
        after == DOMAIN target \cup {Key(r) : r \in new}
        done(err) == /\ busy' = [busy EXCEPT ![w] = <<>>]
                     /\ poolErr' = (poolErr \/ err)
    IN  /\ busy[w] # <<>>
        /\ \/ /\ UNCHANGED errors
              /\ \E enforced \in Enforced :
                IF enforced /\ \E r \in new : ~(r.refs \subseteq after)
                THEN done(TRUE) /\ UNCHANGED <<target, counted, inserted>>
                ELSE /\ target' = [k \in after |-> IF k \in DOMAIN target THEN target[k]
                                                   ELSE parseInsertLine(CHOOSE r \in new : Key(r) = k)]
                     /\ counted' = counted + Cardinality(new)
                     /\ inserted' = inserted \cup {Key(r) : r \in new}
                     /\ done(FALSE)
           \/ /\ errors < MaxErrors
              /\ errors' = errors + 1
              /\ done(TRUE)
              /\ UNCHANGED <<target, counted, inserted>>
        /\ UNCHANGED <<fileVars, sequence, imp, jobs>>

\* The command dies; transactions under way are rolled back.
Die ==
    /\ imp.pc \notin {"off", "failed", "done"}
    /\ imp.runs < MaxImports
    /\ imp' = [NoImport EXCEPT !.runs = imp.runs]
    /\ jobs' = <<>>
    /\ busy' = [w \in Workers |-> <<>>]
    /\ UNCHANGED <<fileVars, target, sequence, poolErr, counted, inserted, errors>>

-----------------------------------------------------------------------------
CopyInit ==
    /\ instance \in Instances
    /\ dialect \in {"sqlite", "postgres"}
    /\ source = instance.source
    /\ dump = <<>>
    /\ exported = 0
    /\ target = [k \in instance.target |-> <<>>]
    /\ sequence = 0
    /\ imp = NoImport
    /\ jobs = <<>>
    /\ busy = [w \in Workers |-> <<>>]
    /\ poolErr = FALSE
    /\ counted = 0
    /\ inserted = {}
    /\ errors = 0

CopyNext ==
    \/ \E row \in instance.later : SourceWrites(row)
    \/ writeTableSQL
    \/ importFromDump \/ processLine \/ LastLine \/ LineFails \/ submitPending \/ barrierWait
    \/ Finish \/ stop \/ Die
    \/ \E w \in Workers : run(w) \/ exec(w)

CopySpec == CopyInit /\ [][CopyNext]_copyVars

-----------------------------------------------------------------------------
\* What arrives of a value: SQLite keeps booleans as integers, PostgreSQL's text
\* has no NUL.
Arrives(v) ==
    CASE v.type = "bool" /\ dialect = "sqlite"   -> [v EXCEPT !.type = "int"]
      [] v.type = "text" /\ dialect = "postgres" -> [v EXCEPT !.text = SansNUL(@)]
      [] OTHER                                   -> v

NothingLeftOut == \A i \in DOMAIN dump : Key(dump[i]) \in DOMAIN target
ValuesExact ==
    \A r \in source : Key(r) \in DOMAIN target =>
        target[Key(r)] = IF Key(r) \in instance.target THEN <<>>
                         ELSE [i \in DOMAIN r.cells |-> Arrives(r.cells[i])]
CountsInserted == counted = Cardinality(inserted)
SequencePast ==
    dialect = "postgres" => \A k \in DOMAIN target : k[1] = "audit_events" => k[2] <= sequence

\* An import that reports success, be it the first or one after failures half
\* way, has every row of the dump in the target with its values - through
\* quoting, splitting and parsing - has left the rows that were there alone,
\* has counted what it inserted, and leaves the audit sequence past all ids.
ImportComplete ==
    imp.pc = "done" => NothingLeftOut /\ ValuesExact /\ CountsInserted /\ SequencePast

\* A dump in which every reference resolves is imported unless the database
\* fails: batches run in parallel, but no row overtakes one it refers to
\* (the barrier between tables, and the order of exportTables).
ConsistentDumpImports ==
    LET keys == {Key(dump[i]) : i \in DOMAIN dump}
    IN  imp.pc = "failed" /\ errors = 0 =>
            \E i \in DOMAIN dump : ~(dump[i].refs \subseteq keys \cup instance.target)

\* The dump holds all persistent data of a database nobody writes to.
DumpIsWhole ==
    exported = Len(exportTables) /\ instance.later = {} =>
        {Key(r) : r \in source} = {Key(dump[i]) : i \in DOMAIN dump}
=============================================================================
