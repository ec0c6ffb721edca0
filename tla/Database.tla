------------------------------- MODULE Database -------------------------------
(***************************************************************************)
(* One connection to the database (db/open.ts, db/migrations.ts): the      *)
(* ladder of migrations an older database climbs when it is opened, and    *)
(* transactions, which nest by counting and of which only the outermost is *)
(* a real one.  Another process (the command line beside the server) may   *)
(* hold the write lock longer than busy_timeout, which makes BEGIN fail.   *)
(*                                                                         *)
(* A table is abstracted to the migrations its columns come from; a unit   *)
(* of work to how many of its writes the disk has.                         *)
(***************************************************************************)
EXTENDS Integers, FiniteSets

CONSTANTS
    Builds,       \* versions of the schema a server may be built with
    Writes,       \* writes of one unit of work
    MaxDepth      \* how deep units of work nest

ASSUME DatabaseAssumption ==
    /\ Builds \subseteq Nat \ {0} /\ Builds # {} /\ IsFiniteSet(Builds)
    /\ Writes \in Nat \ {0} /\ MaxDepth \in Nat \ {0}

Top == CHOOSE b \in Builds : \A c \in Builds : c <= b

VARIABLES
    build,        \* SCHEMA_VERSION of the process, 0 while none runs
    version,      \* PRAGMA user_version
    shape,        \* columns of the tables: the migrations they come from
    tables,       \* whether the file has tables at all
    phase,        \* what openDb has come to
    half,         \* history: killed with the schema begun and not yet stamped
    depth,        \* nesting of transaction()
    nest,         \* units of work the program has really entered
    begun,        \* whether SQLite is in a transaction
    written,      \* writes of the outermost unit so far
    onDisk,       \* those committed
    stuck         \* history: a BEGIN failed on this connection

dbVars == <<build, version, shape, tables, phase, half,
            depth, nest, begun, written, onDisk, stuck>>

fileVars == <<version, shape, tables, half>>
workVars == <<depth, nest, begun, written, onDisk, stuck>>

\* A file that is not there yet, or one from before there were versions.
DatabaseInit ==
    /\ build = 0 /\ version = 0 /\ phase = "closed" /\ half = FALSE
    /\ \/ tables = FALSE /\ shape = {}
       \/ tables = TRUE /\ shape = {1}
    /\ depth = 0 /\ nest = 0 /\ begun = FALSE
    /\ written = 0 /\ onDisk = 0 /\ stuck = FALSE

-----------------------------------------------------------------------------
(* openDb and applySchema.                                                 *)

\* A database newer than the build is refused.
OpenDb(b) ==
    /\ phase = "closed"
    /\ IF version > b
       THEN UNCHANGED <<build, phase, written, onDisk, stuck>>
       ELSE /\ build' = b
            /\ phase' = IF version = 0 THEN "schema" ELSE "climb"
            /\ written' = 0 /\ onDisk' = 0 /\ stuck' = FALSE
    /\ UNCHANGED <<fileVars, depth, nest, begun>>

\* schema.sql: CREATE ... IF NOT EXISTS adds nothing to a table that is there;
\* the tables a start that was cut off had not come to are made now.
CreateTables ==
    /\ phase = "schema"
    /\ \E added \in IF half THEN SUBSET (1..build) ELSE {{}} :
          shape' = IF tables THEN shape \cup added ELSE 1..build
    /\ tables' = TRUE
    /\ phase' = IF tables THEN "stampOld" ELSE "stampNew"
    /\ UNCHANGED <<build, version, half, workVars>>

\* It is many statements, each committed by itself: the process ends with
\* some of the tables made.
TablesCutOff ==
    /\ phase = "schema" /\ ~tables
    /\ \E some \in SUBSET (1..build) : shape' = some
    /\ tables' = TRUE /\ half' = TRUE
    /\ phase' = "closed" /\ build' = 0
    /\ UNCHANGED <<version, workVars>>

StampVersion ==
    /\ phase \in {"stampOld", "stampNew"}
    /\ version' = IF phase = "stampNew" THEN build ELSE 1
    /\ phase' = "climb"
    /\ UNCHANGED <<build, shape, tables, half, workVars>>

\* Mutant: stamped with the newest version whatever it is.
StampNewest ==
    /\ phase \in {"stampOld", "stampNew"}
    /\ version' = build
    /\ phase' = "climb"
    /\ UNCHANGED <<build, shape, tables, half, workVars>>

\* One migration, with its stamp, in one transaction.  A column that is there
\* already makes it throw, and the process ends with the file as it was.
Migrate ==
    /\ phase = "climb" /\ version < build
    /\ IF version + 1 \in shape
       THEN /\ phase' = "closed" /\ build' = 0
            /\ UNCHANGED <<version, shape>>
       ELSE /\ shape' = shape \cup {version + 1}
            /\ version' = version + 1
            /\ UNCHANGED <<phase, build>>
    /\ UNCHANGED <<tables, half, workVars>>

Opened ==
    /\ phase = "climb" /\ version = build
    /\ phase' = "open"
    /\ UNCHANGED <<build, fileVars, workVars>>

-----------------------------------------------------------------------------
(* transaction                                                             *)

\* An inner unit joins the outer one.  The outermost raises the depth before
\* BEGIN, which may fail: then nothing of it runs and the depth stays raised.
Transaction ==
    /\ phase = "open" /\ nest < MaxDepth
    /\ \/ /\ depth > 0
          /\ nest' = nest + 1
          /\ UNCHANGED <<depth, begun, written, onDisk, stuck>>
       \/ /\ depth = 0
          /\ depth' = 1 /\ nest' = 1 /\ begun' = TRUE
          /\ written' = 0 /\ onDisk' = 0
          /\ UNCHANGED stuck
       \/ /\ depth = 0
          /\ depth' = 1 /\ stuck' = TRUE
          /\ UNCHANGED <<nest, begun, written, onDisk>>
    /\ UNCHANGED <<build, phase, fileVars>>

\* Outside a transaction of SQLite's a write is on disk at once.
Write ==
    /\ nest > 0 /\ written < Writes
    /\ written' = written + 1
    /\ onDisk' = IF begun THEN onDisk ELSE onDisk + 1
    /\ UNCHANGED <<build, phase, fileVars, depth, nest, begun, stuck>>

\* Mutant: every unit opens and closes a transaction of its own.
ReturnCommits ==
    /\ nest > 0
    /\ nest' = nest - 1
    /\ onDisk' = written
    /\ IF nest = 1 /\ begun
       THEN begun' = FALSE /\ depth' = depth - 1
       ELSE UNCHANGED <<begun, depth>>
    /\ UNCHANGED <<build, phase, fileVars, written, stuck>>

\* A unit returns: only the outermost commits.
Return ==
    /\ nest > 0
    /\ nest' = nest - 1
    /\ IF nest = 1 /\ begun
       THEN /\ onDisk' = written /\ begun' = FALSE /\ depth' = depth - 1
       ELSE UNCHANGED <<onDisk, begun, depth>>
    /\ UNCHANGED <<build, phase, fileVars, written, stuck>>

\* A unit throws, through every unit it is nested in.
Throw ==
    /\ nest > 0
    /\ nest' = 0
    /\ begun' = FALSE
    /\ depth' = IF begun THEN depth - 1 ELSE depth
    /\ UNCHANGED <<build, phase, fileVars, written, onDisk, stuck>>

\* The process ends, at any point: an open transaction is rolled back.
Kill ==
    /\ phase # "closed"
    /\ phase' = "closed" /\ build' = 0
    /\ half' = (half \/ phase = "stampNew")
    /\ depth' = 0 /\ nest' = 0 /\ begun' = FALSE
    /\ UNCHANGED <<version, shape, tables, written, onDisk, stuck>>

DatabaseNext ==
    \/ \E b \in Builds : OpenDb(b)
    \/ CreateTables \/ TablesCutOff \/ StampVersion \/ Migrate \/ Opened
    \/ Transaction \/ Write \/ Return \/ Throw
    \/ Kill

DatabaseSpec == DatabaseInit /\ [][DatabaseNext]_dbVars

-----------------------------------------------------------------------------
DatabaseTypeOK ==
    /\ build \in Builds \cup {0} /\ version \in 0..Top /\ shape \subseteq 1..Top
    /\ phase \in {"closed", "schema", "stampOld", "stampNew", "climb", "open"}
    /\ {tables, half, begun, stuck} \subseteq BOOLEAN
    /\ depth \in 0..1 /\ nest \in 0..MaxDepth
    /\ written \in 0..Writes /\ onDisk \in 0..Writes

\* A database that opens has exactly the columns of the build that opens it,
\* by whatever builds and restarts it came (migrations.ts:11-22), unless the
\* very first start was killed before the tables it made were stamped;
\* and a unit of work is on disk whole or not at all, however its helpers
\* nest (open.ts:142-146), as long as no BEGIN has failed on the connection.
DatabaseIsWhole ==
    /\ phase = "open" /\ ~half => shape = 1..build /\ version = build
    /\ ~stuck => onDisk \in {0, written} /\ (nest > 0 => onDisk = 0)
=============================================================================
