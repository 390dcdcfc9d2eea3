------------------------------ MODULE Startup -------------------------------
(***************************************************************************)
(* The start of the API on a database that an earlier release, an earlier  *)
(* start or nobody has used: Open, applyMigrations and Bootstrap           *)
(* (storage/store.go, auth/service.go), one statement at a time, with a    *)
(* crash or a failing statement between any two.  An error ends the        *)
(* process, which closes the connection and rolls back what was open, so   *)
(* a failing statement and a crash are the same step.                      *)
(*                                                                         *)
(* The tables of a migration that are created with IF NOT EXISTS are one   *)
(* object; the table of idempotency keys, which the third migration        *)
(* rebuilds, is followed row by row.                                       *)
(***************************************************************************)
EXTENDS Naturals, Sequences, FiniteSets

CONSTANTS
    OldRows,     \* idempotency rows an earlier release may have stored
    MaxCrashes

ASSUME StartupConstants == MaxCrashes \in Nat

Versions == 1..3

VARIABLES
    disk,        \* the committed database
    work,        \* the database as the open connection sees it
    inTxn,       \* BEGIN IMMEDIATE without its COMMIT
    pc, version, position,
    inherited,   \* the idempotency rows found at the first start
    cut,         \* history: a stop fell between the statements of Bootstrap
    crashes

local == <<pc, version, position>>
vars == <<disk, work, inTxn, local, inherited, cut, crashes>>

Shapes == {"absent", "by_key", "by_actor"}
Image == [base : BOOLEAN, security : BOOLEAN,
          keys : Shapes, rows : SUBSET OldRows,
          legacy : Shapes, legacyRows : SUBSET OldRows,
          index : {"none", "keys", "legacy"},
          recorded : SUBSET Versions,
          user : BOOLEAN, flagged : BOOLEAN, admin : BOOLEAN]

Empty == [base |-> FALSE, security |-> FALSE, keys |-> "absent", rows |-> {},
          legacy |-> "absent", legacyRows |-> {}, index |-> "none",
          recorded |-> {}, user |-> FALSE, flagged |-> FALSE, admin |-> FALSE]

ControlPoints == {"down", "ledger", "lookup", "script", "record", "count", "insert_user",
    "break_glass", "assign_role", "serving", "broken"}

TypeOK ==
    /\ disk \in Image /\ work \in Image
    /\ inTxn \in BOOLEAN
    /\ ~inTxn => work = disk
    /\ pc \in ControlPoints
    /\ version \in 1..4 /\ position \in 1..8
    /\ inherited \subseteq OldRows /\ cut \in BOOLEAN
    /\ crashes \in 0..MaxCrashes

\* No database yet, one from before schema_migrations, or one that has the
\* first n migrations recorded.
Earlier(n, recorded, keys, account) ==
    [Empty EXCEPT !.base = n > 0, !.security = n > 1,
                  !.keys = IF n = 0 THEN "absent" ELSE IF n = 3 THEN "by_actor" ELSE "by_key",
                  !.rows = IF n = 0 THEN {} ELSE keys,
                  !.index = IF n = 3 THEN "keys" ELSE "none",
                  !.recorded = recorded,
                  !.user = n > 0 /\ account, !.admin = n > 0 /\ account,
                  !.flagged = n > 1 /\ account]

Init ==
    /\ \E n \in 0..3, keys \in SUBSET OldRows, account \in BOOLEAN :
          \E recorded \in IF n = 1 THEN {{}, {1}} ELSE {1..n} :
             disk = Earlier(n, recorded, keys, account)
    /\ work = disk
    /\ inTxn = FALSE
    /\ pc = "down" /\ version = 1 /\ position = 1
    /\ inherited = disk.rows /\ cut = FALSE
    /\ crashes = 0

-----------------------------------------------------------------------------
(***************************************************************************)
(* The migration scripts, after stripGooseDirectives.                      *)
(***************************************************************************)
\* (mutation: the third script has no BEGIN IMMEDIATE and COMMIT)
ScriptWithoutTransaction(v) ==
    CASE v = 1 -> <<"ensure_base", "ensure_keys">>
      [] v = 2 -> <<"ensure_security">>
      [] v = 3 -> <<"rename", "create", "copy", "drop", "index">>

Script(v) ==
    CASE v = 1 -> <<"ensure_base", "ensure_keys">>
      [] v = 2 -> <<"ensure_security">>
      [] v = 3 -> <<"begin", "rename", "create", "copy", "drop", "index", "commit">>

\* What SQLite refuses: a missing table, a name that is taken.
Refused(s, d) ==
    CASE s = "rename" -> d.keys = "absent" \/ d.legacy # "absent"
      [] s = "create" -> d.keys # "absent"
      [] s = "copy"   -> d.keys = "absent" \/ d.legacy = "absent"
      [] s = "drop"   -> d.legacy = "absent"
      [] s = "index"  -> d.keys = "absent" \/ d.index # "none"
      [] OTHER        -> FALSE

Effect(s, d) ==
    CASE s = "ensure_base"     -> [d EXCEPT !.base = TRUE]
      [] s = "ensure_security" -> [d EXCEPT !.security = TRUE]
      [] s = "ensure_keys"     -> [d EXCEPT !.keys = IF @ = "absent" THEN "by_key" ELSE @]
      [] s = "rename"          -> [d EXCEPT !.legacy = d.keys, !.legacyRows = d.rows,
                                            !.keys = "absent", !.rows = {},
                                            !.index = IF @ = "keys" THEN "legacy" ELSE @]
      [] s = "create"          -> [d EXCEPT !.keys = "by_actor"]
      [] s = "copy"            -> [d EXCEPT !.rows = @ \cup d.legacyRows]
      [] s = "drop"            -> [d EXCEPT !.legacy = "absent", !.legacyRows = {},
                                            !.index = IF @ = "legacy" THEN "none" ELSE @]
      [] s = "index"           -> [d EXCEPT !.index = "keys"]
      [] OTHER                 -> d

\* The statement reaches the disk unless a transaction is open.
Store(d) ==
    /\ work' = d
    /\ disk' = IF inTxn THEN disk ELSE d

-----------------------------------------------------------------------------
(***************************************************************************)
(* Open and applyMigrations.                                               *)
(***************************************************************************)
Open ==
    /\ pc = "down"
    /\ pc' = "ledger"
    /\ UNCHANGED <<disk, work, inTxn, version, position, inherited, cut, crashes>>

\* CREATE TABLE IF NOT EXISTS schema_migrations
EnsureLedger ==
    /\ pc = "ledger"
    /\ pc' = "lookup" /\ version' = 1
    /\ UNCHANGED <<disk, work, inTxn, position, inherited, cut, crashes>>

Lookup ==
    /\ pc = "lookup"
    /\ IF version \notin Versions THEN pc' = "count" /\ UNCHANGED <<version, position>>
       ELSE IF version \in work.recorded THEN version' = version + 1 /\ UNCHANGED <<pc, position>>
       ELSE pc' = "script" /\ position' = 1 /\ UNCHANGED version
    /\ UNCHANGED <<disk, work, inTxn, inherited, cut, crashes>>

\* One statement of ExecScript.
ExecScript ==
    /\ pc = "script"
    /\ LET s == Script(version)[position]
       IN  IF Refused(s, work)
             THEN pc' = "broken" /\ UNCHANGED <<disk, work, inTxn, position>>
             ELSE /\ IF s = "commit" THEN disk' = work /\ work' = work
                     ELSE Store(Effect(s, work))
                  /\ inTxn' = IF s = "begin" THEN TRUE ELSE IF s = "commit" THEN FALSE ELSE inTxn
                  /\ position' = position + 1
                  /\ pc' = IF position = Len(Script(version)) THEN "record" ELSE pc
    /\ UNCHANGED <<version, inherited, cut, crashes>>

Record ==
    /\ pc = "record"
    /\ Store([work EXCEPT !.recorded = @ \cup {version}])
    /\ version' = version + 1
    /\ pc' = "lookup"
    /\ UNCHANGED <<inTxn, position, inherited, cut, crashes>>

-----------------------------------------------------------------------------
(***************************************************************************)
(* Bootstrap: EnsureRole and UserCount, then the first account.            *)
(***************************************************************************)
\* (mutation: the roles that were just ensured are counted as well)
UserCountWithRoles ==
    /\ pc = "count"
    /\ pc' = "serving"
    /\ UNCHANGED <<disk, work, inTxn, version, position, inherited, cut, crashes>>

UserCount ==
    /\ pc = "count"
    /\ pc' = IF work.user THEN "serving" ELSE "insert_user"
    /\ UNCHANGED <<disk, work, inTxn, version, position, inherited, cut, crashes>>

\* No password is configured: the process ends.
NoPassword ==
    /\ pc = "insert_user"
    /\ pc' = "down"
    /\ UNCHANGED <<disk, work, inTxn, version, position, inherited, cut, crashes>>

InsertUser ==
    /\ pc = "insert_user"
    /\ Store([work EXCEPT !.user = TRUE])
    /\ pc' = "break_glass"
    /\ UNCHANGED <<inTxn, version, position, inherited, cut, crashes>>

SetBreakGlass ==
    /\ pc = "break_glass"
    /\ Store([work EXCEPT !.flagged = TRUE])
    /\ pc' = "assign_role"
    /\ UNCHANGED <<inTxn, version, position, inherited, cut, crashes>>

AssignRole ==
    /\ pc = "assign_role"
    /\ Store([work EXCEPT !.admin = TRUE])
    /\ pc' = "serving"
    /\ UNCHANGED <<inTxn, version, position, inherited, cut, crashes>>

\* A crash, a failed statement, or the end of the service.
Crash ==
    /\ pc \notin {"down", "broken"}
    /\ crashes < MaxCrashes /\ crashes' = crashes + 1
    /\ work' = disk
    /\ inTxn' = FALSE
    /\ pc' = "down"
    /\ cut' = (cut \/ pc \in {"break_glass", "assign_role"})
    /\ UNCHANGED <<disk, version, position, inherited>>

Start ==
    \/ Open \/ EnsureLedger \/ Lookup \/ ExecScript \/ Record
    \/ UserCount \/ InsertUser \/ SetBreakGlass \/ AssignRole

Next == Start \/ NoPassword \/ Crash

Spec == Init /\ [][Next]_vars

-----------------------------------------------------------------------------
(***************************************************************************)
(* Properties.                                                             *)
(***************************************************************************)
\* A migration that a crash interrupted, or that ran without being recorded,
\* runs again without an error, so that no sequence of crashes leaves a database
\* which applyMigrations refuses at every later start; and when the API serves,
\* the schema is complete and every idempotency row an earlier release stored is
\* still there ("new schema changes are safe on both fresh installations and
\* databases created by earlier releases").
MigrationsReplay ==
    /\ pc # "broken"
    /\ pc = "serving" =>
          /\ disk.recorded = Versions
          /\ disk.base /\ disk.security
          /\ disk.keys = "by_actor" /\ disk.legacy = "absent" /\ disk.index = "keys"
          /\ disk.rows = inherited

\* When the API serves, the local emergency account can administer it
\* (docs/authentication.md), unless an earlier start stopped between the
\* statements of Bootstrap: later ones look only for a user.
EmergencyAccountAvailable == pc = "serving" => disk.admin \/ cut
=============================================================================
