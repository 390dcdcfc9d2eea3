-------------------------- MODULE AuditChain_proofs --------------------------
(***************************************************************************)
(* Proofs about Startup and AuditChain, for any rows that an earlier       *)
(* release has stored, any number of stops, writers and rows.              *)
(***************************************************************************)
EXTENDS AuditChain, SequenceTheorems, FiniteSetTheorems, WellFoundedInduction, TLAPS

-----------------------------------------------------------------------------
(***************************************************************************)
(* Startup.                                                                *)
(***************************************************************************)

\* The table of idempotency keys outside the third migration.
Settled(d) ==
    /\ d.rows = inherited /\ d.legacy = "absent" /\ d.legacyRows = {}
    /\ d.index = IF d.keys = "by_actor" THEN "keys" ELSE "none"

\* What a recorded migration has done.
Recorded(d) ==
    /\ 1 \in d.recorded => d.base /\ d.keys # "absent"
    /\ 2 \in d.recorded => d.security
    /\ 3 \in d.recorded => d.keys = "by_actor"

\* Migrations before this one are recorded.
Before(v) == \A u \in Versions : u < v => u \in work.recorded

\* The third script has renamed the old table and not yet dropped it.
Renamed(d) ==
    /\ d.legacy # "absent" /\ d.legacyRows = inherited
    /\ d.index \in {"none", "legacy"}

\* The table as the open transaction of the third script sees it.
Rebuilding ==
    /\ position = 2 => Settled(work) /\ work.keys # "absent"
    /\ position = 3 => Renamed(work) /\ work.keys = "absent" /\ work.rows = {}
    /\ position = 4 => Renamed(work) /\ work.keys = "by_actor" /\ work.rows = {}
    /\ position = 5 => Renamed(work) /\ work.keys = "by_actor" /\ work.rows = inherited
    /\ position = 6 => /\ work.keys = "by_actor" /\ work.rows = inherited
                       /\ work.legacy = "absent" /\ work.legacyRows = {}
                       /\ work.index = "none"
    /\ position = 7 => Settled(work) /\ work.keys = "by_actor"

\* The disk is settled and true to its ledger at every moment; the connection
\* sees something else only within the third script.
DiskInv ==
    /\ Settled(disk) /\ Recorded(disk)
    /\ inTxn => /\ pc \in {"script", "broken"} /\ version = 3 /\ position \in 2..7
                /\ Rebuilding /\ 3 \notin work.recorded
                /\ disk.recorded = work.recorded
                /\ disk.base = work.base /\ disk.security = work.security
                /\ disk.user = work.user /\ disk.admin = work.admin

\* Where applyMigrations is.
ScriptInv ==
    /\ pc # "broken"
    /\ pc = "lookup" => Before(version)
    /\ pc = "script" =>
          /\ version \in Versions /\ Before(version) /\ version \notin work.recorded
          /\ position \in 1..Len(Script(version))
          /\ version = 1 /\ position = 2 => work.base
          /\ version = 3 /\ position > 1 => inTxn
    /\ pc = "record" =>
          /\ version \in Versions /\ Before(version) /\ ~inTxn
          /\ version = 1 => work.base /\ work.keys # "absent"
          /\ version = 2 => work.security
          /\ version = 3 => work.keys = "by_actor"
    /\ pc \in {"count", "insert_user", "break_glass", "assign_role", "serving"} =>
          Before(4)

\* An account without its role is being made, or its making was cut.
AccountInv ==
    /\ work.user => work.admin \/ cut \/ pc \in {"break_glass", "assign_role"}
    /\ pc \in {"break_glass", "assign_role", "serving"} => work.user

StartInv == TypeOK /\ DiskInv /\ ScriptInv /\ AccountInv

-----------------------------------------------------------------------------
(***************************************************************************)
(* The audit log.                                                          *)
(***************************************************************************)

\* Until an edit stores a link or a hash of its own, a hash says which row it is
\* of, and a link which row it points to.
LinkInv ==
    /\ \A n \in 1..written : following[n] \in 0..written
    /\ \A w \in Writers : at[w] = "insert" => written < MaxRows /\ after[w] \in 0..written
    /\ ~relinked =>
          /\ \A n \in 1..written : hash[n] = Digest(n, linked[n])
          /\ \A n \in 1..written :
                linked[n] = IF following[n] = 0 THEN NoHash ELSE hash[following[n]]
          /\ \A w \in Writers : at[w] = "insert" =>
                prev[w] = IF after[w] = 0 THEN NoHash ELSE hash[after[w]]

\* A log that only Record has written has every row, and without a failed
\* SELECT every row points to the one before it.
IntactInv ==
    edits = 0 =>
        /\ Len(log) = written
        /\ \A n \in 1..written : log[n] = n /\ text[n] = n
        /\ ~relinked
        /\ ~unread =>
              /\ \A n \in 1..written : following[n] = n - 1
              /\ \A w \in Writers : at[w] = "insert" => after[w] = written

\* The hashes that Record wrote up to the first edit and the first failed
\* SELECT form a chain; a row without its text has another one.
SealInv ==
    /\ \A n \in 1..written : hash[n] # NoHash /\ text[n] \in {0, n}
    /\ \A n \in 1..sealed : stamp[n] = Digest(n, IF n = 1 THEN NoHash ELSE stamp[n - 1])
    /\ edits = 0 => \A n \in 1..written : hash[n] = stamp[n]
    /\ edits = 0 /\ ~unread => sealed = written

-----------------------------------------------------------------------------
\* The statements of the scripts.
LEMMA ScriptFacts ==
    /\ Len(Script(1)) = 2 /\ Len(Script(2)) = 1 /\ Len(Script(3)) = 7
    /\ Script(1)[1] = "ensure_base"
    /\ Script(1)[2] = "ensure_keys"
    /\ Script(2)[1] = "ensure_security"
    /\ Script(3)[1] = "begin"
    /\ Script(3)[2] = "rename"
    /\ Script(3)[3] = "create"
    /\ Script(3)[4] = "copy"
    /\ Script(3)[5] = "drop"
    /\ Script(3)[6] = "index"
    /\ Script(3)[7] = "commit"
BY DEF Script

\* The image after one statement of a script, on disk or in the transaction.
Stored(d) == work' = d /\ disk' = d
Kept(d) == work' = d /\ UNCHANGED <<disk, inTxn>>

\* No statement is refused.
LEMMA ExecCases ==
    ASSUME TypeOK, DiskInv, ScriptInv, ExecScript
    PROVE  /\ position' = position + 1
           /\ UNCHANGED <<version, inherited, cut, crashes>>
           /\ \/ /\ version = 1 /\ position = 1 /\ pc' = "script"
                 /\ Stored([work EXCEPT !.base = TRUE]) /\ UNCHANGED inTxn
              \/ /\ version = 1 /\ position = 2 /\ pc' = "record"
                 /\ Stored([work EXCEPT !.keys = IF work.keys = "absent" THEN "by_key" ELSE work.keys]) /\ UNCHANGED inTxn
              \/ /\ version = 2 /\ position = 1 /\ pc' = "record"
                 /\ Stored([work EXCEPT !.security = TRUE]) /\ UNCHANGED inTxn
              \/ /\ version = 3 /\ position = 1 /\ pc' = "script"
                 /\ Stored(work) /\ inTxn' = TRUE
              \/ /\ version = 3 /\ position = 2 /\ pc' = "script"
                 /\ Kept([work EXCEPT !.legacy = work.keys, !.legacyRows = work.rows,
                             !.keys = "absent", !.rows = {},
                             !.index = IF work.index = "keys" THEN "legacy" ELSE work.index])
              \/ /\ version = 3 /\ position = 3 /\ pc' = "script"
                 /\ Kept([work EXCEPT !.keys = "by_actor"])
              \/ /\ version = 3 /\ position = 4 /\ pc' = "script"
                 /\ Kept([work EXCEPT !.rows = work.rows \cup work.legacyRows])
              \/ /\ version = 3 /\ position = 5 /\ pc' = "script"
                 /\ Kept([work EXCEPT !.legacy = "absent", !.legacyRows = {},
                             !.index = IF work.index = "legacy" THEN "none" ELSE work.index])
              \/ /\ version = 3 /\ position = 6 /\ pc' = "script"
                 /\ Kept([work EXCEPT !.index = "keys"])
              \/ /\ version = 3 /\ position = 7 /\ pc' = "record"
                 /\ Stored(work) /\ inTxn' = FALSE
<1>1. pc = "script" /\ version \in Versions /\ position \in 1..Len(Script(version))
  BY DEF ExecScript, ScriptInv
<1>2. UNCHANGED <<version, inherited, cut, crashes>>
  BY DEF ExecScript
<1>3. CASE version = 1 /\ position = 1
  <2>1. Script(version)[position] = "ensure_base" /\ Len(Script(version)) = 2
    BY <1>3, ScriptFacts
  <2>4. ~Refused("ensure_base", work)
    BY DEF Refused
  <2>5. Effect("ensure_base", work) = [work EXCEPT !.base = TRUE]
    BY DEF Effect
  <2>6. ~inTxn
    BY <1>3 DEF DiskInv
  <2>7. /\ work' = [work EXCEPT !.base = TRUE] /\ disk' = work'
        /\ position' = position + 1 /\ pc' = "script"
    BY <2>1, <2>4, <2>5, <2>6, <1>1, <1>3 DEF ExecScript, Store
  <2>8. UNCHANGED inTxn
    BY <2>1, <2>4, <1>3 DEF ExecScript
  <2> QED
    BY <2>7, <2>8, <1>2, <1>3 DEF Stored
<1>4. CASE version = 1 /\ position = 2
  <2>1. Script(version)[position] = "ensure_keys" /\ Len(Script(version)) = 2
    BY <1>4, ScriptFacts
  <2>4. ~Refused("ensure_keys", work)
    BY DEF Refused
  <2>5. Effect("ensure_keys", work) = [work EXCEPT !.keys = IF work.keys = "absent" THEN "by_key" ELSE work.keys]
    BY DEF Effect
  <2>6. ~inTxn
    BY <1>4 DEF DiskInv
  <2>7. /\ work' = [work EXCEPT !.keys = IF work.keys = "absent" THEN "by_key" ELSE work.keys] /\ disk' = work'
        /\ position' = position + 1 /\ pc' = "record"
    BY <2>1, <2>4, <2>5, <2>6, <1>1, <1>4 DEF ExecScript, Store
  <2>8. UNCHANGED inTxn
    BY <2>1, <2>4, <1>4 DEF ExecScript
  <2> QED
    BY <2>7, <2>8, <1>2, <1>4 DEF Stored
<1>5. CASE version = 2 /\ position = 1
  <2>1. Script(version)[position] = "ensure_security" /\ Len(Script(version)) = 1
    BY <1>5, ScriptFacts
  <2>4. ~Refused("ensure_security", work)
    BY DEF Refused
  <2>5. Effect("ensure_security", work) = [work EXCEPT !.security = TRUE]
    BY DEF Effect
  <2>6. ~inTxn
    BY <1>5 DEF DiskInv
  <2>7. /\ work' = [work EXCEPT !.security = TRUE] /\ disk' = work'
        /\ position' = position + 1 /\ pc' = "record"
    BY <2>1, <2>4, <2>5, <2>6, <1>1, <1>5 DEF ExecScript, Store
  <2>8. UNCHANGED inTxn
    BY <2>1, <2>4, <1>5 DEF ExecScript
  <2> QED
    BY <2>7, <2>8, <1>2, <1>5 DEF Stored
<1>6. CASE version = 3 /\ position = 1
  <2>1. Script(version)[position] = "begin" /\ Len(Script(version)) = 7
    BY <1>6, ScriptFacts
  <2>4. ~Refused("begin", work)
    BY DEF Refused
  <2>5. Effect("begin", work) = work
    BY DEF Effect
  <2>6. ~inTxn
    BY <1>6 DEF DiskInv
  <2>7. /\ work' = work /\ disk' = work'
        /\ position' = position + 1 /\ pc' = "script"
    BY <2>1, <2>4, <2>5, <2>6, <1>1, <1>6 DEF ExecScript, Store
  <2>8. inTxn' = TRUE
    BY <2>1, <2>4, <1>6 DEF ExecScript
  <2> QED
    BY <2>7, <2>8, <1>2, <1>6 DEF Stored
<1>7. CASE version = 3 /\ position = 2
  <2>1. Script(version)[position] = "rename" /\ Len(Script(version)) = 7
    BY <1>7, ScriptFacts
  <2>2. inTxn
    BY <1>1, <1>7 DEF ScriptInv
  <2>3. work.keys # "absent" /\ work.legacy = "absent"
    BY <2>2, <1>7 DEF DiskInv, Rebuilding, Settled, Renamed
  <2>4. ~Refused("rename", work)
    BY <2>3 DEF Refused
  <2>5. Effect("rename", work) = [work EXCEPT !.legacy = work.keys, !.legacyRows = work.rows,
                       !.keys = "absent", !.rows = {},
                       !.index = IF work.index = "keys" THEN "legacy" ELSE work.index]
    BY DEF Effect
  <2> QED
    BY <2>1, <2>2, <2>4, <2>5, <1>1, <1>2, <1>7 DEF ExecScript, Store, Kept
<1>8. CASE version = 3 /\ position = 3
  <2>1. Script(version)[position] = "create" /\ Len(Script(version)) = 7
    BY <1>8, ScriptFacts
  <2>2. inTxn
    BY <1>1, <1>8 DEF ScriptInv
  <2>3. work.keys = "absent"
    BY <2>2, <1>8 DEF DiskInv, Rebuilding, Settled, Renamed
  <2>4. ~Refused("create", work)
    BY <2>3 DEF Refused
  <2>5. Effect("create", work) = [work EXCEPT !.keys = "by_actor"]
    BY DEF Effect
  <2> QED
    BY <2>1, <2>2, <2>4, <2>5, <1>1, <1>2, <1>8 DEF ExecScript, Store, Kept
<1>9. CASE version = 3 /\ position = 4
  <2>1. Script(version)[position] = "copy" /\ Len(Script(version)) = 7
    BY <1>9, ScriptFacts
  <2>2. inTxn
    BY <1>1, <1>9 DEF ScriptInv
  <2>3. work.keys # "absent" /\ work.legacy # "absent"
    BY <2>2, <1>9 DEF DiskInv, Rebuilding, Settled, Renamed
  <2>4. ~Refused("copy", work)
    BY <2>3 DEF Refused
  <2>5. Effect("copy", work) = [work EXCEPT !.rows = work.rows \cup work.legacyRows]
    BY DEF Effect
  <2> QED
    BY <2>1, <2>2, <2>4, <2>5, <1>1, <1>2, <1>9 DEF ExecScript, Store, Kept
<1>10. CASE version = 3 /\ position = 5
  <2>1. Script(version)[position] = "drop" /\ Len(Script(version)) = 7
    BY <1>10, ScriptFacts
  <2>2. inTxn
    BY <1>1, <1>10 DEF ScriptInv
  <2>3. work.legacy # "absent"
    BY <2>2, <1>10 DEF DiskInv, Rebuilding, Settled, Renamed
  <2>4. ~Refused("drop", work)
    BY <2>3 DEF Refused
  <2>5. Effect("drop", work) = [work EXCEPT !.legacy = "absent", !.legacyRows = {},
                       !.index = IF work.index = "legacy" THEN "none" ELSE work.index]
    BY DEF Effect
  <2> QED
    BY <2>1, <2>2, <2>4, <2>5, <1>1, <1>2, <1>10 DEF ExecScript, Store, Kept
<1>11. CASE version = 3 /\ position = 6
  <2>1. Script(version)[position] = "index" /\ Len(Script(version)) = 7
    BY <1>11, ScriptFacts
  <2>2. inTxn
    BY <1>1, <1>11 DEF ScriptInv
  <2>3. work.keys # "absent" /\ work.index = "none"
    BY <2>2, <1>11 DEF DiskInv, Rebuilding, Settled, Renamed
  <2>4. ~Refused("index", work)
    BY <2>3 DEF Refused
  <2>5. Effect("index", work) = [work EXCEPT !.index = "keys"]
    BY DEF Effect
  <2> QED
    BY <2>1, <2>2, <2>4, <2>5, <1>1, <1>2, <1>11 DEF ExecScript, Store, Kept
<1>12. CASE version = 3 /\ position = 7
  <2>1. Script(version)[position] = "commit" /\ Len(Script(version)) = 7
    BY <1>12, ScriptFacts
  <2>4. ~Refused("commit", work)
    BY DEF Refused
  <2>5. Effect("commit", work) = work
    BY DEF Effect
  <2>6. work' = work /\ disk' = work /\ position' = position + 1 /\ pc' = "record"
    BY <2>1, <2>4, <1>12 DEF ExecScript
  <2>7. inTxn' = FALSE
    BY <2>1, <2>4, <1>12 DEF ExecScript
  <2> QED
    BY <2>6, <2>7, <1>2, <1>12 DEF Stored
<1>13. \/ version = 1 /\ position = 1
       \/ version = 1 /\ position = 2
       \/ version = 2 /\ position = 1
       \/ version = 3 /\ position = 1
       \/ version = 3 /\ position = 2
       \/ version = 3 /\ position = 3
       \/ version = 3 /\ position = 4
       \/ version = 3 /\ position = 5
       \/ version = 3 /\ position = 6
       \/ version = 3 /\ position = 7
  <2>1. version = 1 \/ version = 2 \/ version = 3
    BY <1>1 DEF Versions
  <2>2. ASSUME version = 1 PROVE position \in 1..2
    <3>1. Len(Script(version)) = 2
      BY <2>2, ScriptFacts
    <3> QED
      BY <3>1, <1>1
  <2>3. ASSUME version = 2 PROVE position \in 1..1
    <3>1. Len(Script(version)) = 1
      BY <2>3, ScriptFacts
    <3> QED
      BY <3>1, <1>1
  <2>4. version = 3 => position \in 1..7
    BY <1>1, ScriptFacts
  <2> QED
    BY <2>1, <2>2, <2>3, <2>4
<1> QED
  BY <1>13, <1>3, <1>4, <1>5, <1>6, <1>7, <1>8, <1>9, <1>10, <1>11, <1>12, Zenon

\* A statement of a script keeps the invariants.
LEMMA ExecStep ==
    ASSUME TypeOK, DiskInv, ScriptInv, AccountInv, ExecScript
    PROVE  TypeOK' /\ DiskInv' /\ ScriptInv' /\ AccountInv'
<1>1. /\ position' = position + 1 /\ UNCHANGED <<version, inherited, cut, crashes>>
      /\ pc = "script" /\ Before(version) /\ version \notin work.recorded
      /\ work \in Image /\ disk \in Image
  BY ExecCases DEF ExecScript, ScriptInv, TypeOK
<1>2. CASE /\ version = 1 /\ position = 1 /\ pc' = "script"
            /\ Stored([work EXCEPT !.base = TRUE]) /\ UNCHANGED inTxn
  <2>1. ~inTxn /\ work = disk
    BY <1>2 DEF DiskInv, TypeOK
  <2>2. TypeOK'
    <3>1. work' \in Image
      BY <1>1, <1>2 DEF Image, Shapes, Stored
    <3>2. disk' \in Image /\ inTxn' \in BOOLEAN /\ (~inTxn' => work' = disk')
      BY <1>1, <1>2, <2>1, <3>1 DEF Stored, TypeOK
    <3>3. pc' \in ControlPoints /\ version' \in 1..4 /\ position' \in 1..8
      BY <1>1, <1>2 DEF ControlPoints
    <3> QED
      BY <1>1, <3>1, <3>2, <3>3 DEF TypeOK
  <2>3. DiskInv'
    BY <1>1, <1>2, <2>1
       DEF DiskInv, Settled, Recorded, Rebuilding, Renamed, Before, Versions, Stored, TypeOK, Image, Shapes
  <2>4. ScriptInv'
    BY <1>1, <1>2, <2>1, ScriptFacts
       DEF ScriptInv, Before, Versions, Stored, TypeOK, Image, Shapes, Rebuilding, Settled
  <2>5. AccountInv'
    BY <1>1, <1>2, <2>1 DEF AccountInv, Stored, TypeOK, Image
  <2> QED
    BY <2>2, <2>3, <2>4, <2>5
<1>3. CASE /\ version = 1 /\ position = 2 /\ pc' = "record"
            /\ Stored([work EXCEPT !.keys = IF work.keys = "absent" THEN "by_key" ELSE work.keys]) /\ UNCHANGED inTxn
  <2>1. ~inTxn /\ work = disk
    BY <1>3 DEF DiskInv, TypeOK
  <2>2. TypeOK'
    <3>1. work' \in Image
      BY <1>1, <1>3 DEF Image, Shapes, Stored
    <3>2. disk' \in Image /\ inTxn' \in BOOLEAN /\ (~inTxn' => work' = disk')
      BY <1>1, <1>3, <2>1, <3>1 DEF Stored, TypeOK
    <3>3. pc' \in ControlPoints /\ version' \in 1..4 /\ position' \in 1..8
      BY <1>1, <1>3 DEF ControlPoints
    <3> QED
      BY <1>1, <3>1, <3>2, <3>3 DEF TypeOK
  <2>3. DiskInv'
    BY <1>1, <1>3, <2>1
       DEF DiskInv, Settled, Recorded, Rebuilding, Renamed, Before, Versions, Stored, TypeOK, Image, Shapes
  <2>4. ScriptInv'
    BY <1>1, <1>3, <2>1, ScriptFacts
       DEF ScriptInv, Before, Versions, Stored, TypeOK, Image, Shapes, Rebuilding, Settled
  <2>5. AccountInv'
    BY <1>1, <1>3, <2>1 DEF AccountInv, Stored, TypeOK, Image
  <2> QED
    BY <2>2, <2>3, <2>4, <2>5
<1>4. CASE /\ version = 2 /\ position = 1 /\ pc' = "record"
            /\ Stored([work EXCEPT !.security = TRUE]) /\ UNCHANGED inTxn
  <2>1. ~inTxn /\ work = disk
    BY <1>4 DEF DiskInv, TypeOK
  <2>2. TypeOK'
    <3>1. work' \in Image
      BY <1>1, <1>4 DEF Image, Shapes, Stored
    <3>2. disk' \in Image /\ inTxn' \in BOOLEAN /\ (~inTxn' => work' = disk')
      BY <1>1, <1>4, <2>1, <3>1 DEF Stored, TypeOK
    <3>3. pc' \in ControlPoints /\ version' \in 1..4 /\ position' \in 1..8
      BY <1>1, <1>4 DEF ControlPoints
    <3> QED
      BY <1>1, <3>1, <3>2, <3>3 DEF TypeOK
  <2>3. DiskInv'
    BY <1>1, <1>4, <2>1
       DEF DiskInv, Settled, Recorded, Rebuilding, Renamed, Before, Versions, Stored, TypeOK, Image, Shapes
  <2>4. ScriptInv'
    BY <1>1, <1>4, <2>1, ScriptFacts
       DEF ScriptInv, Before, Versions, Stored, TypeOK, Image, Shapes, Rebuilding, Settled
  <2>5. AccountInv'
    BY <1>1, <1>4, <2>1 DEF AccountInv, Stored, TypeOK, Image
  <2> QED
    BY <2>2, <2>3, <2>4, <2>5
<1>5. CASE /\ version = 3 /\ position = 1 /\ pc' = "script"
            /\ Stored(work) /\ inTxn' = TRUE
  <2>1. ~inTxn /\ work = disk
    BY <1>5 DEF DiskInv, TypeOK
  <2>2. TypeOK'
    <3>1. work' \in Image
      BY <1>1, <1>5 DEF Image, Shapes, Stored
    <3>2. disk' \in Image /\ inTxn' \in BOOLEAN /\ (~inTxn' => work' = disk')
      BY <1>1, <1>5, <2>1, <3>1 DEF Stored, TypeOK
    <3>3. pc' \in ControlPoints /\ version' \in 1..4 /\ position' \in 1..8
      BY <1>1, <1>5 DEF ControlPoints
    <3> QED
      BY <1>1, <3>1, <3>2, <3>3 DEF TypeOK
  <2>3. DiskInv'
    BY <1>1, <1>5, <2>1
       DEF DiskInv, Settled, Recorded, Rebuilding, Renamed, Before, Versions, Stored, TypeOK, Image, Shapes
  <2>4. ScriptInv'
    BY <1>1, <1>5, <2>1, ScriptFacts
       DEF ScriptInv, Before, Versions, Stored, TypeOK, Image, Shapes, Rebuilding, Settled
  <2>5. AccountInv'
    BY <1>1, <1>5, <2>1 DEF AccountInv, Stored, TypeOK, Image
  <2> QED
    BY <2>2, <2>3, <2>4, <2>5
<1>6. CASE /\ version = 3 /\ position = 2 /\ pc' = "script"
            /\ Kept([work EXCEPT !.legacy = work.keys, !.legacyRows = work.rows,
                             !.keys = "absent", !.rows = {},
                             !.index = IF work.index = "keys" THEN "legacy" ELSE work.index])
  <2>1. inTxn /\ Rebuilding
    BY <1>1, <1>6 DEF DiskInv, ScriptInv
  <2>2. TypeOK'
    <3>1. work' \in Image
      BY <1>1, <1>6 DEF Image, Shapes, Kept
    <3>2. disk' \in Image /\ inTxn' \in BOOLEAN /\ (~inTxn' => work' = disk')
      BY <1>1, <1>6, <2>1, <3>1 DEF Kept, TypeOK
    <3>3. pc' \in ControlPoints /\ version' \in 1..4 /\ position' \in 1..8
      BY <1>1, <1>6 DEF ControlPoints
    <3> QED
      BY <1>1, <3>1, <3>2, <3>3 DEF TypeOK
  <2>3. DiskInv'
    BY <1>1, <1>6, <2>1
       DEF DiskInv, Settled, Recorded, Rebuilding, Renamed, Before, Versions, Kept, TypeOK, Image, Shapes
  <2>4. ScriptInv'
    BY <1>1, <1>6, <2>1, ScriptFacts
       DEF ScriptInv, Before, Versions, Kept, TypeOK, Image, Shapes, Rebuilding, Settled
  <2>5. AccountInv'
    BY <1>1, <1>6, <2>1 DEF AccountInv, Kept, TypeOK, Image
  <2> QED
    BY <2>2, <2>3, <2>4, <2>5
<1>7. CASE /\ version = 3 /\ position = 3 /\ pc' = "script"
            /\ Kept([work EXCEPT !.keys = "by_actor"])
  <2>1. inTxn /\ Rebuilding
    BY <1>1, <1>7 DEF DiskInv, ScriptInv
  <2>2. TypeOK'
    <3>1. work' \in Image
      BY <1>1, <1>7 DEF Image, Shapes, Kept
    <3>2. disk' \in Image /\ inTxn' \in BOOLEAN /\ (~inTxn' => work' = disk')
      BY <1>1, <1>7, <2>1, <3>1 DEF Kept, TypeOK
    <3>3. pc' \in ControlPoints /\ version' \in 1..4 /\ position' \in 1..8
      BY <1>1, <1>7 DEF ControlPoints
    <3> QED
      BY <1>1, <3>1, <3>2, <3>3 DEF TypeOK
  <2>3. DiskInv'
    BY <1>1, <1>7, <2>1
       DEF DiskInv, Settled, Recorded, Rebuilding, Renamed, Before, Versions, Kept, TypeOK, Image, Shapes
  <2>4. ScriptInv'
    BY <1>1, <1>7, <2>1, ScriptFacts
       DEF ScriptInv, Before, Versions, Kept, TypeOK, Image, Shapes, Rebuilding, Settled
  <2>5. AccountInv'
    BY <1>1, <1>7, <2>1 DEF AccountInv, Kept, TypeOK, Image
  <2> QED
    BY <2>2, <2>3, <2>4, <2>5
<1>8. CASE /\ version = 3 /\ position = 4 /\ pc' = "script"
            /\ Kept([work EXCEPT !.rows = work.rows \cup work.legacyRows])
  <2>1. inTxn /\ Rebuilding
    BY <1>1, <1>8 DEF DiskInv, ScriptInv
  <2>2. TypeOK'
    <3>1. work' \in Image
      BY <1>1, <1>8 DEF Image, Shapes, Kept
    <3>2. disk' \in Image /\ inTxn' \in BOOLEAN /\ (~inTxn' => work' = disk')
      BY <1>1, <1>8, <2>1, <3>1 DEF Kept, TypeOK
    <3>3. pc' \in ControlPoints /\ version' \in 1..4 /\ position' \in 1..8
      BY <1>1, <1>8 DEF ControlPoints
    <3> QED
      BY <1>1, <3>1, <3>2, <3>3 DEF TypeOK
  <2>3. DiskInv'
    BY <1>1, <1>8, <2>1
       DEF DiskInv, Settled, Recorded, Rebuilding, Renamed, Before, Versions, Kept, TypeOK, Image, Shapes
  <2>4. ScriptInv'
    BY <1>1, <1>8, <2>1, ScriptFacts
       DEF ScriptInv, Before, Versions, Kept, TypeOK, Image, Shapes, Rebuilding, Settled
  <2>5. AccountInv'
    BY <1>1, <1>8, <2>1 DEF AccountInv, Kept, TypeOK, Image
  <2> QED
    BY <2>2, <2>3, <2>4, <2>5
<1>9. CASE /\ version = 3 /\ position = 5 /\ pc' = "script"
            /\ Kept([work EXCEPT !.legacy = "absent", !.legacyRows = {},
                             !.index = IF work.index = "legacy" THEN "none" ELSE work.index])
  <2>1. inTxn /\ Rebuilding
    BY <1>1, <1>9 DEF DiskInv, ScriptInv
  <2>2. TypeOK'
    <3>1. work' \in Image
      BY <1>1, <1>9 DEF Image, Shapes, Kept
    <3>2. disk' \in Image /\ inTxn' \in BOOLEAN /\ (~inTxn' => work' = disk')
      BY <1>1, <1>9, <2>1, <3>1 DEF Kept, TypeOK
    <3>3. pc' \in ControlPoints /\ version' \in 1..4 /\ position' \in 1..8
      BY <1>1, <1>9 DEF ControlPoints
    <3> QED
      BY <1>1, <3>1, <3>2, <3>3 DEF TypeOK
  <2>3. DiskInv'
    BY <1>1, <1>9, <2>1
       DEF DiskInv, Settled, Recorded, Rebuilding, Renamed, Before, Versions, Kept, TypeOK, Image, Shapes
  <2>4. ScriptInv'
    BY <1>1, <1>9, <2>1, ScriptFacts
       DEF ScriptInv, Before, Versions, Kept, TypeOK, Image, Shapes, Rebuilding, Settled
  <2>5. AccountInv'
    BY <1>1, <1>9, <2>1 DEF AccountInv, Kept, TypeOK, Image
  <2> QED
    BY <2>2, <2>3, <2>4, <2>5
<1>10. CASE /\ version = 3 /\ position = 6 /\ pc' = "script"
            /\ Kept([work EXCEPT !.index = "keys"])
  <2>1. inTxn /\ Rebuilding
    BY <1>1, <1>10 DEF DiskInv, ScriptInv
  <2>2. TypeOK'
    <3>1. work' \in Image
      BY <1>1, <1>10 DEF Image, Shapes, Kept
    <3>2. disk' \in Image /\ inTxn' \in BOOLEAN /\ (~inTxn' => work' = disk')
      BY <1>1, <1>10, <2>1, <3>1 DEF Kept, TypeOK
    <3>3. pc' \in ControlPoints /\ version' \in 1..4 /\ position' \in 1..8
      BY <1>1, <1>10 DEF ControlPoints
    <3> QED
      BY <1>1, <3>1, <3>2, <3>3 DEF TypeOK
  <2>3. DiskInv'
    BY <1>1, <1>10, <2>1
       DEF DiskInv, Settled, Recorded, Rebuilding, Renamed, Before, Versions, Kept, TypeOK, Image, Shapes
  <2>4. ScriptInv'
    BY <1>1, <1>10, <2>1, ScriptFacts
       DEF ScriptInv, Before, Versions, Kept, TypeOK, Image, Shapes, Rebuilding, Settled
  <2>5. AccountInv'
    BY <1>1, <1>10, <2>1 DEF AccountInv, Kept, TypeOK, Image
  <2> QED
    BY <2>2, <2>3, <2>4, <2>5
<1>11. CASE /\ version = 3 /\ position = 7 /\ pc' = "record"
            /\ Stored(work) /\ inTxn' = FALSE
  <2>1. inTxn /\ Rebuilding
    BY <1>1, <1>11 DEF DiskInv, ScriptInv
  <2>2. TypeOK'
    <3>1. work' \in Image
      BY <1>1, <1>11 DEF Image, Shapes, Stored
    <3>2. disk' \in Image /\ inTxn' \in BOOLEAN /\ (~inTxn' => work' = disk')
      BY <1>1, <1>11, <2>1, <3>1 DEF Stored, TypeOK
    <3>3. pc' \in ControlPoints /\ version' \in 1..4 /\ position' \in 1..8
      BY <1>1, <1>11 DEF ControlPoints
    <3> QED
      BY <1>1, <3>1, <3>2, <3>3 DEF TypeOK
  <2>3. DiskInv'
    BY <1>1, <1>11, <2>1
       DEF DiskInv, Settled, Recorded, Rebuilding, Renamed, Before, Versions, Stored, TypeOK, Image, Shapes
  <2>4. ScriptInv'
    BY <1>1, <1>11, <2>1, ScriptFacts
       DEF ScriptInv, Before, Versions, Stored, TypeOK, Image, Shapes, Rebuilding, Settled
  <2>5. AccountInv'
    BY <1>1, <1>11, <2>1 DEF AccountInv, Stored, TypeOK, Image
  <2> QED
    BY <2>2, <2>3, <2>4, <2>5
<1> QED
  BY ExecCases, <1>2, <1>3, <1>4, <1>5, <1>6, <1>7, <1>8, <1>9, <1>10, <1>11

\* Every step of a start keeps the invariants.
LEMMA StartStep ==
    StartInv /\ [Next]_vars
        => StartInv'
<1> SUFFICES ASSUME StartInv, [Next]_vars PROVE StartInv'
  OBVIOUS
<1> USE DEF StartInv
<1>1. CASE Open
  <2>1. UNCHANGED <<disk, work, inTxn, inherited, cut, crashes>> /\ ~inTxn
    BY <1>1 DEF Open, DiskInv
  <2>2. TypeOK'
    BY <1>1, <2>1 DEF Open, TypeOK, ControlPoints, Versions
  <2>3. DiskInv'
    BY <2>1 DEF DiskInv, Settled, Recorded
  <2>4. ScriptInv'
    BY <1>1, <2>1, ScriptFacts DEF Open, ScriptInv, Before, TypeOK, Versions
  <2>5. AccountInv'
    BY <1>1, <2>1 DEF Open, AccountInv, DiskInv, ScriptInv
  <2> QED
    BY <2>2, <2>3, <2>4, <2>5
<1>2. CASE EnsureLedger
  <2>1. UNCHANGED <<disk, work, inTxn, inherited, cut, crashes>> /\ ~inTxn
    BY <1>2 DEF EnsureLedger, DiskInv
  <2>2. TypeOK'
    BY <1>2, <2>1 DEF EnsureLedger, TypeOK, ControlPoints, Versions
  <2>3. DiskInv'
    BY <2>1 DEF DiskInv, Settled, Recorded
  <2>4. ScriptInv'
    BY <1>2, <2>1, ScriptFacts DEF EnsureLedger, ScriptInv, Before, TypeOK, Versions
  <2>5. AccountInv'
    BY <1>2, <2>1 DEF EnsureLedger, AccountInv, DiskInv, ScriptInv
  <2> QED
    BY <2>2, <2>3, <2>4, <2>5
<1>3. CASE Lookup
  <2>1. UNCHANGED <<disk, work, inTxn, inherited, cut, crashes>> /\ ~inTxn
    BY <1>3 DEF Lookup, DiskInv
  <2>2. TypeOK'
    BY <1>3, <2>1 DEF Lookup, TypeOK, ControlPoints, Versions
  <2>3. DiskInv'
    BY <2>1 DEF DiskInv, Settled, Recorded
  <2>4. ScriptInv'
    BY <1>3, <2>1, ScriptFacts DEF Lookup, ScriptInv, Before, TypeOK, Versions
  <2>5. AccountInv'
    BY <1>3, <2>1 DEF Lookup, AccountInv, DiskInv, ScriptInv
  <2> QED
    BY <2>2, <2>3, <2>4, <2>5
<1>4. CASE ExecScript
  BY <1>4, ExecStep
<1>5. CASE Record
  <2>1. ~inTxn /\ work = disk /\ work \in Image /\ pc = "record"
    BY <1>5 DEF Record, DiskInv, TypeOK
  <2>2. /\ work' = [work EXCEPT !.recorded = work.recorded \cup {version}] /\ disk' = work' /\ pc' = "lookup"
        /\ UNCHANGED <<inTxn, position, inherited, cut, crashes>>
    BY <1>5, <2>1 DEF Record, Store
  <2>3. TypeOK'
    <3>1. work' \in Image
      BY <2>1, <2>2, <1>5 DEF Image, Versions, ScriptInv
    <3>2. version' \in 1..4
      BY <1>5 DEF Record, ScriptInv, TypeOK, Versions
    <3> QED
      BY <2>2, <3>1, <3>2 DEF TypeOK, ControlPoints
  <2>4. DiskInv'
    BY <2>1, <2>2, <1>5 DEF DiskInv, Settled, Recorded, ScriptInv, Image, Record
  <2>5. ScriptInv'
    BY <2>1, <2>2, <1>5 DEF ScriptInv, Before, Versions, Image, Record
  <2>6. AccountInv'
    BY <2>1, <2>2, <1>5 DEF AccountInv, Image
  <2> QED
    BY <2>3, <2>4, <2>5, <2>6
<1>6. CASE UserCount
  <2>1. UNCHANGED <<disk, work, inTxn, inherited, cut, crashes>> /\ ~inTxn
    BY <1>6 DEF UserCount, DiskInv
  <2>2. TypeOK'
    BY <1>6, <2>1 DEF UserCount, TypeOK, ControlPoints, Versions
  <2>3. DiskInv'
    BY <2>1 DEF DiskInv, Settled, Recorded
  <2>4. ScriptInv'
    BY <1>6, <2>1, ScriptFacts DEF UserCount, ScriptInv, Before, TypeOK, Versions
  <2>5. AccountInv'
    BY <1>6, <2>1 DEF UserCount, AccountInv, DiskInv, ScriptInv
  <2> QED
    BY <2>2, <2>3, <2>4, <2>5
<1>7. CASE InsertUser
  <2>1. ~inTxn /\ work = disk /\ work \in Image /\ pc = "insert_user"
    BY <1>7 DEF InsertUser, DiskInv, TypeOK
  <2>2. /\ work' = [work EXCEPT !.user = TRUE] /\ disk' = work' /\ pc' = "break_glass"
        /\ UNCHANGED <<inTxn, position, inherited, cut, crashes>>
    BY <1>7, <2>1 DEF InsertUser, Store
  <2>3. TypeOK'
    <3>1. work' \in Image
      BY <2>1, <2>2, <1>7 DEF Image, Versions, ScriptInv
    <3>2. version' \in 1..4
      BY <1>7 DEF InsertUser, ScriptInv, TypeOK, Versions
    <3> QED
      BY <2>2, <3>1, <3>2 DEF TypeOK, ControlPoints
  <2>4. DiskInv'
    BY <2>1, <2>2, <1>7 DEF DiskInv, Settled, Recorded, ScriptInv, Image, InsertUser
  <2>5. ScriptInv'
    BY <2>1, <2>2, <1>7 DEF ScriptInv, Before, Versions, Image, InsertUser
  <2>6. AccountInv'
    BY <2>1, <2>2, <1>7 DEF AccountInv, Image
  <2> QED
    BY <2>3, <2>4, <2>5, <2>6
<1>8. CASE SetBreakGlass
  <2>1. ~inTxn /\ work = disk /\ work \in Image /\ pc = "break_glass"
    BY <1>8 DEF SetBreakGlass, DiskInv, TypeOK
  <2>2. /\ work' = [work EXCEPT !.flagged = TRUE] /\ disk' = work' /\ pc' = "assign_role"
        /\ UNCHANGED <<inTxn, position, inherited, cut, crashes>>
    BY <1>8, <2>1 DEF SetBreakGlass, Store
  <2>3. TypeOK'
    <3>1. work' \in Image
      BY <2>1, <2>2, <1>8 DEF Image, Versions, ScriptInv
    <3>2. version' \in 1..4
      BY <1>8 DEF SetBreakGlass, ScriptInv, TypeOK, Versions
    <3> QED
      BY <2>2, <3>1, <3>2 DEF TypeOK, ControlPoints
  <2>4. DiskInv'
    BY <2>1, <2>2, <1>8 DEF DiskInv, Settled, Recorded, ScriptInv, Image, SetBreakGlass
  <2>5. ScriptInv'
    BY <2>1, <2>2, <1>8 DEF ScriptInv, Before, Versions, Image, SetBreakGlass
  <2>6. AccountInv'
    BY <2>1, <2>2, <1>8 DEF AccountInv, Image
  <2> QED
    BY <2>3, <2>4, <2>5, <2>6
<1>9. CASE AssignRole
  <2>1. ~inTxn /\ work = disk /\ work \in Image /\ pc = "assign_role"
    BY <1>9 DEF AssignRole, DiskInv, TypeOK
  <2>2. /\ work' = [work EXCEPT !.admin = TRUE] /\ disk' = work' /\ pc' = "serving"
        /\ UNCHANGED <<inTxn, position, inherited, cut, crashes>>
    BY <1>9, <2>1 DEF AssignRole, Store
  <2>3. TypeOK'
    <3>1. work' \in Image
      BY <2>1, <2>2, <1>9 DEF Image, Versions, ScriptInv
    <3>2. version' \in 1..4
      BY <1>9 DEF AssignRole, ScriptInv, TypeOK, Versions
    <3> QED
      BY <2>2, <3>1, <3>2 DEF TypeOK, ControlPoints
  <2>4. DiskInv'
    BY <2>1, <2>2, <1>9 DEF DiskInv, Settled, Recorded, ScriptInv, Image, AssignRole
  <2>5. ScriptInv'
    BY <2>1, <2>2, <1>9 DEF ScriptInv, Before, Versions, Image, AssignRole
  <2>6. AccountInv'
    BY <2>1, <2>2, <1>9 DEF AccountInv, Image
  <2> QED
    BY <2>3, <2>4, <2>5, <2>6
<1>10. CASE NoPassword
  <2>1. UNCHANGED <<disk, work, inTxn, inherited, cut, crashes>> /\ ~inTxn
    BY <1>10 DEF NoPassword, DiskInv
  <2>2. TypeOK'
    BY <1>10, <2>1 DEF NoPassword, TypeOK, ControlPoints, Versions
  <2>3. DiskInv'
    BY <2>1 DEF DiskInv, Settled, Recorded
  <2>4. ScriptInv'
    BY <1>10, <2>1, ScriptFacts DEF NoPassword, ScriptInv, Before, TypeOK, Versions
  <2>5. AccountInv'
    BY <1>10, <2>1 DEF NoPassword, AccountInv, DiskInv, ScriptInv
  <2> QED
    BY <2>2, <2>3, <2>4, <2>5
<1>11. CASE Crash
  <2>1. /\ work' = disk /\ inTxn' = FALSE /\ pc' = "down" /\ crashes' \in 0..MaxCrashes
        /\ UNCHANGED <<disk, version, position, inherited>>
        /\ cut' = (cut \/ pc \in {"break_glass", "assign_role"})
    BY <1>11, StartupConstants DEF Crash, TypeOK
  <2>2. TypeOK'
    BY <2>1 DEF TypeOK, ControlPoints
  <2>3. DiskInv'
    BY <2>1 DEF DiskInv, Settled, Recorded
  <2>4. ScriptInv'
    BY <2>1 DEF ScriptInv
  <2>5. disk.user = work.user /\ disk.admin = work.admin
    BY DEF DiskInv, TypeOK
  <2>6. AccountInv'
    BY <2>1, <2>5 DEF AccountInv
  <2> QED
    BY <2>2, <2>3, <2>4, <2>6
<1>12. CASE UNCHANGED vars
  BY <1>12 DEF vars, local, TypeOK, DiskInv, Settled, Recorded, Rebuilding, Renamed,
     ScriptInv, Before, AccountInv
<1> HIDE DEF StartInv
<1> QED
  BY <1>1, <1>2, <1>3, <1>4, <1>5, <1>6, <1>7, <1>8, <1>9, <1>10, <1>11, <1>12
      DEF Next, Start

\* Whatever an earlier release left keeps them too.
LEMMA StartInit == Init => StartInv
<1> SUFFICES ASSUME Init PROVE StartInv
  OBVIOUS
<1>1. PICK n \in 0..3, keys \in SUBSET OldRows, account \in BOOLEAN :
         \E recorded \in IF n = 1 THEN {{}, {1}} ELSE {1..n} :
            disk = Earlier(n, recorded, keys, account)
  BY DEF Init
<1>2. PICK recorded \in SUBSET (1..n) :
         disk = Earlier(n, recorded, keys, account)
  BY <1>1
<1>3. /\ disk.keys = IF n = 0 THEN "absent" ELSE IF n = 3 THEN "by_actor" ELSE "by_key"
      /\ disk.rows = IF n = 0 THEN {} ELSE keys
      /\ disk.index = IF n = 3 THEN "keys" ELSE "none"
      /\ disk.legacy = "absent" /\ disk.legacyRows = {}
      /\ disk.recorded = recorded
  BY <1>2 DEF Earlier, Empty
<1>4. /\ disk.base <=> n > 0
      /\ disk.security <=> n > 1
  BY <1>2 DEF Earlier, Empty
<1>5. /\ disk.user <=> n > 0 /\ account
      /\ disk.admin <=> n > 0 /\ account
  BY <1>2 DEF Earlier, Empty
<1>6. disk \in Image
  <2> DEFINE b == n > 0
             c == n > 1
             u == n > 0 /\ account
             f == n > 1 /\ account
             k == IF n = 0 THEN "absent" ELSE IF n = 3 THEN "by_actor" ELSE "by_key"
             rs == IF n = 0 THEN {} ELSE keys
             x == IF n = 3 THEN "keys" ELSE "none"
  <2>1. b \in BOOLEAN /\ c \in BOOLEAN /\ u \in BOOLEAN /\ f \in BOOLEAN
    BY SMT
  <2>2. /\ k \in Shapes /\ rs \in SUBSET OldRows /\ x \in {"none", "keys", "legacy"}
        /\ recorded \in SUBSET Versions
    BY DEF Shapes, Versions
  <2>3. disk = [Empty EXCEPT !.base = b, !.security = c, !.keys = k, !.rows = rs,
                             !.index = x, !.recorded = recorded, !.user = u,
                             !.admin = u, !.flagged = f]
    BY <1>2, Zenon DEF Earlier
  <2> HIDE DEF b, c, u, f, k, rs, x
  <2>4. disk = [base |-> b, security |-> c, keys |-> k, rows |-> rs,
                legacy |-> "absent", legacyRows |-> {}, index |-> x,
                recorded |-> recorded, user |-> u, flagged |-> f, admin |-> u]
    BY <2>3 DEF Empty
  <2> QED
    BY <2>1, <2>2, <2>4, Zenon DEF Image, Shapes
<1>7. TypeOK
  <2>1. disk.rows \subseteq OldRows
    BY <1>3
  <2>2. /\ work = disk /\ inTxn = FALSE /\ pc = "down" /\ version = 1 /\ position = 1
        /\ inherited = disk.rows /\ cut = FALSE /\ crashes = 0
    BY DEF Init
  <2>3. version \in 1..4 /\ position \in 1..8 /\ crashes \in 0..MaxCrashes
    BY <2>2, StartupConstants
  <2>4. inTxn \in BOOLEAN /\ cut \in BOOLEAN
    BY <2>2
  <2>5. pc \in ControlPoints
    BY <2>2 DEF ControlPoints
  <2> QED
    BY <1>6, <2>1, <2>2, <2>3, <2>4, <2>5, Zenon DEF TypeOK
<1>8. DiskInv
  BY <1>3, <1>4 DEF Init, DiskInv, Settled, Recorded
<1>9. ScriptInv
  BY DEF Init, ScriptInv
<1>10. AccountInv
  BY <1>5 DEF Init, AccountInv
<1> QED
  BY <1>7, <1>8, <1>9, <1>10 DEF StartInv

-----------------------------------------------------------------------------
(***************************************************************************)
(* The audit log.                                                          *)
(***************************************************************************)
AuditInv == AuditTypeOK /\ LinkInv /\ IntactInv /\ SealInv

LEMMA AuditInitial == AuditInit => AuditInv
<1> SUFFICES ASSUME AuditInit PROVE AuditInv
  OBVIOUS
<1> USE AuditConstants DEF AuditInit
<1>1. AuditTypeOK
  <2>1. log \in Seq(1..written)
    OBVIOUS
  <2>2. /\ text \in [RowNumbers -> 0..MaxRows] /\ rest \in [RowNumbers -> 0..MaxRows]
        /\ following \in [RowNumbers -> 0..MaxRows]
        /\ DOMAIN linked = RowNumbers /\ DOMAIN hash = RowNumbers /\ DOMAIN stamp = RowNumbers
    OBVIOUS
  <2>3. /\ at \in [Writers -> {"idle", "insert"}] /\ \A w \in Writers : at[w] = "idle"
        /\ DOMAIN prev = Writers /\ after \in [Writers -> 0..MaxRows]
    OBVIOUS
  <2>4. /\ written \in 0..MaxRows /\ faults \in 0..MaxFaults /\ edits \in 0..MaxEdits
        /\ sealed \in 0..written
    OBVIOUS
  <2>5. mu \in Writers \cup {NoWriter} /\ unread \in BOOLEAN /\ relinked \in BOOLEAN
    BY Zenon
  <2> QED
    BY <2>1, <2>2, <2>3, <2>4, <2>5, Zenon DEF AuditTypeOK
<1>2. LinkInv
  BY DEF LinkInv
<1>3. IntactInv
  BY DEF IntactInv
<1>4. SealInv
  BY DEF SealInv
<1> QED
  BY <1>1, <1>2, <1>3, <1>4 DEF AuditInv

\* A set of positions that is not empty has a last one: its final parts are
\* finite sets, and inclusion is well-founded on these.
LEMMA Greatest ==
    ASSUME NEW k \in Nat, NEW T, T \subseteq 1..k, T # {}
    PROVE  \E b \in T : \A y \in T : y <= b
<1> DEFINE R == StrictSubsetOrdering(1..k)
           Parts == {j..k : j \in T}
<1>1. IsFiniteSet(1..k)
  BY FS_Interval
<1>2. IsWellFoundedOn(R, SUBSET (1..k))
  BY <1>1, FS_StrictSubsetOrderingWellFounded, FS_FiniteSubsetsOfFinite
<1>3. Parts \subseteq SUBSET (1..k) /\ Parts # {}
  <2>1. \A j \in T : j..k \subseteq 1..k
    OBVIOUS
  <2> QED
    BY <2>1
<1> HIDE DEF R
<1>4. PICK p \in Parts : \A q \in Parts : ~(<<q, p>> \in R)
  <2> HIDE DEF Parts
  <2> QED
    BY <1>2, <1>3, WFMin
<1>5. PICK b \in T : p = b..k
  BY <1>4
<1>6. ASSUME NEW y \in T PROVE y <= b
  <2>1. y..k \in Parts
    OBVIOUS
  <2>2. ~(<<y..k, b..k>> \in R)
    BY <1>4, <1>5, <2>1
  <2>3. y..k \in SUBSET (1..k) /\ b..k \in SUBSET (1..k)
    BY <1>3, <1>4, <1>5, <2>1
  <2>4. ~(y..k \subseteq b..k /\ y..k # b..k)
    BY <2>2, <2>3 DEF R, StrictSubsetOrdering
  <2>5. y \in 1..k /\ b \in 1..k
    OBVIOUS
  <2>6. CASE y > b
    <3>1. y..k \subseteq b..k
      BY <2>5, <2>6
    <3>2. b \in b..k /\ ~(b \in y..k)
      BY <2>5, <2>6
    <3> QED
      BY <2>4, <3>1, <3>2
  <2> QED
    BY <2>5, <2>6
<1> QED
  BY <1>6

\* No hash is the empty one.
LEMMA NoDigest == \A words, previous : Digest(words, previous) # NoHash
BY DEF Digest, NoHash

\* Where Record looks for the last hash.
LEMMA LastRow ==
    ASSUME AuditTypeOK, log # <<>>
    PROVE  Last \in 1..written /\ Len(log) \in Nat /\ Last = log[Len(log)]
BY DEF AuditTypeOK, Last

LEMMA ReadLastStep ==
    ASSUME AuditInv, NEW w \in Writers, ReadLast(w)
    PROVE  AuditInv'
<1>1. /\ at' = [at EXCEPT ![w] = "insert"] /\ mu = NoWriter /\ mu' = w /\ written < MaxRows
      /\ prev' = [prev EXCEPT ![w] = IF log = <<>> THEN NoHash ELSE hash[Last]]
      /\ after' = [after EXCEPT ![w] = IF log = <<>> THEN 0 ELSE Last]
      /\ UNCHANGED <<log, text, rest, linked, hash, following, stamp, sealed, relinked,
                    unread, written, faults, edits>>
  BY DEF ReadLast, record, columns
<1>2. AuditTypeOK
  BY DEF AuditInv
<1>3. log # <<>> => Last \in 1..written
  BY <1>2, LastRow
<1>4. written \in 0..MaxRows /\ DOMAIN prev = Writers /\ at \in [Writers -> {"idle", "insert"}]
      /\ after \in [Writers -> 0..MaxRows] /\ MaxRows \in Nat
  BY <1>2, AuditConstants DEF AuditTypeOK
<1>5. /\ after'[w] \in 0..written /\ at'[w] = "insert"
      /\ prev'[w] = IF after'[w] = 0 THEN NoHash ELSE hash[after'[w]]
      /\ after'[w] = IF log = <<>> THEN 0 ELSE Last
  BY <1>1, <1>3, <1>4
<1>6. \A v \in Writers : at'[v] = "insert" => v = w
  BY <1>1, <1>2, <1>4, AuditConstants DEF AuditTypeOK
<1>7. AuditTypeOK'
  <2>1. after' \in [Writers -> 0..MaxRows] /\ at' \in [Writers -> {"idle", "insert"}]
        /\ DOMAIN prev' = Writers
    BY <1>1, <1>3, <1>4
  <2> QED
    BY <1>1, <1>2, <1>6, <2>1 DEF AuditTypeOK
<1>8. LinkInv'
  BY <1>1, <1>5, <1>6 DEF AuditInv, LinkInv
<1>9. IntactInv'
  <2>1. edits = 0 => after'[w] = written
    <3> SUFFICES ASSUME edits = 0 PROVE after'[w] = written
      OBVIOUS
    <3>1. Len(log) = written /\ \A n \in 1..written : log[n] = n
      BY DEF AuditInv, IntactInv
    <3>2. CASE log = <<>>
      BY <3>1, <3>2, <1>5
    <3>3. CASE log # <<>>
      <4>1. written \in 1..written
        BY <3>1, <3>3, <1>2, <1>4 DEF AuditTypeOK
      <4> QED
        BY <3>1, <3>3, <4>1, <1>5 DEF Last
    <3> QED
      BY <3>2, <3>3
  <2> QED
    BY <1>1, <1>6, <2>1 DEF AuditInv, IntactInv
<1>10. SealInv'
  BY <1>1 DEF AuditInv, SealInv
<1> QED
  BY <1>7, <1>8, <1>9, <1>10 DEF AuditInv

LEMMA ReadLastFailsStep ==
    ASSUME AuditInv, NEW w \in Writers, ReadLastFails(w)
    PROVE  AuditInv'
<1>1. /\ at' = [at EXCEPT ![w] = "insert"] /\ mu = NoWriter /\ mu' = w /\ written < MaxRows
      /\ prev' = [prev EXCEPT ![w] = NoHash] /\ after' = [after EXCEPT ![w] = 0]
      /\ unread' = TRUE /\ faults' \in 0..MaxFaults
      /\ UNCHANGED <<log, text, rest, linked, hash, following, stamp, sealed, relinked,
                    written, edits>>
  BY AuditConstants DEF ReadLastFails, record, columns, AuditInv, AuditTypeOK
<1>2. AuditTypeOK
  BY DEF AuditInv
<1>4. written \in 0..MaxRows /\ DOMAIN prev = Writers /\ at \in [Writers -> {"idle", "insert"}]
      /\ after \in [Writers -> 0..MaxRows] /\ MaxRows \in Nat
  BY <1>2, AuditConstants DEF AuditTypeOK
<1>5. after'[w] = 0 /\ prev'[w] = NoHash
  BY <1>1, <1>4
<1>6. \A v \in Writers : at'[v] = "insert" => v = w
  BY <1>1, <1>2, <1>4, AuditConstants DEF AuditTypeOK
<1>7. AuditTypeOK'
  <2>1. after' \in [Writers -> 0..MaxRows] /\ at' \in [Writers -> {"idle", "insert"}]
        /\ DOMAIN prev' = Writers
    BY <1>1, <1>4
  <2> QED
    BY <1>1, <1>2, <1>6, <2>1 DEF AuditTypeOK
<1>8. LinkInv'
  BY <1>1, <1>4, <1>5, <1>6 DEF AuditInv, LinkInv
<1>9. IntactInv'
  BY <1>1 DEF AuditInv, IntactInv
<1>10. SealInv'
  BY <1>1 DEF AuditInv, SealInv
<1> QED
  BY <1>7, <1>8, <1>9, <1>10 DEF AuditInv

LEMMA InsertStep ==
    ASSUME AuditInv, NEW w \in Writers, Insert(w)
    PROVE  AuditInv'
<1> DEFINE n == written + 1
<1>1. /\ log' = Append(log, n) /\ text' = [text EXCEPT ![n] = n]
      /\ rest' = [rest EXCEPT ![n] = n]
      /\ linked' = [linked EXCEPT ![n] = prev[w]]
      /\ hash' = [hash EXCEPT ![n] = Digest(n, prev[w])]
      /\ stamp' = [stamp EXCEPT ![n] = Digest(n, prev[w])]
      /\ following' = [following EXCEPT ![n] = after[w]]
      /\ sealed' = IF edits = 0 /\ ~unread THEN n ELSE sealed
      /\ written' = n /\ at' = [at EXCEPT ![w] = "idle"] /\ mu' = NoWriter
      /\ prev' = [prev EXCEPT ![w] = NoHash] /\ after' = [after EXCEPT ![w] = 0]
      /\ at[w] = "insert"
      /\ UNCHANGED <<unread, relinked, faults, edits>>
  BY DEF Insert, Return
<1>2. AuditTypeOK
  BY DEF AuditInv
<1>3. n \in RowNumbers /\ written \in Nat /\ n \in Nat /\ MaxRows \in Nat
  <2>1. written < MaxRows
    BY <1>1 DEF AuditInv, LinkInv
  <2> QED
    BY <1>2, <2>1, AuditConstants DEF AuditTypeOK, RowNumbers
<1>4. \A v \in Writers : at'[v] = "idle"
  BY <1>1, <1>2 DEF AuditTypeOK
<1>5. /\ text'[n] = n /\ linked'[n] = prev[w] /\ hash'[n] = Digest(n, prev[w])
      /\ stamp'[n] = Digest(n, prev[w]) /\ following'[n] = after[w]
      /\ \A m \in 1..written : /\ text'[m] = text[m] /\ linked'[m] = linked[m]
                               /\ hash'[m] = hash[m] /\ stamp'[m] = stamp[m]
                               /\ following'[m] = following[m]
  <2>1. \A m \in 1..written : m \in RowNumbers /\ m # n
    BY <1>3 DEF RowNumbers
  <2>2. /\ DOMAIN text = RowNumbers /\ DOMAIN linked = RowNumbers
        /\ DOMAIN hash = RowNumbers /\ DOMAIN following = RowNumbers
        /\ DOMAIN stamp = RowNumbers
    BY <1>2 DEF AuditTypeOK
  <2> HIDE DEF n
  <2> QED
    BY <1>1, <1>3, <2>1, <2>2
<1>6. \A m \in 1..written' : m \in 1..written \/ m = n
  BY <1>1, <1>3
<1>7. AuditTypeOK'
  <2>1. log \in Seq(1..n) /\ n \in 1..n
    BY <1>2, <1>3 DEF AuditTypeOK
  <2>2. log' \in Seq(1..written')
    BY <1>1, <2>1
  <2>3. /\ text' \in [RowNumbers -> 0..MaxRows] /\ rest' \in [RowNumbers -> 0..MaxRows]
        /\ following' \in [RowNumbers -> 0..MaxRows]
    <3>1. n \in 0..MaxRows
      BY <1>3 DEF RowNumbers
    <3>2. /\ text \in [RowNumbers -> 0..MaxRows] /\ rest \in [RowNumbers -> 0..MaxRows]
          /\ following \in [RowNumbers -> 0..MaxRows]
          /\ after[w] \in 0..MaxRows
      BY <1>2 DEF AuditTypeOK
    <3> HIDE DEF n
    <3> QED
      BY <1>1, <3>1, <3>2, Zenon
  <2>4. /\ DOMAIN linked' = RowNumbers /\ DOMAIN hash' = RowNumbers
        /\ DOMAIN stamp' = RowNumbers /\ at' \in [Writers -> {"idle", "insert"}]
    BY <1>1, <1>2 DEF AuditTypeOK
  <2>5. written' \in 0..MaxRows /\ mu' \in Writers \cup {NoWriter}
    BY <1>1, <1>3 DEF RowNumbers
  <2>6. /\ DOMAIN prev' = Writers /\ after' \in [Writers -> 0..MaxRows]
        /\ unread' \in BOOLEAN /\ relinked' \in BOOLEAN
        /\ faults' \in 0..MaxFaults /\ edits' \in 0..MaxEdits
    <3>1. 0 \in 0..MaxRows
      BY <1>3
    <3> HIDE DEF n
    <3> QED
      BY <1>1, <1>2, <3>1 DEF AuditTypeOK
  <2>7. sealed' \in 0..written'
    BY <1>1, <1>2, <1>3 DEF AuditTypeOK
  <2> QED
    BY <1>4, <2>2, <2>3, <2>4, <2>5, <2>6, <2>7 DEF AuditTypeOK
<1> HIDE DEF n
<1>8. LinkInv'
  <2>1. /\ after[w] \in 0..written
        /\ ~relinked => prev[w] = IF after[w] = 0 THEN NoHash ELSE hash[after[w]]
    BY <1>1 DEF AuditInv, LinkInv
  <2>2. \A k \in 0..written : k \in 0..written' /\ (k # 0 => k \in 1..written)
    BY <1>1, <1>3 DEF n
  <2>3. ~relinked => \A m \in 1..written' : hash'[m] = Digest(m, linked'[m])
    BY <1>5, <1>6 DEF AuditInv, LinkInv
  <2>4. \A m \in 1..written' : following'[m] \in 0..written
    BY <1>5, <1>6, <2>1 DEF AuditInv, LinkInv
  <2>5. ~relinked => \A m \in 1..written' :
          linked'[m] = IF following'[m] = 0 THEN NoHash ELSE hash'[following'[m]]
    <3> SUFFICES ASSUME ~relinked
                 PROVE  \A m \in 1..written' :
                          linked'[m] = IF following'[m] = 0 THEN NoHash ELSE hash'[following'[m]]
      OBVIOUS
    <3>1. \A m \in 1..written' :
            linked'[m] = IF following'[m] = 0 THEN NoHash ELSE hash[following'[m]]
      BY <1>5, <1>6, <2>1 DEF AuditInv, LinkInv
    <3> QED
      BY <3>1, <2>2, <2>4, <1>5
  <2> QED
    BY <1>1, <1>4, <2>2, <2>3, <2>4, <2>5 DEF LinkInv
<1>9. IntactInv'
  <2> SUFFICES ASSUME edits = 0 PROVE IntactInv'
    BY <1>1 DEF IntactInv
  <2>1. /\ Len(log) = written /\ \A m \in 1..written : log[m] = m /\ text[m] = m
        /\ ~relinked
        /\ ~unread => /\ \A m \in 1..written : following[m] = m - 1
                      /\ after[w] = written
    BY <1>1 DEF AuditInv, IntactInv
  <2>2. Len(log') = n /\ log'[n] = n /\ \A m \in 1..written : log'[m] = log[m]
    <3>1. log \in Seq(1..written) /\ log' = Append(log, n)
      BY <1>1, <1>2 DEF AuditTypeOK
    <3>2. Len(log) = written /\ n = written + 1 /\ written \in Nat
      BY <2>1, <1>3 DEF n
    <3> QED
      BY <3>1, <3>2
  <2>3. n - 1 = written
    BY <1>3 DEF n
  <2> QED
    BY <1>1, <1>4, <1>5, <1>6, <2>1, <2>2, <2>3 DEF IntactInv
<1>10. SealInv'
  <2>1. \A m \in 1..written' : hash'[m] # NoHash /\ text'[m] \in {0, m}
    BY <1>5, <1>6, NoDigest DEF AuditInv, SealInv
  <2>2. CASE edits = 0 /\ ~unread
    <3>1. /\ sealed = written /\ sealed' = n /\ written' = n /\ edits' = 0 /\ after[w] = written
          /\ \A m \in 1..written : hash[m] = stamp[m]
          /\ prev[w] = IF after[w] = 0 THEN NoHash ELSE hash[after[w]]
      BY <1>1, <2>2 DEF AuditInv, SealInv, IntactInv, LinkInv
    <3>2. prev[w] = IF n = 1 THEN NoHash ELSE stamp'[n - 1]
      <4>1. CASE written = 0
        BY <3>1, <4>1 DEF n
      <4>2. CASE written # 0
        <5>1. written \in 1..written /\ n - 1 = written /\ n # 1
          BY <1>3, <4>2 DEF n
        <5> QED
          BY <1>5, <3>1, <4>2, <5>1
      <4> QED
        BY <4>1, <4>2
    <3>3. ASSUME NEW m \in 1..written
          PROVE  stamp'[m] = Digest(m, IF m = 1 THEN NoHash ELSE stamp'[m - 1])
      <4>1. stamp[m] = Digest(m, IF m = 1 THEN NoHash ELSE stamp[m - 1])
        BY <3>1 DEF AuditInv, SealInv
      <4>2. m # 1 => m - 1 \in 1..written
        BY <1>3
      <4> QED
        BY <1>5, <4>1, <4>2
    <3> QED
      BY <1>5, <1>6, <2>1, <3>1, <3>2, <3>3 DEF SealInv
  <2>3. CASE ~(edits = 0 /\ ~unread)
    <3>1. sealed' = sealed /\ sealed \in 0..written
      BY <1>1, <1>2, <2>3 DEF AuditTypeOK
    <3>2. ASSUME NEW m \in 1..sealed
          PROVE  stamp'[m] = Digest(m, IF m = 1 THEN NoHash ELSE stamp'[m - 1])
      <4>1. stamp[m] = Digest(m, IF m = 1 THEN NoHash ELSE stamp[m - 1])
        BY DEF AuditInv, SealInv
      <4>2. m \in 1..written /\ (m # 1 => m - 1 \in 1..written)
        BY <1>3, <3>1
      <4> QED
        BY <1>5, <4>1, <4>2
    <3>3. edits = 0 => \A m \in 1..written' : hash'[m] = stamp'[m]
      BY <1>5, <1>6 DEF AuditInv, SealInv
    <3> QED
      BY <1>1, <2>1, <2>3, <3>1, <3>2, <3>3 DEF SealInv
  <2> QED
    BY <2>2, <2>3
<1> QED
  BY <1>7, <1>8, <1>9, <1>10 DEF AuditInv

LEMMA InsertFailsStep ==
    ASSUME AuditInv, NEW w \in Writers, InsertFails(w)
    PROVE  AuditInv'
<1>1. /\ at' = [at EXCEPT ![w] = "idle"] /\ mu' = NoWriter /\ faults' \in 0..MaxFaults
      /\ prev' = [prev EXCEPT ![w] = NoHash] /\ after' = [after EXCEPT ![w] = 0]
      /\ at[w] = "insert"
      /\ UNCHANGED <<log, text, rest, linked, hash, following, stamp, sealed, relinked,
                    unread, written, edits>>
  BY AuditConstants DEF InsertFails, Return, record, columns, AuditInv, AuditTypeOK
<1>2. \A v \in Writers : at'[v] = "idle"
  BY <1>1 DEF AuditInv, AuditTypeOK
<1>3. AuditTypeOK'
  <2>1. 0 \in 0..MaxRows
    BY AuditConstants
  <2>2. DOMAIN prev' = Writers /\ after' \in [Writers -> 0..MaxRows]
    BY <1>1, <2>1 DEF AuditInv, AuditTypeOK
  <2> QED
    BY <1>1, <1>2, <2>2 DEF AuditInv, AuditTypeOK
<1>4. LinkInv'
  BY <1>1, <1>2 DEF AuditInv, LinkInv
<1>5. IntactInv'
  BY <1>1, <1>2 DEF AuditInv, IntactInv
<1>6. SealInv'
  BY <1>1 DEF AuditInv, SealInv
<1> QED
  BY <1>3, <1>4, <1>5, <1>6 DEF AuditInv

\* A stop leaves the rows; a change by other means leaves their numbers.
LEMMA StopStep ==
    ASSUME AuditInv, Stop
    PROVE  AuditInv'
<1>1. /\ mu' = NoWriter /\ at' = [w \in Writers |-> "idle"]
      /\ prev' = [w \in Writers |-> NoHash] /\ after' = [w \in Writers |-> 0]
      /\ UNCHANGED <<log, text, rest, linked, hash, following, stamp, sealed, relinked,
                    unread, written, faults, edits>>
  BY DEF Stop, record, columns
<1>2. \A v \in Writers : at'[v] = "idle"
  BY <1>1
<1>3. AuditTypeOK'
  BY <1>1, AuditConstants DEF AuditInv, AuditTypeOK
<1>4. LinkInv'
  BY <1>1, <1>2 DEF AuditInv, LinkInv
<1>5. IntactInv'
  BY <1>1, <1>2 DEF AuditInv, IntactInv
<1>6. SealInv'
  BY <1>1 DEF AuditInv, SealInv
<1> QED
  BY <1>3, <1>4, <1>5, <1>6 DEF AuditInv

LEMMA Around ==
    ASSUME NEW l \in Nat, NEW k \in 1..l
    PROVE  /\ 1..(k - 1) \subseteq 1..l /\ (k + 1)..l \subseteq 1..l
           /\ 1 \in Int /\ k - 1 \in Int /\ k + 1 \in Int /\ l \in Int
OBVIOUS

LEMMA AlteredStep ==
    ASSUME AuditInv, Edit, NEW i \in DOMAIN log, Altered(i)
    PROVE  AuditInv'
<1> DEFINE n == log[i]
<1>1. /\ edits' \in 0..MaxEdits /\ edits' # 0
      /\ UNCHANGED <<following, stamp, sealed, mu, at, prev, after, unread, written, faults, log>>
  <2>1. /\ edits < MaxEdits /\ edits' = edits + 1
        /\ UNCHANGED <<following, stamp, sealed, mu, at, prev, after, unread, written, faults>>
    BY Zenon DEF Edit
  <2>2. edits \in 0..MaxEdits /\ MaxEdits \in Nat
    BY AuditConstants DEF AuditInv, AuditTypeOK
  <2>3. edits' \in 0..MaxEdits /\ edits' # 0
    BY <2>1, <2>2
  <2>4. log' = log
    BY ZenonT(40) DEF Altered
  <2> QED
    BY <2>1, <2>3, <2>4
<1>2. n \in 1..written /\ n \in RowNumbers /\ n \in Nat \ {0} /\ written \in 0..MaxRows
      /\ MaxRows \in Nat
  <2>1. log \in Seq(1..written) /\ written \in 0..MaxRows
    BY DEF AuditInv, AuditTypeOK
  <2>2. MaxRows \in Nat
    BY AuditConstants
  <2>3. i \in 1..Len(log)
    BY <2>1
  <2>4. n \in 1..written
    BY <2>1, <2>3, ElementOfSeq, Zenon
  <2> HIDE DEF n
  <2> QED
    BY <2>1, <2>2, <2>4 DEF RowNumbers
<1>3. PICK words \in {text[n], 0}, other \in {rest[n], 0},
           link \in {linked[n], IF i = 1 THEN NoHash ELSE hash[log[i - 1]]} :
        \E digest \in {hash[n], Digest(words, link)} :
           /\ text' = [text EXCEPT ![n] = words] /\ rest' = [rest EXCEPT ![n] = other]
           /\ linked' = [linked EXCEPT ![n] = link] /\ hash' = [hash EXCEPT ![n] = digest]
           /\ relinked' = (relinked \/ link # linked[n] \/ digest # hash[n])
  BY ZenonT(40) DEF Altered
<1>4. PICK digest \in {hash[n], Digest(words, link)} :
        /\ text' = [text EXCEPT ![n] = words] /\ rest' = [rest EXCEPT ![n] = other]
        /\ linked' = [linked EXCEPT ![n] = link] /\ hash' = [hash EXCEPT ![n] = digest]
        /\ relinked' = (relinked \/ link # linked[n] \/ digest # hash[n])
  BY <1>3, Zenon
<1>5. /\ text \in [RowNumbers -> 0..MaxRows] /\ rest \in [RowNumbers -> 0..MaxRows]
      /\ DOMAIN linked = RowNumbers /\ DOMAIN hash = RowNumbers
  BY DEF AuditInv, AuditTypeOK
<1> HIDE DEF n
<1>6. /\ text'[n] = words /\ linked'[n] = link /\ hash'[n] = digest
      /\ \A m \in 1..written : m # n => text'[m] = text[m] /\ linked'[m] = linked[m] /\ hash'[m] = hash[m]
  <2>1. \A m \in 1..written : m \in RowNumbers
    BY <1>2 DEF RowNumbers
  <2> QED
    BY <1>2, <1>4, <1>5, <2>1
<1>7. ~relinked' => ~relinked /\ link = linked[n] /\ digest = hash[n]
  BY <1>4, Zenon
<1>8. ~relinked' => \A m \in 1..written : linked'[m] = linked[m] /\ hash'[m] = hash[m]
  BY <1>6, <1>7
<1>9. AuditTypeOK'
  <2>1. text' \in [RowNumbers -> 0..MaxRows] /\ rest' \in [RowNumbers -> 0..MaxRows]
    <3>1. 0 \in 0..MaxRows /\ text[n] \in 0..MaxRows /\ rest[n] \in 0..MaxRows
      BY <1>2, <1>5
    <3> QED
      BY <1>4, <1>5, <3>1
  <2>2. DOMAIN linked' = RowNumbers /\ DOMAIN hash' = RowNumbers
    BY <1>4, <1>5
  <2>3. relinked' \in BOOLEAN
    BY <1>4, Zenon
  <2> QED
    BY <1>1, <2>1, <2>2, <2>3 DEF AuditInv, AuditTypeOK
<1>10. LinkInv'
  <2>1. \A k \in 0..written : k # 0 => k \in 1..written
    BY <1>2
  <2>2. /\ \A m \in 1..written : following'[m] \in 0..written
        /\ \A w \in Writers : at'[w] = "insert" => written' < MaxRows /\ after'[w] \in 0..written'
    BY <1>1 DEF AuditInv, LinkInv
  <2>3. ASSUME ~relinked'
        PROVE  /\ \A m \in 1..written : hash'[m] = Digest(m, linked'[m])
               /\ \A m \in 1..written :
                     linked'[m] = IF following'[m] = 0 THEN NoHash ELSE hash'[following'[m]]
               /\ \A w \in Writers : at'[w] = "insert" =>
                     prev'[w] = IF after'[w] = 0 THEN NoHash ELSE hash'[after'[w]]
    BY <1>1, <1>7, <1>8, <2>1, <2>2, <2>3 DEF AuditInv, LinkInv
  <2> QED
    BY <1>1, <2>2, <2>3 DEF LinkInv
<1>11. IntactInv'
  BY <1>1 DEF IntactInv
<1>12. SealInv'
  <2>1. \A m \in 1..written : hash'[m] # NoHash /\ text'[m] \in {0, m}
    BY <1>2, <1>6, NoDigest DEF AuditInv, SealInv
  <2> QED
    BY <1>1, <2>1 DEF AuditInv, SealInv
<1> QED
  BY <1>9, <1>10, <1>11, <1>12 DEF AuditInv

LEMMA RemovedStep ==
    ASSUME AuditInv, Edit, NEW i \in DOMAIN log, Removed(i)
    PROVE  AuditInv'
<1>1. /\ edits' \in 0..MaxEdits /\ edits' # 0
      /\ log' = SubSeq(log, 1, i - 1) \o SubSeq(log, i + 1, Len(log))
      /\ UNCHANGED <<text, rest, linked, hash, relinked, following, stamp, sealed, mu, at, prev,
                    after, unread, written, faults>>
  <2>1. /\ edits < MaxEdits /\ edits' = edits + 1
        /\ UNCHANGED <<following, stamp, sealed, mu, at, prev, after, unread, written, faults>>
    BY Zenon DEF Edit
  <2>2. edits \in 0..MaxEdits /\ MaxEdits \in Nat
    BY AuditConstants DEF AuditInv, AuditTypeOK
  <2>3. edits' \in 0..MaxEdits /\ edits' # 0
    BY <2>1, <2>2
  <2> QED
    BY <2>1, <2>3 DEF Removed, columns
<1>2. log \in Seq(1..written)
  BY DEF AuditInv, AuditTypeOK
<1>3. i \in 1..Len(log) /\ Len(log) \in Nat
  BY <1>2
<1>4. /\ \A j \in 1..(i - 1) : log[j] \in 1..written
      /\ \A j \in (i + 1)..Len(log) : log[j] \in 1..written
      /\ 1 \in Int /\ i - 1 \in Int /\ i + 1 \in Int /\ Len(log) \in Int
  <2>1. \A j \in 1..Len(log) : log[j] \in 1..written
    BY <1>2, ElementOfSeq, Zenon
  <2>2. /\ 1..(i - 1) \subseteq 1..Len(log) /\ (i + 1)..Len(log) \subseteq 1..Len(log)
        /\ 1 \in Int /\ i - 1 \in Int /\ i + 1 \in Int /\ Len(log) \in Int
    BY <1>3, Around
  <2> QED
    BY <2>1, <2>2, Zenon
<1>5. /\ SubSeq(log, 1, i - 1) \in Seq(1..written)
      /\ SubSeq(log, i + 1, Len(log)) \in Seq(1..written)
  BY <1>4, SubSeqProperties, Zenon
<1>6. log' \in Seq(1..written)
  BY <1>1, <1>5, ConcatProperties
<1>7. AuditTypeOK'
  BY <1>1, <1>6 DEF AuditInv, AuditTypeOK
<1>8. LinkInv' /\ SealInv'
  BY <1>1 DEF AuditInv, LinkInv, SealInv
<1>9. IntactInv'
  BY <1>1 DEF IntactInv
<1> QED
  BY <1>7, <1>8, <1>9 DEF AuditInv

LEMMA EditStep ==
    ASSUME AuditInv, Edit
    PROVE  AuditInv'
BY AlteredStep, RemovedStep DEF Edit

-----------------------------------------------------------------------------
\* The inductive invariant of the service.
IInv == StartInv /\ AuditInv

LEMMA Invariance == ServiceSpec => []IInv
<1>1. ServiceInit => IInv
  BY StartInit, AuditInitial DEF ServiceInit, IInv
<1>2. IInv /\ [ServiceNext]_<<vars, auditVars>> => IInv'
  <2> SUFFICES ASSUME IInv, [ServiceNext]_<<vars, auditVars>> PROVE IInv'
    OBVIOUS
  <2>1. StartInv'
    <3>1. [Next]_vars
      BY DEF ServiceNext, Next, Stop
    <3> QED
      BY <3>1, StartStep DEF IInv
  <2>2. AuditInv'
    <3>1. CASE UNCHANGED auditVars
      BY <3>1 DEF auditVars, record, columns, IInv, AuditInv, AuditTypeOK, LinkInv, IntactInv, SealInv
    <3>2. CASE Stop
      BY <3>2, StopStep DEF IInv
    <3>3. ASSUME NEW w \in Writers, Write(w) PROVE AuditInv'
      BY <3>3, ReadLastStep, ReadLastFailsStep, InsertStep, InsertFailsStep
         DEF Write, IInv
    <3>4. CASE Edit
      BY <3>4, EditStep DEF IInv
    <3> QED
      BY <3>1, <3>2, <3>3, <3>4 DEF ServiceNext
  <2> QED
    BY <2>1, <2>2 DEF IInv
<1> QED
  BY <1>1, <1>2, PTL DEF ServiceSpec

\* The database, the log and the positions of start and writers keep their
\* types.
THEOREM ServiceTypeCorrect == ServiceSpec => [](TypeOK /\ AuditTypeOK)
<1>1. IInv => TypeOK /\ AuditTypeOK
  BY DEF IInv, StartInv, AuditInv
<1> QED
  BY <1>1, Invariance, PTL

\* No sequence of stops leaves a database that applyMigrations refuses, and the
\* API serves on a complete schema with every row an earlier release stored.
THEOREM MigrationsTheorem == ServiceSpec => []MigrationsReplay
<1>1. IInv => MigrationsReplay
  <2> SUFFICES ASSUME TypeOK, DiskInv, ScriptInv PROVE MigrationsReplay
    BY DEF IInv, StartInv
  <2>1. pc # "broken"
    BY DEF ScriptInv
  <2>2. ASSUME pc = "serving"
        PROVE  /\ disk.recorded = Versions /\ disk.base /\ disk.security
               /\ disk.keys = "by_actor" /\ disk.legacy = "absent" /\ disk.index = "keys"
               /\ disk.rows = inherited
    <3>1. work = disk /\ disk.recorded \subseteq Versions
      BY <2>2 DEF DiskInv, TypeOK, Image
    <3>2. 1 \in disk.recorded /\ 2 \in disk.recorded /\ 3 \in disk.recorded
      BY <2>2, <3>1 DEF ScriptInv, Before, Versions
    <3>3. disk.recorded = Versions
      BY <3>1, <3>2 DEF Versions
    <3> QED
      BY <3>2, <3>3 DEF DiskInv, Settled, Recorded
  <2> QED
    BY <2>1, <2>2 DEF MigrationsReplay
<1> QED
  BY <1>1, Invariance, PTL

\* An account that Bootstrap finds has its role, unless a stop cut its making.
THEOREM EmergencyAccountTheorem == ServiceSpec => []EmergencyAccountAvailable
<1>1. IInv => EmergencyAccountAvailable
  <2> SUFFICES ASSUME TypeOK, DiskInv, AccountInv, pc = "serving"
               PROVE  disk.admin \/ cut
    BY DEF IInv, StartInv, EmergencyAccountAvailable
  <2>1. work = disk
    BY DEF DiskInv, TypeOK
  <2> QED
    BY <2>1 DEF AccountInv
<1> QED
  BY <1>1, Invariance, PTL

\* An accepted log with one hash that Record wrote while nothing else had
\* changed the table has every row up to there, with its text: going back from
\* that row, each link names the hash that Record wrote for the row before.
LEMMA SealedPrefix ==
    ASSUME AuditTypeOK, SealInv, Verify(log),
           NEW i \in DOMAIN log, log[i] <= sealed, hash[log[i]] = stamp[log[i]]
    PROVE  \A j \in 1..i : log[j] = j /\ text[j] = j
<1> DEFINE d == log[i] - i
           Good(j) == d + j \in 1..sealed /\ hash[log[j]] = stamp[d + j]
<1>1. /\ \A j \in 1..i : log[j] \in 1..written /\ j \in DOMAIN log
      /\ i \in Nat \ {0} /\ d \in Int /\ written \in Nat /\ sealed \in 0..written
      /\ d + i = log[i] /\ log[i] \in 1..sealed
  <2>1. /\ log \in Seq(1..written) /\ i \in 1..Len(log) /\ Len(log) \in Nat
        /\ written \in Nat /\ sealed \in 0..written
    BY DEF AuditTypeOK
  <2>2. \A j \in 1..i : j \in 1..Len(log)
    BY <2>1
  <2>3. \A j \in 1..Len(log) : log[j] \in 1..written
    BY <2>1, ElementOfSeq, Zenon
  <2>4. log[i] \in 1..written /\ log[i] \in 1..sealed /\ i \in Nat \ {0}
    BY <2>1, <2>3
  <2>5. d \in Int /\ d + i = log[i]
    BY <2>1, <2>4
  <2>6. DOMAIN log = 1..Len(log)
    BY <2>1
  <2> HIDE DEF d
  <2> QED
    BY <2>1, <2>2, <2>3, <2>4, <2>5, <2>6
<1> HIDE DEF d
<1>2. ASSUME NEW j \in 1..i, Good(j)
      PROVE  \E m \in 1..sealed :
                /\ m = d + j /\ text[log[j]] = m
                /\ m = 1 => linked[log[j]] = NoHash
                /\ m # 1 => linked[log[j]] = stamp[m - 1]
  <2>1. PICK m \in 1..sealed : m = d + j /\ hash[log[j]] = stamp[m]
    BY <1>2
  <2>2. stamp[m] = Digest(m, IF m = 1 THEN NoHash ELSE stamp[m - 1])
    BY DEF SealInv
  <2>3. hash[log[j]] = Digest(text[log[j]], linked[log[j]])
    BY <1>1 DEF Verify
  <2>4. text[log[j]] = m /\ linked[log[j]] = IF m = 1 THEN NoHash ELSE stamp[m - 1]
    BY <2>1, <2>2, <2>3 DEF Digest
  <2> QED
    BY <2>1, <2>4
<1>3. ASSUME NEW j \in 1..i, j # 1, Good(j)
      PROVE  Good(j - 1)
  <2>1. j - 1 \in 1..i /\ log[j - 1] \in 1..written
    BY <1>1, <1>3
  <2>2. linked[log[j]] = hash[log[j - 1]]
    BY <1>1, <1>3 DEF Verify
  <2>3. hash[log[j - 1]] # NoHash
    BY <2>1 DEF SealInv
  <2>4. PICK m \in 1..sealed : /\ m = d + j
                               /\ m = 1 => linked[log[j]] = NoHash
                               /\ m # 1 => linked[log[j]] = stamp[m - 1]
    <3> HIDE DEF Good
    <3> QED
      BY <1>2, <1>3
  <2>5. m # 1 /\ hash[log[j - 1]] = stamp[m - 1]
    BY <2>2, <2>3, <2>4
  <2>6. m - 1 \in 1..sealed /\ m - 1 = d + (j - 1)
    BY <1>1, <2>4, <2>5
  <2> QED
    BY <2>5, <2>6
<1>4. \A j \in 1..i : Good(j)
  <2> DEFINE Bad == {j \in 1..i : ~Good(j)}
  <2>1. SUFFICES ASSUME Bad # {} PROVE FALSE
    OBVIOUS
  <2>2. Bad \subseteq 1..i
    OBVIOUS
  <2> HIDE DEF Bad
  <2>3. PICK b \in Bad : \A y \in Bad : y <= b
    BY <1>1, <2>1, <2>2, Greatest
  <2>4. b \in 1..i /\ ~Good(b)
    BY <2>3 DEF Bad
  <2>5. b # i
    BY <1>1, <2>4
  <2>6. b + 1 \in 1..i /\ b + 1 # 1 /\ (b + 1) - 1 = b /\ ~(b + 1 <= b)
    BY <1>1, <2>4, <2>5
  <2>7. Good(b + 1)
    BY <2>3, <2>6 DEF Bad
  <2> HIDE DEF Good
  <2>8. Good((b + 1) - 1)
    BY <1>3, <2>6, <2>7
  <2> QED
    BY <2>4, <2>6, <2>8
<1>5. d = 0
  <2>1. 1 \in 1..i
    BY <1>1
  <2>2. linked[log[1]] = NoHash
    BY <1>1, <2>1 DEF Verify
  <2>3. PICK m \in 1..sealed : m = d + 1 /\ (m # 1 => linked[log[1]] = stamp[m - 1])
    <3> HIDE DEF Good
    <3> QED
      BY <1>2, <1>4, <2>1
  <2>4. \A k \in 1..sealed : stamp[k] # NoHash
    BY NoDigest DEF SealInv
  <2>5. m # 1 => m - 1 \in 1..sealed
    BY <1>1
  <2> QED
    BY <1>1, <2>2, <2>3, <2>4, <2>5
<1>6. ASSUME NEW j \in 1..i
      PROVE  log[j] = j /\ text[j] = j
  <2>1. text[log[j]] = j
    <3>1. text[log[j]] = d + j
      <4> HIDE DEF Good
      <4> QED
        BY <1>2, <1>4
    <3> QED
      BY <1>1, <1>5, <3>1
  <2>2. text[log[j]] \in {0, log[j]} /\ j # 0
    BY <1>1 DEF SealInv
  <2> QED
    BY <2>1, <2>2
<1> QED
  BY <1>6

\* What Verify shows, for any number of writers, rows and edits.
THEOREM VerifyTheorem == ServiceSpec => []VerifyIsExact
<1>1. IInv => VerifyIsExact
  <2> SUFFICES ASSUME AuditTypeOK, LinkInv, IntactInv, SealInv PROVE VerifyIsExact
    BY DEF IInv, AuditInv
  <2>1. /\ \A i \in DOMAIN log : log[i] \in 1..written
        /\ \A i \in DOMAIN log : i # 1 => i - 1 \in DOMAIN log
        /\ DOMAIN log = 1..Len(log) /\ Len(log) \in Nat /\ written \in Nat
    BY DEF AuditTypeOK
  <2>2. ASSUME ~relinked
        PROVE  Verify(log) <=>
                  \A i \in DOMAIN log :
                      /\ text[log[i]] = log[i]
                      /\ following[log[i]] = IF i = 1 THEN 0 ELSE log[i - 1]
    <3>1. ASSUME NEW n \in 1..written
          PROVE  hash[n] = Digest(text[n], linked[n]) <=> text[n] = n
      <4>1. hash[n] = Digest(n, linked[n])
        BY <2>2 DEF LinkInv
      <4> QED
        BY <4>1 DEF Digest
    <3>2. ASSUME NEW n \in 1..written
          PROVE  /\ linked[n] = IF following[n] = 0 THEN NoHash ELSE hash[following[n]]
                 /\ following[n] \in 0..written
                 /\ following[n] # 0 => following[n] \in 1..written
      BY <2>1, <2>2 DEF LinkInv
    <3>3. ASSUME NEW n \in 1..written
          PROVE  linked[n] = NoHash <=> following[n] = 0
      <4>1. \A m \in 1..written : hash[m] # NoHash
        BY DEF SealInv
      <4> QED
        BY <3>2, <4>1
    <3>4. ASSUME NEW n \in 1..written, NEW m \in 1..written
          PROVE  linked[n] = hash[m] <=> following[n] = m
      <4>1. hash[m] # NoHash /\ m # 0
        BY <2>1 DEF SealInv
      <4>2. \A k \in 1..written : hash[k] = hash[m] => k = m
        BY <2>2 DEF LinkInv, Digest
      <4> QED
        BY <3>2, <4>1, <4>2
    <3>5. ASSUME NEW i \in DOMAIN log
          PROVE  linked[log[i]] = (IF i = 1 THEN NoHash ELSE hash[log[i - 1]])
                    <=> following[log[i]] = (IF i = 1 THEN 0 ELSE log[i - 1])
      BY <2>1, <3>3, <3>4
    <3> QED
      BY <2>1, <3>1, <3>5, Zenon DEF Verify
  <2>3. edits = 0 /\ ~unread => Verify(log)
    <3>1. ASSUME edits = 0, ~unread
          PROVE  \A i \in DOMAIN log :
                     /\ text[log[i]] = log[i]
                     /\ following[log[i]] = IF i = 1 THEN 0 ELSE log[i - 1]
      BY <2>1, <3>1 DEF IntactInv
    <3>2. edits = 0 => ~relinked
      BY DEF IntactInv
    <3> QED
      BY <2>2, <3>1, <3>2, Zenon
  <2>4. Verify(log) =>
           \A i \in DOMAIN log :
              log[i] <= sealed /\ hash[log[i]] = stamp[log[i]] =>
                  \A j \in 1..i : log[j] = j /\ text[j] = j
    BY SealedPrefix, Zenon
  <2> QED
    BY <2>2, <2>3, <2>4, Zenon DEF VerifyIsExact
<1> QED
  BY <1>1, Invariance, PTL
=============================================================================
