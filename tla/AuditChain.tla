----------------------------- MODULE AuditChain -----------------------------
(***************************************************************************)
(* The audit log: Service.Record appends a row that carries the hash of    *)
(* the row before it, Service.Verify reads the log and recomputes every    *)
(* hash.  SHA-256 is taken to be injective, so a hash is what was hashed;  *)
(* the text of a row is the concatenation of the columns that Record       *)
(* hashes, made unique by the timestamp, and the rest is what it stores    *)
(* without hashing it.  A row is named by its number in the order of the   *)
(* INSERTs, which is also the text and the rest it is written with; a      *)
(* column is a function of these numbers.                                  *)
(*                                                                         *)
(* The service runs while the API serves (Startup): a stop takes mu and    *)
(* the goroutines with it and leaves the rows.                             *)
(***************************************************************************)
EXTENDS Startup

CONSTANTS
    Writers,    \* goroutines that call Record
    NoWriter,
    MaxRows,    \* bound on the rows written
    MaxFaults,  \* bound on failed statements
    MaxEdits    \* bound on changes made behind the service's back

ASSUME AuditConstants ==
    /\ NoWriter \notin Writers
    /\ MaxRows \in Nat /\ MaxFaults \in Nat /\ MaxEdits \in Nat

RowNumbers == 1..MaxRows

\* previous_hash IS NULL
NoHash == <<>>

VARIABLES
    log,       \* the rows in the order of rowid
    text,      \* columns: what is hashed,
    rest,      \* what is not (id, roles_json, source, ip, job_id, reason),
    linked,    \* previous_hash
    hash,      \* and hash
    following, \* history: the row the writer of a row had read, 0 for none
    stamp,     \* history: the hash Record wrote
    sealed,    \* history: rows written before the first edit and the first failed SELECT
    relinked,  \* history: an edit stored a link or a hash of its own
    mu,        \* the holder of Service.mu
    at, prev,  \* of a writer: control point and the hash it read
    after,     \* history: the row a writer read, 0 for none
    unread,    \* history: a SELECT of the last hash failed
    written,   \* history: rows written so far
    faults, edits

columns == <<text, rest, linked, hash>>
record == <<log, columns, following, stamp, sealed>>
auditVars == <<record, relinked, mu, at, prev, after, unread, written, faults, edits>>

\* The SHA-256 of a text and the previous hash.
Digest(words, previous) == <<words, previous>>

AuditTypeOK ==
    /\ log \in Seq(1..written)
    /\ text \in [RowNumbers -> 0..MaxRows] /\ rest \in [RowNumbers -> 0..MaxRows]
    /\ DOMAIN linked = RowNumbers /\ DOMAIN hash = RowNumbers /\ DOMAIN stamp = RowNumbers
    /\ following \in [RowNumbers -> 0..MaxRows]
    /\ mu \in Writers \cup {NoWriter}
    /\ at \in [Writers -> {"idle", "insert"}]
    /\ \A w \in Writers : at[w] = "insert" => mu = w
    /\ DOMAIN prev = Writers /\ after \in [Writers -> 0..MaxRows]
    /\ unread \in BOOLEAN /\ relinked \in BOOLEAN
    /\ written \in 0..MaxRows /\ sealed \in 0..written
    /\ faults \in 0..MaxFaults /\ edits \in 0..MaxEdits

AuditInit ==
    /\ log = <<>>
    /\ text = [n \in RowNumbers |-> 0] /\ rest = [n \in RowNumbers |-> 0]
    /\ linked = [n \in RowNumbers |-> NoHash] /\ hash = [n \in RowNumbers |-> NoHash]
    /\ following = [n \in RowNumbers |-> 0] /\ stamp = [n \in RowNumbers |-> NoHash]
    /\ sealed = 0 /\ relinked = FALSE
    /\ mu = NoWriter
    /\ at = [w \in Writers |-> "idle"]
    /\ prev = [w \in Writers |-> NoHash]
    /\ after = [w \in Writers |-> 0]
    /\ unread = FALSE
    /\ written = 0
    /\ faults = 0 /\ edits = 0

-----------------------------------------------------------------------------
(***************************************************************************)
(* Record.                                                                 *)
(***************************************************************************)
Last == log[Len(log)]

\* mu.Lock and the SELECT of the last hash.
ReadLast(w) ==
    /\ at[w] = "idle" /\ mu = NoWriter /\ written < MaxRows
    /\ mu' = w
    /\ prev' = [prev EXCEPT ![w] = IF log = <<>> THEN NoHash ELSE hash[Last]]
    /\ after' = [after EXCEPT ![w] = IF log = <<>> THEN 0 ELSE Last]
    /\ at' = [at EXCEPT ![w] = "insert"]
    /\ UNCHANGED <<record, relinked, unread, written, faults, edits>>

\* The SELECT fails; its error is dropped and the hash stays empty.
ReadLastFails(w) ==
    /\ at[w] = "idle" /\ mu = NoWriter /\ written < MaxRows
    /\ faults < MaxFaults /\ faults' = faults + 1
    /\ mu' = w
    /\ prev' = [prev EXCEPT ![w] = NoHash]
    /\ after' = [after EXCEPT ![w] = 0]
    /\ at' = [at EXCEPT ![w] = "insert"]
    /\ unread' = TRUE
    /\ UNCHANGED <<record, relinked, written, edits>>

\* mu.Unlock; the local variables of the call are gone.
Return(w) ==
    /\ at' = [at EXCEPT ![w] = "idle"]
    /\ prev' = [prev EXCEPT ![w] = NoHash]
    /\ after' = [after EXCEPT ![w] = 0]
    /\ mu' = NoWriter

Insert(w) ==
    /\ at[w] = "insert"
    /\ LET n == written + 1
       IN  /\ log' = Append(log, n)
           /\ text' = [text EXCEPT ![n] = n]
           /\ rest' = [rest EXCEPT ![n] = n]
           /\ linked' = [linked EXCEPT ![n] = prev[w]]
           /\ hash' = [hash EXCEPT ![n] = Digest(n, prev[w])]
           /\ stamp' = [stamp EXCEPT ![n] = Digest(n, prev[w])]
           /\ following' = [following EXCEPT ![n] = after[w]]
           /\ sealed' = IF edits = 0 /\ ~unread THEN n ELSE sealed
           /\ written' = n
    /\ Return(w)
    /\ UNCHANGED <<unread, relinked, faults, edits>>

\* The error goes to the caller; every caller drops it.
InsertFails(w) ==
    /\ at[w] = "insert"
    /\ faults < MaxFaults /\ faults' = faults + 1
    /\ Return(w)
    /\ UNCHANGED <<record, relinked, unread, written, edits>>

-----------------------------------------------------------------------------
(***************************************************************************)
(* Changes of the table by other means than Record.                        *)
(***************************************************************************)

\* An UPDATE of one row: of what is hashed, of what is not, of the link and of
\* the hash, each left or replaced.  No key is needed to compute the hashes anew.
Altered(i) ==
    LET n == log[i]
        previous == IF i = 1 THEN NoHash ELSE hash[log[i - 1]]
    IN  \E words \in {text[n], 0}, other \in {rest[n], 0}, link \in {linked[n], previous} :
          \E digest \in {hash[n], Digest(words, link)} :
             /\ text' = [text EXCEPT ![n] = words]
             /\ rest' = [rest EXCEPT ![n] = other]
             /\ linked' = [linked EXCEPT ![n] = link]
             /\ hash' = [hash EXCEPT ![n] = digest]
             /\ relinked' = (relinked \/ link # linked[n] \/ digest # hash[n])
             /\ UNCHANGED log

Removed(i) ==
    /\ log' = SubSeq(log, 1, i - 1) \o SubSeq(log, i + 1, Len(log))
    /\ UNCHANGED <<columns, relinked>>

Edit ==
    /\ edits < MaxEdits /\ edits' = edits + 1
    /\ \E i \in DOMAIN log : Altered(i) \/ Removed(i)
    /\ UNCHANGED <<following, stamp, sealed, mu, at, prev, after, unread, written, faults>>

Write(w) == ReadLast(w) \/ ReadLastFails(w) \/ Insert(w) \/ InsertFails(w)

\* The process ends in the middle of Record.
Stop ==
    /\ Crash
    /\ mu' = NoWriter
    /\ at' = [w \in Writers |-> "idle"]
    /\ prev' = [w \in Writers |-> NoHash]
    /\ after' = [w \in Writers |-> 0]
    /\ UNCHANGED <<record, relinked, unread, written, faults, edits>>

ServiceNext ==
    \/ (Start \/ NoPassword) /\ UNCHANGED auditVars
    \/ Stop
    \/ pc = "serving" /\ (\E w \in Writers : Write(w)) /\ UNCHANGED vars
    \/ Edit /\ UNCHANGED vars

ServiceInit == Init /\ AuditInit

ServiceSpec == ServiceInit /\ [][ServiceNext]_<<vars, auditVars>>

-----------------------------------------------------------------------------
\* (mutation: only the hashes are recomputed)
VerifyHashes(rows) ==
    \A i \in DOMAIN rows : hash[rows[i]] = Digest(text[rows[i]], linked[rows[i]])

\* Verify: nil error.
Verify(rows) ==
    \A i \in DOMAIN rows :
        /\ linked[rows[i]] = IF i = 1 THEN NoHash ELSE hash[rows[i - 1]]
        /\ hash[rows[i]] = Digest(text[rows[i]], linked[rows[i]])

(***************************************************************************)
(* Properties.                                                             *)
(***************************************************************************)

\* What Verify shows.  A log that only Record has written is accepted, however
\* many goroutines write it, wherever the process stops and whichever INSERTs
\* fail, as long as no SELECT of the last hash fails.  Where nobody stores
\* hashes of his own, it accepts exactly the logs in which every row has the
\* hashed text it was written with and stands behind the row its writer had
\* read.  And where somebody does, one hash that is still the one Record wrote
\* vouches for everything before it: no row up to there was removed, and none
\* has another text; so whoever changes a text has to replace the hash of every
\* later row.
VerifyIsExact ==
    /\ edits = 0 /\ ~unread => Verify(log)
    /\ ~relinked =>
          (Verify(log) <=>
              \A i \in DOMAIN log :
                  /\ text[log[i]] = log[i]
                  /\ following[log[i]] = IF i = 1 THEN 0 ELSE log[i - 1])
    /\ Verify(log) =>
          \A i \in DOMAIN log :
              log[i] <= sealed /\ hash[log[i]] = stamp[log[i]] =>
                  \A j \in 1..i : log[j] = j /\ text[j] = j
=============================================================================
