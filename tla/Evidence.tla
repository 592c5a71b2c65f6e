------------------------------ MODULE Evidence ------------------------------
(***************************************************************************)
(* What a session leaves behind.  The bytes of an artifact are a file named *)
(* by its digest, which sessions with identical bytes share; the row that   *)
(* refers to it is in the database.  No transaction spans the two: a worker *)
(* uploads the bytes and then records the row, a deletion removes the rows  *)
(* and then unlinks the bytes that no row refers to any more, the reaper    *)
(* unlinks before its transaction has committed.                            *)
(*                                                                         *)
(* A transaction sees the committed rows less those it has deleted itself  *)
(* (READ COMMITTED).  A row it has deleted is locked until it ends.         *)
(***************************************************************************)
EXTENDS Naturals, FiniteSets

CONSTANTS
  Session, Sha,
  Upload,    \* the uploads; each is the id of the row it may record
  Request    \* the deletions that may be under way at one time

ASSUME EvidenceAssumption == IsFiniteSet(Upload) /\ IsFiniteSet(Request) /\ "reaper" \notin Request

Reaper == "reaper"
Remover == Request \cup {Reaper}

VARIABLES
  sessions,  \* the record of each session: live, ended, or purged
  up,        \* where each upload is
  rows,      \* artifacts: the uploads with a committed row
  due,       \* the rows whose expires_at has passed
  files,     \* the digests whose bytes are on the disk
  tx,        \* where each remover is
  crowded,   \* history: the digests two activities have met on
  undone,    \* history: the digests unlinked by a transaction that rolled back
  lost       \* history: the digests let go of by a failure or a crash

history == <<crowded, undone, lost>>
vars == <<sessions, up, rows, due, files, tx, history>>

Under == {"missing", "stored", "refused"}

IdleTx == [at |-> "idle", gone |-> {}, purges |-> {}, orphans |-> {}, cut |-> {}]

(* A transaction that has deleted its rows, and what it leaves to unlink. *)
Deleting(gone, purges) ==
  [at |-> "deleted", gone |-> gone, purges |-> purges, orphans |-> {}, cut |-> {}]

Unlinking(orphans) ==
  [at |-> "unlinking", gone |-> {}, purges |-> {}, orphans |-> orphans, cut |-> {}]

ShasOf(us) == {up[u].sha : u \in us}

Uploading(b) == {u \in Upload : up[u].at \in Under /\ up[u].sha = b}

(* The rows a commit takes: with a session's record go those recorded since. *)
Going(k) == tx[k].gone \cup {u \in rows : up[u].session \in tx[k].purges}

(* The uploads under way into a session whose record is being purged. *)
Into(k) == {u \in Upload : up[u].at \in Under /\ up[u].session \in tx[k].purges}

Removing(b) == {k \in Remover : b \in ShasOf(Going(k) \cup Into(k)) \cup tx[k].orphans}

(* The rows that the deletion of an open transaction keeps from the others. *)
Locked == UNION {tx[k].gone : k \in {j \in Remover : tx[j].at \in {"deleted", "checked"}}}

NoUpload == [at |-> "idle"]

(* The uploads that have begun, and the removals. *)
Begun == [at: Under \cup {"done"}, session: Session, sha: Sha, yours: BOOLEAN, created: BOOLEAN]

Removal == [at: {"idle", "deleted", "checked", "unlinking"}, gone: SUBSET Upload,
            purges: SUBSET Session, orphans: SUBSET Sha, cut: SUBSET Sha]

RemovalOK(k) ==
  /\ tx[k].gone \subseteq rows
  /\ tx[k].at \in {"idle", "unlinking"} => tx[k].gone = {} /\ tx[k].purges = {}
  /\ tx[k].at \in {"idle", "deleted"} => tx[k].orphans = {} /\ tx[k].cut = {}
  /\ tx[k].at = "checked" /\ k # Reaper => tx[k].cut = {}
  /\ tx[k].at = "unlinking" => k # Reaper

TypeOK ==
  /\ sessions \in [Session -> {"live", "ended", "purged"}]
  /\ up \in [Upload -> Begun \cup {NoUpload}]
  /\ \A u \in Upload : /\ up[u].at = "missing" => up[u].created = FALSE
                       /\ up[u].at = "refused" => up[u].created = TRUE
  /\ rows \subseteq {u \in Upload : up[u].at = "done"}
  /\ due \subseteq rows
  /\ files \subseteq Sha /\ crowded \subseteq Sha /\ undone \subseteq Sha /\ lost \subseteq Sha
  /\ tx \in [Remover -> Removal]
  /\ \A k \in Remover : RemovalOK(k)

Init ==
  /\ sessions = [s \in Session |-> "live"]
  /\ up = [u \in Upload |-> NoUpload]
  /\ rows = {} /\ due = {} /\ files = {}
  /\ tx = [k \in Remover |-> IdleTx]
  /\ crowded = {} /\ undone = {} /\ lost = {}

-----------------------------------------------------------------------------
(* POST /sessions/:id/artifacts, and the store's put. *)

(* put, once the bytes are hashed: stat says whether they are there already. *)
(* The worker names a session, and a device of its own or not. *)
Stat(u, s, b, yours) ==
  /\ up[u].at = "idle"
  /\ up' = [up EXCEPT ![u] = [at |-> IF b \in files THEN "stored" ELSE "missing",
                              session |-> s, sha |-> b, yours |-> yours, created |-> FALSE]]
  /\ UNCHANGED <<sessions, rows, due, files, tx, undone, lost>>

(* put: the temporary file takes the name of its digest. *)
Rename(u) ==
  /\ up[u].at = "missing"
  /\ files' = files \cup {up[u].sha}
  /\ up' = [up EXCEPT ![u] = [at |-> "stored", session |-> @.session, sha |-> @.sha,
                              yours |-> @.yours, created |-> TRUE]]
  /\ UNCHANGED <<sessions, rows, due, tx, undone, lost>>

(* artifact_record: a row, if the session is there, on that device of that host. *)
Recorded(u) == up[u].yours /\ sessions[up[u].session] # "purged"

Record(u) ==
  /\ up[u].at = "stored"
  /\ \/ /\ Recorded(u)
        /\ rows' = rows \cup {u}
        /\ up' = [up EXCEPT ![u].at = "done"]
     \/ /\ ~Recorded(u)
        /\ up' = [up EXCEPT ![u].at = IF up[u].created THEN "refused" ELSE "done"]
        /\ UNCHANGED rows
  /\ UNCHANGED <<sessions, due, files, tx, undone, lost>>

(* The database fails the insert: the handler throws, the bytes stay. *)
RecordFails(u) ==
  /\ up[u].at = "stored"
  /\ up' = [up EXCEPT ![u].at = "done"]
  /\ lost' = lost \cup {up[u].sha}
  /\ UNCHANGED <<sessions, rows, due, files, tx, undone>>

(* The upload was refused: it removes the bytes it has brought. *)
Undo(u) ==
  /\ up[u].at = "refused"
  /\ files' = files \ {up[u].sha}
  /\ up' = [up EXCEPT ![u].at = "done"]
  /\ UNCHANGED <<sessions, rows, due, tx, undone, lost>>

-----------------------------------------------------------------------------
(* The deletions. *)

(* Mutant: the bytes of a deleted row go whoever else refers to them. *)
OrphanedRegardless(gone, seen) == ShasOf(gone)

(* blob_orphaned: the digests of what is gone that no row seen refers to. *)
Orphaned(gone, seen) == ShasOf(gone) \ ShasOf(seen)

(* delete_artifact, first statement. *)
DeleteArtifact(k, u) ==
  /\ tx[k] = IdleTx
  /\ u \in rows \ Locked
  /\ tx' = [tx EXCEPT ![k] = Deleting({u}, {})]
  /\ UNCHANGED <<sessions, up, rows, due, files, undone, lost>>

(* expire_artifacts, first statement. *)
ExpireArtifacts ==
  /\ tx[Reaper] = IdleTx
  /\ due # {} /\ due \cap Locked = {}
  /\ tx' = [tx EXCEPT ![Reaper] = Deleting(due, {})]
  /\ UNCHANGED <<sessions, up, rows, due, files, undone, lost>>

(* delete_session_evidence, first statement, alone or first in purge_session. *)
DeleteSessionEvidence(k, s, purges) ==
  LET gone == {u \in rows : up[u].session = s} IN
  /\ tx[k] = IdleTx
  /\ gone \cap Locked = {}
  /\ \/ purges = {} /\ gone # {}
     \/ purges = {s} /\ sessions[s] = "ended"
  /\ tx' = [tx EXCEPT ![k] = Deleting(gone, purges)]
  /\ UNCHANGED <<sessions, up, rows, due, files, undone, lost>>

(* Mutant: one statement asks while it deletes, and still finds the rows. *)
SeenAtOnce(k) == rows

(* What the second statement sees: the first one's work is done. *)
Seen(k) == rows \ tx[k].gone

(* The second statement of each deletion. *)
CheckOrphans(k) ==
  /\ tx[k].at = "deleted"
  /\ tx' = [tx EXCEPT ![k] = [at |-> "checked", gone |-> @.gone, purges |-> @.purges,
                              orphans |-> Orphaned(@.gone, Seen(k)), cut |-> {}]]
  /\ UNCHANGED <<sessions, up, rows, due, files, undone, lost>>

(* The rows are gone.  A request unlinks now; the reaper already has. *)
Commit(k) ==
  /\ tx[k].at = "checked"
  /\ k = Reaper => tx[k].orphans = {}
  /\ Going(k) \cap UNION {tx[j].gone : j \in Remover \ {k}} = {}
  /\ rows' = rows \ Going(k)
  /\ due' = due \ Going(k)
  /\ sessions' = [s \in Session |-> IF s \in tx[k].purges THEN "purged" ELSE sessions[s]]
  /\ tx' = [tx EXCEPT ![k] = IF @.orphans = {} THEN IdleTx ELSE Unlinking(@.orphans)]
  /\ UNCHANGED <<up, files, undone, lost>>

(* A later statement fails.  What was unlinked stays unlinked. *)
Rollback(k) ==
  /\ tx[k].at \in {"deleted", "checked"}
  /\ undone' = undone \cup tx[k].cut
  /\ tx' = [tx EXCEPT ![k] = IdleTx]
  /\ UNCHANGED <<sessions, up, rows, due, files, lost>>

(* store.remove *)
Unlink(k, b) ==
  /\ tx[k].at = (IF k = Reaper THEN "checked" ELSE "unlinking")
  /\ b \in tx[k].orphans
  /\ files' = files \ {b}
  /\ tx' = [tx EXCEPT ![k] =
              IF k # Reaper /\ @.orphans = {b} THEN IdleTx
              ELSE [at |-> @.at, gone |-> @.gone, purges |-> @.purges,
                    orphans |-> @.orphans \ {b}, cut |-> @.cut \cup {b}]]
  /\ UNCHANGED <<sessions, up, rows, due, undone, lost>>

-----------------------------------------------------------------------------
EndSession(s) ==
  /\ sessions[s] = "live"
  /\ sessions' = [sessions EXCEPT ![s] = "ended"]
  /\ UNCHANGED <<up, rows, due, files, tx, undone, lost>>

(* expires_at passes; it is NULL where the org keeps everything. *)
Age(u) ==
  /\ u \in rows \ due
  /\ due' = due \cup {u}
  /\ UNCHANGED <<sessions, up, rows, files, tx, undone, lost>>

(* The process dies: its transactions roll back, nobody takes up the rest. *)
Crash ==
  /\ undone' = undone \cup UNION {tx[k].cut : k \in {j \in Remover : tx[j].at = "checked"}}
  /\ lost' = lost \cup ShasOf({u \in Upload : up[u].at \in Under})
                  \cup UNION {tx[k].orphans : k \in {j \in Remover : tx[j].at = "unlinking"}}
  /\ up' = [u \in Upload |-> IF up[u].at \in Under THEN [up[u] EXCEPT !.at = "done"] ELSE up[u]]
  /\ tx' = [k \in Remover |-> IdleTx]
  /\ UNCHANGED <<sessions, rows, due, files>>

Step ==
  \/ \E u \in Upload :
       \/ \E s \in Session, b \in Sha, yours \in BOOLEAN : Stat(u, s, b, yours)
       \/ Rename(u) \/ Record(u) \/ RecordFails(u) \/ Undo(u) \/ Age(u)
  \/ \E k \in Request, u \in Upload : DeleteArtifact(k, u)
  \/ \E k \in Request, s \in Session : \E purges \in {{}, {s}} : DeleteSessionEvidence(k, s, purges)
  \/ ExpireArtifacts
  \/ \E k \in Remover : CheckOrphans(k) \/ Commit(k) \/ Rollback(k)
                        \/ \E b \in Sha : Unlink(k, b)
  \/ \E s \in Session : EndSession(s)
  \/ Crash

(* Two activities on the same bytes, at least one of which may remove them. *)
Met == {b \in Sha : Cardinality(Uploading(b)) + Cardinality(Removing(b)) > 1}

Next == Step /\ crowded' = crowded \cup Met'

Spec == Init /\ [][Next]_vars

-----------------------------------------------------------------------------
(* "A blob deleted while a row still points at it is a 404 for someone       *)
(* chasing a failure" (019): a row has its bytes, whoever shares them is      *)
(* uploaded, deleted, expired or purged.  Only two activities on the same    *)
(* bytes at one time, or a sweep that rolls back after it unlinked, take     *)
(* them away; a row that a transaction is deleting counts as gone.           *)
RowsHaveBytes == \A u \in rows \ Locked : up[u].sha \in files \cup crowded \cup undone

(* Bytes that no row refers to and nobody is busy with. *)
Stray == {b \in files \ ShasOf(rows) : Uploading(b) = {} /\ Removing(b) = {}}

(* "A file nothing references is one nothing will ever clean up"             *)
(* (purge_session): whichever way the last row of some bytes goes, they go   *)
(* too.  Only a failure or a crash between the store and the database, or    *)
(* two activities on the same bytes, leave bytes behind.                     *)
NoBytesLeftBehind == Stray \subseteq crowded \cup lost

=============================================================================
