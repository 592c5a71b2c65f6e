--------------------------- MODULE EvidenceProofs ---------------------------
(* Theorems about Evidence, for any number of sessions, digests, uploads and  *)
(* deletions.                                                                 *)
EXTENDS Evidence, FiniteSetTheorems, TLAPS

(* The rows that refer to b. *)
RowsOf(b) == {u \in rows : up[u].sha = b}

(* An upload brought the bytes, or is about to. *)
Brings(u) == up[u].at = "missing" \/ up[u].created = TRUE

(* Two activities that met on the same bytes have been seen. *)
Noticed == Met \subseteq crowded

(* What a purge takes beside the rows its first statement took was recorded    *)
(* while it ran.                                                               *)
Since ==
  \A k \in Remover, u \in rows :
    up[u].session \in tx[k].purges => u \in tx[k].gone \/ up[u].sha \in crowded

(* Bytes that an upload has stored, or found, are there. *)
StoredIsThere(b) == \A u \in Uploading(b) : up[u].at # "missing" => b \in files

(* Nothing refers to the bytes an upload brings. *)
BroughtIsNew(b) == b \notin undone =>
  \A u \in Uploading(b) : Brings(u) => RowsOf(b) = {}

(* What a remover has found orphaned is referred to by its own rows only. *)
OrphansAreOrphans(b) == \A k \in Remover : b \in tx[k].orphans => RowsOf(b) \subseteq tx[k].gone

(* A row has its bytes, unless its own remover has unlinked them. *)
BytesOrCut(b) == \A u \in RowsOf(b) :
  b \in files \cup undone \/ \E k \in Remover : u \in tx[k].gone /\ b \in tx[k].cut

(* A remover that has looked has the bytes of its rows in hand, has unlinked  *)
(* them, or leaves them to another row.                                       *)
LookedAfter(b) == \A k \in Remover : \A u \in tx[k].gone :
  tx[k].at = "checked" /\ up[u].sha = b =>
    \/ b \in tx[k].orphans
    \/ b \in tx[k].cut /\ b \notin files
    \/ ~(RowsOf(b) \subseteq tx[k].gone)

(* Bytes without a row are somebody's to remove. *)
Accounted(b) == b \in files /\ RowsOf(b) = {} /\ b \notin lost =>
  \/ \E u \in Uploading(b) : up[u].created = TRUE
  \/ \E k \in Remover : tx[k].at = "unlinking" /\ b \in tx[k].orphans

Kept(b) ==
  /\ StoredIsThere(b) /\ BroughtIsNew(b) /\ OrphansAreOrphans(b)
  /\ BytesOrCut(b) /\ LookedAfter(b) /\ Accounted(b)

Inv ==
  /\ TypeOK /\ Noticed /\ Since
  /\ \A b \in Sha \ crowded : Kept(b)

-----------------------------------------------------------------------------
(* Records of uploads and removals. *)

LEMMA UploadFacts ==
  ASSUME TypeOK, NEW u \in Upload
  PROVE  /\ up[u].at # "idle" => up[u] \in Begun
         /\ up[u] \in Begun =>
              /\ up[u].at \in Under \cup {"done"} /\ up[u].session \in Session
              /\ up[u].sha \in Sha /\ up[u].yours \in BOOLEAN /\ up[u].created \in BOOLEAN
              /\ up[u] = [at |-> up[u].at, session |-> up[u].session, sha |-> up[u].sha,
                          yours |-> up[u].yours, created |-> up[u].created]
         /\ up[u].at \in Under \cup {"done", "idle"}
         /\ u \in rows => up[u].at = "done"
<1>1. up[u] \in Begun \cup {NoUpload} /\ (u \in rows => up[u].at = "done")
  BY DEF TypeOK
<1>2. up[u].at # "idle" => up[u] \in Begun
  BY <1>1 DEF NoUpload
<1>3. up[u] \in Begun =>
        /\ up[u].at \in Under \cup {"done"} /\ up[u].session \in Session
        /\ up[u].sha \in Sha /\ up[u].yours \in BOOLEAN /\ up[u].created \in BOOLEAN
        /\ up[u] = [at |-> up[u].at, session |-> up[u].session, sha |-> up[u].sha,
                    yours |-> up[u].yours, created |-> up[u].created]
  BY DEF Begun
<1>4. up[u].at \in Under \cup {"done", "idle"}
  BY <1>1, <1>3 DEF NoUpload
<1> QED
  BY <1>1, <1>2, <1>3, <1>4

LEMMA RemovalFacts ==
  ASSUME TypeOK, NEW k \in Remover
  PROVE  /\ tx[k] \in Removal /\ RemovalOK(k)
         /\ tx[k].at \in {"idle", "deleted", "checked", "unlinking"}
         /\ tx[k].gone \subseteq Upload /\ tx[k].purges \subseteq Session
         /\ tx[k].orphans \subseteq Sha /\ tx[k].cut \subseteq Sha
         /\ tx[k].gone \subseteq rows
BY DEF TypeOK, Removal, RemovalOK

(* A step of one upload that leaves its digest and its session alone. *)
LEMMA UploadMoves ==
  ASSUME TypeOK, NEW u \in Upload, up[u].at # "idle",
         NEW at \in Under \cup {"done"}, NEW created \in BOOLEAN,
         \/ up' = [up EXCEPT ![u] = [at |-> at, session |-> @.session, sha |-> @.sha,
                                     yours |-> @.yours, created |-> created]]
         \/ up' = [up EXCEPT ![u].at = at] /\ created = up[u].created
  PROVE  /\ up' \in [Upload -> Begun \cup {NoUpload}]
         /\ up'[u].at = at /\ up'[u].created = created
         /\ up'[u].sha = up[u].sha /\ up'[u].session = up[u].session /\ up'[u].yours = up[u].yours
         /\ \A v \in Upload : v # u => up'[v] = up[v]
<1>1. up \in [Upload -> Begun \cup {NoUpload}] /\ up[u] \in Begun
  BY UploadFacts DEF TypeOK
<1>2. up[u] = [at |-> up[u].at, session |-> up[u].session, sha |-> up[u].sha,
               yours |-> up[u].yours, created |-> up[u].created]
      /\ up[u].session \in Session /\ up[u].sha \in Sha /\ up[u].yours \in BOOLEAN
  BY UploadFacts, <1>1
<1>3. PICK row : row = [at |-> at, session |-> up[u].session, sha |-> up[u].sha,
                        yours |-> up[u].yours, created |-> created]
  OBVIOUS
<1>4. up' = [up EXCEPT ![u] = row]
  <2>1. CASE up' = [up EXCEPT ![u] = [at |-> at, session |-> @.session, sha |-> @.sha,
                                      yours |-> @.yours, created |-> created]]
    BY <1>3, <2>1
  <2>2. CASE up' = [up EXCEPT ![u].at = at] /\ created = up[u].created
    <3>1. [up[u] EXCEPT !.at = at] = row
      BY <1>2, <1>3, <2>2
    <3> QED
      BY <2>2, <3>1
  <2> QED
    BY <2>1, <2>2
<1>5. row \in Begun
  BY <1>2, <1>3 DEF Begun
<1> QED
  BY <1>1, <1>3, <1>4, <1>5

LEMMA RemoverMoves ==
  ASSUME TypeOK, NEW k \in Remover, NEW row \in Removal, tx' = [tx EXCEPT ![k] = row]
  PROVE  /\ tx' \in [Remover -> Removal] /\ tx'[k] = row
         /\ \A j \in Remover : j # k => tx'[j] = tx[j]
BY DEF TypeOK

LEMMA IdleFacts ==
  /\ IdleTx \in Removal /\ IdleTx.at = "idle" /\ IdleTx.gone = {} /\ IdleTx.purges = {}
  /\ IdleTx.orphans = {} /\ IdleTx.cut = {}
BY DEF IdleTx, Removal

(* What an upload refers to. *)
LEMMA ShasMeans ==
  ASSUME NEW us, NEW b
  PROVE  b \in ShasOf(us) <=> \E u \in us : up[u].sha = b
BY DEF ShasOf

LEMMA Reapers == Reaper \in Remover /\ \A k \in Request : k \in Remover /\ k # Reaper
BY EvidenceAssumption DEF Remover, Reaper

-----------------------------------------------------------------------------
(* Types. *)

(* What each step of an upload makes of it. *)
LEMMA UploadShape ==
  ASSUME TypeOK, NEW u \in Upload, Rename(u) \/ Record(u) \/ RecordFails(u) \/ Undo(u)
  PROVE  /\ up[u] \in Begun /\ up[u].at \in Under /\ up[u].sha \in Sha /\ up[u].session \in Session
         /\ up' \in [Upload -> Begun \cup {NoUpload}]
         /\ up'[u].sha = up[u].sha /\ up'[u].session = up[u].session
         /\ up'[u].at \in {"stored", "refused", "done"}
         /\ up'[u].at = "stored" => Rename(u) /\ up'[u].created = TRUE
         /\ ~Rename(u) => up'[u].created = up[u].created
         /\ up'[u].at = "refused" => Record(u) /\ up[u].created = TRUE
         /\ \A v \in Upload : v # u => up'[v] = up[v]
<1>0. /\ up[u].at \in Under /\ up[u] \in Begun /\ up[u].sha \in Sha /\ up[u].session \in Session
      /\ up[u].created \in BOOLEAN /\ up[u].at # "idle"
  <2>1. up[u].at \in Under /\ up[u].at # "idle"
    BY DEF Rename, Record, RecordFails, Undo, Under
  <2> QED
    BY <2>1, UploadFacts
<1>1. CASE Rename(u)
  BY <1>0, <1>1, UploadMoves DEF Rename, Under
<1>2. CASE RecordFails(u) \/ Undo(u)
  <2>1. ~Rename(u)
    BY <1>2 DEF Rename, RecordFails, Undo
  <2>2. up' = [up EXCEPT ![u].at = "done"]
    BY <1>2 DEF RecordFails, Undo
  <2>4. /\ up' \in [Upload -> Begun \cup {NoUpload}]
        /\ up'[u].at = "done" /\ up'[u].created = up[u].created
        /\ up'[u].sha = up[u].sha /\ up'[u].session = up[u].session
        /\ \A v \in Upload : v # u => up'[v] = up[v]
    BY ZenonT(40), <1>0, <2>2, UploadMoves
  <2> QED
    BY <1>0, <2>1, <2>4
<1>3. CASE Record(u)
  <2>1. ~Rename(u)
    BY <1>3 DEF Rename, Record
  <2>2. PICK at \in {"refused", "done"} :
          up' = [up EXCEPT ![u].at = at] /\ (at = "refused" => up[u].created = TRUE)
    BY <1>0, <1>3 DEF Record
  <2>3. at \in Under \cup {"done"}
    BY DEF Under
  <2>4. /\ up' \in [Upload -> Begun \cup {NoUpload}]
        /\ up'[u].at = at /\ up'[u].created = up[u].created
        /\ up'[u].sha = up[u].sha /\ up'[u].session = up[u].session
        /\ \A v \in Upload : v # u => up'[v] = up[v]
    BY ZenonT(40), <1>0, <2>2, <2>3, UploadMoves
  <2> QED
    BY <1>0, <1>3, <2>1, <2>2, <2>4
<1> QED
  BY <1>1, <1>2, <1>3

LEMMA RecordShape ==
  ASSUME TypeOK, NEW u \in Upload, Record(u)
  PROVE  /\ UNCHANGED <<sessions, due, files, tx, undone, lost>>
         /\ \/ rows' = rows \cup {u} /\ up'[u].at = "done" /\ sessions[up[u].session] # "purged"
            \/ rows' = rows /\ up'[u].at = "refused" /\ up[u].created = TRUE
            \/ rows' = rows /\ up'[u].at = "done" /\ up[u].created = FALSE
<1>1. up[u].at = "stored" /\ up[u].created \in BOOLEAN
  BY UploadFacts DEF Record
<1>2. up \in [Upload -> Begun \cup {NoUpload}] /\ up[u] \in Begun
  BY <1>1, UploadFacts DEF TypeOK
<1>3. ASSUME NEW at \in {"refused", "done"}, up' = [up EXCEPT ![u].at = at]
      PROVE  up'[u].at = at
  <2>1. at \in Under \cup {"done"}
    BY DEF Under
  <2> QED
    BY <1>1, <1>3, <2>1, UploadMoves
<1>4. CASE rows' = rows \cup {u} /\ up' = [up EXCEPT ![u].at = "done"] /\ Recorded(u)
  BY <1>3, <1>4 DEF Record, Recorded
<1>5. CASE rows' = rows /\ up[u].created = TRUE /\ up' = [up EXCEPT ![u].at = "refused"]
  BY <1>3, <1>5 DEF Record
<1>6. CASE rows' = rows /\ up[u].created = FALSE /\ up' = [up EXCEPT ![u].at = "done"]
  BY <1>3, <1>6 DEF Record
<1> QED
  BY <1>1, <1>4, <1>5, <1>6 DEF Record

(* An upload begins, for a device that is its worker's own or not. *)
Stats(u, s, b) == \E yours \in BOOLEAN : Stat(u, s, b, yours)

LEMMA StatShape ==
  ASSUME TypeOK, NEW u \in Upload, NEW s \in Session, NEW b \in Sha, Stats(u, s, b)
  PROVE  /\ up' \in [Upload -> Begun \cup {NoUpload}]
         /\ up[u].at = "idle" /\ u \notin rows
         /\ up'[u].sha = b /\ up'[u].session = s /\ up'[u].created = FALSE
         /\ up'[u].at = (IF b \in files THEN "stored" ELSE "missing")
         /\ \A v \in Upload : v # u => up'[v] = up[v]
<1>0. PICK yours \in BOOLEAN : Stat(u, s, b, yours)
  BY DEF Stats
<1>1. PICK row : row = [at |-> IF b \in files THEN "stored" ELSE "missing",
                        session |-> s, sha |-> b, yours |-> yours, created |-> FALSE]
  OBVIOUS
<1>2. row \in Begun
  BY <1>1 DEF Begun, Under
<1>3. up' = [up EXCEPT ![u] = row] /\ up[u].at = "idle"
  BY <1>0, <1>1 DEF Stat
<1>4. u \notin rows
  BY <1>3, UploadFacts
<1> QED
  BY <1>1, <1>2, <1>3, <1>4 DEF TypeOK

(* What each step of a remover makes of it. *)
Deletes(k) ==
  \/ \E u \in Upload : DeleteArtifact(k, u)
  \/ k = Reaper /\ ExpireArtifacts
  \/ \E s \in Session : \E purges \in {{}, {s}} : DeleteSessionEvidence(k, s, purges)

LEMMA DeleteShape ==
  ASSUME TypeOK, NEW k \in Remover, Deletes(k)
  PROVE  /\ tx[k] = IdleTx /\ UNCHANGED <<sessions, up, rows, due, files, undone, lost>>
         /\ tx' \in [Remover -> Removal] /\ (\A j \in Remover : j # k => tx'[j] = tx[j])
         /\ tx'[k].at = "deleted" /\ tx'[k].orphans = {} /\ tx'[k].cut = {}
         /\ tx'[k].gone \subseteq rows
         /\ \A u \in rows : up[u].session \in tx'[k].purges => u \in tx'[k].gone
<1>1. \E gone \in SUBSET rows, purges \in SUBSET Session :
        /\ tx[k] = IdleTx /\ UNCHANGED <<sessions, up, rows, due, files, undone, lost>>
        /\ \A u \in rows : up[u].session \in purges => u \in gone
        /\ tx' = [tx EXCEPT ![k] = [at |-> "deleted", gone |-> gone, purges |-> purges,
                                    orphans |-> {}, cut |-> {}]]
  <2>1. ASSUME NEW u \in Upload, DeleteArtifact(k, u)
        PROVE  /\ tx[k] = IdleTx /\ UNCHANGED <<sessions, up, rows, due, files, undone, lost>>
               /\ {u} \in SUBSET rows
               /\ tx' = [tx EXCEPT ![k] = [at |-> "deleted", gone |-> {u}, purges |-> {},
                                           orphans |-> {}, cut |-> {}]]
    BY <2>1 DEF DeleteArtifact, Deleting
  <2>2. ASSUME k = Reaper, ExpireArtifacts
        PROVE  /\ tx[k] = IdleTx /\ UNCHANGED <<sessions, up, rows, due, files, undone, lost>>
               /\ due \in SUBSET rows
               /\ tx' = [tx EXCEPT ![k] = [at |-> "deleted", gone |-> due, purges |-> {},
                                           orphans |-> {}, cut |-> {}]]
    BY <2>2 DEF ExpireArtifacts, Deleting, TypeOK
  <2>3. ASSUME NEW s \in Session, NEW purges \in {{}, {s}}, DeleteSessionEvidence(k, s, purges),
               NEW gone, gone = {u \in rows : up[u].session = s}
        PROVE  /\ tx[k] = IdleTx /\ UNCHANGED <<sessions, up, rows, due, files, undone, lost>>
               /\ gone \in SUBSET rows /\ purges \in SUBSET Session
               /\ \A u \in rows : up[u].session \in purges => u \in gone
               /\ tx' = [tx EXCEPT ![k] = [at |-> "deleted", gone |-> gone, purges |-> purges,
                                           orphans |-> {}, cut |-> {}]]
    BY <2>3 DEF DeleteSessionEvidence, Deleting
  <2>4. {} \in SUBSET Session
    OBVIOUS
  <2>5. CASE \E u \in Upload : DeleteArtifact(k, u)
    BY <2>1, <2>4, <2>5
  <2>6. CASE k = Reaper /\ ExpireArtifacts
    BY <2>2, <2>4, <2>6
  <2>7. CASE \E s \in Session : \E purges \in {{}, {s}} : DeleteSessionEvidence(k, s, purges)
    BY <2>3, <2>7
  <2> QED
    BY <2>5, <2>6, <2>7 DEF Deletes
<1>2. PICK gone \in SUBSET rows, purges \in SUBSET Session :
        /\ tx[k] = IdleTx /\ UNCHANGED <<sessions, up, rows, due, files, undone, lost>>
        /\ \A u \in rows : up[u].session \in purges => u \in gone
        /\ tx' = [tx EXCEPT ![k] = [at |-> "deleted", gone |-> gone, purges |-> purges,
                                    orphans |-> {}, cut |-> {}]]
  BY <1>1
<1>3. PICK row : row = [at |-> "deleted", gone |-> gone, purges |-> purges,
                        orphans |-> {}, cut |-> {}]
  OBVIOUS
<1>4. row \in Removal /\ tx' = [tx EXCEPT ![k] = row]
  BY <1>2, <1>3 DEF Removal, TypeOK
<1>5. /\ tx' \in [Remover -> Removal] /\ tx'[k] = row
      /\ \A j \in Remover : j # k => tx'[j] = tx[j]
  BY <1>4, RemoverMoves
<1> QED
  BY <1>2, <1>3, <1>5

LEMMA CheckShape ==
  ASSUME TypeOK, NEW k \in Remover, CheckOrphans(k)
  PROVE  /\ tx[k].at = "deleted" /\ UNCHANGED <<sessions, up, rows, due, files, undone, lost>>
         /\ tx' \in [Remover -> Removal] /\ (\A j \in Remover : j # k => tx'[j] = tx[j])
         /\ tx'[k].at = "checked" /\ tx'[k].cut = {}
         /\ tx'[k].gone = tx[k].gone /\ tx'[k].purges = tx[k].purges
         /\ tx'[k].orphans = ShasOf(tx[k].gone) \ ShasOf(rows \ tx[k].gone)
<1>1. PICK orphans : orphans = ShasOf(tx[k].gone) \ ShasOf(rows \ tx[k].gone)
  OBVIOUS
<1>2. tx[k].gone \subseteq Upload /\ tx[k].purges \subseteq Session /\ tx[k].gone \subseteq rows
  BY RemovalFacts
<1>3. ShasOf(tx[k].gone) \subseteq Sha
  <2>1. \A u \in tx[k].gone : up[u].sha \in Sha
    BY <1>2, UploadFacts
  <2> QED
    BY <2>1 DEF ShasOf
<1>4. PICK row : row = [at |-> "checked", gone |-> tx[k].gone, purges |-> tx[k].purges,
                        orphans |-> orphans, cut |-> {}]
  OBVIOUS
<1>5. row \in Removal
  BY <1>1, <1>2, <1>3, <1>4 DEF Removal
<1>6. tx' = [tx EXCEPT ![k] = row]
  BY <1>1, <1>4 DEF CheckOrphans, Orphaned, Seen
<1>7. /\ tx' \in [Remover -> Removal] /\ tx'[k] = row
      /\ \A j \in Remover : j # k => tx'[j] = tx[j]
  BY <1>5, <1>6, RemoverMoves
<1> QED
  BY <1>1, <1>4, <1>7 DEF CheckOrphans

LEMMA CommitShape ==
  ASSUME TypeOK, NEW k \in Remover, Commit(k)
  PROVE  /\ tx[k].at = "checked" /\ UNCHANGED <<up, files, undone, lost>>
         /\ k = Reaper => tx[k].orphans = {}
         /\ \A j \in Remover : j # k => tx'[j] = tx[j] /\ Going(k) \cap tx[j].gone = {}
         /\ rows' = rows \ Going(k) /\ due' = due \ Going(k)
         /\ tx' \in [Remover -> Removal]
         /\ tx'[k].at = (IF tx[k].orphans = {} THEN "idle" ELSE "unlinking")
         /\ tx'[k].orphans = tx[k].orphans
         /\ tx'[k].cut = {} /\ tx'[k].gone = {} /\ tx'[k].purges = {}
<1>1. PICK row : row = [at |-> IF tx[k].orphans = {} THEN "idle" ELSE "unlinking",
                        gone |-> {}, purges |-> {}, orphans |-> tx[k].orphans, cut |-> {}]
  OBVIOUS
<1>2. row \in Removal
  BY <1>1, RemovalFacts DEF Removal
<1>3. tx' = [tx EXCEPT ![k] = row]
  BY <1>1 DEF Commit, IdleTx, Unlinking
<1>4. /\ tx' \in [Remover -> Removal] /\ tx'[k] = row
      /\ \A j \in Remover : j # k => tx'[j] = tx[j]
  BY <1>2, <1>3, RemoverMoves
<1>5. \A j \in Remover : j # k => Going(k) \cap tx[j].gone = {}
  BY DEF Commit
<1> QED
  BY <1>1, <1>4, <1>5 DEF Commit

LEMMA RollbackShape ==
  ASSUME TypeOK, NEW k \in Remover, Rollback(k)
  PROVE  /\ tx[k].at \in {"deleted", "checked"} /\ UNCHANGED <<sessions, up, rows, due, files, lost>>
         /\ undone' = undone \cup tx[k].cut
         /\ tx' \in [Remover -> Removal] /\ tx'[k] = IdleTx
         /\ \A j \in Remover : j # k => tx'[j] = tx[j]
<1>1. tx' = [tx EXCEPT ![k] = IdleTx]
  BY DEF Rollback
<1>2. /\ tx' \in [Remover -> Removal] /\ tx'[k] = IdleTx
      /\ \A j \in Remover : j # k => tx'[j] = tx[j]
  BY <1>1, IdleFacts, RemoverMoves
<1> QED
  BY <1>2 DEF Rollback

LEMMA UnlinkShape ==
  ASSUME TypeOK, NEW k \in Remover, NEW b \in Sha, Unlink(k, b)
  PROVE  /\ tx[k].at = (IF k = Reaper THEN "checked" ELSE "unlinking") /\ b \in tx[k].orphans
         /\ UNCHANGED <<sessions, up, rows, due, undone, lost>>
         /\ files' = files \ {b}
         /\ tx' \in [Remover -> Removal] /\ (\A j \in Remover : j # k => tx'[j] = tx[j])
         /\ tx'[k].orphans = tx[k].orphans \ {b}
         /\ tx'[k].gone = tx[k].gone /\ tx'[k].purges = tx[k].purges
         /\ \/ tx'[k].at = tx[k].at /\ tx'[k].cut = tx[k].cut \cup {b}
            \/ k # Reaper /\ tx'[k] = IdleTx
<1>0. tx[k].at = "unlinking" => tx[k].gone = {} /\ tx[k].purges = {}
  BY RemovalFacts DEF RemovalOK
<1>1. CASE k # Reaper /\ tx[k].orphans = {b}
  <2>1. tx' = [tx EXCEPT ![k] = IdleTx]
    BY <1>1 DEF Unlink
  <2>2. /\ tx' \in [Remover -> Removal] /\ tx'[k] = IdleTx
        /\ \A j \in Remover : j # k => tx'[j] = tx[j]
    BY <2>1, IdleFacts, RemoverMoves
  <2> QED
    BY <1>0, <1>1, <2>2, IdleFacts DEF Unlink
<1>2. CASE ~(k # Reaper /\ tx[k].orphans = {b})
  <2>1. PICK row : row = [at |-> tx[k].at, gone |-> tx[k].gone, purges |-> tx[k].purges,
                          orphans |-> tx[k].orphans \ {b}, cut |-> tx[k].cut \cup {b}]
    OBVIOUS
  <2>2. row \in Removal
    BY <2>1, RemovalFacts DEF Removal
  <2>3. tx' = [tx EXCEPT ![k] = row]
    BY <1>2, <2>1 DEF Unlink
  <2>4. /\ tx' \in [Remover -> Removal] /\ tx'[k] = row
        /\ \A j \in Remover : j # k => tx'[j] = tx[j]
    BY <2>2, <2>3, RemoverMoves
  <2> QED
    BY <2>1, <2>4 DEF Unlink
<1> QED
  BY <1>1, <1>2

LEMMA CrashShape ==
  ASSUME TypeOK, Crash
  PROVE  /\ UNCHANGED <<sessions, rows, due, files>>
         /\ up' \in [Upload -> Begun \cup {NoUpload}]
         /\ \A u \in Upload : /\ up'[u].at \in {"idle", "done"}
                              /\ up[u].at = "done" => up'[u] = up[u]
                              /\ up[u].at \in Under => up'[u].sha = up[u].sha
         /\ tx' \in [Remover -> Removal] /\ (\A k \in Remover : tx'[k] = IdleTx)
         /\ \A k \in Remover : tx[k].at = "checked" => tx[k].cut \subseteq undone'
         /\ \A k \in Remover : tx[k].at = "unlinking" => tx[k].orphans \subseteq lost'
         /\ \A u \in Upload : up[u].at \in Under => up[u].sha \in lost'
         /\ undone \subseteq undone' /\ lost \subseteq lost'
         /\ undone' \subseteq Sha /\ lost' \subseteq Sha
<1>1. ASSUME NEW u \in Upload
      PROVE  /\ up'[u] \in Begun \cup {NoUpload} /\ up'[u].at \in {"idle", "done"}
             /\ up[u].at = "done" => up'[u] = up[u]
             /\ up[u].at \in Under => up'[u].sha = up[u].sha
  <2>1. CASE up[u].at \in Under
    <3>1. up[u] = [at |-> up[u].at, session |-> up[u].session, sha |-> up[u].sha,
                   yours |-> up[u].yours, created |-> up[u].created]
          /\ up[u].session \in Session /\ up[u].sha \in Sha
          /\ up[u].yours \in BOOLEAN /\ up[u].created \in BOOLEAN
      BY <2>1, UploadFacts DEF Under
    <3>2. up'[u] = [up[u] EXCEPT !.at = "done"]
      BY <2>1 DEF Crash
    <3>3. up'[u] = [at |-> "done", session |-> up[u].session, sha |-> up[u].sha,
                    yours |-> up[u].yours, created |-> up[u].created]
      BY <3>1, <3>2
    <3> QED
      BY <2>1, <3>1, <3>3 DEF Begun, Under
  <2>2. CASE up[u].at \notin Under
    <3>1. up'[u] = up[u]
      BY <2>2 DEF Crash
    <3> QED
      BY <2>2, <3>1, UploadFacts DEF TypeOK
  <2> QED
    BY <2>1, <2>2
<1>2. up' \in [Upload -> Begun \cup {NoUpload}]
  <2>1. up' = [u \in Upload |-> IF up[u].at \in Under THEN [up[u] EXCEPT !.at = "done"] ELSE up[u]]
    BY DEF Crash
  <2> QED
    BY <1>1, <2>1
<1>3. tx' \in [Remover -> Removal] /\ (\A k \in Remover : tx'[k] = IdleTx)
  BY IdleFacts DEF Crash
<1>4. /\ \A k \in Remover : tx[k].at = "checked" => tx[k].cut \subseteq undone'
      /\ \A k \in Remover : tx[k].at = "unlinking" => tx[k].orphans \subseteq lost'
      /\ undone \subseteq undone' /\ lost \subseteq lost'
  BY DEF Crash
<1>5. \A u \in Upload : up[u].at \in Under => up[u].sha \in lost'
  BY DEF Crash, ShasOf
<1>6. undone' \subseteq Sha
  <2>1. \A k \in Remover : tx[k].cut \subseteq Sha
    BY RemovalFacts
  <2>2. undone \subseteq Sha
    BY DEF TypeOK
  <2> QED
    BY <2>1, <2>2 DEF Crash
<1>7. lost' \subseteq Sha
  <2>1. \A k \in Remover : tx[k].orphans \subseteq Sha
    BY RemovalFacts
  <2>2. lost \subseteq Sha
    BY DEF TypeOK
  <2>3. \A u \in Upload : up[u].at \in Under => up[u].sha \in Sha
    BY UploadFacts DEF Under
  <2>4. ShasOf({u \in Upload : up[u].at \in Under}) \subseteq Sha
    BY <2>3 DEF ShasOf
  <2> QED
    BY <2>1, <2>2, <2>4 DEF Crash
<1> QED
  BY <1>1, <1>2, <1>3, <1>4, <1>5, <1>6, <1>7 DEF Crash

(* A step in parts: of an upload, of a remover, or of neither. *)
LEMMA Cases ==
  ASSUME Step
  PROVE  \/ \E u \in Upload, s \in Session, b \in Sha : Stats(u, s, b)
         \/ \E u \in Upload : Rename(u) \/ Record(u) \/ RecordFails(u) \/ Undo(u)
         \/ \E u \in Upload : Age(u)
         \/ \E k \in Remover : Deletes(k)
         \/ \E k \in Remover : CheckOrphans(k) \/ Commit(k) \/ Rollback(k)
         \/ \E k \in Remover, b \in Sha : Unlink(k, b)
         \/ \E s \in Session : EndSession(s)
         \/ Crash
BY Reapers DEF Step, Deletes, Stats

(* The uploads' part of the types, and the removers'. *)
UploadsOK ==
  /\ up \in [Upload -> Begun \cup {NoUpload}]
  /\ rows \subseteq Upload
  /\ \A u \in Upload : /\ up[u].at = "missing" => up[u].created = FALSE
                       /\ up[u].at = "refused" => up[u].created = TRUE
                       /\ u \in rows => up[u].at = "done"

RemovalsOK == tx \in [Remover -> Removal] /\ \A k \in Remover : RemovalOK(k)

RestOK ==
  /\ sessions \in [Session -> {"live", "ended", "purged"}]
  /\ due \subseteq rows
  /\ files \subseteq Sha /\ undone \subseteq Sha /\ lost \subseteq Sha

LEMMA TypesApart == TypeOK <=> UploadsOK /\ RemovalsOK /\ RestOK /\ crowded \subseteq Sha
BY DEF TypeOK, UploadsOK, RemovalsOK, RestOK

LEMMA UploadTypes ==
  ASSUME TypeOK, Step
  PROVE  UploadsOK'
<1>0. UploadsOK
  BY TypesApart
<1>1. ASSUME NEW u \in Upload, NEW s \in Session, NEW b \in Sha, Stats(u, s, b)
      PROVE  UploadsOK'
  <2>1. rows' = rows
    BY <1>1 DEF Stats, Stat
  <2> QED
    BY ZenonT(40), <1>0, <1>1, <2>1, StatShape DEF UploadsOK
<1>2. ASSUME NEW u \in Upload, Rename(u) \/ Record(u) \/ RecordFails(u) \/ Undo(u)
      PROVE  UploadsOK'
  <2>1. rows' = rows \/ (rows' = rows \cup {u} /\ up'[u].at = "done")
    <3>1. CASE Record(u)
      BY <3>1, RecordShape
    <3>2. CASE Rename(u) \/ RecordFails(u) \/ Undo(u)
      BY <3>2 DEF Rename, RecordFails, Undo
    <3> QED
      BY <1>2, <3>1, <3>2
  <2>2. u \notin rows
    BY <1>2, UploadShape, UploadFacts DEF Under
  <2>3. /\ up' \in [Upload -> Begun \cup {NoUpload}]
        /\ up'[u].at \in {"stored", "refused", "done"}
        /\ up'[u].at = "refused" => up'[u].created = TRUE
        /\ \A v \in Upload : v # u => up'[v] = up[v]
    <3>1. up'[u].at = "refused" => ~Rename(u) /\ up[u].created = TRUE
      BY <1>2, UploadShape DEF Rename, Record
    <3> QED
      BY <1>2, <3>1, UploadShape
  <2> QED
    BY <1>0, <1>2, <2>1, <2>2, <2>3 DEF UploadsOK
<1>3. ASSUME UNCHANGED up, rows' \subseteq rows
      PROVE  UploadsOK'
  BY <1>0, <1>3 DEF UploadsOK
<1>4. CASE \E u \in Upload : Age(u)
  BY <1>3, <1>4 DEF Age
<1>5. CASE \E k \in Remover : Deletes(k)
  BY <1>3, <1>5, DeleteShape
<1>6. CASE \E k \in Remover : CheckOrphans(k) \/ Commit(k) \/ Rollback(k)
  BY <1>3, <1>6 DEF CheckOrphans, Commit, Rollback
<1>7. CASE \E k \in Remover, b \in Sha : Unlink(k, b)
  BY <1>3, <1>7 DEF Unlink
<1>8. CASE \E s \in Session : EndSession(s)
  BY <1>3, <1>8 DEF EndSession
<1>9. CASE Crash
  BY <1>0, <1>9, CrashShape DEF UploadsOK
<1> QED
  BY <1>1, <1>2, <1>4, <1>5, <1>6, <1>7, <1>8, <1>9, Cases

LEMMA RemovalTypes ==
  ASSUME TypeOK, Step
  PROVE  RemovalsOK'
<1>0. RemovalsOK
  BY TypesApart
<1>1. ASSUME UNCHANGED tx, rows \subseteq rows'
      PROVE  RemovalsOK'
  BY <1>0, <1>1 DEF RemovalsOK, RemovalOK
<1>2. CASE \E u \in Upload, s \in Session, b \in Sha : Stats(u, s, b)
  BY <1>1, <1>2 DEF Stats, Stat
<1>3. CASE \E u \in Upload : Rename(u) \/ Record(u) \/ RecordFails(u) \/ Undo(u)
  BY <1>1, <1>3 DEF Rename, Record, RecordFails, Undo
<1>4. CASE \E u \in Upload : Age(u)
  BY <1>1, <1>4 DEF Age
<1>5. ASSUME NEW k \in Remover, tx' \in [Remover -> Removal], RemovalOK(k)',
             \A j \in Remover : j # k => tx'[j] = tx[j] /\ tx[j].gone \subseteq rows'
      PROVE  RemovalsOK'
  BY <1>0, <1>5 DEF RemovalsOK, RemovalOK
<1>6. ASSUME NEW k \in Remover PROVE RemovalOK(k)
  BY <1>0, <1>6 DEF RemovalsOK
<1>7. ASSUME NEW k \in Remover, Deletes(k)
      PROVE  RemovalsOK'
  <2>1. RemovalOK(k)'
    BY <1>7, DeleteShape DEF RemovalOK
  <2> QED
    BY <1>5, <1>6, <1>7, <2>1, DeleteShape DEF RemovalOK
<1>8. ASSUME NEW k \in Remover, CheckOrphans(k)
      PROVE  RemovalsOK'
  <2>1. RemovalOK(k)'
    BY <1>6, <1>8, CheckShape DEF RemovalOK
  <2> QED
    <3>1. \A j \in Remover : tx[j].gone \subseteq rows
      BY <1>6 DEF RemovalOK
    <3>2. /\ rows' = rows /\ tx' \in [Remover -> Removal]
          /\ \A j \in Remover : j # k => tx'[j] = tx[j]
      BY <1>8, CheckShape
    <3> QED
      BY <1>5, <2>1, <3>1, <3>2
<1>9. ASSUME NEW k \in Remover, Commit(k)
      PROVE  RemovalsOK'
  <2>1. RemovalOK(k)'
    BY <1>6, <1>9, CommitShape DEF RemovalOK
  <2>2. \A j \in Remover : j # k => tx[j].gone \subseteq rows'
    BY <1>6, <1>9, CommitShape DEF RemovalOK
  <2> QED
    BY <1>5, <1>9, <2>1, <2>2, CommitShape
<1>10. ASSUME NEW k \in Remover, Rollback(k)
       PROVE  RemovalsOK'
  <2>1. RemovalOK(k)'
    BY <1>10, RollbackShape, IdleFacts DEF RemovalOK
  <2> QED
    BY <1>5, <1>6, <1>10, <2>1, RollbackShape DEF RemovalOK
<1>11. ASSUME NEW k \in Remover, NEW b \in Sha, Unlink(k, b)
       PROVE  RemovalsOK'
  <2>1. RemovalOK(k)'
    BY <1>6, <1>11, UnlinkShape, IdleFacts DEF RemovalOK
  <2> QED
    BY <1>5, <1>6, <1>11, <2>1, UnlinkShape DEF RemovalOK
<1>12. CASE \E s \in Session : EndSession(s)
  BY <1>1, <1>12 DEF EndSession
<1>13. CASE Crash
  BY <1>13, CrashShape, IdleFacts DEF RemovalsOK, RemovalOK
<1> QED
  BY <1>2, <1>3, <1>4, <1>7, <1>8, <1>9, <1>10, <1>11, <1>12, <1>13, Cases

LEMMA RestTypes ==
  ASSUME TypeOK, Step
  PROVE  RestOK'
<1>0. RestOK
  BY TypesApart
<1>1. CASE \E u \in Upload, s \in Session, b \in Sha : Stats(u, s, b)
  BY <1>0, <1>1 DEF Stats, Stat, RestOK
<1>2. ASSUME NEW u \in Upload, Rename(u) \/ Record(u) \/ RecordFails(u) \/ Undo(u)
      PROVE  RestOK'
  <2>1. up[u].sha \in Sha
    BY <1>2, UploadShape
  <2> QED
    BY <1>0, <1>2, <2>1 DEF Rename, Record, RecordFails, Undo, RestOK
<1>3. CASE \E u \in Upload : Age(u)
  BY <1>0, <1>3 DEF Age, RestOK
<1>4. CASE \E k \in Remover : Deletes(k)
  BY <1>0, <1>4, DeleteShape DEF RestOK
<1>5. CASE \E k \in Remover : CheckOrphans(k)
  BY <1>0, <1>5, CheckShape DEF RestOK
<1>6. CASE \E k \in Remover : Commit(k)
  BY <1>0, <1>6 DEF Commit, RestOK
<1>7. CASE \E k \in Remover : Rollback(k)
  BY <1>0, <1>7, RollbackShape, RemovalFacts DEF RestOK
<1>8. CASE \E k \in Remover, b \in Sha : Unlink(k, b)
  BY <1>0, <1>8, UnlinkShape DEF RestOK
<1>9. CASE \E s \in Session : EndSession(s)
  BY <1>0, <1>9 DEF EndSession, RestOK
<1>10. CASE Crash
  BY <1>0, <1>10, CrashShape DEF RestOK
<1> QED
  BY <1>1, <1>2, <1>3, <1>4, <1>5, <1>6, <1>7, <1>8, <1>9, <1>10, Cases

LEMMA Types ==
  ASSUME TypeOK, Next
  PROVE  TypeOK'
<1>1. (UploadsOK /\ RemovalsOK /\ RestOK)'
  BY UploadTypes, RemovalTypes, RestTypes DEF Next
<1>2. (crowded \subseteq Sha)'
  BY DEF Next, Met, TypeOK
<1> QED
  BY <1>1, <1>2 DEF TypeOK, UploadsOK, RemovalsOK, RestOK

-----------------------------------------------------------------------------
(* At most one activity is under way on bytes that are not crowded. *)

Alone(b) ==
  /\ \A u, v \in Uploading(b) : u = v
  /\ \A j, k \in Removing(b) : j = k
  /\ \A u \in Uploading(b) : Removing(b) = {}

LEMMA AtLeastTwo ==
  ASSUME NEW S, IsFiniteSet(S), NEW x \in S, NEW y \in S, x # y
  PROVE  Cardinality(S) >= 2
<1>1. IsFiniteSet({x}) /\ Cardinality({x}) = 1
  BY FS_Singleton
<1>2. IsFiniteSet({x} \cup {y}) /\ Cardinality({x} \cup {y}) = 2
  BY <1>1, FS_AddElement
<1>3. Cardinality({x} \cup {y}) <= Cardinality(S)
  BY FS_Subset, {x} \cup {y} \subseteq S
<1> QED
  BY <1>2, <1>3, FS_CardinalityType

LEMMA AtLeastOne ==
  ASSUME NEW S, IsFiniteSet(S), NEW x \in S
  PROVE  Cardinality(S) >= 1
<1>1. IsFiniteSet({x}) /\ Cardinality({x}) = 1
  BY FS_Singleton
<1>2. Cardinality({x}) <= Cardinality(S)
  BY FS_Subset, {x} \subseteq S
<1> QED
  BY <1>1, <1>2, FS_CardinalityType

LEMMA Few ==
  ASSUME NEW S \in SUBSET Upload, NEW T \in SUBSET Remover,
         ~(Cardinality(S) + Cardinality(T) > 1)
  PROVE  /\ \A u, v \in S : u = v
         /\ \A j, k \in T : j = k
         /\ \A u \in S : T = {}
<1>1. IsFiniteSet(Upload) /\ IsFiniteSet(Remover)
  BY EvidenceAssumption, FS_AddElement DEF Remover
<1>2. IsFiniteSet(S) /\ IsFiniteSet(T)
  BY <1>1, FS_Subset
<1>3. Cardinality(S) \in Nat /\ Cardinality(T) \in Nat
  BY <1>2, FS_CardinalityType
<1>4. \A u, v \in S : u = v
  <2> SUFFICES ASSUME NEW u \in S, NEW v \in S, u # v PROVE FALSE
    OBVIOUS
  <2>1. Cardinality(S) >= 2
    BY <1>2, AtLeastTwo
  <2> QED
    BY <1>3, <2>1
<1>5. \A j, k \in T : j = k
  <2> SUFFICES ASSUME NEW j \in T, NEW k \in T, j # k PROVE FALSE
    OBVIOUS
  <2>1. Cardinality(T) >= 2
    BY <1>2, AtLeastTwo
  <2> QED
    BY <1>3, <2>1
<1>6. \A u \in S : T = {}
  <2> SUFFICES ASSUME NEW u \in S, NEW k \in T PROVE FALSE
    OBVIOUS
  <2>1. Cardinality(S) >= 1 /\ Cardinality(T) >= 1
    BY <1>2, AtLeastOne
  <2> QED
    BY <1>3, <2>1
<1> QED
  BY <1>4, <1>5, <1>6

LEMMA AloneNow ==
  ASSUME Noticed, NEW b \in Sha, b \notin crowded
  PROVE  Alone(b)
<1>1. ~(Cardinality(Uploading(b)) + Cardinality(Removing(b)) > 1)
  BY DEF Noticed, Met
<1>2. Uploading(b) \in SUBSET Upload /\ Removing(b) \in SUBSET Remover
  BY DEF Uploading, Removing
<1> QED
  BY <1>1, <1>2, Few DEF Alone

LEMMA AloneNext ==
  ASSUME Next, NEW b \in Sha, b \notin crowded'
  PROVE  Alone(b)'
<1>1. ~(Cardinality(Uploading(b)') + Cardinality(Removing(b)') > 1)
  BY DEF Next, Met
<1>2. Uploading(b)' \in SUBSET Upload /\ Removing(b)' \in SUBSET Remover
  BY DEF Uploading, Removing
<1> QED
  BY <1>1, <1>2, Few DEF Alone

LEMMA NoticedNext ==
  ASSUME Next PROVE Noticed'
BY DEF Next, Noticed

(* What busies a remover with some bytes. *)
LEMMA Busy ==
  ASSUME NEW k \in Remover, NEW b
  PROVE  k \in Removing(b) <=>
           \/ \E u \in tx[k].gone : up[u].sha = b
           \/ \E u \in rows : up[u].session \in tx[k].purges /\ up[u].sha = b
           \/ \E u \in Uploading(b) : up[u].session \in tx[k].purges
           \/ b \in tx[k].orphans
BY DEF Removing, ShasOf, Going, Into, Uploading

(* While an upload of b is under way, no remover is busy with b. *)
LEMMA UploadAlone ==
  ASSUME NEW b, Alone(b), NEW u \in Uploading(b)
  PROVE  /\ \A v \in Uploading(b) : v = u
         /\ \A k \in Remover : /\ b \notin tx[k].orphans
                               /\ \A v \in tx[k].gone : up[v].sha # b
<1>1. Removing(b) = {}
  BY DEF Alone
<1> QED
  BY <1>1, Busy DEF Alone

(* While a remover is busy with b, no other is and no upload is under way. *)
LEMMA RemoverAlone ==
  ASSUME NEW b, Alone(b), NEW k \in Removing(b)
  PROVE  /\ Uploading(b) = {}
         /\ \A j \in Remover : j # k =>
              /\ b \notin tx[j].orphans
              /\ \A v \in tx[j].gone : up[v].sha # b
<1>1. Uploading(b) = {} /\ \A j \in Remover : j # k => j \notin Removing(b)
  BY DEF Alone
<1> QED
  BY <1>1, Busy

(* The digest and the session of a row are what its upload said. *)
LEMMA RowsStand ==
  ASSUME TypeOK, Step, NEW u \in rows
  PROVE  u \in Upload /\ up'[u].sha = up[u].sha /\ up'[u].session = up[u].session
<1>1. u \in Upload /\ up[u].at = "done"
  BY DEF TypeOK
<1>2. CASE \E v \in Upload, s \in Session, b \in Sha : Stats(v, s, b)
  BY <1>1, <1>2, StatShape
<1>3. CASE \E v \in Upload : Rename(v) \/ Record(v) \/ RecordFails(v) \/ Undo(v)
  BY <1>1, <1>3, UploadShape
<1>4. CASE UNCHANGED up
  BY <1>1, <1>4
<1>5. CASE Crash
  BY <1>1, <1>5, CrashShape
<1>6. ASSUME NEW k \in Remover, Deletes(k) PROVE UNCHANGED up
  BY <1>6, DeleteShape
<1> QED
  BY <1>1, <1>2, <1>3, <1>4, <1>5, <1>6, Cases
     DEF Age, CheckOrphans, Commit, Rollback, Unlink, EndSession

LEMMA SinceNext ==
  ASSUME TypeOK, Noticed, Since, Next
  PROVE  Since'
<1> SUFFICES ASSUME NEW k \in Remover, NEW u \in rows', up'[u].session \in tx'[k].purges
             PROVE  u \in tx'[k].gone \/ up'[u].sha \in crowded'
  BY DEF Since
<1>0. Step /\ crowded \subseteq crowded'
  BY DEF Next
<1>1. CASE u \notin rows
  <2>1. PICK v \in Upload : Record(v)
    <3>1. ~(rows' \subseteq rows)
      BY <1>1
    <3>2. ASSUME NEW j \in Remover, Deletes(j) PROVE rows' = rows
      BY <3>2, DeleteShape
    <3>3. ASSUME NEW v \in Upload, Rename(v) \/ RecordFails(v) \/ Undo(v) PROVE rows' = rows
      BY <3>3 DEF Rename, RecordFails, Undo
    <3>4. ASSUME NEW v \in Upload, NEW s \in Session, NEW b \in Sha, Stats(v, s, b)
          PROVE  rows' = rows
      BY <3>4 DEF Stats, Stat
    <3>5. ASSUME NEW j \in Remover, CheckOrphans(j) \/ Commit(j) \/ Rollback(j)
          PROVE  rows' \subseteq rows
      BY <3>5 DEF CheckOrphans, Commit, Rollback
    <3> QED
      BY <1>0, <3>1, <3>2, <3>3, <3>4, <3>5, Cases DEF Age, Unlink, EndSession, Crash
  <2>2. u = v /\ tx' = tx
    <3>1. tx' = tx /\ (rows' = rows \/ rows' = rows \cup {v})
      BY <2>1, RecordShape
    <3> QED
      BY <1>1, <3>1
  <2>3. up'[u].sha = up[u].sha /\ up'[u].session = up[u].session /\ up[u].at \in Under
        /\ up[u].sha \in Sha
    BY <2>1, <2>2, UploadShape
  <2>4. u \in Uploading(up[u].sha)
    BY <2>1, <2>2, <2>3 DEF Uploading
  <2>5. k \in Removing(up[u].sha)
    BY <2>2, <2>3, <2>4, Busy
  <2>6. CASE up[u].sha \notin crowded
    <3>1. Alone(up[u].sha)
      BY <2>3, <2>6, AloneNow
    <3> QED
      BY <2>4, <2>5, <3>1 DEF Alone
  <2>7. CASE up[u].sha \in crowded
    BY <1>0, <2>3, <2>7
  <2> QED
    BY <2>6, <2>7
<1>2. CASE u \in rows
  <2>1. up'[u].sha = up[u].sha /\ up'[u].session = up[u].session
    BY <1>0, <1>2, RowsStand
  <2>2. CASE tx'[k].gone = tx[k].gone /\ tx'[k].purges = tx[k].purges
    BY <1>0, <1>2, <2>1, <2>2 DEF Since
  <2>3. CASE tx'[k].purges = {}
    BY <2>3
  <2>4. CASE Deletes(k)
    BY <1>2, <2>1, <2>4, DeleteShape
  <2>5. ASSUME NEW j \in Remover, j # k,
               Deletes(j) \/ CheckOrphans(j) \/ Commit(j) \/ Rollback(j)
        PROVE  tx'[k] = tx[k]
    BY <2>5, DeleteShape, CheckShape, CommitShape, RollbackShape
  <2>6. ASSUME NEW j \in Remover, j # k, NEW b \in Sha, Unlink(j, b)
        PROVE  tx'[k] = tx[k]
    BY <2>6, UnlinkShape
  <2>7. CASE CheckOrphans(k) \/ Commit(k) \/ Rollback(k)
    BY <2>2, <2>3, <2>7, CheckShape, CommitShape, RollbackShape, IdleFacts
  <2>8. CASE \E b \in Sha : Unlink(k, b)
    BY <2>2, <2>8, UnlinkShape
  <2>9. CASE Crash
    BY <2>3, <2>9, CrashShape, IdleFacts
  <2>10. CASE UNCHANGED tx
    BY <2>2, <2>10
  <2> QED
    BY <1>0, <2>2, <2>4, <2>5, <2>6, <2>7, <2>8, <2>9, <2>10, Cases
       DEF Stats, Stat, Rename, Record, RecordFails, Undo, Age, EndSession
<1> QED
  BY <1>1, <1>2

-----------------------------------------------------------------------------
(* What holds of bytes that are not crowded. *)

(* Steps that are not about b. *)
LEMMA Elsewhere ==
  ASSUME TypeOK, NEW b, Kept(b), UNCHANGED <<rows, tx>>,
         Uploading(b)' = Uploading(b),
         \A u \in Uploading(b) : up'[u].at = up[u].at /\ up'[u].created = up[u].created,
         \A u \in rows : up'[u].sha = up[u].sha,
         b \in files' <=> b \in files, b \in undone' <=> b \in undone, b \in lost => b \in lost'
  PROVE  Kept(b)'
<1>0. RowsOf(b)' = RowsOf(b)
  BY DEF RowsOf
<1>1. StoredIsThere(b)' /\ OrphansAreOrphans(b)'
  BY <1>0 DEF Kept, StoredIsThere, OrphansAreOrphans
<1>2. BroughtIsNew(b)'
  BY <1>0 DEF Kept, BroughtIsNew, Brings
<1>3. BytesOrCut(b)'
  BY <1>0 DEF Kept, BytesOrCut
<1>4. LookedAfter(b)'
  <2>1. \A k \in Remover : tx[k].gone \subseteq rows
    BY RemovalFacts
  <2> QED
    BY <1>0, <2>1 DEF Kept, LookedAfter
<1>5. Accounted(b)'
  BY <1>0 DEF Kept, Accounted
<1> QED
  BY <1>1, <1>2, <1>3, <1>4, <1>5 DEF Kept

LEMMA KeptByStat ==
  ASSUME TypeOK, NEW b \in Sha, Kept(b), Alone(b)',
         NEW u \in Upload, NEW s \in Session, NEW c \in Sha, Stats(u, s, c)
  PROVE  Kept(b)'
<1>0. UNCHANGED <<rows, files, tx, undone, lost>>
  BY DEF Stats, Stat
<1>1. /\ up[u].at = "idle" /\ u \notin rows /\ up'[u].sha = c /\ up'[u].created = FALSE
      /\ up'[u].at = (IF c \in files THEN "stored" ELSE "missing")
      /\ \A v \in Upload : v # u => up'[v] = up[v]
  BY StatShape
<1>2. u \notin Uploading(b) /\ rows \subseteq Upload
  BY <1>1 DEF Uploading, Under, TypeOK
<1>3. \A v \in rows : up'[v].sha = up[v].sha
  BY <1>1, <1>2
<1>4. CASE c # b
  <2>1. Uploading(b)' = Uploading(b)
    BY <1>1, <1>2, <1>4 DEF Uploading
  <2>2. \A v \in Uploading(b) : up'[v] = up[v]
    BY <1>1, <1>2 DEF Uploading
  <2> QED
    BY <1>0, <1>3, <2>1, <2>2, Elsewhere
<1>5. CASE c = b
  <2>1. RowsOf(b)' = RowsOf(b)
    BY <1>0, <1>3 DEF RowsOf
  <2>2. u \in Uploading(b)' /\ Uploading(b) \subseteq Uploading(b)'
    BY <1>1, <1>2, <1>5 DEF Uploading, Under
  <2>3. Removing(b)' = {} /\ \A v \in Uploading(b)' : v = u
    BY <2>2 DEF Alone
  <2>4. \A k \in Remover : b \notin tx[k].orphans /\ \A v \in tx[k].gone : up[v].sha # b
    <3>1. \A k \in Remover : b \notin tx'[k].orphans /\ \A v \in tx'[k].gone : up'[v].sha # b
      BY <2>3 DEF Removing, Going, ShasOf
    <3>2. \A k \in Remover : tx[k].gone \subseteq rows
      BY RemovalFacts
    <3> QED
      BY <1>0, <1>3, <3>1, <3>2
  <2>5. b \in files => up'[u].at # "missing"
    BY <1>1, <1>5
  <2>6. StoredIsThere(b)'
    BY <1>0, <1>1, <1>5, <2>3 DEF StoredIsThere
  <2>7. BroughtIsNew(b)'
    <3> SUFFICES ASSUME b \notin undone, b \notin files, NEW v \in RowsOf(b)
                 PROVE  FALSE
      BY <1>0, <1>1, <1>5, <2>1, <2>3 DEF BroughtIsNew, Brings
    <3>1. \E k \in Remover : v \in tx[k].gone
      BY DEF Kept, BytesOrCut
    <3> QED
      BY <2>4, <3>1 DEF RowsOf
  <2>8. OrphansAreOrphans(b)'
    BY <1>0, <2>4 DEF OrphansAreOrphans
  <2>9. BytesOrCut(b)'
    BY <1>0, <2>1 DEF Kept, BytesOrCut
  <2>10. LookedAfter(b)'
    BY <1>0, <1>3, <2>4, RemovalFacts DEF LookedAfter
  <2>11. Accounted(b)'
    <3>1. \A v \in Uploading(b) : up'[v] = up[v]
      BY <1>1, <1>2 DEF Uploading
    <3> QED
      BY <1>0, <2>1, <2>2, <3>1 DEF Kept, Accounted
  <2> QED
    BY <2>6, <2>7, <2>8, <2>9, <2>10, <2>11 DEF Kept
<1> QED
  BY <1>4, <1>5

LEMMA KeptByUpload ==
  ASSUME TypeOK, NEW b \in Sha, Kept(b), Alone(b), NEW u \in Upload,
         Rename(u) \/ Record(u) \/ RecordFails(u) \/ Undo(u)
  PROVE  Kept(b)'
<1>1. /\ up[u].at \in Under /\ up'[u].sha = up[u].sha /\ up'[u].at \in {"stored", "refused", "done"}
      /\ ~Rename(u) => up'[u].created = up[u].created
      /\ \A v \in Upload : v # u => up'[v] = up[v]
  BY UploadShape
<1>2. rows \subseteq Upload /\ u \notin rows
  BY <1>1, UploadFacts DEF TypeOK, Under
<1>3. \A v \in rows : up'[v].sha = up[v].sha
  BY <1>1, <1>2
<1>4. tx' = tx /\ undone' = undone
  BY DEF Rename, Record, RecordFails, Undo
<1>5. rows' = rows \/ (Record(u) /\ rows' = rows \cup {u} /\ up'[u].at = "done")
  <2>1. CASE Record(u)
    BY <2>1, RecordShape
  <2>2. CASE Rename(u) \/ RecordFails(u) \/ Undo(u)
    BY <2>2 DEF Rename, RecordFails, Undo
  <2> QED
    BY <2>1, <2>2
<1>6. CASE up[u].sha # b
  <2>1. Uploading(b)' = Uploading(b) /\ \A v \in Uploading(b) : up'[v] = up[v]
    BY <1>1, <1>6 DEF Uploading
  <2>2. (b \in files' <=> b \in files) /\ (b \in lost => b \in lost')
    BY <1>6 DEF Rename, Record, RecordFails, Undo
  <2>3. RowsOf(b)' = RowsOf(b) /\ u \notin RowsOf(b)
    BY <1>1, <1>2, <1>3, <1>5, <1>6 DEF RowsOf
  <2>4. \A k \in Remover : tx[k].gone \subseteq rows
    BY RemovalFacts
  <2>5. StoredIsThere(b)' /\ OrphansAreOrphans(b)'
    BY <1>4, <2>1, <2>2, <2>3 DEF Kept, StoredIsThere, OrphansAreOrphans
  <2>6. BroughtIsNew(b)'
    BY <1>4, <2>1, <2>3 DEF Kept, BroughtIsNew, Brings
  <2>7. BytesOrCut(b)'
    BY <1>4, <2>2, <2>3 DEF Kept, BytesOrCut
  <2>8. LookedAfter(b)'
    BY <1>3, <1>4, <2>2, <2>3, <2>4 DEF Kept, LookedAfter
  <2>9. Accounted(b)'
    BY <1>4, <2>1, <2>2, <2>3 DEF Kept, Accounted
  <2> QED
    BY <2>5, <2>6, <2>7, <2>8, <2>9 DEF Kept
<1>7. CASE up[u].sha = b
  <2>1. u \in Uploading(b)
    BY <1>1, <1>7 DEF Uploading
  <2>2. /\ \A v \in Uploading(b) : v = u
        /\ \A k \in Remover : b \notin tx[k].orphans /\ \A v \in tx[k].gone : up[v].sha # b
    BY <2>1, UploadAlone
  <2>3. \A v \in Uploading(b)' : v = u /\ up'[u].at # "done"
    BY <1>1, <2>2 DEF Uploading, Under
  <2>4. OrphansAreOrphans(b)'
    BY <1>4, <2>2 DEF OrphansAreOrphans
  <2>5. LookedAfter(b)'
    BY <1>3, <1>4, <2>2, RemovalFacts DEF LookedAfter
  <2>6. \A v \in RowsOf(b) : b \in files \cup undone
    BY <2>2 DEF Kept, BytesOrCut, RowsOf
  <2>7. RowsOf(b)' = RowsOf(b) \/ (Record(u) /\ RowsOf(b)' = RowsOf(b) \cup {u} /\ up'[u].at = "done")
    BY <1>1, <1>3, <1>5, <1>7 DEF RowsOf
  <2>8. up[u].at # "missing" => b \in files
    BY <2>1 DEF Kept, StoredIsThere
  <2>9. CASE Rename(u)
    <3>1. /\ up[u].at = "missing" /\ b \in files' /\ up'[u].created = TRUE /\ up'[u].at = "stored"
          /\ ~Record(u)
      BY <1>7, <2>9, UploadMoves, UploadShape DEF Rename, Record
    <3>2. u \in Uploading(b)' /\ RowsOf(b)' = RowsOf(b)
      BY <1>1, <1>7, <2>7, <3>1 DEF Uploading, Under
    <3>3. BroughtIsNew(b)'
      BY <1>4, <2>1, <2>3, <3>1, <3>2 DEF Kept, BroughtIsNew, Brings
    <3> QED
      BY <2>4, <2>5, <3>1, <3>2, <3>3 DEF Kept, StoredIsThere, BytesOrCut, Accounted
  <2>10. CASE Record(u)
    <3>1. up[u].at = "stored" /\ files' = files /\ lost' = lost /\ ~Rename(u)
      BY <2>10 DEF Record, Rename
    <3>2. StoredIsThere(b)'
      BY <2>8, <3>1 DEF StoredIsThere
    <3>3. BytesOrCut(b)'
      BY <1>4, <2>6, <2>7, <2>8, <3>1 DEF BytesOrCut
    <3>4. BroughtIsNew(b)'
      <4> SUFFICES ASSUME b \notin undone, NEW v \in Uploading(b)', Brings(v)'
                   PROVE  RowsOf(b)' = {}
        BY <1>4 DEF BroughtIsNew
      <4>1. v = u /\ up'[u].at # "done" /\ up'[u].at # "missing"
        BY <1>1, <2>3
      <4>2. up[u].created = TRUE
        BY <1>1, <3>1, <4>1 DEF Brings
      <4> QED
        BY <2>1, <2>7, <4>1, <4>2 DEF Kept, BroughtIsNew, Brings
    <3>5. Accounted(b)'
      <4> SUFFICES ASSUME b \in files, RowsOf(b)' = {}, b \notin lost
                   PROVE  \E v \in Uploading(b)' : up'[v].created = TRUE
        BY <3>1 DEF Accounted
      <4>1. RowsOf(b) = {} /\ rows' = rows
        BY <1>1, <1>5, <1>7, <2>7 DEF RowsOf
      <4>2. up[u].created = TRUE
        BY <2>2, <4>1 DEF Kept, Accounted
      <4>3. up'[u].at = "refused"
        BY <1>2, <2>10, <4>1, <4>2, RecordShape
      <4> QED
        BY <1>1, <1>7, <3>1, <4>2, <4>3 DEF Uploading, Under
    <3> QED
      BY <2>4, <2>5, <3>2, <3>3, <3>4, <3>5 DEF Kept
  <2>11. CASE RecordFails(u)
    <3>1. /\ files' = files /\ b \in lost' /\ up'[u].at = "done" /\ RowsOf(b)' = RowsOf(b)
      <4>1. up[u].at # "idle" /\ rows' = rows
        BY <2>11 DEF RecordFails
      <4>2. up'[u].at = "done"
        BY ZenonT(40), <2>11, <4>1, UploadMoves, UploadFacts DEF RecordFails
      <4> QED
        BY <1>2, <1>3, <1>7, <2>11, <4>1, <4>2 DEF RecordFails, RowsOf
    <3> QED
      BY <1>4, <2>3, <2>4, <2>5, <2>6, <3>1
         DEF Kept, StoredIsThere, BroughtIsNew, BytesOrCut, Accounted
  <2>12. CASE Undo(u)
    <3>1. /\ files' = files \ {b} /\ up'[u].at = "done" /\ RowsOf(b)' = RowsOf(b)
      <4>1. up[u].at # "idle" /\ rows' = rows
        BY <2>12 DEF Undo
      <4>2. up'[u].at = "done"
        BY ZenonT(40), <2>12, <4>1, UploadMoves, UploadFacts DEF Undo
      <4> QED
        BY <1>2, <1>3, <1>7, <2>12, <4>1, <4>2 DEF Undo, RowsOf
    <3>2. up[u].created = TRUE
      BY <2>12 DEF Undo, TypeOK
    <3>3. b \in undone \/ RowsOf(b) = {}
      BY <2>1, <3>2 DEF Kept, BroughtIsNew, Brings
    <3> QED
      BY <1>4, <2>3, <2>4, <2>5, <3>1, <3>3
         DEF Kept, StoredIsThere, BroughtIsNew, BytesOrCut, Accounted
  <2> QED
    BY <2>9, <2>10, <2>11, <2>12
<1> QED
  BY <1>6, <1>7

LEMMA KeptByDelete ==
  ASSUME TypeOK, NEW b \in Sha, Kept(b), NEW k \in Remover, Deletes(k)
  PROVE  Kept(b)'
<1>1. /\ tx[k] = IdleTx /\ UNCHANGED <<up, rows, files, undone, lost>>
      /\ \A j \in Remover : j # k => tx'[j] = tx[j]
      /\ tx'[k].at = "deleted" /\ tx'[k].orphans = {} /\ tx'[k].cut = {}
  BY DeleteShape
<1>2. tx[k].at = "idle" /\ tx[k].gone = {} /\ tx[k].orphans = {}
  BY <1>1, IdleFacts
<1>3. RowsOf(b)' = RowsOf(b) /\ Uploading(b)' = Uploading(b)
  BY <1>1 DEF RowsOf, Uploading
<1>4. StoredIsThere(b)' /\ BroughtIsNew(b)'
  BY <1>1, <1>3 DEF Kept, StoredIsThere, BroughtIsNew, Brings
<1>5. OrphansAreOrphans(b)'
  BY <1>1, <1>3 DEF Kept, OrphansAreOrphans
<1>6. BytesOrCut(b)'
  BY <1>1, <1>2, <1>3 DEF Kept, BytesOrCut
<1>7. LookedAfter(b)'
  BY <1>1, <1>3 DEF Kept, LookedAfter
<1>8. Accounted(b)'
  BY <1>1, <1>2, <1>3 DEF Kept, Accounted
<1> QED
  BY <1>4, <1>5, <1>6, <1>7, <1>8 DEF Kept

LEMMA KeptByCheck ==
  ASSUME TypeOK, NEW b \in Sha, Kept(b), NEW k \in Remover, CheckOrphans(k)
  PROVE  Kept(b)'
<1>1. /\ tx[k].at = "deleted" /\ UNCHANGED <<up, rows, files, undone, lost>>
      /\ \A j \in Remover : j # k => tx'[j] = tx[j]
      /\ tx'[k].gone = tx[k].gone /\ tx'[k].at = "checked"
      /\ tx'[k].orphans = ShasOf(tx[k].gone) \ ShasOf(rows \ tx[k].gone)
  BY CheckShape
<1>2. tx[k].cut = {} /\ tx[k].gone \subseteq rows
  BY <1>1, RemovalFacts DEF RemovalOK
<1>3. RowsOf(b)' = RowsOf(b) /\ Uploading(b)' = Uploading(b)
  BY <1>1 DEF RowsOf, Uploading
<1>4. StoredIsThere(b)' /\ BroughtIsNew(b)'
  BY <1>1, <1>3 DEF Kept, StoredIsThere, BroughtIsNew, Brings
<1>5. b \in ShasOf(rows \ tx[k].gone) <=> ~(RowsOf(b) \subseteq tx[k].gone)
  BY DEF ShasOf, RowsOf
<1>6. OrphansAreOrphans(b)'
  BY <1>1, <1>3, <1>5 DEF Kept, OrphansAreOrphans
<1>7. BytesOrCut(b)'
  BY <1>1, <1>2, <1>3 DEF Kept, BytesOrCut
<1>8. LookedAfter(b)'
  <2>1. ASSUME NEW u \in tx[k].gone, up[u].sha = b
        PROVE  b \in tx'[k].orphans \/ ~(RowsOf(b) \subseteq tx[k].gone)
    BY <1>1, <1>5, <2>1 DEF ShasOf
  <2> QED
    BY <1>1, <1>3, <2>1 DEF Kept, LookedAfter
<1>9. Accounted(b)'
  BY <1>1, <1>3 DEF Kept, Accounted
<1> QED
  BY <1>4, <1>6, <1>7, <1>8, <1>9 DEF Kept

LEMMA KeptByCommit ==
  ASSUME TypeOK, Since, NEW b \in Sha, b \notin crowded, Kept(b), Alone(b),
         NEW k \in Remover, Commit(k)
  PROVE  Kept(b)'
<1>1. /\ tx[k].at = "checked" /\ UNCHANGED <<up, files, undone, lost>>
      /\ \A j \in Remover : j # k => tx'[j] = tx[j]
      /\ rows' = rows \ Going(k)
      /\ tx'[k].at = (IF tx[k].orphans = {} THEN "idle" ELSE "unlinking")
      /\ tx'[k].orphans = tx[k].orphans /\ tx'[k].cut = {} /\ tx'[k].gone = {}
  BY CommitShape
<1>2. Uploading(b)' = Uploading(b)
  BY <1>1 DEF Uploading
<1>3. RowsOf(b)' = RowsOf(b) \ tx[k].gone
  <2>1. \A u \in RowsOf(b) : u \in Going(k) <=> u \in tx[k].gone
    BY DEF RowsOf, Going, Since
  <2> QED
    BY <1>1, <2>1 DEF RowsOf
<1>4. StoredIsThere(b)' /\ BroughtIsNew(b)'
  BY <1>1, <1>2, <1>3 DEF Kept, StoredIsThere, BroughtIsNew, Brings
<1>5. CASE k \notin Removing(b)
  <2>1. b \notin tx[k].orphans /\ \A u \in tx[k].gone : up[u].sha # b
    BY <1>5, Busy
  <2>2. RowsOf(b)' = RowsOf(b)
    BY <1>3, <2>1 DEF RowsOf
  <2>3. OrphansAreOrphans(b)'
    BY <1>1, <2>1, <2>2 DEF Kept, OrphansAreOrphans
  <2>4. BytesOrCut(b)'
    <3>1. \A u \in RowsOf(b) : u \notin tx[k].gone
      BY <2>1 DEF RowsOf
    <3> QED
      BY <1>1, <2>2, <3>1 DEF Kept, BytesOrCut
  <2>5. LookedAfter(b)'
    BY <1>1, <2>2 DEF Kept, LookedAfter
  <2>6. Accounted(b)'
    BY <1>1, <1>2, <2>1, <2>2 DEF Kept, Accounted
  <2> QED
    BY <1>4, <2>3, <2>4, <2>5, <2>6 DEF Kept
<1>6. CASE k \in Removing(b)
  <2>1. /\ Uploading(b) = {}
        /\ \A j \in Remover : j # k =>
             b \notin tx[j].orphans /\ \A v \in tx[j].gone : up[v].sha # b
    BY <1>6, RemoverAlone
  <2>2. OrphansAreOrphans(b)'
    BY <1>1, <1>3, <2>1 DEF Kept, OrphansAreOrphans
  <2>3. BytesOrCut(b)'
    <3> SUFFICES ASSUME NEW u \in RowsOf(b), u \notin tx[k].gone
                 PROVE  b \in files \cup undone
      BY <1>1, <1>3 DEF BytesOrCut
    <3> QED
      BY <2>1 DEF Kept, BytesOrCut, RowsOf
  <2>4. LookedAfter(b)'
    BY <1>1, <2>1 DEF LookedAfter
  <2>5. Accounted(b)'
    <3> SUFFICES ASSUME b \in files, RowsOf(b) \subseteq tx[k].gone, b \notin lost
                 PROVE  tx'[k].at = "unlinking" /\ b \in tx'[k].orphans
      BY <1>1, <1>3 DEF Accounted
    <3>1. PICK u : u \in RowsOf(b)
      BY <1>1, <2>1 DEF Kept, Accounted
    <3>2. u \in tx[k].gone /\ up[u].sha = b
      BY <3>1 DEF RowsOf
    <3>3. b \in tx[k].orphans
      BY <1>1, <3>2 DEF Kept, LookedAfter
    <3> QED
      BY <1>1, <3>3
  <2> QED
    BY <1>4, <2>2, <2>3, <2>4, <2>5 DEF Kept
<1> QED
  BY <1>5, <1>6

LEMMA KeptByRollback ==
  ASSUME TypeOK, NEW b \in Sha, Kept(b), NEW k \in Remover, Rollback(k)
  PROVE  Kept(b)'
<1>1. /\ tx[k].at \in {"deleted", "checked"} /\ UNCHANGED <<up, rows, files, lost>>
      /\ undone' = undone \cup tx[k].cut /\ tx'[k] = IdleTx
      /\ \A j \in Remover : j # k => tx'[j] = tx[j]
  BY RollbackShape
<1>2. tx'[k].at = "idle" /\ tx'[k].gone = {} /\ tx'[k].orphans = {}
  BY <1>1, IdleFacts
<1>3. RowsOf(b)' = RowsOf(b) /\ Uploading(b)' = Uploading(b)
  BY <1>1 DEF RowsOf, Uploading
<1>4. StoredIsThere(b)' /\ BroughtIsNew(b)'
  BY <1>1, <1>3 DEF Kept, StoredIsThere, BroughtIsNew, Brings
<1>5. OrphansAreOrphans(b)'
  BY <1>1, <1>2, <1>3 DEF Kept, OrphansAreOrphans
<1>6. BytesOrCut(b)'
  BY <1>1, <1>3 DEF Kept, BytesOrCut
<1>7. LookedAfter(b)'
  BY <1>1, <1>2, <1>3 DEF Kept, LookedAfter
<1>8. Accounted(b)'
  BY <1>1, <1>3 DEF Kept, Accounted
<1> QED
  BY <1>4, <1>5, <1>6, <1>7, <1>8 DEF Kept

LEMMA KeptByUnlink ==
  ASSUME TypeOK, NEW b \in Sha, Kept(b), Alone(b), NEW k \in Remover, NEW c \in Sha, Unlink(k, c)
  PROVE  Kept(b)'
<1>1. /\ tx[k].at = (IF k = Reaper THEN "checked" ELSE "unlinking") /\ c \in tx[k].orphans
      /\ UNCHANGED <<up, rows, undone, lost>> /\ files' = files \ {c}
      /\ \A j \in Remover : j # k => tx'[j] = tx[j]
      /\ tx'[k].orphans = tx[k].orphans \ {c} /\ tx'[k].gone = tx[k].gone
      /\ \/ tx'[k].at = tx[k].at /\ tx'[k].cut = tx[k].cut \cup {c}
         \/ k # Reaper /\ tx'[k] = IdleTx
  BY UnlinkShape
<1>2. /\ tx[k].at = "unlinking" => tx[k].gone = {}
      /\ IdleTx.at = "idle" /\ IdleTx.orphans = {} /\ IdleTx.gone = {}
  BY RemovalFacts, IdleFacts DEF RemovalOK
<1>3. RowsOf(b)' = RowsOf(b) /\ Uploading(b)' = Uploading(b)
  BY <1>1 DEF RowsOf, Uploading
<1>4. CASE c # b
  <2>1. StoredIsThere(b)' /\ BroughtIsNew(b)'
    BY <1>1, <1>3, <1>4 DEF Kept, StoredIsThere, BroughtIsNew, Brings
  <2>2. OrphansAreOrphans(b)'
    BY <1>1, <1>3 DEF Kept, OrphansAreOrphans
  <2>3. BytesOrCut(b)'
    BY <1>1, <1>2, <1>3, <1>4 DEF Kept, BytesOrCut
  <2>4. LookedAfter(b)'
    BY <1>1, <1>2, <1>3, <1>4 DEF Kept, LookedAfter
  <2>5. Accounted(b)'
    BY <1>1, <1>2, <1>3, <1>4 DEF Kept, Accounted
  <2> QED
    BY <2>1, <2>2, <2>3, <2>4, <2>5 DEF Kept
<1>5. CASE c = b
  <2>1. k \in Removing(b)
    BY <1>1, <1>5, Busy
  <2>2. /\ Uploading(b) = {}
        /\ \A j \in Remover : j # k =>
             b \notin tx[j].orphans /\ \A v \in tx[j].gone : up[v].sha # b
    BY <2>1, RemoverAlone
  <2>3. RowsOf(b) \subseteq tx[k].gone
    BY <1>1, <1>5 DEF Kept, OrphansAreOrphans
  <2>4. StoredIsThere(b)' /\ BroughtIsNew(b)'
    BY <1>3, <2>2 DEF StoredIsThere, BroughtIsNew
  <2>5. OrphansAreOrphans(b)'
    BY <1>1, <1>5, <2>2 DEF OrphansAreOrphans
  <2>6. BytesOrCut(b)'
    BY <1>1, <1>2, <1>3, <1>5, <2>3 DEF BytesOrCut
  <2>7. LookedAfter(b)'
    BY <1>1, <1>2, <1>5, <2>2 DEF LookedAfter
  <2>8. Accounted(b)'
    BY <1>1, <1>5 DEF Accounted
  <2> QED
    BY <2>4, <2>5, <2>6, <2>7, <2>8 DEF Kept
<1> QED
  BY <1>4, <1>5

LEMMA KeptByCrash ==
  ASSUME TypeOK, NEW b \in Sha, Kept(b), Crash
  PROVE  Kept(b)'
<1>1. /\ UNCHANGED <<rows, files>>
      /\ \A u \in Upload : /\ up'[u].at \in {"idle", "done"}
                           /\ up[u].at = "done" => up'[u] = up[u]
      /\ \A k \in Remover : tx'[k] = IdleTx
      /\ \A k \in Remover : tx[k].at = "checked" => tx[k].cut \subseteq undone'
      /\ \A k \in Remover : tx[k].at = "unlinking" => tx[k].orphans \subseteq lost'
      /\ \A u \in Upload : up[u].at \in Under => up[u].sha \in lost'
      /\ undone \subseteq undone' /\ lost \subseteq lost'
  BY CrashShape
<1>2. Uploading(b)' = {}
  BY <1>1 DEF Uploading, Under
<1>3. RowsOf(b)' = RowsOf(b)
  BY <1>1 DEF RowsOf, TypeOK
<1>4. StoredIsThere(b)' /\ BroughtIsNew(b)'
  BY <1>2 DEF StoredIsThere, BroughtIsNew
<1>5. OrphansAreOrphans(b)' /\ LookedAfter(b)'
  BY <1>1, IdleFacts DEF OrphansAreOrphans, LookedAfter
<1>6. BytesOrCut(b)'
  <2>1. ASSUME NEW k \in Remover, NEW u \in tx[k].gone, b \in tx[k].cut
        PROVE  tx[k].at = "checked"
    BY <2>1, RemovalFacts DEF RemovalOK
  <2> QED
    BY <1>1, <1>3, <2>1 DEF Kept, BytesOrCut
<1>7. Accounted(b)'
  BY <1>1, <1>3 DEF Kept, Accounted, Uploading
<1> QED
  BY <1>4, <1>5, <1>6, <1>7 DEF Kept

LEMMA KeptNext ==
  ASSUME Inv, Next, NEW b \in Sha, b \notin crowded'
  PROVE  Kept(b)'
<1>1. Step /\ crowded \subseteq crowded'
  BY DEF Next
<1>2. TypeOK /\ Since /\ b \notin crowded /\ Kept(b) /\ Alone(b) /\ Alone(b)'
  BY <1>1, AloneNow, AloneNext DEF Inv
<1>3. ASSUME UNCHANGED <<up, rows, files, tx, undone, lost>>
      PROVE  Kept(b)'
  <2>1. Uploading(b)' = Uploading(b)
    BY <1>3 DEF Uploading
  <2> QED
    BY <1>2, <1>3, <2>1, Elsewhere
<1>4. CASE \E u \in Upload, s \in Session, c \in Sha : Stats(u, s, c)
  BY <1>2, <1>4, KeptByStat
<1>5. CASE \E u \in Upload : Rename(u) \/ Record(u) \/ RecordFails(u) \/ Undo(u)
  BY <1>2, <1>5, KeptByUpload
<1>6. CASE \E u \in Upload : Age(u)
  BY <1>3, <1>6 DEF Age
<1>7. CASE \E k \in Remover : Deletes(k)
  BY <1>2, <1>7, KeptByDelete
<1>8. CASE \E k \in Remover : CheckOrphans(k) \/ Commit(k) \/ Rollback(k)
  BY <1>2, <1>8, KeptByCheck, KeptByCommit, KeptByRollback
<1>9. CASE \E k \in Remover, c \in Sha : Unlink(k, c)
  BY <1>2, <1>9, KeptByUnlink
<1>10. CASE \E s \in Session : EndSession(s)
  BY <1>3, <1>10 DEF EndSession
<1>11. CASE Crash
  BY <1>2, <1>11, KeptByCrash
<1> QED
  BY <1>1, <1>4, <1>5, <1>6, <1>7, <1>8, <1>9, <1>10, <1>11, Cases

-----------------------------------------------------------------------------
LEMMA InitInv == Init => Inv
<1> SUFFICES ASSUME Init PROVE Inv
  OBVIOUS
<1>1. \A k \in Remover : tx[k] = IdleTx
  BY DEF Init
<1>2. \A k \in Remover : /\ tx[k].at = "idle" /\ tx[k].gone = {} /\ tx[k].purges = {}
                         /\ tx[k].orphans = {} /\ tx[k].cut = {}
  BY <1>1, IdleFacts
<1>3. RemovalsOK
  <2>1. tx \in [Remover -> Removal]
    BY IdleFacts DEF Init
  <2>2. \A k \in Remover : RemovalOK(k)
    BY <1>2 DEF RemovalOK
  <2> QED
    BY <2>1, <2>2 DEF RemovalsOK
<1>4. UploadsOK /\ RestOK /\ crowded \subseteq Sha
  BY DEF Init, UploadsOK, RestOK, NoUpload
<1>5. TypeOK
  BY <1>3, <1>4, TypesApart
<1>6. \A b : Uploading(b) = {} /\ RowsOf(b) = {}
  BY DEF Init, Uploading, RowsOf, NoUpload, Under
<1>7. \A b : Removing(b) = {}
  <2>1. \A b : \A k \in Remover : k \notin Removing(b)
    BY <1>2, <1>6, Busy DEF Init
  <2> QED
    BY <2>1 DEF Removing
<1>8. Noticed
  BY <1>6, <1>7, FS_EmptySet DEF Noticed, Met
<1>9. Since
  BY DEF Since, Init
<1>10. \A b : Kept(b)
  BY <1>2, <1>6 DEF Kept, StoredIsThere, BroughtIsNew, OrphansAreOrphans, BytesOrCut,
     LookedAfter, Accounted, Init
<1> QED
  BY <1>5, <1>8, <1>9, <1>10 DEF Inv

LEMMA NextInv ==
  ASSUME Inv, [Next]_vars
  PROVE  Inv'
<1>1. CASE Next
  <2>1. TypeOK' /\ Noticed' /\ Since'
    BY <1>1, Types, NoticedNext, SinceNext DEF Inv
  <2>2. \A b \in Sha \ crowded' : Kept(b)'
    BY <1>1, KeptNext
  <2> QED
    BY <2>1, <2>2 DEF Inv
<1>2. CASE UNCHANGED vars
  <2>1. TypeOK'
    BY <1>2 DEF vars, history, Inv, TypeOK, RemovalOK
  <2>2. Noticed' /\ Since'
    BY <1>2 DEF vars, history, Inv, Noticed, Since, Met, Uploading, Removing, ShasOf, Going, Into
  <2>3. ASSUME NEW b \in Sha, b \notin crowded' PROVE Kept(b)'
    <3>1. Uploading(b)' = Uploading(b)
      BY <1>2 DEF vars, Uploading
    <3> QED
      BY <1>2, <2>3, <3>1, Elsewhere DEF vars, history, Inv
  <2> QED
    BY <2>1, <2>2, <2>3 DEF Inv
<1> QED
  BY <1>1, <1>2

(* Of bytes that no two activities have met on: what an upload has stored is   *)
(* there, nothing refers to what an upload brings, what a deletion has found   *)
(* orphaned only its own rows refer to, a row has its bytes, a deletion that   *)
(* has looked has the bytes of its rows in hand, and bytes without a row are   *)
(* somebody's to remove.                                                       *)
THEOREM Invariance == Spec => []Inv
BY InitInv, NextInv, PTL DEF Spec

(* The state of the evidence store keeps its types: rows are uploads that are  *)
(* done, and what a removal holds fits where it is.                            *)
THEOREM TypeCorrect == Spec => []TypeOK
<1>1. Inv => TypeOK
  BY DEF Inv
<1> QED
  BY <1>1, Invariance, PTL

(* A row has its bytes, however many sessions share them and whoever uploads,  *)
(* deletes, expires or purges: only two activities that meet on the same       *)
(* bytes, or a sweep that rolls back after it has unlinked, take them away.    *)
THEOREM BytesAreThere == Spec => []RowsHaveBytes
<1>1. Inv => RowsHaveBytes
  <2> SUFFICES ASSUME Inv, NEW u \in rows, u \notin Locked,
                      up[u].sha \notin crowded, up[u].sha \notin undone
               PROVE  up[u].sha \in files
    BY DEF RowsHaveBytes
  <2>1. u \in Upload /\ up[u].sha \in Sha /\ TypeOK
    <3>1. TypeOK /\ u \in Upload /\ up[u].at = "done"
      BY DEF Inv, TypeOK
    <3> QED
      BY <3>1, UploadFacts
  <2>2. u \in RowsOf(up[u].sha) /\ BytesOrCut(up[u].sha)
    BY <2>1 DEF RowsOf, Inv, Kept
  <2>3. ASSUME NEW k \in Remover, u \in tx[k].gone PROVE FALSE
    <3>1. tx[k].at \in {"deleted", "checked"}
      BY <2>1, <2>3, RemovalFacts DEF RemovalOK
    <3> QED
      BY <2>3, <3>1 DEF Locked
  <2> QED
    BY <2>2, <2>3 DEF BytesOrCut
<1> QED
  BY <1>1, Invariance, PTL

(* Whichever way the last row of some bytes goes, they go too: only a failure  *)
(* or a crash between the store and the database, or two activities that meet  *)
(* on the same bytes, leave a file that nothing refers to.                     *)
THEOREM BytesGoWithRows == Spec => []NoBytesLeftBehind
<1>1. Inv => NoBytesLeftBehind
  <2> SUFFICES ASSUME Inv, NEW b \in Stray, b \notin crowded
               PROVE  b \in lost
    BY DEF NoBytesLeftBehind
  <2>1. b \in files /\ b \notin ShasOf(rows) /\ Uploading(b) = {} /\ Removing(b) = {}
    BY DEF Stray
  <2>2. b \in Sha /\ RowsOf(b) = {}
    BY <2>1 DEF RowsOf, ShasOf, Inv, TypeOK
  <2>3. \A k \in Remover : b \notin tx[k].orphans
    BY <2>1, Busy
  <2> QED
    BY <2>1, <2>2, <2>3 DEF Inv, Kept, Accounted
<1> QED
  BY <1>1, Invariance, PTL

=============================================================================
