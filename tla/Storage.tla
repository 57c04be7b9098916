------------------------------ MODULE Storage -------------------------------
(***************************************************************************)
(* The life of the database file: the start of the server (compaction,     *)
(* startup backup, retention, opening, migration of the JSON files of      *)
(* older versions, loading the default tenant), the backup and compaction  *)
(* jobs of the running server, and the spectralctl commands backup,        *)
(* restore, rekey and compact.  Sources: pkg/store/store.go, the first and *)
(* the last part of cmd/spectral-cloud/main.go, cmd/spectralctl/main.go.   *)
(*                                                                         *)
(* A file is what it holds: a set of items, or Missing, or Blank (cut to   *)
(* length 0, or an encrypted file that does not decrypt).  A file that was *)
(* written in part is damaged: pages that are in use are not there.  What  *)
(* it held cannot be told any more, but bbolt may open it all the same,    *)
(* because it checks the first pages only, and may commit to it.  A        *)
(* transaction of bbolt is atomic and durable.  bbolt locks the open file  *)
(* exclusively, or shared when read-only; a lock that is taken makes       *)
(* bolt.Open fail after 1 s.  The locks belong to the file, not to its     *)
(* name.                                                                   *)
(***************************************************************************)
EXTENDS Integers, FiniteSets

CONSTANTS
  Write,        \* what the running server may commit
  Retention,    \* BACKUP_RETENTION
  Scenarios     \* how the data directory may look before the first start, and a bound
                \* on what happens then: a number for each Kind

Proc == {"server", "ctl"}
Legacy == {"blocks", "routes"}   \* blockchain.json and routes.json
Kind == {"start", "crash", "fail", "twin", "online", "ctl"}
\* old: blocks in the bucket "data", where the first version kept them.
Item == Write \cup Legacy \cup {"old", "genesis"}
Missing == {"missing"}
Blank == {"blank"}
Torn == {"torn"}
File == (SUBSET (Item \cup Torn)) \cup {Missing, Blank}
Body == {"none", "good", "corrupt", "invalid"}
Time == Nat

ASSUME StorageAssumption ==
  /\ (Missing \cup Blank \cup Torn) \cap Item = {}
  /\ Retention \in Nat
  /\ Scenarios \subseteq [db : (SUBSET Item) \cup {Missing}, legacy : [Legacy -> Body],
                          budget : [Kind -> Nat]]

VARIABLES
  db,      \* the file at dbPath
  bak,     \* the files dbPath.<time>.bak
  copies,  \* the outputs of spectralctl backup, without and with a key
  legacy,  \* the JSON files: what is in them, and whether they have their name still
  pc, tmp, \* where a process is, and the file it is about to write
  ts,      \* the second in which it made its last .bak file; 0 if none
  open,    \* the name of the file that the server has open: "db", "bak", "gone", "none"
  openAt,  \* if it is a .bak file, which one
  gone,    \* what an open file holds that has no name any more
  status,  \* statusTracker: how the last backup and the last compaction went
  now,     \* the last second in which a .bak file was made
  \* for the properties only:
  ever,    \* the items that were ever committed
  dropped, \* of these, what an operator gave up by restoring a backup, and a chain of the
           \* old bucket that a migrated one has replaced
  aside,   \* what was moved from dbPath to a .bak file and did not come back
  base,    \* what the compaction under way has copied
  stray,   \* what was committed to a file that then lost its name
  holder,  \* the time of the newest .bak file that ever held an item; 0 if none, or if
           \* that file was overwritten
  made,    \* the times at which .bak files were made
  torn,    \* a restore without a key was cut short, or was given a damaged file; until a
           \* whole file is restored and the copy with a key holds no damaged one
  cut,     \* a migration was cut short, or a damaged database was opened
  left     \* what is left of the budget

files == <<db, bak, copies, legacy>>
handle == <<open, openAt, gone>>
ghosts == <<ever, dropped, aside, base, stray, holder, made, torn, cut, left>>
vars == <<files, pc, tmp, ts, handle, status, now, ghosts>>

Spend(k) == left[k] > 0 /\ left' = [left EXCEPT ![k] = @ - 1]
Fails == Spend("fail")

Whole(f) == f \subseteq Item
Damaged(f) == Torn \subseteq f
Items(f) == f \cap Item
At(p, s) == pc[p] = s
Go(p, s) == pc' = [pc EXCEPT ![p] = s]
\* Someone holds an exclusive lock on the file at dbPath.
Locked == open = "db"
InBak(t) == open = "bak" /\ openAt = t

Held(f, t) == [i \in Item |-> IF i \in Items(f) /\ t > holder[i] THEN t ELSE holder[i]]
\* The file of time t is overwritten: it counts no more as a holder.
Overwritten(t) == [i \in Item |-> IF holder[i] = t THEN 0 ELSE holder[i]]

\* HasData looks at the tenants only, since init has made their bucket.
HasData(c) == c \cap {"blocks", "routes", "genesis"} # {}

Init ==
  /\ \E s \in Scenarios :
       /\ left = s.budget
       /\ db = s.db /\ ever = Items(s.db)
       /\ legacy = [f \in Legacy |-> [body |-> s.legacy[f], named |-> TRUE]]
       \* JSON files beside a database with data: the migration of an earlier life was cut.
       /\ cut = HasData(s.db)
  /\ bak = [t \in {} |-> {}] /\ copies = [k \in {"plain", "key"} |-> Missing]
  /\ pc = [p \in Proc |-> "down"] /\ tmp = [p \in Proc |-> Missing]
  /\ ts = [p \in Proc |-> 0] /\ now = 0
  /\ open = "none" /\ openAt = 0 /\ gone = Missing
  /\ status = [k \in {"backup", "compact"} |-> "never"]
  /\ dropped = {} /\ aside = {} /\ base = {} /\ stray = {} /\ made = {}
  /\ holder = [i \in Item |-> 0]
  /\ torn = FALSE

-----------------------------------------------------------------------------
(* CompactInPlace, by the server with COMPACT_ON_START and by spectralctl. *)

Finished(p) == IF p = "server" THEN "backup" ELSE "down"

\* The file f is renamed to dbPath, and the one that was there loses its name, also while
\* it is open; another open file has the name n afterwards.
Replace(f, n) ==
  /\ db' = f
  /\ aside' = aside \ base
  /\ stray' = stray \cup (Items(db) \ Items(f))
  /\ IF Locked THEN open' = "gone" /\ gone' = db ELSE open' = n /\ UNCHANGED gone

\* The compacted copy, verified; Missing after an error.  bolt.Compact reads every page
\* that is in use, so that it fails where one is not there.
Compact(f) == IF Whole(f) /\ ~Locked THEN f ELSE Missing

CompactBegin(p) ==
  /\ At(p, "compact")
  /\ \/ /\ Compact(db) # Missing
        /\ tmp' = [tmp EXCEPT ![p] = Compact(db)]
        /\ now' = now + 1 /\ ts' = [ts EXCEPT ![p] = now']
        /\ base' = Items(db)
        /\ Go(p, "move") /\ UNCHANGED left
     \/ /\ Compact(db) = Missing /\ Go(p, Finished(p)) /\ UNCHANGED <<tmp, ts, now, base, left>>
     \/ /\ Fails /\ Go(p, Finished(p)) /\ UNCHANGED <<tmp, ts, now, base>>
  /\ UNCHANGED <<files, handle, status, ever, dropped, aside, stray, holder, made, torn, cut>>

\* os.Rename(dbPath, backupPath)
CompactMove(p) ==
  /\ At(p, "move")
  /\ \/ /\ bak' = [t \in DOMAIN bak \cup {ts[p]} |-> IF t = ts[p] THEN db ELSE bak[t]]
        /\ db' = Missing
        /\ IF Locked THEN open' = "bak" /\ openAt' = ts[p] ELSE UNCHANGED <<open, openAt>>
        /\ aside' = aside \cup Items(db)
        /\ holder' = Held(db, ts[p]) /\ made' = made \cup {ts[p]}
        /\ Go(p, "swap") /\ UNCHANGED <<tmp, left>>
     \/ /\ Fails
        /\ tmp' = [tmp EXCEPT ![p] = Missing] /\ Go(p, Finished(p))
        /\ UNCHANGED <<bak, db, open, openAt, aside, holder, made>>
  /\ UNCHANGED <<copies, legacy, ts, gone, status, now, ever, dropped, base, stray, torn, cut>>

\* os.Rename(tmpPath, dbPath); after an error the backup is renamed back, if that works.
CompactSwap(p) ==
  /\ At(p, "swap")
  /\ \/ Replace(tmp[p], open) /\ UNCHANGED <<bak, left>>
     \/ /\ Fails /\ ts[p] \in DOMAIN bak
        /\ Replace(bak[ts[p]], IF InBak(ts[p]) THEN "db" ELSE open)
        /\ bak' = [t \in DOMAIN bak \ {ts[p]} |-> bak[t]]
     \/ Fails /\ UNCHANGED <<db, bak, open, gone, aside, stray>>
  /\ tmp' = [tmp EXCEPT ![p] = Missing] /\ Go(p, Finished(p))
  /\ UNCHANGED <<copies, legacy, ts, openAt, status, now, ever, dropped, base, holder, made, torn, cut>>

-----------------------------------------------------------------------------
(* The start of the server, main() up to the default tenant. *)

Compacting(p) == pc[p] \in {"compact", "move", "swap"}

\* The runbook: an operator who restores a backup starts the server afterwards.  That two
\* compactions do not overlap is an assumption; nothing in the code sees to it.
Start(compact) ==
  /\ At("server", "down") /\ pc["ctl"] \notin {"restore", "replace"}
  /\ compact => ~Compacting("ctl")
  /\ Spend("start")
  /\ Go("server", IF compact THEN "compact" ELSE "backup")
  /\ ts' = [ts EXCEPT !["server"] = 0]
  /\ UNCHANGED <<files, tmp, handle, status, now,
                 ever, dropped, aside, base, stray, holder, made, torn, cut>>

\* backupFile: the file is read, and written under the name of this second, which a
\* compaction of this start may have used already.
BackupRead ==
  /\ At("server", "backup")
  /\ \/ /\ db # Missing
        /\ \E t \in {now, now + 1} :
             /\ t = now + 1 \/ (t = ts["server"] /\ t > 0)
             /\ now' = t /\ ts' = [ts EXCEPT !["server"] = t]
             /\ bak' = [u \in DOMAIN bak \cup {t} |-> IF u = t THEN Torn ELSE bak[u]]
             /\ made' = made \cup {t} /\ holder' = Overwritten(t)
        /\ tmp' = [tmp EXCEPT !["server"] = db]
        /\ Go("server", "copy") /\ UNCHANGED left
     \/ /\ (db = Missing /\ UNCHANGED left) \/ Fails
        /\ Go("server", "open") /\ UNCHANGED <<bak, tmp, ts, now, holder, made>>
  /\ UNCHANGED <<db, copies, legacy, handle, status, ever, dropped, aside, base, stray, torn, cut>>

BackupWrite ==
  /\ At("server", "copy")
  /\ \/ /\ bak' = [bak EXCEPT ![ts["server"]] = tmp["server"]]
        /\ holder' = Held(tmp["server"], ts["server"])
        /\ Go("server", "rotate") /\ UNCHANGED left
     \/ Fails /\ Go("server", "open") /\ UNCHANGED <<bak, holder>>
  /\ tmp' = [tmp EXCEPT !["server"] = Missing]
  /\ UNCHANGED <<db, copies, legacy, ts, handle, status, now,
                 ever, dropped, aside, base, stray, made, torn, cut>>

\* Mutation of rotateBackups: the oldest files are kept.
RotateOldest(b) ==
  LET keep == {t \in DOMAIN b : Cardinality({u \in DOMAIN b : u < t}) < Retention}
  IN  IF Retention = 0 THEN b ELSE [t \in keep |-> b[t]]

\* rotateBackups: of the .bak files, sorted by their names, the last are kept.
rotateBackups(b) ==
  LET keep == {t \in DOMAIN b : Cardinality({u \in DOMAIN b : u > t}) < Retention}
  IN  IF Retention = 0 THEN b ELSE [t \in keep |-> b[t]]

Rotate ==
  /\ At("server", "rotate")
  /\ bak' = rotateBackups(bak)
  /\ Go("server", "open")
  /\ UNCHANGED <<db, copies, legacy, tmp, ts, handle, status, now, ghosts>>

\* readTenantKey finds the blocks of the default tenant in the old bucket, too.
HasBlocks(c) == c \cap {"old", "blocks", "genesis"} # {}

\* What bolt.Open and init make of a file: a new database where there is none yet.
Opened(f) == IF f \in {Missing, Blank} THEN {} ELSE f

\* A damaged file fails to open, or opens, and HasData answers whatever it finds.
Open ==
  /\ At("server", "open")
  /\ \/ /\ pc["ctl"] \notin {"save plain", "save key"}
        /\ db' = Opened(db) /\ open' = "db"
        /\ cut' = (cut \/ Damaged(db))
        /\ \/ (HasData(db') \/ Damaged(db')) /\ Go("server", "tenant")
           \/ ~HasData(db') /\ Go("server", "migrate")
     \/ /\ Damaged(db) \/ pc["ctl"] \in {"save plain", "save key"}
        /\ Go("server", "down") /\ UNCHANGED <<db, open, cut>>
  /\ UNCHANGED <<bak, copies, legacy, tmp, ts, openAt, gone, status, now,
                 ever, dropped, aside, base, stray, holder, made, torn, left>>

\* A chain that is written under the tenant replaces that of the old bucket.
Put(f, items) == (IF items \cap {"blocks", "genesis"} # {} THEN f \ {"old"} ELSE f) \cup items

OpenFile == CASE open = "db" -> db [] open = "gone" -> gone [] OTHER -> bak[openAt]

\* A transaction of the server, in the file that it has open.
Commit(items) ==
  /\ db' = IF open = "db" THEN Put(db, items) ELSE db
  /\ bak' = [t \in DOMAIN bak |-> IF InBak(t) THEN Put(bak[t], items) ELSE bak[t]]
  /\ gone' = IF open = "gone" THEN Put(gone, items) ELSE gone
  /\ ever' = ever \cup items
  /\ dropped' = dropped \cup (OpenFile \ Put(OpenFile, items))
  /\ aside' = IF open = "db" THEN aside ELSE aside \cup items
  /\ stray' = IF open = "gone" THEN stray \cup items ELSE stray
  /\ holder' = IF open = "bak" THEN Held(items, openAt) ELSE holder

NoCommit == UNCHANGED <<db, bak, gone, ever, dropped, aside, stray, holder>>

-----------------------------------------------------------------------------
(* migrateLegacyJSON. *)

InPlace(f) == legacy[f].named /\ legacy[f].body # "none"
Loaded(f) == InPlace(f) /\ legacy[f].body \in {"good", "invalid"}

NextFile(f) == IF f = "blocks" /\ Loaded("routes") THEN "routes" ELSE "tenant"

\* Both files are read before anything is written.  An error is logged, no more.
MigrateLoad ==
  /\ At("server", "migrate")
  /\ LET broken == \E f \in Legacy : InPlace(f) /\ legacy[f].body = "corrupt"
     IN  /\ Go("server", IF broken THEN "tenant"
                         ELSE IF Loaded("blocks") THEN "blocks" ELSE NextFile("blocks"))
         /\ cut' = (cut \/ broken)
  /\ UNCHANGED <<files, tmp, ts, handle, status, now,
                 ever, dropped, aside, base, stray, holder, made, torn, left>>

\* Mutation of MigrateWrite: the error of the write is ignored.
MigrateWriteUnchecked(f) ==
  /\ At("server", f)
  /\ \/ /\ Commit({IF legacy[f].body = "good" THEN f ELSE "genesis"})
        /\ UNCHANGED left
     \/ Fails /\ NoCommit
  /\ Go("server", IF f = "blocks" THEN "blocks done" ELSE "routes done")
  /\ UNCHANGED <<copies, legacy, tmp, ts, open, openAt, status, now, base, made, torn, cut>>

\* Blocks that do not verify leave the chain of a new tenant.
MigrateWrite(f) ==
  /\ At("server", f)
  /\ \/ /\ Commit({IF legacy[f].body = "good" THEN f ELSE "genesis"})
        /\ Go("server", IF f = "blocks" THEN "blocks done" ELSE "routes done")
        /\ UNCHANGED <<cut, left>>
     \/ Fails /\ cut' = TRUE /\ Go("server", "tenant") /\ NoCommit
  /\ UNCHANGED <<copies, legacy, tmp, ts, open, openAt, status, now, base, made, torn>>

\* renameLegacy; an error is ignored.
MigrateRename(f) ==
  /\ At("server", IF f = "blocks" THEN "blocks done" ELSE "routes done")
  /\ \/ legacy' = [legacy EXCEPT ![f].named = FALSE] /\ UNCHANGED <<cut, left>>
     \/ Fails /\ cut' = TRUE /\ UNCHANGED legacy
  /\ Go("server", NextFile(f))
  /\ UNCHANGED <<db, bak, copies, tmp, ts, handle, status, now,
                 ever, dropped, aside, base, stray, holder, made, torn>>

\* getTenant(defaultTenant): a tenant without blocks is given its genesis block.  In a
\* damaged database there may be blocks or not, and reading them may be fatal.
LoadTenant ==
  /\ At("server", "tenant")
  /\ \/ /\ \/ (HasBlocks(OpenFile) \/ Damaged(OpenFile)) /\ NoCommit
           \/ ~HasBlocks(OpenFile) /\ Commit({"genesis"})
        /\ Go("server", "up") /\ UNCHANGED <<open, left>>
     \/ /\ (~HasBlocks(OpenFile) /\ Fails) \/ (Damaged(OpenFile) /\ UNCHANGED left)
        /\ Go("server", "down") /\ open' = "none" /\ NoCommit
  /\ UNCHANGED <<copies, legacy, tmp, ts, openAt, status, now, base, made, torn, cut>>

-----------------------------------------------------------------------------
(* The running server. *)

Save(w) ==
  /\ At("server", "up") /\ w \notin ever
  /\ Commit({w})
  /\ UNCHANGED <<copies, legacy, pc, tmp, ts, open, openAt, status, now, base, made, torn, cut, left>>

\* runBackup and runCompaction, by their schedulers or the admin API, write to directories
\* of their own: here only the outcome that they record.
RunOnline(k) ==
  /\ At("server", "up") /\ Spend("online")
  /\ status' = [status EXCEPT ![k] = IF Compact(db) = Missing THEN "error" ELSE "ok"]
  /\ UNCHANGED <<files, pc, tmp, ts, handle, now,
                 ever, dropped, aside, base, stray, holder, made, torn, cut>>

\* A second server on the same directory: it copies the file while it is being written,
\* rotates, and then fails to open it.
SecondServer ==
  /\ At("server", "up") /\ Locked /\ Spend("twin")
  /\ now' = now + 1
  /\ \E f \in {db, Torn} :
       /\ bak' = rotateBackups([t \in DOMAIN bak \cup {now'} |-> IF t = now' THEN f ELSE bak[t]])
       /\ holder' = Held(f, now')
  /\ made' = made \cup {now'}
  /\ UNCHANGED <<db, copies, legacy, pc, tmp, ts, handle, status,
                 ever, dropped, aside, base, stray, torn, cut>>

\* The process is stopped, or dies, at any point.
Crash ==
  /\ ~At("server", "down") /\ Spend("crash")
  /\ Go("server", "down")
  /\ tmp' = [tmp EXCEPT !["server"] = Missing]
  /\ open' = "none" /\ openAt' = 0 /\ gone' = Missing
  /\ status' = [k \in DOMAIN status |-> "never"]
  /\ cut' = (cut \/ pc["server"] \in {"blocks done", "routes", "routes done"})
  /\ UNCHANGED <<files, ts, now, ever, dropped, aside, base, stray, holder, made, torn>>

-----------------------------------------------------------------------------
(* spectralctl. *)

CompactCmd ==
  /\ At("ctl", "down") /\ ~Compacting("server") /\ Spend("ctl")
  /\ Go("ctl", "compact")
  /\ UNCHANGED <<files, tmp, ts, handle, status, now,
                 ever, dropped, aside, base, stray, holder, made, torn, cut>>

Readable(f) == f \notin {Missing, Blank}

\* The output is cut to length 0 first, whatever it held.
Rewrite(k, f, step) ==
  /\ At("ctl", "down") /\ Spend("ctl")
  /\ copies' = [copies EXCEPT ![k] = Blank]
  /\ tmp' = [tmp EXCEPT !["ctl"] = f]
  /\ Go("ctl", step)
  /\ UNCHANGED <<db, bak, legacy, ts, handle, status, now,
                 ever, dropped, aside, base, stray, holder, made, torn, cut>>

\* Backup, BackupEncrypted: the file, opened read-only, is copied as it is.
BackupCmd(k) ==
  /\ Readable(db) /\ ~Locked
  /\ Rewrite(k, db, IF k = "plain" THEN "save plain" ELSE "save key")

\* A ciphertext that is cut does not decrypt; that of a damaged file does, and the file
\* may pass Verify.
RekeyCmd == Readable(copies["key"]) /\ Rewrite("key", copies["key"], "rekey")

Written(k) ==
  /\ pc["ctl"] \in (IF k = "plain" THEN {"save plain"} ELSE {"save key", "rekey"})
  /\ copies' = [copies EXCEPT ![k] = tmp["ctl"]]
  /\ tmp' = [tmp EXCEPT !["ctl"] = Missing] /\ Go("ctl", "down")
  /\ UNCHANGED <<db, bak, legacy, ts, handle, status, now, ghosts>>

\* Restore without a key, from a copy or a .bak file.  Verify looks at the first buckets
\* only, so a damaged file may pass.  The database is then overwritten in place.
RestoreCmd ==
  /\ At("ctl", "down") /\ At("server", "down") /\ Spend("ctl")
  /\ \E f \in {copies["plain"]} \cup {bak[t] : t \in DOMAIN bak} :
       /\ Readable(f)
       /\ tmp' = [tmp EXCEPT !["ctl"] = f]
  /\ db' = Blank
  /\ Go("ctl", "restore")
  /\ dropped' = ever /\ aside' = {} /\ stray' = {}
  /\ UNCHANGED <<bak, copies, legacy, ts, handle, status, now, ever, base, holder, made, torn, cut>>

\* RestoreEncrypted: what was decrypted is verified, written next to the database, verified
\* again and renamed.
RestoreKeyCmd ==
  /\ At("ctl", "down") /\ At("server", "down") /\ Spend("ctl")
  /\ Readable(copies["key"])
  /\ tmp' = [tmp EXCEPT !["ctl"] = copies["key"]]
  /\ Go("ctl", "replace")
  /\ UNCHANGED <<files, ts, handle, status, now,
                 ever, dropped, aside, base, stray, holder, made, torn, cut>>

Restored ==
  /\ pc["ctl"] \in {"restore", "replace"}
  /\ db' = tmp["ctl"]
  /\ dropped' = ever \ Items(db') /\ aside' = {} /\ stray' = {}
  /\ torn' = IF Whole(db') THEN torn /\ Damaged(copies["key"])
             ELSE torn \/ At("ctl", "restore")
  /\ tmp' = [tmp EXCEPT !["ctl"] = Missing] /\ Go("ctl", "down")
  /\ UNCHANGED <<bak, copies, legacy, ts, handle, status, now, ever, base, holder, made, cut, left>>

\* Mutation of Partial: a restore with a key writes to dbPath, too.
PartialKey(step) == IF step \in {"restore", "replace"} THEN {Blank, Torn} ELSE {db}

\* What an interrupted restore leaves at dbPath.
Partial(step) == IF step = "restore" THEN {Blank, Torn} ELSE {db}

\* What an interrupted backup leaves.
PartialCopy(k) ==
  CASE k = "plain" /\ At("ctl", "save plain") -> {Blank, Torn}
    [] k = "key" /\ pc["ctl"] \in {"save key", "rekey"} -> {Blank}
    [] OTHER -> {copies[k]}

Interrupt ==
  /\ ~At("ctl", "down") /\ Spend("crash")
  /\ db' \in Partial(pc["ctl"])
  /\ torn' = (torn \/ At("ctl", "restore"))
  /\ \E p \in PartialCopy("plain"), k \in PartialCopy("key") :
       copies' = [copies EXCEPT !["plain"] = p, !["key"] = k]
  /\ tmp' = [tmp EXCEPT !["ctl"] = Missing] /\ Go("ctl", "down")
  /\ UNCHANGED <<bak, legacy, ts, handle, status, now,
                 ever, dropped, aside, base, stray, holder, made, cut>>

-----------------------------------------------------------------------------
Boot ==
  \/ \E c \in BOOLEAN : Start(c)
  \/ BackupRead \/ BackupWrite \/ Rotate \/ Open
  \/ MigrateLoad \/ \E f \in Legacy : MigrateWrite(f) \/ MigrateRename(f)
  \/ LoadTenant

Run ==
  \/ \E w \in Write : Save(w)
  \/ \E k \in DOMAIN status : RunOnline(k)
  \/ SecondServer \/ Crash

Ctl ==
  \/ CompactCmd \/ RekeyCmd \/ RestoreCmd \/ RestoreKeyCmd \/ Restored \/ Interrupt
  \/ \E k \in DOMAIN copies : BackupCmd(k) \/ Written(k)

Next ==
  \/ Boot \/ Run \/ Ctl
  \/ \E p \in Proc : CompactBegin(p) \/ CompactMove(p) \/ CompactSwap(p)

Spec == Init /\ [][Next]_vars

-----------------------------------------------------------------------------
(* Properties. *)

Step == {"down", "compact", "move", "swap", "backup", "copy", "rotate", "open", "migrate",
         "blocks", "blocks done", "routes", "routes done", "tenant", "up",
         "save plain", "save key", "rekey", "restore", "replace"}

\* Every variable has its type; a server from Open to its exit has a file open that is a
\* database, and one that is whole when the file has lost its name to a compaction.
TypeOK ==
  /\ db \in File /\ copies \in [{"plain", "key"} -> File]
  /\ DOMAIN bak \subseteq 1 .. now /\ \A t \in DOMAIN bak : bak[t] \in File \ {Missing}
  /\ legacy \in [Legacy -> [body : Body, named : BOOLEAN]]
  /\ pc \in [Proc -> Step] /\ tmp \in [Proc -> File] /\ ts \in [Proc -> 0 .. now]
  /\ open \in {"none", "db", "bak", "gone"} /\ (open = "bak" => openAt \in DOMAIN bak)
  /\ (open = "none") <=> pc["server"] \in {"down", "compact", "move", "swap", "backup",
                                           "copy", "rotate", "open"}
  /\ open = "db" => Readable(db)
  /\ open = "bak" => Whole(bak[openAt])
  /\ open = "gone" => Whole(gone)
  /\ status \in [{"backup", "compact"} -> {"never", "error", "ok"}]

\* What the server has committed stays in the database or in a .bak file, whatever the
\* compaction and the startup backup do and wherever they are interrupted, until as many
\* newer .bak files were made, whole or not, as BACKUP_RETENTION keeps.  Three exceptions:
\* an operator has restored another backup, a migrated chain has replaced one of the old
\* bucket, and what was committed to a file that an in-place compaction replaced while the
\* server was opening it.
LostOnlyToRetention ==
  \A i \in ever \ (dropped \cup stray) :
    \/ i \in Items(db)
    \/ \E t \in DOMAIN bak : i \in Items(bak[t])
    \/ /\ Retention > 0 /\ holder[i] > 0
       /\ Cardinality({t \in made : t > holder[i]}) >= Retention

\* A running server serves everything that was committed, except what an interrupted or
\* overlapping compaction left in a .bak file.  (A compaction by hand that overlaps with
\* the start can take the file from under the server: then it serves another one.)
ServesAcked ==
  At("server", "up") /\ Locked => ever \ (dropped \cup stray \cup aside) \subseteq db

\* A JSON file is renamed to .migrated only when the database holds what was in it.
MigratedIsStored ==
  \A f \in Legacy : ~legacy[f].named /\ legacy[f].body = "good" => f \in ever

\* A running server has migrated the JSON files, unless a migration was cut short: then
\* the file stays behind for ever, because the next start finds data in the database.
\* (Nor does the property speak of a server that has opened a damaged database.)
MigratedUnlessCut ==
  At("server", "up") /\ ~cut => \A f \in Legacy : InPlace(f) => legacy[f].body # "good"

\* The database, also one that a server has open, and what an encrypted copy holds are
\* damaged only through a restore without a key that was interrupted or was given a damaged
\* file.  A restore with a key, a compaction, a backup and a crash, wherever they are
\* interrupted, leave a database that is whole, or none; and an interrupted backup with a
\* key leaves nothing that a restore would take.
TornOnlyByPlainRestore ==
  /\ db = Blank \/ Damaged(db) => torn \/ At("ctl", "restore")
  /\ Damaged(copies["key"]) => torn

\* Crashes, failed starts and interrupted commands leave the database whole, but for
\* a restore without a key that is cut or is given a damaged file.
DatabaseIsWhole == TypeOK /\ TornOnlyByPlainRestore

\* Committed data is served, or is in a .bak file until retention rotates it away.
DataKept == ServesAcked /\ LostOnlyToRetention

\* A legacy file is renamed after its content is stored, and is left behind only if
\* the start that migrated it was cut.
MigrationIsSound == MigratedIsStored /\ MigratedUnlessCut
=============================================================================
