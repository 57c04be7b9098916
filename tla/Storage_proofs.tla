--------------------------- MODULE Storage_proofs ----------------------------
(***************************************************************************)
(* Proofs about the life of the database file, for every value of the      *)
(* constants: the database is damaged only by a restore without a key,     *)
(* what was committed is kept until retention rotates it away, and a JSON  *)
(* file of an older version is left behind only by a migration that was    *)
(* cut.                                                                    *)
(***************************************************************************)
EXTENDS Storage, FiniteSetTheorems, TLAPS

-----------------------------------------------------------------------------
(* The inductive invariant, in parts. *)

ServerStep == {"down", "compact", "move", "swap", "backup", "copy", "rotate", "open",
               "migrate", "blocks", "blocks done", "routes", "routes done", "tenant", "up"}
CtlStep == {"down", "compact", "move", "swap", "save plain", "save key", "rekey",
            "restore", "replace"}
Writing == {"blocks done", "routes", "routes done"}

\* Two compactions do not overlap, and a restore finds the server down.
PcOK ==
  /\ pc \in [Proc -> Step] /\ pc["server"] \in ServerStep /\ pc["ctl"] \in CtlStep
  /\ ~(Compacting("server") /\ Compacting("ctl"))
  /\ pc["ctl"] \in {"restore", "replace"} => At("server", "down")

\* Two processes never make .bak files in the same second.
ClockOK ==
  /\ now \in Nat /\ ts \in [Proc -> 0 .. now]
  /\ made \subseteq 1 .. now /\ DOMAIN bak \subseteq made
  /\ holder \in [Item -> made \cup {0}]
  /\ ts["server"] = ts["ctl"] => ts["server"] = 0
  /\ \A p \in Proc : /\ pc[p] \in {"move", "swap"} => ts[p] > 0
                     /\ At(p, "move") => ts[p] \notin made

FileOK ==
  /\ copies \in [{"plain", "key"} -> File] /\ tmp \in [Proc -> File]
  /\ legacy \in [Legacy -> [body : Body, named : BOOLEAN]]
  /\ status \in [{"backup", "compact"} -> {"never", "error", "ok"}]
  /\ ever \subseteq Item /\ torn \in BOOLEAN /\ cut \in BOOLEAN

\* The database and the .bak files: those that a compaction is about to rename are whole.
BakOK ==
  /\ db \in File /\ (db = Blank \/ Damaged(db) => torn \/ At("ctl", "restore"))
  /\ \A t \in DOMAIN bak : bak[t] \in File \ {Missing}
  /\ \A p \in Proc :
       /\ At(p, "move") => Whole(db)
       /\ At(p, "swap") => ~Damaged(db)
       /\ pc[p] \in {"move", "swap"} => Whole(tmp[p])
       /\ At(p, "swap") /\ ts[p] \in DOMAIN bak => Whole(bak[ts[p]])
  /\ At("server", "copy") => tmp["server"] # Missing /\ ts["server"] \in DOMAIN bak

\* What is copied with a key, or from a copy with a key, is damaged only if the database was.
CopyOK ==
  /\ Damaged(copies["key"]) => torn
  /\ pc["ctl"] \in {"save key", "rekey", "replace"} =>
       Readable(tmp["ctl"]) /\ (Damaged(tmp["ctl"]) => torn)

\* The file that the server has open is a database, and whole if it lost its name.
OpenOK ==
  /\ open \in {"none", "db", "bak", "gone"} /\ openAt \in Nat /\ gone \in File
  /\ open = "none" <=> pc["server"] \in {"down", "compact", "move", "swap", "backup",
                                         "copy", "rotate", "open"}
  /\ open = "bak" => openAt \in DOMAIN bak /\ Whole(bak[openAt])
  /\ open = "db" => Readable(db)
  /\ open = "gone" => Whole(gone)

Sound == PcOK /\ ClockOK /\ FileOK /\ BakOK /\ OpenOK /\ CopyOK

\* No file holds what was never committed.
Honest ==
  /\ Items(db) \subseteq ever /\ Items(gone) \subseteq ever /\ base \subseteq ever
  /\ \A t \in DOMAIN bak : Items(bak[t]) \subseteq ever
  /\ \A p \in Proc : Items(tmp[p]) \subseteq ever
  /\ \A k \in {"plain", "key"} : Items(copies[k]) \subseteq ever
  /\ \A i \in Item : holder[i] > 0 => i \in ever

\* What the database lacks is accounted for, also in the middle of a compaction.
Kept ==
  /\ ever \ (dropped \cup stray \cup aside) \subseteq db
  /\ At("ctl", "restore") => ever \subseteq dropped
  /\ \A p \in Proc :
       /\ At(p, "move") => base \subseteq tmp[p] /\ base \subseteq db \cup dropped
       /\ At(p, "swap") => /\ base \subseteq tmp[p]
                           /\ ts[p] \in DOMAIN bak => base \subseteq bak[ts[p]] \cup dropped

InHolder(i) == holder[i] \in DOMAIN bak /\ i \in bak[holder[i]]
Rotated(i) ==
  /\ Retention > 0 /\ holder[i] > 0
  /\ Cardinality({t \in made : t > holder[i]}) >= Retention
Saved(i) == InHolder(i) \/ Rotated(i)
Live == ever \ (dropped \cup stray)

\* An item that the database lacks is in the newest file that ever held it, unless that
\* one was rotated away.
Accounted == \A i \in Live : i \in db \/ Saved(i)

\* So is an item that a compaction is about to take from the database, unless the file that
\* it makes is newer.
Movable == \A p \in Proc : At(p, "move") => \A i \in Live : holder[i] < ts[p] \/ Saved(i)

\* The startup backup may use the name that the compaction of the same start has used: what
\* that file holds, and none newer, is back in the database.
Renamed ==
  /\ At("server", "compact") => ts["server"] = 0
  /\ At("server", "move") => db = tmp["server"]
  /\ At("server", "swap") =>
       /\ db = Missing /\ \A i \in Item : holder[i] = ts["server"] => i \in tmp["server"]
       /\ ts["server"] \in DOMAIN bak => bak[ts["server"]] = tmp["server"]
  /\ At("server", "backup") /\ ts["server"] > 0 =>
       /\ \A i \in Live : holder[i] = ts["server"] =>
                            i \in db \/ (db = Missing /\ ~At("ctl", "swap"))
       /\ At("ctl", "move") => ts["server"] < ts["ctl"]
  /\ At("server", "copy") => bak[ts["server"]] = Torn

Good(f) == InPlace(f) /\ legacy[f].body = "good"
Pending == \E f \in Legacy : Good(f)

\* A JSON file that is about to be renamed is stored.
Stored ==
  /\ MigratedIsStored
  /\ \A f \in Legacy : At("server", IF f = "blocks" THEN "blocks done" ELSE "routes done")
                         /\ legacy[f].body = "good" => f \in ever

\* No file but the one that the migration writes holds data that would make a later start
\* skip it.
Clean ==
  /\ pc["server"] \notin {"tenant", "up"}
  /\ HasData(db) => open = "db" /\ pc["server"] \in Writing
  /\ \A t \in DOMAIN bak : HasData(bak[t]) => InBak(t) /\ pc["server"] \in Writing
  /\ open = "gone" /\ HasData(gone) => pc["server"] \in Writing
  /\ \A p \in Proc : ~HasData(tmp[p])
  /\ \A k \in {"plain", "key"} : ~HasData(copies[k])

\* So it is as long as a JSON file waits for its migration.
Waiting ==
  /\ ~cut /\ Pending => Clean
  /\ ~cut /\ pc["server"] \in {"routes", "routes done"} => ~Good("blocks")

-----------------------------------------------------------------------------
(* Files. *)

\* A file that can be read is whole or damaged; the others hold nothing.
LEMMA FileFacts ==
  /\ \A f : Whole(f) => f \in File /\ Readable(f) /\ ~Damaged(f) /\ Items(f) = f
  /\ \A f \in File : Readable(f) => Whole(f) \/ Damaged(f)
  /\ Missing \in File /\ Blank \in File /\ Torn \in File
  /\ Items(Missing) = {} /\ Items(Blank) = {} /\ Items(Torn) = {}
  /\ Missing # Blank /\ Missing # Torn /\ Blank # Torn /\ Readable(Torn) /\ Damaged(Torn)
  /\ ~Whole(Missing) /\ ~Whole(Blank) /\ ~Whole(Torn) /\ ~Damaged(Missing) /\ ~Damaged(Blank)
  /\ \A f \in File : \A i \in Item : i \in f => i \in Items(f) /\ Readable(f)
<1>1. "missing" \notin Item /\ "blank" \notin Item /\ "torn" \notin Item
  BY StorageAssumption DEF StorageAssumption, Missing, Blank, Torn
<1>2. "missing" # "blank" /\ "missing" # "torn" /\ "blank" # "torn"
  OBVIOUS
<1>3. ASSUME NEW f, Whole(f)
      PROVE  f \in File /\ Readable(f) /\ ~Damaged(f) /\ Items(f) = f
  BY <1>1, <1>3 DEF Whole, Damaged, Readable, Items, File, Missing, Blank, Torn
<1>4. ASSUME NEW f \in File, Readable(f) PROVE Whole(f) \/ Damaged(f)
  <2>1. f \subseteq Item \cup Torn
    BY <1>4 DEF File, Readable
  <2>2. QED BY <2>1 DEF Whole, Damaged, Torn
<1>5. Missing \in File /\ Blank \in File /\ Torn \in File
  BY DEF File
<1>6. Items(Missing) = {} /\ Items(Blank) = {} /\ Items(Torn) = {}
  BY <1>1 DEF Items, Missing, Blank, Torn
<1>7. Missing # Blank /\ Missing # Torn /\ Blank # Torn /\ Readable(Torn) /\ Damaged(Torn)
  BY <1>2 DEF Readable, Damaged, Missing, Blank, Torn
<1>8. ~Whole(Missing) /\ ~Whole(Blank) /\ ~Whole(Torn) /\ ~Damaged(Missing) /\ ~Damaged(Blank)
  BY <1>1, <1>2 DEF Whole, Damaged, Missing, Blank, Torn
<1>9. \A f \in File : \A i \in Item : i \in f => i \in Items(f) /\ Readable(f)
  BY <1>1 DEF Items, Readable, Missing, Blank
<1>10. QED BY <1>3, <1>4, <1>5, <1>6, <1>7, <1>8, <1>9

\* The three special files are files.
LEMMA Specials == Missing \in File /\ Blank \in File /\ Torn \in File
BY FileFacts

\* What Open makes of a file is a database, as damaged as the file was, and holds what was
\* in it.
LEMMA OpenedFacts ==
  ASSUME NEW f \in File
  PROVE  /\ Opened(f) \in File /\ Readable(Opened(f)) /\ Items(Opened(f)) = Items(f)
         /\ Damaged(Opened(f)) <=> Damaged(f)
         /\ ~Damaged(f) => Whole(Opened(f))
         /\ Whole(f) => Opened(f) = f
<1>1. Whole({}) /\ Items({}) = {} BY DEF Whole, Items
<1>2. CASE f \in {Missing, Blank}
  BY <1>1, <1>2, FileFacts DEF Opened
<1>3. CASE f \notin {Missing, Blank}
  BY <1>3, FileFacts DEF Opened, Readable
<1>4. QED BY <1>2, <1>3

\* Open opens the file, or the server stops.
LEMMA OpenEffect ==
  ASSUME Open, PcOK
  PROVE  \/ /\ open' = "db" /\ db' = Opened(db) /\ cut' = (cut \/ Damaged(db))
            /\ \/ pc'["server"] = "tenant" /\ (HasData(db') \/ Damaged(db'))
               \/ pc'["server"] = "migrate" /\ ~HasData(db')
         \/ UNCHANGED <<db, open, cut>> /\ pc'["server"] = "down"
<1>1. pc \in [Proc -> Step]
  BY DEF PcOK
<1>2. QED BY <1>1 DEF Open, Go, Proc

\* A transaction adds its items, and takes away at most the chain of the old bucket.
LEMMA PutFacts ==
  ASSUME NEW f, NEW items, items \subseteq Item
  PROVE  /\ Whole(f) => Whole(Put(f, items))
         /\ items \subseteq Put(f, items) /\ Put(f, items) \subseteq f \cup items
         /\ Items(Put(f, items)) \subseteq Items(f) \cup items
         /\ f \in File /\ Readable(f) =>
              /\ Put(f, items) \in File /\ Readable(Put(f, items))
              /\ Damaged(Put(f, items)) => Damaged(f)
<1>1. "missing" \notin Item /\ "blank" \notin Item /\ "torn" \notin Item /\ "torn" # "old"
  BY StorageAssumption DEF StorageAssumption, Missing, Blank, Torn, Item
<1>2. /\ items \subseteq Put(f, items) /\ Put(f, items) \subseteq f \cup items
      /\ f \ {"old"} \subseteq Put(f, items)
  BY DEF Put
<1>3. ASSUME f \in File, Readable(f)
      PROVE  /\ Put(f, items) \in File /\ Readable(Put(f, items))
             /\ Damaged(Put(f, items)) => Damaged(f)
  <2>0. f \in SUBSET (Item \cup Torn)
    BY <1>3 DEF File, Readable
  <2>1. f \subseteq Item \cup {"torn"}
    BY <2>0 DEF Torn
  <2>2. Put(f, items) \subseteq Item \cup {"torn"}
    BY <1>2, <2>1
  <2>3. QED BY <1>1, <1>2, <2>2 DEF File, Readable, Damaged, Missing, Blank, Torn
<1>4. QED BY <1>2, <1>3 DEF Whole, Items

\* The next second is later than everything so far.
LEMMA Later ==
  ASSUME NEW n \in Nat, NEW f \in [Proc -> 0 .. n], NEW m, m \subseteq 1 .. n
  PROVE  /\ n + 1 \in Nat /\ n + 1 > 0 /\ f \in [Proc -> 0 .. n + 1]
         /\ \A p \in Proc : [f EXCEPT ![p] = n + 1] \in [Proc -> 0 .. n + 1]
         /\ \A p \in Proc : f[p] # n + 1 /\ f[p] < n + 1 /\ f[p] \in Nat
         /\ 0 \in 0 .. n /\ n \in 0 .. n /\ \A t \in 0 .. n : t > 0 => t \in 1 .. n
         /\ 0 \in 0 .. n /\ n \in 0 .. n /\ \A t \in 0 .. n : t > 0 => t \in 1 .. n
         /\ n + 1 \notin m /\ m \subseteq 1 .. n + 1 /\ m \cup {n + 1} \subseteq 1 .. n + 1
<1>1. \A p \in Proc : f[p] \in 0 .. n
  OBVIOUS
<1>2. 0 .. n \subseteq 0 .. n + 1 /\ n + 1 \in 0 .. n + 1 /\ m \subseteq 1 .. n + 1
  OBVIOUS
<1>3. f \in [Proc -> 0 .. n + 1] BY <1>1, <1>2
<1>4. \A p \in Proc : [f EXCEPT ![p] = n + 1] \in [Proc -> 0 .. n + 1] BY <1>2, <1>3
<1>5. n + 1 \notin m OBVIOUS
<1>6. 0 \in 0 .. n /\ n \in 0 .. n /\ \A t \in 0 .. n : t > 0 => t \in 1 .. n OBVIOUS
<1>7. QED BY <1>1, <1>2, <1>3, <1>4, <1>5, <1>6

\* A second in which the server made a file is not one of the other process.
LEMMA SameSecond ==
  ASSUME NEW n \in Nat, NEW f \in [Proc -> 0 .. n],
         f["server"] = f["ctl"] => f["server"] = 0, f["server"] = n, n > 0
  PROVE  f["ctl"] # n /\ n \in 1 .. n
OBVIOUS

\* Retention takes whole files away, and only those that are old enough.
LEMMA RotateFacts ==
  ASSUME NEW b
  PROVE  /\ DOMAIN rotateBackups(b) \subseteq DOMAIN b
         /\ \A t \in DOMAIN rotateBackups(b) : rotateBackups(b)[t] = b[t]
         /\ \A t \in DOMAIN b \ DOMAIN rotateBackups(b) :
              Retention > 0 /\ ~(Cardinality({u \in DOMAIN b : u > t}) < Retention)
BY StorageAssumption DEF rotateBackups, StorageAssumption


\* A second server makes one more .bak file, and rotates.
LEMMA SecondFacts ==
  ASSUME SecondServer
  PROVE  \E f \in {db, Torn} :
           /\ holder' = Held(f, now')
           /\ \A t \in DOMAIN bak' :
                (t = now' /\ bak'[t] = f) \/ (t \in DOMAIN bak /\ bak'[t] = bak[t])
           /\ \A t \in (DOMAIN bak \cup {now'}) \ DOMAIN bak' :
                /\ Retention > 0
                /\ ~(Cardinality({u \in DOMAIN bak \cup {now'} : u > t}) < Retention)
<1>1. PICK f \in {db, Torn} :
        /\ bak' = rotateBackups([t \in DOMAIN bak \cup {now'} |-> IF t = now' THEN f ELSE bak[t]])
        /\ holder' = Held(f, now')
  BY DEF SecondServer
<1>2. PICK b : b = [t \in DOMAIN bak \cup {now'} |-> IF t = now' THEN f ELSE bak[t]]
  OBVIOUS
<1>3. bak' = rotateBackups(b) /\ DOMAIN b = DOMAIN bak \cup {now'}
  BY <1>1, <1>2
<1>4. \A t \in DOMAIN b : b[t] = IF t = now' THEN f ELSE bak[t]
  BY <1>2
<1>5. \A t \in DOMAIN bak' : t \in DOMAIN b /\ bak'[t] = b[t]
  BY <1>3, RotateFacts
<1>6. \A t \in DOMAIN bak' : (t = now' /\ bak'[t] = f) \/ (t \in DOMAIN bak /\ bak'[t] = bak[t])
  BY <1>3, <1>4, <1>5
<1>7. \A t \in (DOMAIN bak \cup {now'}) \ DOMAIN bak' :
        /\ Retention > 0
        /\ ~(Cardinality({u \in DOMAIN bak \cup {now'} : u > t}) < Retention)
  BY <1>3, RotateFacts
<1>8. QED BY <1>1, <1>6, <1>7

-----------------------------------------------------------------------------
(* Types and control. *)

Quiet == {"down", "compact", "move", "swap", "backup", "copy", "rotate", "open"}

\* The three actions that write to the open database: they commit some items, or nothing.
LEMMA Transaction ==
  ASSUME PcOK, (\E f \in Legacy : MigrateWrite(f)) \/ LoadTenant \/ (\E w \in Write : Save(w))
  PROVE  /\ NoCommit \/ \E items \in SUBSET Item : Commit(items) /\ open' = open
         /\ UNCHANGED <<copies, legacy, tmp, ts, openAt, status, now, base, made, torn>>
         /\ pc["server"] \notin Quiet /\ pc' \in [Proc -> Step] /\ pc'["ctl"] = pc["ctl"]
         /\ \/ open' = open /\ pc'["server"] \in {"blocks done", "routes done", "tenant", "up"}
            \/ NoCommit /\ open' = "none" /\ pc'["server"] = "down"
<1> USE DEF PcOK, Proc, Step, ServerStep, Quiet, Legacy, Item, Go, At
<1>1. ASSUME NEW f \in Legacy, MigrateWrite(f)
      PROVE  (NoCommit \/ \E items \in SUBSET Item : Commit(items)) /\ open' = open
  <2>1. {IF legacy[f].body = "good" THEN f ELSE "genesis"} \in SUBSET Item
    OBVIOUS
  <2>2. QED BY <1>1, <2>1 DEF MigrateWrite
<1>2. ASSUME NEW f \in Legacy, MigrateWrite(f)
      PROVE  /\ UNCHANGED <<copies, legacy, tmp, ts, openAt, status, now, base, made, torn>>
             /\ pc["server"] \notin Quiet /\ pc' \in [Proc -> Step] /\ pc'["ctl"] = pc["ctl"]
             /\ pc'["server"] \in {"blocks done", "routes done", "tenant", "up"}
  BY <1>2 DEF MigrateWrite
<1>3. CASE LoadTenant
  <2>1. {"genesis"} \in SUBSET Item
    OBVIOUS
  <2>2. \/ (NoCommit \/ Commit({"genesis"})) /\ open' = open /\ Go("server", "up")
        \/ NoCommit /\ open' = "none" /\ Go("server", "down")
    BY <1>3 DEF LoadTenant
  <2>3. At("server", "tenant") /\ UNCHANGED <<copies, legacy, tmp, ts, openAt, status, now, base, made, torn>>
    BY <1>3 DEF LoadTenant
  <2>4. QED BY <2>1, <2>2, <2>3
<1>4. ASSUME NEW w \in Write, Save(w)
      PROVE  /\ Commit({w}) /\ {w} \in SUBSET Item /\ open' = open /\ pc' = pc
             /\ At("server", "up")
             /\ UNCHANGED <<copies, legacy, tmp, ts, openAt, status, now, base, made, torn>>
  BY <1>4 DEF Save
<1>5. QED BY <1>1, <1>2, <1>3, <1>4

\* A transaction writes to the open file, and an open .bak file becomes the newest holder.
LEMMA CommitFacts ==
  ASSUME NEW items \in SUBSET Item, Commit(items)
  PROVE  /\ DOMAIN bak' = DOMAIN bak
         /\ \A t \in DOMAIN bak : bak'[t] = IF InBak(t) THEN Put(bak[t], items) ELSE bak[t]
         /\ open = "bak" => holder' = Held(items, openAt)
         /\ open # "bak" => holder' = holder
         /\ ever' = ever \cup items
BY DEF Commit


\* Every process goes through its own steps.
LEMMA PcStep == ASSUME PcOK, [Next]_vars PROVE PcOK'
<1> USE DEF PcOK, Proc, Step, ServerStep, CtlStep, Legacy
<1>1. ASSUME NEW p \in Proc, CompactBegin(p) PROVE PcOK'
  <2>1. At(p, "compact") /\ (Go(p, "move") \/ Go(p, Finished(p)))
    BY <1>1 DEF CompactBegin
  <2>2. CASE p = "server" BY <2>1, <2>2 DEF Go, At, Finished, Compacting
  <2>3. CASE p = "ctl" BY <2>1, <2>3 DEF Go, At, Finished, Compacting
  <2>4. QED BY <2>2, <2>3
<1>2. ASSUME NEW p \in Proc, CompactMove(p) PROVE PcOK'
  <2>1. At(p, "move") /\ (Go(p, "swap") \/ Go(p, Finished(p)))
    BY <1>2 DEF CompactMove
  <2>2. CASE p = "server" BY <2>1, <2>2 DEF Go, At, Finished, Compacting
  <2>3. CASE p = "ctl" BY <2>1, <2>3 DEF Go, At, Finished, Compacting
  <2>4. QED BY <2>2, <2>3
<1>3. ASSUME NEW p \in Proc, CompactSwap(p) PROVE PcOK'
  BY <1>3 DEF CompactSwap, Replace, Locked, Go, At, Finished, Compacting
<1>4. ASSUME NEW c \in BOOLEAN, Start(c) PROVE PcOK'
  BY <1>4 DEF Start, files, handle, Go, At, Compacting
<1>5. CASE BackupRead
  BY <1>5 DEF BackupRead, handle, Go, At, Compacting
<1>6. CASE BackupWrite
  BY <1>6 DEF BackupWrite, handle, Go, At, Compacting
<1>7. CASE Rotate
  BY <1>7 DEF Rotate, handle, ghosts, Go, At, Compacting
<1>8. CASE Open
  BY <1>8 DEF Open, ghosts, Go, At, Compacting
<1>9. CASE MigrateLoad
  BY <1>9 DEF MigrateLoad, files, handle, Go, At, NextFile, Compacting
<1>10. ASSUME NEW f \in Legacy, MigrateWrite(f) PROVE PcOK'
  BY <1>10 DEF MigrateWrite, Commit, NoCommit, Go, At, Compacting
<1>11. ASSUME NEW f \in Legacy, MigrateRename(f) PROVE PcOK'
  BY <1>11 DEF MigrateRename, handle, Go, At, NextFile, Compacting
<1>12. CASE LoadTenant
  BY <1>12 DEF LoadTenant, Commit, NoCommit, Go, At, Compacting
<1>13. ASSUME NEW w \in Write, Save(w) PROVE PcOK'
  BY <1>13 DEF Save, Commit, At, Compacting
<1>14. ASSUME NEW k \in DOMAIN status, RunOnline(k) PROVE PcOK'
  BY <1>14 DEF RunOnline, files, handle, At, Compacting
<1>15. CASE SecondServer
  BY <1>15 DEF SecondServer, handle, At, Compacting
<1>16. CASE Crash
  BY <1>16 DEF Crash, files, Go, At, Compacting
<1>17. CASE CompactCmd
  BY <1>17 DEF CompactCmd, files, handle, Go, At, Compacting
<1>18. ASSUME NEW k \in DOMAIN copies, BackupCmd(k) PROVE PcOK'
  BY <1>18 DEF BackupCmd, Rewrite, handle, Go, At, Compacting
<1>19. CASE RekeyCmd
  BY <1>19 DEF RekeyCmd, Rewrite, handle, Go, At, Compacting
<1>20. ASSUME NEW k \in DOMAIN copies, Written(k) PROVE PcOK'
  BY <1>20 DEF Written, handle, ghosts, Go, At, Compacting
<1>21. CASE RestoreCmd
  BY <1>21 DEF RestoreCmd, handle, Go, At, Compacting
<1>22. CASE RestoreKeyCmd
  BY <1>22 DEF RestoreKeyCmd, files, handle, Go, At, Compacting
<1>23. CASE Restored
  BY <1>23 DEF Restored, handle, Go, At, Compacting
<1>24. CASE Interrupt
  BY <1>24 DEF Interrupt, handle, Go, At, Compacting
<1>25. CASE UNCHANGED vars
  BY <1>25 DEF vars, files, handle, ghosts, At, Compacting
<1>26. QED BY <1>1, <1>2, <1>3, <1>4, <1>5, <1>6, <1>7, <1>8, <1>9, <1>10, <1>11, <1>12,
       <1>13, <1>14, <1>15, <1>16, <1>17, <1>18, <1>19, <1>20, <1>21, <1>22, <1>23, <1>24, <1>25
       DEF Next, Boot, Run, Ctl

\* Names of .bak files are never used by two processes.
LEMMA ClockStep == ASSUME PcOK, ClockOK, BakOK, OpenOK, [Next]_vars PROVE ClockOK'
<1> USE DEF PcOK, ClockOK, OpenOK, Proc, Step, ServerStep, CtlStep, Legacy
<1>1. ASSUME NEW p \in Proc, CompactBegin(p) PROVE ClockOK'
  <2>1. At(p, "compact") /\ UNCHANGED <<bak, made, holder>>
    BY <1>1 DEF CompactBegin, files
  <2>2. CASE now' = now + 1 /\ ts' = [ts EXCEPT ![p] = now'] /\ Go(p, "move")
    <3>1. /\ now' \in Nat /\ ts' \in [Proc -> 0 .. now'] /\ made \subseteq 1 .. now'
          /\ ts'[p] \notin made /\ ts'[p] > 0 /\ \A q \in Proc : ts[q] # ts'[p]
      BY <2>2, Later
    <3>2. CASE p = "server" BY <2>1, <2>2, <3>1, <3>2 DEF Go, At
    <3>3. CASE p = "ctl" BY <2>1, <2>2, <3>1, <3>3 DEF Go, At
    <3>4. QED BY <3>2, <3>3
  <2>3. CASE now' = now /\ ts' = ts /\ Go(p, Finished(p))
    BY <2>1, <2>3 DEF Go, At, Finished
  <2>4. QED BY <1>1, <2>2, <2>3 DEF CompactBegin
<1>2. ASSUME NEW p \in Proc, CompactMove(p) PROVE ClockOK'
  <2>1. UNCHANGED <<ts, now>> /\ At(p, "move")
    BY <1>2 DEF CompactMove
  <2>5. ts[p] \in 0 .. now /\ ts[p] > 0
    BY <2>1 DEF At
  <2>6. ts[p] \in 1 .. now
    BY <2>5, Later
  <2>2. CASE DOMAIN bak' = DOMAIN bak \cup {ts[p]} /\ holder' = Held(db, ts[p])
             /\ made' = made \cup {ts[p]} /\ Go(p, "swap")
    <3>1. holder' \in [Item -> made' \cup {0}]
      BY <2>2 DEF Held
    <3>2. ASSUME NEW q \in Proc, pc'[q] = "move" PROVE ts[q] \notin made'
      <4>1. q # p /\ pc[q] = "move" /\ pc[p] = "move"
        BY <2>1, <2>2, <3>2 DEF Go, At
      <4>2. QED BY <4>1 DEF Compacting
    <3>3. ASSUME NEW q \in Proc, pc'[q] \in {"move", "swap"} PROVE ts[q] > 0
      BY <2>1, <2>2, <2>5, <3>3 DEF Go, At
    <3>4. QED BY <2>1, <2>2, <2>6, <3>1, <3>2, <3>3 DEF At
  <2>3. CASE UNCHANGED <<bak, holder, made>> /\ Go(p, Finished(p))
    BY <2>1, <2>3 DEF Go, At, Finished
  <2>4. QED BY <1>2, <2>2, <2>3 DEF CompactMove
<1>3. ASSUME NEW p \in Proc, CompactSwap(p) PROVE ClockOK'
  BY <1>3 DEF CompactSwap, Replace, Locked, Go, At, Finished
<1>4. ASSUME NEW c \in BOOLEAN, Start(c) PROVE ClockOK'
  <2>1. /\ UNCHANGED <<now, made, bak, holder>> /\ ts' = [ts EXCEPT !["server"] = 0]
        /\ pc["ctl"]' = pc["ctl"] /\ ts'["ctl"] = ts["ctl"] /\ ts'["server"] = 0
        /\ pc["server"]' \in {"compact", "backup"}
    BY <1>4 DEF Start, files, Go
  <2>2. 0 \in 0 .. now
    BY Later
  <2>4. ts' \in [Proc -> 0 .. now]
    BY <2>1, <2>2
  <2>3. QED BY <2>1, <2>4 DEF At
<1>5. CASE BackupRead
  <2>1. At("server", "backup") /\ pc["ctl"]' = pc["ctl"] /\ pc["server"]' \in {"copy", "open"}
    BY <1>5 DEF BackupRead, Go, At
  <2>2. CASE UNCHANGED <<bak, ts, now, made, holder>>
    BY <2>1, <2>2 DEF At
  <2>3. ASSUME NEW t \in {now, now + 1}, t = now + 1 \/ (t = ts["server"] /\ t > 0),
               now' = t, ts' = [ts EXCEPT !["server"] = t], DOMAIN bak' = DOMAIN bak \cup {t},
               made' = made \cup {t}, holder' = Overwritten(t)
        PROVE  ClockOK'
    <3>1. /\ now' \in Nat /\ ts' \in [Proc -> 0 .. now'] /\ made' \subseteq 1 .. now'
          /\ t # ts["ctl"] /\ t > 0
      <4>1. CASE t = now + 1
        <5>1. /\ now + 1 \in Nat /\ [ts EXCEPT !["server"] = now + 1] \in [Proc -> 0 .. now + 1]
              /\ made \cup {now + 1} \subseteq 1 .. now + 1 /\ ts["ctl"] # now + 1 /\ now + 1 > 0
          BY Later
        <5>2. QED BY <2>3, <4>1, <5>1
      <4>2. CASE t = now /\ t = ts["server"] /\ t > 0
        <5>1. ts' = ts BY <2>3, <4>2
        <5>2. t \in 1 .. now BY <4>2, SameSecond
        <5>3. made \cup {t} \subseteq 1 .. now BY <5>2
        <5>4. ts["ctl"] # t BY <4>2, SameSecond
        <5>5. QED BY <2>3, <4>2, <5>1, <5>3, <5>4
      <4>3. QED BY <2>3, <4>1, <4>2
    <3>2. holder' \in [Item -> made' \cup {0}]
      BY <2>3 DEF Overwritten
    <3>3. /\ ts'["ctl"] = ts["ctl"] /\ ts'["server"] = t /\ DOMAIN bak' \subseteq made'
      BY <2>3
    <3>4. pc["ctl"] = "move" => ts["ctl"] \notin made'
      BY <2>3, <3>1 DEF At
    <3>5. QED BY <2>1, <3>1, <3>2, <3>3, <3>4 DEF At
  <2>4. QED BY <1>5, <2>2, <2>3 DEF BackupRead
<1>6. CASE BackupWrite
  <2>1. /\ UNCHANGED <<ts, now, made>> /\ DOMAIN bak' = DOMAIN bak
        /\ holder' = holder \/ holder' = Held(tmp["server"], ts["server"])
        /\ pc["ctl"]' = pc["ctl"] /\ pc["server"]' \in {"rotate", "open"}
        /\ At("server", "copy")
    BY <1>6 DEF BackupWrite, Go, At
  <2>2. holder' \in [Item -> made \cup {0}]
    BY <2>1 DEF Held, BakOK
  <2>3. QED BY <2>1, <2>2 DEF At
<1>7. CASE Rotate
  BY <1>7 DEF Rotate, handle, ghosts, Go, At, rotateBackups
<1>8. CASE Open
  BY <1>8 DEF Open, ghosts, Go, At
<1>9. CASE MigrateLoad
  BY <1>9 DEF MigrateLoad, files, handle, Go, At, NextFile
<1>10. CASE \E f \in Legacy : MigrateWrite(f)
  <2>1. /\ UNCHANGED <<ts, now, made>>
        /\ pc'["ctl"] = pc["ctl"] /\ pc'["server"] \notin {"move", "swap"}
    BY <1>10, Transaction DEF NoCommit
  <2>2. DOMAIN bak' = DOMAIN bak
    BY <1>10, Transaction, CommitFacts DEF NoCommit
  <2>5. NoCommit \/ \E items \in SUBSET Item : Commit(items)
    BY <1>10, Transaction
  <2>3. holder' \in [Item -> made \cup {0}]
    BY <2>5, CommitFacts DEF NoCommit, Held
  <2>4. QED BY <2>1, <2>2, <2>3 DEF At
<1>11. ASSUME NEW f \in Legacy, MigrateRename(f) PROVE ClockOK'
  BY <1>11 DEF MigrateRename, handle, Go, At, NextFile
<1>12. CASE LoadTenant
  <2>1. /\ UNCHANGED <<ts, now, made>>
        /\ pc'["ctl"] = pc["ctl"] /\ pc'["server"] \notin {"move", "swap"}
    BY <1>12, Transaction DEF NoCommit
  <2>2. DOMAIN bak' = DOMAIN bak
    BY <1>12, Transaction, CommitFacts DEF NoCommit
  <2>3. holder' \in [Item -> made \cup {0}]
    BY <1>12, Transaction, CommitFacts DEF NoCommit, Held
  <2>4. QED BY <2>1, <2>2, <2>3 DEF At
<1>13. CASE \E w \in Write : Save(w)
  <2>1. /\ UNCHANGED <<ts, now, made>>
        /\ pc'["ctl"] = pc["ctl"] /\ pc'["server"] \notin {"move", "swap"}
    BY <1>13, Transaction DEF NoCommit
  <2>2. DOMAIN bak' = DOMAIN bak
    BY <1>13, Transaction, CommitFacts DEF NoCommit
  <2>3. holder' \in [Item -> made \cup {0}]
    BY <1>13, Transaction, CommitFacts DEF NoCommit, Held
  <2>4. QED BY <2>1, <2>2, <2>3 DEF At
<1>14. ASSUME NEW k \in DOMAIN status, RunOnline(k) PROVE ClockOK'
  BY <1>14 DEF RunOnline, files, handle, At
<1>15. CASE SecondServer
  <2>1. UNCHANGED <<ts, pc>> /\ now' = now + 1 /\ made' = made \cup {now'}
    BY <1>15 DEF SecondServer
  <2>2. DOMAIN bak' \subseteq DOMAIN bak \cup {now'} /\ \E f : holder' = Held(f, now')
    BY <1>15, SecondFacts
  <2>3. /\ now' \in Nat /\ ts' \in [Proc -> 0 .. now'] /\ made' \subseteq 1 .. now'
        /\ \A q \in Proc : ts[q] # now'
    <3>1. /\ now + 1 \in Nat /\ ts \in [Proc -> 0 .. now + 1]
          /\ made \cup {now + 1} \subseteq 1 .. now + 1 /\ \A q \in Proc : ts[q] # now + 1
      BY Later
    <3>2. QED BY <2>1, <3>1
  <2>4. holder' \in [Item -> made' \cup {0}]
    BY <2>1, <2>2 DEF Held
  <2>5. QED BY <2>1, <2>2, <2>3, <2>4 DEF At
<1>16. CASE Crash
  BY <1>16 DEF Crash, files, Go, At
<1>17. CASE CompactCmd
  BY <1>17 DEF CompactCmd, files, handle, Go, At
<1>18. ASSUME NEW k \in DOMAIN copies, BackupCmd(k) PROVE ClockOK'
  BY <1>18 DEF BackupCmd, Rewrite, handle, Go, At
<1>19. CASE RekeyCmd
  BY <1>19 DEF RekeyCmd, Rewrite, handle, Go, At
<1>20. ASSUME NEW k \in DOMAIN copies, Written(k) PROVE ClockOK'
  BY <1>20 DEF Written, handle, ghosts, Go, At
<1>21. CASE RestoreCmd
  BY <1>21 DEF RestoreCmd, handle, Go, At
<1>22. CASE RestoreKeyCmd
  BY <1>22 DEF RestoreKeyCmd, files, handle, Go, At
<1>23. CASE Restored
  BY <1>23 DEF Restored, handle, Go, At
<1>24. CASE Interrupt
  BY <1>24 DEF Interrupt, handle, Go, At
<1>25. CASE UNCHANGED vars
  BY <1>25 DEF vars, files, handle, ghosts, At
<1>26. QED BY <1>1, <1>2, <1>3, <1>4, <1>5, <1>6, <1>7, <1>8, <1>9, <1>10, <1>11, <1>12,
       <1>13, <1>14, <1>15, <1>16, <1>17, <1>18, <1>19, <1>20, <1>21, <1>22, <1>23, <1>24, <1>25
       DEF Next, Boot, Run, Ctl

\* The types of the files beside the database, and of the ghosts.
LEMMA FileStep == ASSUME PcOK, FileOK, BakOK, [Next]_vars PROVE FileOK'
<1> USE DEF FileOK, BakOK, Proc, Legacy, Kind
<1>1. ASSUME NEW p \in Proc, CompactBegin(p) PROVE FileOK'
  BY <1>1, Specials DEF CompactBegin, files, handle, Compact
<1>2. ASSUME NEW p \in Proc, CompactMove(p) PROVE FileOK'
  <2>1. /\ UNCHANGED <<copies, legacy, status, ever, torn, cut>>
        /\ tmp' = tmp \/ tmp' = [tmp EXCEPT ![p] = Missing]
    BY <1>2 DEF CompactMove
  <2>2. QED BY <2>1, Specials
<1>3. ASSUME NEW p \in Proc, CompactSwap(p) PROVE FileOK'
  BY <1>3, Specials DEF CompactSwap, Replace, Locked
<1>4. ASSUME NEW c \in BOOLEAN, Start(c) PROVE FileOK'
  BY <1>4, Specials DEF Start, files, handle
<1>5. CASE BackupRead
  BY <1>5, Specials DEF BackupRead, handle
<1>6. CASE BackupWrite
  BY <1>6, Specials DEF BackupWrite, handle
<1>7. CASE Rotate
  BY <1>7, Specials DEF Rotate, handle, ghosts
<1>8. CASE Open
  BY <1>8, Specials DEF Open, ghosts
<1>9. CASE MigrateLoad
  BY <1>9, Specials DEF MigrateLoad, files, handle
<1>10. CASE \E f \in Legacy : MigrateWrite(f)
  <2>1. UNCHANGED <<copies, tmp, status, torn, legacy>>
    BY <1>10, Transaction
  <2>5. NoCommit \/ \E items \in SUBSET Item : Commit(items)
    BY <1>10, Transaction
  <2>2. ever' \subseteq Item
    BY <2>5, CommitFacts DEF NoCommit
  <2>3. cut' \in BOOLEAN
    BY <1>10 DEF MigrateWrite
  <2>4. QED BY <2>1, <2>2, <2>3
<1>11. ASSUME NEW f \in Legacy, MigrateRename(f) PROVE FileOK'
  <2>1. legacy' = legacy \/ legacy' = [legacy EXCEPT ![f].named = FALSE]
    BY <1>11 DEF MigrateRename
  <2>2. PICK r \in [body : Body, named : BOOLEAN] : r = [legacy[f] EXCEPT !.named = FALSE]
    OBVIOUS
  <2>5. legacy' = legacy \/ legacy' = [legacy EXCEPT ![f] = r]
    BY <2>1, <2>2
  <2>3. UNCHANGED <<copies, tmp, status, torn, ever>> /\ cut' \in BOOLEAN
    BY <1>11 DEF MigrateRename
  <2>4. QED BY <2>3, <2>5
<1>12. CASE LoadTenant
  <2>1. UNCHANGED <<copies, tmp, status, torn, legacy>>
    BY <1>12, Transaction
  <2>2. ever' \subseteq Item
    BY <1>12, Transaction, CommitFacts DEF NoCommit
  <2>3. cut' \in BOOLEAN
    BY <1>12 DEF LoadTenant
  <2>4. QED BY <2>1, <2>2, <2>3
<1>13. CASE \E w \in Write : Save(w)
  <2>1. UNCHANGED <<copies, tmp, status, torn, legacy>>
    BY <1>13, Transaction
  <2>2. ever' \subseteq Item
    BY <1>13, Transaction, CommitFacts DEF NoCommit
  <2>3. cut' \in BOOLEAN
    BY <1>13 DEF Save
  <2>4. QED BY <2>1, <2>2, <2>3
<1>14. ASSUME NEW k \in DOMAIN status, RunOnline(k) PROVE FileOK'
  BY <1>14, Specials DEF RunOnline, files, handle
<1>15. CASE SecondServer
  BY <1>15, Specials DEF SecondServer, handle
<1>16. CASE Crash
  BY <1>16, Specials DEF Crash, files
<1>17. CASE CompactCmd
  BY <1>17, Specials DEF CompactCmd, files, handle
<1>18. ASSUME NEW k \in DOMAIN copies, BackupCmd(k) PROVE FileOK'
  BY <1>18, Specials DEF BackupCmd, Rewrite, handle, Compact
<1>19. CASE RekeyCmd
  BY <1>19, Specials DEF RekeyCmd, Rewrite, handle
<1>20. ASSUME NEW k \in DOMAIN copies, Written(k) PROVE FileOK'
  BY <1>20, Specials DEF Written, handle, ghosts
<1>21. CASE RestoreCmd
  BY <1>21, Specials DEF RestoreCmd, handle
<1>22. CASE RestoreKeyCmd
  BY <1>22, Specials DEF RestoreKeyCmd, files, handle
<1>23. CASE Restored
  BY <1>23, Specials DEF Restored, handle
<1>24. CASE Interrupt
  <2>1. PICK a \in PartialCopy("plain"), b \in PartialCopy("key") :
          copies' = [copies EXCEPT !["plain"] = a, !["key"] = b]
    BY <1>24 DEF Interrupt
  <2>2. a \in File /\ b \in File
    BY <2>1, Specials DEF PartialCopy
  <2>3. /\ UNCHANGED <<legacy, status, ever, cut>> /\ torn' \in BOOLEAN
        /\ tmp' = [tmp EXCEPT !["ctl"] = Missing]
    BY <1>24 DEF Interrupt, At
  <2>4. QED BY <2>1, <2>2, <2>3, Specials
<1>25. CASE UNCHANGED vars
  BY <1>25, Specials DEF vars, files, handle, ghosts
<1>26. QED BY <1>1, <1>2, <1>3, <1>4, <1>5, <1>6, <1>7, <1>8, <1>9, <1>10, <1>11, <1>12,
       <1>13, <1>14, <1>15, <1>16, <1>17, <1>18, <1>19, <1>20, <1>21, <1>22, <1>23, <1>24, <1>25
       DEF Next, Boot, Run, Ctl

\* A transaction makes no whole file a damaged one, and touches none but the open one.
LEMMA CommitKeeps ==
  ASSUME BakOK, OpenOK, NoCommit \/ \E items \in SUBSET Item : Commit(items)
  PROVE  /\ (Whole(db) => Whole(db')) /\ db' \in File /\ (Damaged(db') => Damaged(db))
         /\ db' = db \/ Readable(db')
         /\ DOMAIN bak' = DOMAIN bak
         /\ \A t \in DOMAIN bak : bak'[t] = bak[t] \/ Whole(bak'[t])
         /\ open = "bak" => Whole(bak'[openAt])
         /\ open = "gone" => Whole(gone')
         /\ gone' = gone \/ Whole(gone')
<1>1. CASE NoCommit
  BY <1>1 DEF NoCommit, OpenOK, BakOK
<1>2. ASSUME NEW items \in SUBSET Item, Commit(items)
      PROVE  /\ (Whole(db) => Whole(db')) /\ db' \in File /\ (Damaged(db') => Damaged(db))
             /\ db' = db \/ Readable(db')
             /\ DOMAIN bak' = DOMAIN bak
             /\ \A t \in DOMAIN bak : bak'[t] = bak[t] \/ Whole(bak'[t])
             /\ open = "bak" => Whole(bak'[openAt])
             /\ open = "gone" => Whole(gone')
             /\ gone' = gone \/ Whole(gone')
  BY <1>2, PutFacts DEF Commit, OpenOK, BakOK, InBak
<1>3. QED BY <1>1, <1>2

\* The database and the .bak files stay whole.
LEMMA BakStep == ASSUME PcOK, ClockOK, FileOK, BakOK, OpenOK, CopyOK, [Next]_vars PROVE BakOK'
<1> USE DEF BakOK, Proc, Legacy
<1>0. /\ pc \in [Proc -> Step] /\ tmp \in [Proc -> File] /\ ts \in [Proc -> 0 .. now] /\ torn \in BOOLEAN
  BY DEF PcOK, FileOK, ClockOK
<1>1. ASSUME NEW p \in Proc, CompactBegin(p) PROVE BakOK'
  BY <1>1, <1>0 DEF CompactBegin, files, handle, Go, At, Finished, Compact, Locked
<1>2. ASSUME NEW p \in Proc, CompactMove(p) PROVE BakOK'
  <2>1. /\ At(p, "move") /\ Whole(db) /\ Whole(tmp[p]) /\ ts[p] \notin DOMAIN bak
        /\ UNCHANGED <<ts, torn>>
        /\ \A q \in Proc : q # p => pc[q] \notin {"move", "swap"}
        /\ ~At("ctl", "restore")
    BY <1>2 DEF CompactMove, At, PcOK, ClockOK, Compacting
  <2>2. CASE /\ bak' = [t \in DOMAIN bak \cup {ts[p]} |-> IF t = ts[p] THEN db ELSE bak[t]]
             /\ db' = Missing /\ tmp' = tmp /\ Go(p, "swap")
    <3>1. /\ pc'[p] = "swap" /\ \A q \in Proc : q # p => pc'[q] = pc[q]
      BY <2>2, <1>0 DEF Go
    <3>2. db' \in File /\ (db' = Blank \/ Damaged(db') => torn' \/ At("ctl", "restore")')
      BY <2>1, <2>2, <3>1, FileFacts
    <3>3. \A t \in DOMAIN bak' : bak'[t] \in File \ {Missing}
      BY <2>1, <2>2, FileFacts
    <3>4. bak'[ts[p]] = db
      BY <2>2
    <3>5. ~Damaged(db')
      BY <2>2, FileFacts
    <3>6. QED BY <2>1, <2>2, <3>1, <3>2, <3>3, <3>4, <3>5 DEF At
  <2>3. CASE /\ UNCHANGED <<db, bak>> /\ tmp' = [tmp EXCEPT ![p] = Missing] /\ Go(p, Finished(p))
    <3>1. /\ pc'[p] \in {"backup", "down"} /\ \A q \in Proc : q # p => pc'[q] = pc[q] /\ tmp'[q] = tmp[q]
      BY <2>3, <1>0 DEF Go, Finished
    <3>2. QED BY <2>1, <2>3, <3>1 DEF At
  <2>4. QED BY <1>2, <2>2, <2>3 DEF CompactMove
<1>3. ASSUME NEW p \in Proc, CompactSwap(p) PROVE BakOK'
  <2>1. /\ At(p, "swap") /\ Whole(tmp[p]) /\ UNCHANGED <<ts, torn>>
        /\ \A q \in Proc : q # p => pc[q] \notin {"move", "swap"}
        /\ ~At("ctl", "restore")
        /\ pc'[p] \in {"backup", "down"}
        /\ \A q \in Proc : q # p => pc'[q] = pc[q] /\ tmp'[q] = tmp[q]
    BY <1>3, <1>0 DEF CompactSwap, At, PcOK, Compacting, Go, Finished
  <2>2. /\ db' = db \/ Whole(db')
        /\ \A t \in DOMAIN bak' : t \in DOMAIN bak /\ bak'[t] = bak[t]
        /\ \A t \in DOMAIN bak : t # ts[p] => t \in DOMAIN bak'
    BY <1>3, <2>1 DEF CompactSwap, Replace
  <2>3. At("server", "copy")' => ts["server"] # ts[p]
    BY <2>1 DEF At, ClockOK
  <2>4. db' \in File /\ (db' = Blank \/ Damaged(db') => torn' \/ At("ctl", "restore")')
    BY <2>1, <2>2, FileFacts DEF At
  <2>5. QED BY <2>1, <2>2, <2>3, <2>4 DEF At
<1>4. ASSUME NEW c \in BOOLEAN, Start(c) PROVE BakOK'
  BY <1>4, <1>0 DEF Start, files, handle, Go, At
<1>5. CASE BackupRead
  <2>1. /\ At("server", "backup") /\ UNCHANGED <<db, torn>> /\ pc'["ctl"] = pc["ctl"]
        /\ pc'["server"] \in {"copy", "open"}
    BY <1>5, <1>0 DEF BackupRead, Go, At
  <2>2. CASE UNCHANGED <<bak, ts, tmp>> /\ pc'["server"] = "open"
    BY <2>1, <2>2 DEF At
  <2>3. CASE db # Missing /\ tmp' = [tmp EXCEPT !["server"] = db]
             /\ \E t \in {now, now + 1} :
                  /\ t = now + 1 \/ (t = ts["server"] /\ t > 0)
                  /\ ts' = [ts EXCEPT !["server"] = t]
                  /\ bak' = [u \in DOMAIN bak \cup {t} |-> IF u = t THEN Torn ELSE bak[u]]
    <3>1. PICK t \in {now, now + 1} :
            /\ t = now + 1 \/ (t = ts["server"] /\ t > 0)
            /\ ts' = [ts EXCEPT !["server"] = t]
            /\ bak' = [u \in DOMAIN bak \cup {t} |-> IF u = t THEN Torn ELSE bak[u]]
      BY <2>3
    <3>2. /\ tmp'["server"] = db /\ tmp'["ctl"] = tmp["ctl"] /\ ts'["ctl"] = ts["ctl"]
          /\ ts'["server"] = t /\ t \in DOMAIN bak' /\ bak'[t] = Torn
          /\ \A u \in DOMAIN bak' : u # t => u \in DOMAIN bak /\ bak'[u] = bak[u]
      BY <1>0, <2>3, <3>1
    <3>3. ts["ctl"] > 0 => t # ts["ctl"]
      <4>1. CASE t = now + 1 BY <4>1, Later DEF ClockOK
      <4>2. CASE t = ts["server"] /\ t > 0 BY <4>2 DEF ClockOK
      <4>3. QED BY <3>1, <4>1, <4>2
    <3>4. pc["ctl"] \in {"move", "swap"} => ts["ctl"] > 0
      BY DEF ClockOK
    <3>5. \A u \in DOMAIN bak' : bak'[u] \in File \ {Missing}
      BY <3>2, FileFacts
    <3>6. \A p \in Proc : pc'[p] \in {"move", "swap"} => p = "ctl"
      BY <2>1
    <3>7. QED BY <2>1, <2>3, <3>2, <3>3, <3>4, <3>5, <3>6 DEF At
  <2>4. QED BY <1>5, <2>1, <2>2, <2>3, <1>0 DEF BackupRead, Go
<1>6. CASE BackupWrite
  <2>1. /\ At("server", "copy") /\ UNCHANGED <<db, torn, ts>> /\ pc'["ctl"] = pc["ctl"]
        /\ pc'["server"] \in {"rotate", "open"} /\ tmp'["ctl"] = tmp["ctl"]
        /\ bak' = bak \/ bak' = [bak EXCEPT ![ts["server"]] = tmp["server"]]
    BY <1>6, <1>0 DEF BackupWrite, Go, At
  <2>2. pc["ctl"] \in {"move", "swap"} => ts["ctl"] # ts["server"]
    BY <2>1 DEF ClockOK
  <2>3. \A t \in DOMAIN bak' : bak'[t] \in File \ {Missing}
    BY <1>0, <2>1
  <2>4. \A t \in DOMAIN bak' : t # ts["server"] => bak'[t] = bak[t]
    BY <2>1
  <2>5. QED BY <2>1, <2>2, <2>3, <2>4 DEF At
<1>7. CASE Rotate
  <2>1. /\ At("server", "rotate") /\ UNCHANGED <<db, torn, ts, tmp>> /\ pc'["ctl"] = pc["ctl"]
        /\ pc'["server"] = "open" /\ bak' = rotateBackups(bak)
    BY <1>7, <1>0 DEF Rotate, ghosts, Go, At
  <2>2. \A t \in DOMAIN bak' : t \in DOMAIN bak /\ bak'[t] = bak[t]
    BY <2>1, RotateFacts
  <2>3. QED BY <2>1, <2>2 DEF At
<1>8. CASE Open
  <2>1. /\ At("server", "open") /\ UNCHANGED <<bak, torn, ts, tmp>> /\ pc'["ctl"] = pc["ctl"]
        /\ pc'["server"] \in {"migrate", "tenant", "down"}
        /\ db' = db \/ db' = Opened(db)
    BY <1>8, <1>0 DEF Open, ghosts, Go, At
  <2>2. /\ Opened(db) \in File /\ Readable(Opened(db))
        /\ (Damaged(Opened(db)) => Damaged(db)) /\ (Whole(db) => Whole(Opened(db)))
    <3>1. /\ Opened(db) \in File /\ Readable(Opened(db)) /\ (Damaged(Opened(db)) <=> Damaged(db))
          /\ Whole(db) => Opened(db) = db
      BY OpenedFacts
    <3>2. QED BY <3>1
  <2>3. (Whole(db) => Whole(db')) /\ db' \in File /\ (db' = Blank \/ Damaged(db') => torn' \/ At("ctl", "restore")')
    BY <2>1, <2>2 DEF At, Readable
  <2>4. Damaged(db') => Damaged(db)
    BY <2>1, <2>2
  <2>5. QED BY <2>1, <2>3, <2>4 DEF At
<1>9. CASE MigrateLoad
  BY <1>9, <1>0 DEF MigrateLoad, files, handle, Go, At, NextFile
<1>10. CASE \E f \in Legacy : MigrateWrite(f)
  <2>1. /\ UNCHANGED <<torn, ts, tmp>> /\ pc'["ctl"] = pc["ctl"]
        /\ pc'["server"] \notin {"move", "swap", "copy"}
        /\ NoCommit \/ \E items \in SUBSET Item : Commit(items)
    BY <1>10, Transaction
  <2>2. (Whole(db) => Whole(db')) /\ DOMAIN bak' = DOMAIN bak
        /\ db' \in File /\ (Damaged(db') => Damaged(db)) /\ (db' = db \/ Readable(db'))
        /\ \A t \in DOMAIN bak : bak'[t] = bak[t] \/ Whole(bak'[t])
    BY <2>1, CommitKeeps
  <2>3. db' \in File /\ (db' = Blank \/ Damaged(db') => torn' \/ At("ctl", "restore")')
    BY <2>1, <2>2, FileFacts DEF At, Readable
  <2>4. \A t \in DOMAIN bak' : bak'[t] \in File \ {Missing}
    BY <2>2, FileFacts
  <2>5. QED BY <2>1, <2>2, <2>3, <2>4 DEF At
<1>11. ASSUME NEW f \in Legacy, MigrateRename(f) PROVE BakOK'
  BY <1>11, <1>0 DEF MigrateRename, handle, Go, At, NextFile
<1>12. CASE LoadTenant
  <2>1. /\ UNCHANGED <<torn, ts, tmp>> /\ pc'["ctl"] = pc["ctl"]
        /\ pc'["server"] \notin {"move", "swap", "copy"}
        /\ NoCommit \/ \E items \in SUBSET Item : Commit(items)
    BY <1>12, Transaction
  <2>2. (Whole(db) => Whole(db')) /\ DOMAIN bak' = DOMAIN bak
        /\ db' \in File /\ (Damaged(db') => Damaged(db)) /\ (db' = db \/ Readable(db'))
        /\ \A t \in DOMAIN bak : bak'[t] = bak[t] \/ Whole(bak'[t])
    BY <2>1, CommitKeeps
  <2>3. db' \in File /\ (db' = Blank \/ Damaged(db') => torn' \/ At("ctl", "restore")')
    BY <2>1, <2>2, FileFacts DEF At, Readable
  <2>4. \A t \in DOMAIN bak' : bak'[t] \in File \ {Missing}
    BY <2>2, FileFacts
  <2>5. QED BY <2>1, <2>2, <2>3, <2>4 DEF At
<1>13. CASE \E w \in Write : Save(w)
  <2>1. /\ UNCHANGED <<torn, ts, tmp>> /\ pc'["ctl"] = pc["ctl"]
        /\ pc'["server"] \notin {"move", "swap", "copy"}
        /\ NoCommit \/ \E items \in SUBSET Item : Commit(items)
    BY <1>13, Transaction
  <2>2. (Whole(db) => Whole(db')) /\ DOMAIN bak' = DOMAIN bak
        /\ db' \in File /\ (Damaged(db') => Damaged(db)) /\ (db' = db \/ Readable(db'))
        /\ \A t \in DOMAIN bak : bak'[t] = bak[t] \/ Whole(bak'[t])
    BY <2>1, CommitKeeps
  <2>3. db' \in File /\ (db' = Blank \/ Damaged(db') => torn' \/ At("ctl", "restore")')
    BY <2>1, <2>2, FileFacts DEF At, Readable
  <2>4. \A t \in DOMAIN bak' : bak'[t] \in File \ {Missing}
    BY <2>2, FileFacts
  <2>5. QED BY <2>1, <2>2, <2>3, <2>4 DEF At
<1>14. ASSUME NEW k \in DOMAIN status, RunOnline(k) PROVE BakOK'
  BY <1>14, <1>0 DEF RunOnline, files, handle, At
<1>15. CASE SecondServer
  <2>1. UNCHANGED <<db, torn, ts, tmp, pc>> /\ now' = now + 1 /\ open = "db" /\ At("server", "up")
    BY <1>15 DEF SecondServer, Locked
  <2>2. PICK f \in {db, Torn} : \A t \in DOMAIN bak' :
          (t = now' /\ bak'[t] = f) \/ (t \in DOMAIN bak /\ bak'[t] = bak[t])
    BY <1>15, SecondFacts
  <2>3. db \in File \ {Missing} /\ Torn \in File \ {Missing}
    BY <2>1, FileFacts DEF OpenOK, Readable
  <2>4. \A p \in Proc : ts[p] # now'
    BY <2>1, Later DEF ClockOK
  <2>5. QED BY <2>1, <2>2, <2>3, <2>4 DEF At
<1>16. CASE Crash
  BY <1>16, <1>0 DEF Crash, files, Go, At
<1>17. CASE CompactCmd
  BY <1>17, <1>0 DEF CompactCmd, files, handle, Go, At
<1>18. ASSUME NEW k \in DOMAIN copies, BackupCmd(k) PROVE BakOK'
  BY <1>18, <1>0 DEF BackupCmd, Rewrite, handle, Go, At
<1>19. CASE RekeyCmd
  BY <1>19, <1>0 DEF RekeyCmd, Rewrite, handle, Go, At
<1>20. ASSUME NEW k \in DOMAIN copies, Written(k) PROVE BakOK'
  BY <1>20, <1>0 DEF Written, handle, ghosts, Go, At
<1>21. CASE RestoreCmd
  <2>1. /\ At("ctl", "down") /\ At("server", "down") /\ UNCHANGED <<bak, torn, ts>> /\ db' = Blank
        /\ pc'["ctl"] = "restore" /\ pc'["server"] = pc["server"]
    BY <1>21, <1>0 DEF RestoreCmd, Go, At
  <2>2. QED BY <2>1, FileFacts DEF At
<1>22. CASE RestoreKeyCmd
  BY <1>22, <1>0 DEF RestoreKeyCmd, files, handle, Go, At
<1>23. CASE Restored
  <2>1. /\ db' = tmp["ctl"] /\ UNCHANGED <<bak, ts>>
        /\ torn' = IF Whole(db') THEN torn /\ Damaged(copies["key"]) ELSE torn \/ At("ctl", "restore")
        /\ pc["ctl"] \in {"restore", "replace"}
        /\ pc'["ctl"] = "down" /\ pc'["server"] = pc["server"] /\ pc["server"] = "down"
    BY <1>23, <1>0 DEF Restored, Go, At, PcOK
  <2>2. db' \in File
    BY <1>0, <2>1
  <2>3. Damaged(db') \/ db' = Blank => torn'
    BY <2>1, <2>2, FileFacts DEF At, Readable, CopyOK
  <2>4. QED BY <2>1, <2>2, <2>3 DEF At
<1>24. CASE Interrupt
  <2>1. /\ db' \in Partial(pc["ctl"]) /\ torn' = (torn \/ At("ctl", "restore"))
        /\ UNCHANGED <<bak, ts>> /\ tmp'["server"] = tmp["server"]
        /\ pc'["ctl"] = "down" /\ pc'["server"] = pc["server"]
        /\ At("ctl", "restore") => At("server", "down")
    BY <1>24, <1>0 DEF Interrupt, Go, At, PcOK
  <2>2. QED BY <1>0, <2>1, FileFacts DEF At, Partial
<1>25. CASE UNCHANGED vars
  BY <1>25, <1>0 DEF vars, files, handle, ghosts, At
<1>26. QED BY <1>1, <1>2, <1>3, <1>4, <1>5, <1>6, <1>7, <1>8, <1>9, <1>10, <1>11, <1>12,
       <1>13, <1>14, <1>15, <1>16, <1>17, <1>18, <1>19, <1>20, <1>21, <1>22, <1>23, <1>24, <1>25
       DEF Next, Boot, Run, Ctl

\* A copy with a key is made of what is at dbPath, and is read as it was written.
LEMMA CopyStep ==
  ASSUME PcOK, ClockOK, FileOK, BakOK, OpenOK, CopyOK, [Next]_vars PROVE CopyOK'
<1> USE DEF CopyOK, Proc, Legacy
<1>0. /\ pc \in [Proc -> Step] /\ tmp \in [Proc -> File] /\ copies \in [{"plain", "key"} -> File]
  BY DEF PcOK, FileOK
<1>1. ASSUME UNCHANGED <<copies, torn>>, tmp'["ctl"] = tmp["ctl"], pc'["ctl"] = pc["ctl"]
      PROVE  CopyOK'
  BY <1>1
<1>2. ASSUME UNCHANGED <<copies, torn>>, pc'["ctl"] \notin {"save key", "rekey", "replace"}
      PROVE  CopyOK'
  BY <1>2
<1>3. ASSUME NEW p \in Proc, CompactBegin(p) \/ CompactMove(p) \/ CompactSwap(p) PROVE CopyOK'
  <2>1. UNCHANGED <<copies, torn>>
    BY <1>3 DEF CompactBegin, CompactMove, CompactSwap, files
  <2>2. CASE p = "server"
    <3>1. pc'["ctl"] = pc["ctl"] /\ tmp'["ctl"] = tmp["ctl"]
      BY <1>3, <1>0, <2>2 DEF CompactBegin, CompactMove, CompactSwap, Go
    <3>2. QED BY <1>1, <2>1, <3>1
  <2>3. CASE p = "ctl"
    <3>1. pc'["ctl"] \in {"move", "swap", "down"}
      BY <1>3, <1>0, <2>3 DEF CompactBegin, CompactMove, CompactSwap, Go, Finished
    <3>2. QED BY <1>2, <2>1, <3>1
  <2>4. QED BY <2>2, <2>3
<1>4. ASSUME Boot \/ Run PROVE CopyOK'
  <2>1. ASSUME (\E f \in Legacy : MigrateWrite(f)) \/ LoadTenant \/ \E w \in Write : Save(w)
        PROVE  CopyOK'
    <3>1. UNCHANGED <<copies, torn, tmp>> /\ pc'["ctl"] = pc["ctl"]
      BY <2>1, Transaction
    <3>2. QED BY <1>1, <3>1
  <2>2. ASSUME (\E c \in BOOLEAN : Start(c)) \/ BackupRead \/ BackupWrite \/ Rotate \/ Open
        PROVE  UNCHANGED <<copies, torn>> /\ tmp'["ctl"] = tmp["ctl"] /\ pc'["ctl"] = pc["ctl"]
    BY <2>2, <1>0 DEF Start, BackupRead, BackupWrite, Rotate, Open, files, ghosts, Go
  <2>3. ASSUME \/ MigrateLoad \/ \E f \in Legacy : MigrateRename(f)
               \/ \E k \in DOMAIN status : RunOnline(k)
               \/ SecondServer \/ Crash
        PROVE  UNCHANGED <<copies, torn>> /\ tmp'["ctl"] = tmp["ctl"] /\ pc'["ctl"] = pc["ctl"]
    BY <2>3, <1>0 DEF MigrateLoad, MigrateRename, RunOnline, SecondServer, Crash, files, Go
  <2>4. QED BY <1>1, <1>4, <2>1, <2>2, <2>3 DEF Boot, Run
<1>5. CASE CompactCmd \/ RestoreCmd
  <2>1. UNCHANGED <<copies, torn>> /\ pc'["ctl"] \in {"compact", "restore"}
    BY <1>5, <1>0 DEF CompactCmd, RestoreCmd, files, Go
  <2>2. QED BY <1>2, <2>1
<1>6. CASE RestoreKeyCmd
  <2>1. UNCHANGED <<copies, torn>> /\ Readable(copies["key"]) /\ tmp'["ctl"] = copies["key"]
    BY <1>6, <1>0 DEF RestoreKeyCmd, files
  <2>2. QED BY <2>1
<1>7. ASSUME NEW k \in DOMAIN copies, BackupCmd(k) PROVE CopyOK'
  <2>1. /\ Readable(db) /\ (Damaged(db) => torn) /\ tmp'["ctl"] = db /\ torn' = torn
        /\ copies' = [copies EXCEPT ![k] = Blank]
    BY <1>7, <1>0 DEF BackupCmd, Rewrite, BakOK, At
  <2>2. copies'["key"] = copies["key"] \/ copies'["key"] = Blank
    BY <2>1, <1>0
  <2>3. QED BY <2>1, <2>2, FileFacts
<1>8. CASE RekeyCmd
  <2>1. Readable(copies["key"]) /\ tmp'["ctl"] = copies["key"] /\ torn' = torn /\ copies'["key"] = Blank
    BY <1>8, <1>0 DEF RekeyCmd, Rewrite
  <2>2. QED BY <2>1, FileFacts
<1>9. ASSUME NEW k \in DOMAIN copies, Written(k) PROVE CopyOK'
  <2>1. /\ copies' = [copies EXCEPT ![k] = tmp["ctl"]] /\ torn' = torn /\ pc'["ctl"] = "down"
        /\ k = "plain" \/ pc["ctl"] \in {"save key", "rekey"}
    BY <1>9, <1>0 DEF Written, ghosts, Go
  <2>2. copies'["key"] = copies["key"]
        \/ (copies'["key"] = tmp["ctl"] /\ pc["ctl"] \in {"save key", "rekey"})
    BY <2>1, <1>0
  <2>3. QED BY <2>1, <2>2
<1>10. CASE Restored
  <2>1. /\ copies' = copies /\ pc'["ctl"] = "down"
        /\ torn' = IF Whole(db') THEN torn /\ Damaged(copies["key"]) ELSE torn \/ At("ctl", "restore")
    BY <1>10, <1>0 DEF Restored, Go
  <2>2. QED BY <2>1
<1>11. CASE Interrupt
  <2>1. /\ torn' = (torn \/ At("ctl", "restore")) /\ pc'["ctl"] = "down"
        /\ copies'["key"] = copies["key"] \/ copies'["key"] = Blank
    BY <1>11, <1>0 DEF Interrupt, PartialCopy, Go
  <2>2. QED BY <2>1, FileFacts
<1>12. CASE UNCHANGED vars
  BY <1>12 DEF vars, files, ghosts
<1>13. QED BY <1>3, <1>4, <1>5, <1>6, <1>7, <1>8, <1>9, <1>10, <1>11, <1>12 DEF Next, Ctl

\* The file that the server has open stays whole.
LEMMA OpenStep == ASSUME PcOK, ClockOK, FileOK, BakOK, OpenOK, [Next]_vars PROVE OpenOK'
<1> USE DEF OpenOK, Proc, Legacy
<1>0. /\ pc \in [Proc -> Step] /\ now \in Nat
  BY DEF PcOK, ClockOK
<1>1. ASSUME NEW p \in Proc, CompactBegin(p) PROVE OpenOK'
  BY <1>1, <1>0 DEF CompactBegin, files, handle, Go, At, Finished
<1>2. ASSUME NEW p \in Proc, CompactMove(p) PROVE OpenOK'
  <2>1. /\ At(p, "move") /\ Whole(db) /\ ts[p] \notin DOMAIN bak /\ ts[p] \in Nat /\ gone' = gone
        /\ \/ pc'["server"] = pc["server"]
           \/ p = "server" /\ pc'["server"] \in {"swap", "backup"}
    BY <1>2, <1>0 DEF CompactMove, At, ClockOK, BakOK, Go, Finished
  <2>2. CASE UNCHANGED <<bak, db, open, openAt>>
    BY <2>1, <2>2 DEF At
  <2>3. CASE /\ bak' = [t \in DOMAIN bak \cup {ts[p]} |-> IF t = ts[p] THEN db ELSE bak[t]]
             /\ IF open = "db" THEN open' = "bak" /\ openAt' = ts[p] ELSE UNCHANGED <<open, openAt>>
    BY <2>1, <2>3 DEF At
  <2>4. QED BY <1>2, <2>2, <2>3 DEF CompactMove, Locked
<1>3. ASSUME NEW p \in Proc, CompactSwap(p) PROVE OpenOK'
  <2>1. /\ At(p, "swap") /\ Whole(tmp[p]) /\ openAt' = openAt
        /\ \/ pc'["server"] = pc["server"]
           \/ p = "server" /\ pc["server"] = "swap" /\ pc'["server"] = "backup"
    BY <1>3, <1>0 DEF CompactSwap, At, BakOK, Go, Finished
  <2>2. CASE Replace(tmp[p], open) /\ bak' = bak
    <3>1. open = "db" => Whole(db)
      BY <2>1, FileFacts DEF BakOK
    <3>2. Readable(tmp[p])
      BY <2>1, FileFacts
    <3>3. /\ db' = tmp[p] /\ IF open = "db" THEN open' = "gone" /\ gone' = db
                            ELSE open' = open /\ gone' = gone
      BY <2>2 DEF Replace, Locked
    <3>4. gone' \in File
      BY <3>1, <3>3, FileFacts
    <3>5. QED BY <2>1, <2>2, <3>1, <3>2, <3>3, <3>4
  <2>3. CASE /\ Replace(bak[ts[p]], IF InBak(ts[p]) THEN "db" ELSE open)
             /\ ts[p] \in DOMAIN bak /\ bak' = [t \in DOMAIN bak \ {ts[p]} |-> bak[t]]
    <3>1. /\ Whole(bak[ts[p]]) /\ db' = bak[ts[p]]
          /\ IF open = "db" THEN open' = "gone" /\ gone' = db
             ELSE open' = (IF InBak(ts[p]) THEN "db" ELSE open) /\ gone' = gone
      BY <2>1, <2>3 DEF Replace, Locked, BakOK
    <3>2. (open = "db" => Whole(db)) /\ Readable(bak[ts[p]])
      BY <2>1, <3>1, FileFacts DEF BakOK
    <3>3. gone' \in File
      BY <3>1, <3>2, FileFacts
    <3>4. QED BY <2>1, <2>3, <3>1, <3>2, <3>3 DEF InBak
  <2>4. CASE UNCHANGED <<db, bak, open, gone>>
    BY <2>1, <2>4
  <2>5. QED BY <1>3, <2>2, <2>3, <2>4 DEF CompactSwap
<1>4. ASSUME NEW c \in BOOLEAN, Start(c) PROVE OpenOK'
  BY <1>4, <1>0 DEF Start, files, handle, Go, At
<1>5. CASE BackupRead
  BY <1>5, <1>0 DEF BackupRead, handle, Go, At
<1>6. CASE BackupWrite
  BY <1>6, <1>0 DEF BackupWrite, handle, Go, At
<1>7. CASE Rotate
  BY <1>7, <1>0 DEF Rotate, handle, ghosts, Go, At
<1>8. CASE Open
  <2>1. UNCHANGED <<bak, openAt, gone>> /\ At("server", "open") /\ open = "none"
    BY <1>8 DEF Open, At
  <2>2. CASE open' = "db" /\ Readable(db') /\ pc'["server"] \in {"tenant", "migrate"}
    BY <2>1, <2>2
  <2>3. CASE UNCHANGED <<db, open>> /\ pc'["server"] = "down"
    BY <2>1, <2>3
  <2>4. Readable(Opened(db))
    BY OpenedFacts DEF BakOK
  <2>5. QED BY <1>8, <2>2, <2>3, <2>4, OpenEffect
<1>9. CASE MigrateLoad
  BY <1>9, <1>0 DEF MigrateLoad, files, handle, Go, At, NextFile
<1>10. CASE \E f \in Legacy : MigrateWrite(f)
  <2>1. /\ NoCommit \/ \E items \in SUBSET Item : Commit(items)
        /\ UNCHANGED openAt /\ pc["server"] \notin Quiet
        /\ \/ open' = open /\ pc'["server"] \in {"blocks done", "routes done", "tenant", "up"}
           \/ open' = "none" /\ pc'["server"] = "down"
    BY <1>10, Transaction
  <2>2. QED BY <2>1, CommitKeeps, FileFacts DEF Quiet
<1>11. ASSUME NEW f \in Legacy, MigrateRename(f) PROVE OpenOK'
  BY <1>11, <1>0 DEF MigrateRename, handle, Go, At, NextFile
<1>12. CASE LoadTenant
  <2>1. /\ NoCommit \/ \E items \in SUBSET Item : Commit(items)
        /\ UNCHANGED openAt /\ pc["server"] \notin Quiet
        /\ \/ open' = open /\ pc'["server"] \in {"blocks done", "routes done", "tenant", "up"}
           \/ open' = "none" /\ pc'["server"] = "down"
    BY <1>12, Transaction
  <2>2. QED BY <2>1, CommitKeeps, FileFacts DEF Quiet
<1>13. CASE \E w \in Write : Save(w)
  <2>1. /\ NoCommit \/ \E items \in SUBSET Item : Commit(items)
        /\ UNCHANGED openAt /\ pc["server"] \notin Quiet
        /\ \/ open' = open /\ pc'["server"] \in {"blocks done", "routes done", "tenant", "up"}
           \/ open' = "none" /\ pc'["server"] = "down"
    BY <1>13, Transaction
  <2>2. QED BY <2>1, CommitKeeps, FileFacts DEF Quiet
<1>14. ASSUME NEW k \in DOMAIN status, RunOnline(k) PROVE OpenOK'
  BY <1>14, <1>0 DEF RunOnline, files, handle, At
<1>15. CASE SecondServer
  <2>1. UNCHANGED <<db, openAt, gone, open, pc>> /\ open = "db"
    BY <1>15 DEF SecondServer, handle, Locked
  <2>2. QED BY <2>1
<1>16. CASE Crash
  <2>1. open' = "none" /\ openAt' = 0 /\ gone' = Missing /\ pc'["server"] = "down"
    BY <1>16, <1>0 DEF Crash, Go
  <2>2. QED BY <2>1, FileFacts
<1>17. CASE CompactCmd
  BY <1>17, <1>0 DEF CompactCmd, files, handle, Go, At
<1>18. ASSUME NEW k \in DOMAIN copies, BackupCmd(k) PROVE OpenOK'
  BY <1>18, <1>0 DEF BackupCmd, Rewrite, handle, Go, At
<1>19. CASE RekeyCmd
  BY <1>19, <1>0 DEF RekeyCmd, Rewrite, handle, Go, At
<1>20. ASSUME NEW k \in DOMAIN copies, Written(k) PROVE OpenOK'
  BY <1>20, <1>0 DEF Written, handle, ghosts, Go, At
<1>21. CASE RestoreCmd
  BY <1>21, <1>0 DEF RestoreCmd, handle, Go, At
<1>22. CASE RestoreKeyCmd
  BY <1>22, <1>0 DEF RestoreKeyCmd, files, handle, Go, At
<1>23. CASE Restored
  <2>1. /\ UNCHANGED <<bak, open, openAt, gone>> /\ pc'["server"] = pc["server"]
        /\ pc["server"] = "down"
    BY <1>23, <1>0 DEF Restored, handle, Go, At, PcOK
  <2>2. QED BY <2>1
<1>24. CASE Interrupt
  <2>1. /\ UNCHANGED <<bak, open, openAt, gone>> /\ pc'["server"] = pc["server"]
        /\ db' = db \/ pc["server"] = "down"
    BY <1>24, <1>0 DEF Interrupt, handle, Partial, Go, At, PcOK
  <2>2. QED BY <2>1
<1>25. CASE UNCHANGED vars
  BY <1>25, <1>0 DEF vars, files, handle, ghosts, At
<1>26. QED BY <1>1, <1>2, <1>3, <1>4, <1>5, <1>6, <1>7, <1>8, <1>9, <1>10, <1>11, <1>12,
       <1>13, <1>14, <1>15, <1>16, <1>17, <1>18, <1>19, <1>20, <1>21, <1>22, <1>23, <1>24, <1>25
       DEF Next, Boot, Run, Ctl

\* Every data directory of a scenario is sound at first.
LEMMA InitSound == ASSUME Init PROVE Sound
<1>1. PICK s \in Scenarios : /\ db = s.db /\ ever = Items(s.db) /\ cut = HasData(s.db)
                             /\ legacy = [f \in Legacy |-> [body |-> s.legacy[f], named |-> TRUE]]
  BY DEF Init
<1>2. s.db \in (SUBSET Item) \cup {Missing} /\ s.legacy \in [Legacy -> Body]
  BY StorageAssumption DEF StorageAssumption
<1>3. db \in File /\ db # Blank /\ ~Damaged(db) /\ ever \subseteq Item /\ cut \in BOOLEAN
  BY <1>1, <1>2, FileFacts DEF File, Items, HasData, Whole
<1>4. legacy \in [Legacy -> [body : Body, named : BOOLEAN]]
  BY <1>1, <1>2
<1>5. PcOK
  BY DEF Init, PcOK, Proc, Step, ServerStep, CtlStep, Compacting, At
<1>6. ClockOK
  BY DEF Init, ClockOK, Proc, At
<1>7. FileOK
  BY <1>3, <1>4, FileFacts DEF Init, FileOK
<1>8. BakOK
  BY <1>3, FileFacts DEF Init, BakOK, Proc, At
<1>9. OpenOK
  BY FileFacts DEF Init, OpenOK, Proc
<1>10. CopyOK
  BY FileFacts DEF Init, CopyOK, Proc
<1>11. QED BY <1>5, <1>6, <1>7, <1>8, <1>9, <1>10 DEF Sound

\* The six parts that are about the soundness of files are inductive together.
LEMMA SoundStep == ASSUME Sound, [Next]_vars PROVE Sound'
BY PcStep, ClockStep, FileStep, BakStep, OpenStep, CopyStep DEF Sound

\* They say all that DatabaseIsWhole says.
LEMMA SoundImplies == ASSUME Sound PROVE DatabaseIsWhole
<1>1. DOMAIN bak \subseteq 1 .. now
  BY DEF Sound, ClockOK
<1>2. TypeOK
  BY <1>1 DEF Sound, TypeOK, PcOK, ClockOK, FileOK, BakOK, OpenOK
<1>3. TornOnlyByPlainRestore
  BY DEF TornOnlyByPlainRestore, Sound, BakOK, CopyOK
<1>4. QED BY <1>2, <1>3 DEF DatabaseIsWhole

\* The control of the processes, the clock and every file are sound in every state.
THEOREM SoundAlways == Spec => []Sound
<1>1. Init => Sound BY InitSound
<1>2. Sound /\ [Next]_vars => Sound' BY SoundStep
<1>3. QED BY <1>1, <1>2, PTL DEF Spec

\* The file at dbPath, also while a server has it open, and what an encrypted copy holds
\* are damaged only through a restore without a key that was cut, or was given a damaged
\* file: neither a compaction, nor the startup backup, nor the migration, nor a backup or a
\* restore with a key damages them, wherever they are cut, although Open takes a damaged
\* file.
THEOREM DatabaseIsWholeAlways == Spec => []DatabaseIsWhole
<1>1. Sound => DatabaseIsWhole BY SoundImplies
<1>2. QED BY <1>1, SoundAlways, PTL

-----------------------------------------------------------------------------
(* What the files hold was committed. *)

\* No file holds what was never committed.
LEMMA HonestStep == ASSUME PcOK, ClockOK, FileOK, BakOK, OpenOK, Honest, [Next]_vars PROVE Honest'
<1> USE DEF Honest, Proc
<1>0. /\ copies \in [{"plain", "key"} -> File] /\ tmp \in [Proc -> File] /\ ts \in [Proc -> 0 .. now]
      /\ holder \in [Item -> made \cup {0}] /\ db \in File /\ ever \subseteq Item
  BY DEF FileOK, ClockOK, BakOK
<1>1. ASSUME NEW p \in Proc, CompactBegin(p) PROVE Honest'
  BY <1>1, <1>0, FileFacts DEF CompactBegin, files, handle, Compact, Locked
<1>2. ASSUME NEW p \in Proc, CompactMove(p) PROVE Honest'
  BY <1>2, <1>0, FileFacts DEF CompactMove, Held
<1>3. ASSUME NEW p \in Proc, CompactSwap(p) PROVE Honest'
  BY <1>3, <1>0, FileFacts DEF CompactSwap, Replace, Locked
<1>4. ASSUME NEW c \in BOOLEAN, Start(c) PROVE Honest'
  BY <1>4, <1>0, FileFacts DEF Start, files, handle
<1>5. CASE BackupRead
  BY <1>5, <1>0, FileFacts DEF BackupRead, handle, Overwritten
<1>6. CASE BackupWrite
  BY <1>6, <1>0, FileFacts DEF BackupWrite, handle, Held
<1>7. CASE Rotate
  <2>1. bak' = rotateBackups(bak) /\ UNCHANGED <<db, gone, ever, base, tmp, copies, holder>>
    BY <1>7 DEF Rotate, handle, ghosts
  <2>2. QED BY <2>1, RotateFacts
<1>8. CASE Open
  <2>1. UNCHANGED <<bak, gone, ever, base, tmp, copies, holder>> /\ Items(db') = Items(db)
    BY <1>8, <1>0, OpenedFacts DEF Open, ghosts
  <2>2. QED BY <2>1
<1>9. CASE MigrateLoad
  BY <1>9, <1>0, FileFacts DEF MigrateLoad, files, handle
<1>10. CASE \E f \in Legacy : MigrateWrite(f)
  <2>1. /\ NoCommit \/ \E items \in SUBSET Item : Commit(items)
        /\ UNCHANGED <<copies, tmp, base>>
    BY <1>10, Transaction
  <2>2. ASSUME NEW items \in SUBSET Item, Commit(items) PROVE Honest'
    <3>1. /\ ever' = ever \cup items /\ Items(items) = items
          /\ Items(db') \subseteq Items(db) \cup items
          /\ Items(gone') \subseteq Items(gone) \cup items
      BY <2>2, PutFacts, FileFacts DEF Commit, Whole
    <3>2. /\ DOMAIN bak' = DOMAIN bak
          /\ \A t \in DOMAIN bak : Items(bak'[t]) \subseteq Items(bak[t]) \cup items
      BY <2>2, CommitFacts, PutFacts
    <3>3. \A i \in Item : holder'[i] > 0 => holder[i] > 0 \/ i \in items
      BY <2>2, <3>1, <1>0, CommitFacts DEF Held
    <3>4. QED BY <2>1, <3>1, <3>2, <3>3
  <2>3. CASE NoCommit
    BY <2>1, <2>3 DEF NoCommit
  <2>4. QED BY <2>1, <2>2, <2>3
<1>11. ASSUME NEW f \in Legacy, MigrateRename(f) PROVE Honest'
  BY <1>11, <1>0, FileFacts DEF MigrateRename, handle
<1>12. CASE LoadTenant
  <2>1. /\ NoCommit \/ \E items \in SUBSET Item : Commit(items)
        /\ UNCHANGED <<copies, tmp, base>>
    BY <1>12, Transaction
  <2>2. ASSUME NEW items \in SUBSET Item, Commit(items) PROVE Honest'
    <3>1. /\ ever' = ever \cup items /\ Items(items) = items
          /\ Items(db') \subseteq Items(db) \cup items
          /\ Items(gone') \subseteq Items(gone) \cup items
      BY <2>2, PutFacts, FileFacts DEF Commit, Whole
    <3>2. /\ DOMAIN bak' = DOMAIN bak
          /\ \A t \in DOMAIN bak : Items(bak'[t]) \subseteq Items(bak[t]) \cup items
      BY <2>2, CommitFacts, PutFacts
    <3>3. \A i \in Item : holder'[i] > 0 => holder[i] > 0 \/ i \in items
      BY <2>2, <3>1, <1>0, CommitFacts DEF Held
    <3>4. QED BY <2>1, <3>1, <3>2, <3>3
  <2>3. CASE NoCommit
    BY <2>1, <2>3 DEF NoCommit
  <2>4. QED BY <2>1, <2>2, <2>3
<1>13. CASE \E w \in Write : Save(w)
  <2>1. /\ NoCommit \/ \E items \in SUBSET Item : Commit(items)
        /\ UNCHANGED <<copies, tmp, base>>
    BY <1>13, Transaction
  <2>2. ASSUME NEW items \in SUBSET Item, Commit(items) PROVE Honest'
    <3>1. /\ ever' = ever \cup items /\ Items(items) = items
          /\ Items(db') \subseteq Items(db) \cup items
          /\ Items(gone') \subseteq Items(gone) \cup items
      BY <2>2, PutFacts, FileFacts DEF Commit, Whole
    <3>2. /\ DOMAIN bak' = DOMAIN bak
          /\ \A t \in DOMAIN bak : Items(bak'[t]) \subseteq Items(bak[t]) \cup items
      BY <2>2, CommitFacts, PutFacts
    <3>3. \A i \in Item : holder'[i] > 0 => holder[i] > 0 \/ i \in items
      BY <2>2, <3>1, <1>0, CommitFacts DEF Held
    <3>4. QED BY <2>1, <3>1, <3>2, <3>3
  <2>3. CASE NoCommit
    BY <2>1, <2>3 DEF NoCommit
  <2>4. QED BY <2>1, <2>2, <2>3
<1>14. ASSUME NEW k \in DOMAIN status, RunOnline(k) PROVE Honest'
  BY <1>14, <1>0, FileFacts DEF RunOnline, files, handle
<1>15. CASE SecondServer
  <2>1. UNCHANGED <<db, gone, ever, base, tmp, copies>>
    BY <1>15 DEF SecondServer, handle
  <2>2. PICK f \in {db, Torn} :
          /\ holder' = Held(f, now')
          /\ \A t \in DOMAIN bak' :
               (t = now' /\ bak'[t] = f) \/ (t \in DOMAIN bak /\ bak'[t] = bak[t])
    BY <1>15, SecondFacts
  <2>3. Items(f) \subseteq ever
    BY <2>2, FileFacts
  <2>4. \A i \in Item : holder'[i] > 0 => i \in ever
    BY <1>0, <2>2, <2>3 DEF Held
  <2>5. QED BY <2>1, <2>2, <2>3, <2>4
<1>16. CASE Crash
  BY <1>16, <1>0, FileFacts DEF Crash, files
<1>17. CASE CompactCmd
  BY <1>17, <1>0, FileFacts DEF CompactCmd, files, handle
<1>18. ASSUME NEW k \in DOMAIN copies, BackupCmd(k) PROVE Honest'
  BY <1>18, <1>0, FileFacts DEF BackupCmd, Rewrite, handle, Compact
<1>19. CASE RekeyCmd
  BY <1>19, <1>0, FileFacts DEF RekeyCmd, Rewrite, handle
<1>20. ASSUME NEW k \in DOMAIN copies, Written(k) PROVE Honest'
  BY <1>20, <1>0, FileFacts DEF Written, handle, ghosts
<1>21. CASE RestoreCmd
  BY <1>21, <1>0, FileFacts DEF RestoreCmd, handle
<1>22. CASE RestoreKeyCmd
  BY <1>22, <1>0, FileFacts DEF RestoreKeyCmd, files, handle
<1>23. CASE Restored
  BY <1>23, <1>0, FileFacts DEF Restored, handle
<1>24. CASE Interrupt
  <2>1. UNCHANGED <<bak, gone, ever, base, holder>> /\ tmp' = [tmp EXCEPT !["ctl"] = Missing]
    BY <1>24 DEF Interrupt, handle
  <2>2. Items(db') \subseteq ever
    BY <1>24, FileFacts DEF Interrupt, Partial
  <2>3. PICK a \in PartialCopy("plain"), b \in PartialCopy("key") :
          copies' = [copies EXCEPT !["plain"] = a, !["key"] = b]
    BY <1>24 DEF Interrupt
  <2>4. Items(a) \subseteq ever /\ Items(b) \subseteq ever
    BY <2>3, FileFacts DEF PartialCopy
  <2>5. QED BY <1>0, <2>1, <2>2, <2>3, <2>4, FileFacts
<1>25. CASE UNCHANGED vars
  BY <1>25, <1>0, FileFacts DEF vars, files, handle, ghosts
<1>26. QED BY <1>1, <1>2, <1>3, <1>4, <1>5, <1>6, <1>7, <1>8, <1>9, <1>10, <1>11, <1>12,
       <1>13, <1>14, <1>15, <1>16, <1>17, <1>18, <1>19, <1>20, <1>21, <1>22, <1>23, <1>24, <1>25
       DEF Next, Boot, Run, Ctl

-----------------------------------------------------------------------------
(* What the database lacks is accounted for. *)

\* The startup backup leaves the file that another process is about to use.
LEMMA BackupReadFacts ==
  ASSUME PcOK, ClockOK, BackupRead
  PROVE  /\ ts'["ctl"] = ts["ctl"]
         /\ ts["ctl"] > 0 /\ ts["ctl"] \in DOMAIN bak' =>
              ts["ctl"] \in DOMAIN bak /\ bak'[ts["ctl"]] = bak[ts["ctl"]]
<1>1. CASE UNCHANGED <<bak, ts>>
  BY <1>1
<1>2. ASSUME NEW t \in {now, now + 1}, t = now + 1 \/ (t = ts["server"] /\ t > 0),
             ts' = [ts EXCEPT !["server"] = t],
             bak' = [u \in DOMAIN bak \cup {t} |-> IF u = t THEN Torn ELSE bak[u]]
      PROVE  /\ ts'["ctl"] = ts["ctl"]
             /\ ts["ctl"] > 0 /\ ts["ctl"] \in DOMAIN bak' =>
                  ts["ctl"] \in DOMAIN bak /\ bak'[ts["ctl"]] = bak[ts["ctl"]]
  <2>1. ts["ctl"] > 0 => t # ts["ctl"]
    <3>1. CASE t = now + 1 BY <3>1, Later DEF ClockOK, Proc
    <3>2. CASE t = ts["server"] /\ t > 0 BY <3>2 DEF ClockOK
    <3>3. QED BY <1>2, <3>1, <3>2
  <2>2. ts'["ctl"] = ts["ctl"]
    BY <1>2 DEF ClockOK, Proc
  <2>3. QED BY <1>2, <2>1, <2>2
<1>3. QED BY <1>1, <1>2 DEF BackupRead

\* A transaction takes nothing from the database or from a .bak file that it does not give up.
LEMMA CommitLoses ==
  ASSUME OpenOK, NEW items \in SUBSET Item, Commit(items), open # "none"
  PROVE  /\ ever' = ever \cup items /\ dropped \subseteq dropped' /\ stray \subseteq stray'
         /\ aside \subseteq aside' /\ db \subseteq db' \cup dropped'
         /\ items \subseteq db' \cup aside'
         /\ open = "db" => items \subseteq db'
         /\ open = "gone" => items \subseteq stray'
         /\ DOMAIN bak' = DOMAIN bak
         /\ \A t \in DOMAIN bak : bak[t] \subseteq bak'[t] \cup dropped'
         /\ open = "bak" => items \subseteq bak'[openAt]
<1>1. CASE open = "db"
  BY <1>1 DEF Commit, OpenFile, Put, InBak
<1>2. CASE open = "gone"
  BY <1>2 DEF Commit, OpenFile, Put, InBak
<1>3. CASE open = "bak"
  BY <1>3 DEF Commit, OpenFile, Put, InBak, OpenOK
<1>4. QED BY <1>1, <1>2, <1>3 DEF OpenOK

\* A transaction that the database does not get is put aside.
LEMMA KeptTransaction ==
  ASSUME PcOK, ClockOK, FileOK, BakOK, OpenOK, Honest, Kept,
         (\E f \in Legacy : MigrateWrite(f)) \/ LoadTenant \/ (\E w \in Write : Save(w))
  PROVE  Kept'
<1>1. /\ NoCommit \/ \E items \in SUBSET Item : Commit(items)
      /\ UNCHANGED <<tmp, base, ts>> /\ pc'["ctl"] = pc["ctl"]
      /\ pc'["server"] \notin {"move", "swap"} /\ pc["server"] \notin Quiet
  BY Transaction
<1>2. open # "none" /\ pc["ctl"] # "restore"
  BY <1>1 DEF Quiet, OpenOK, PcOK, At
<1>3. ASSUME NEW items \in SUBSET Item, Commit(items) PROVE Kept'
  <2>1. /\ ever' = ever \cup items /\ dropped \subseteq dropped' /\ stray \subseteq stray'
        /\ aside \subseteq aside' /\ db \subseteq db' \cup dropped'
        /\ items \subseteq db' \cup aside' /\ DOMAIN bak' = DOMAIN bak
        /\ \A t \in DOMAIN bak : bak[t] \subseteq bak'[t] \cup dropped'
    BY <1>2, <1>3, CommitLoses
  <2>2. ever' \ (dropped' \cup stray' \cup aside') \subseteq db'
    BY <2>1 DEF Kept
  <2>3. ASSUME NEW p \in Proc, pc'[p] = "move"
        PROVE  base \subseteq tmp[p] /\ base \subseteq db' \cup dropped'
    <3>1. pc[p] = "move"
      BY <1>1, <2>3 DEF Proc
    <3>2. QED BY <2>1, <3>1 DEF Kept, At
  <2>4. ASSUME NEW p \in Proc, pc'[p] = "swap"
        PROVE  base \subseteq tmp[p] /\ (ts[p] \in DOMAIN bak' => base \subseteq bak'[ts[p]] \cup dropped')
    <3>1. pc[p] = "swap"
      BY <1>1, <2>4 DEF Proc
    <3>2. QED BY <2>1, <3>1 DEF Kept, At
  <2>5. QED BY <1>1, <1>2, <2>2, <2>3, <2>4 DEF Kept, At
<1>4. CASE NoCommit
  BY <1>1, <1>4 DEF NoCommit, Kept, At, Proc
<1>5. QED BY <1>1, <1>3, <1>4

\* What the database lacks was put aside, given up, or lost its name.
LEMMA KeptStep == ASSUME PcOK, ClockOK, FileOK, BakOK, OpenOK, Honest, Kept, [Next]_vars PROVE Kept'
<1> USE DEF Kept, Proc
<1>0. /\ pc \in [Proc -> Step] /\ tmp \in [Proc -> File] /\ ts \in [Proc -> 0 .. now]
      /\ db \in File /\ ever \subseteq Item
      /\ \A p, q \in Proc : pc[p] \in {"move", "swap"} /\ p # q => ~Compacting(q)
      /\ pc["ctl"] \in {"restore", "replace"} => pc["server"] = "down"
  BY DEF PcOK, FileOK, ClockOK, BakOK, Compacting, At, Proc
<1>1. ASSUME NEW p \in Proc, CompactBegin(p) PROVE Kept'
  <2>1. /\ At(p, "compact") /\ UNCHANGED <<db, bak, ever, dropped, aside, stray>>
        /\ \A q \in Proc : q # p => pc'[q] = pc[q] /\ tmp'[q] = tmp[q] /\ ts'[q] = ts[q]
    BY <1>1, <1>0 DEF CompactBegin, files, At, Go
  <2>2. pc'[p] = "move" => base' = db /\ tmp'[p] = db
    BY <1>1, <1>0, FileFacts DEF CompactBegin, Compact, Go, Finished
  <2>3. pc'[p] # "swap" /\ pc'[p] # "restore" /\ (pc'[p] # "move" => base' = base)
    BY <1>1, <1>0 DEF CompactBegin, Go, Finished
  <2>4. \A q \in Proc : q # p => pc[q] \notin {"move", "swap"}
    BY <2>1, <1>0 DEF Compacting, At
  <2>5. QED BY <2>1, <2>2, <2>3, <2>4 DEF At
<1>2. ASSUME NEW p \in Proc, CompactMove(p) PROVE Kept'
  <2>1. /\ At(p, "move") /\ UNCHANGED <<ts, base, ever, dropped, stray>>
        /\ \A q \in Proc : q # p => pc'[q] = pc[q] /\ pc[q] \notin {"move", "swap"}
    BY <1>2, <1>0 DEF CompactMove, At, Go, Compacting
  <2>2. CASE /\ bak' = [t \in DOMAIN bak \cup {ts[p]} |-> IF t = ts[p] THEN db ELSE bak[t]]
             /\ tmp' = tmp /\ aside' = aside \cup Items(db) /\ Go(p, "swap")
    <3>1. bak'[ts[p]] = db /\ pc'[p] = "swap"
      BY <1>0, <2>2 DEF Go
    <3>2. ever \ (dropped \cup stray \cup aside') = {}
      BY <1>0, <2>2 DEF Items
    <3>3. QED BY <2>1, <2>2, <3>1, <3>2 DEF At
  <2>3. CASE UNCHANGED <<bak, db, aside>> /\ pc'[p] \in {"backup", "down"}
    BY <2>1, <2>3 DEF At
  <2>4. QED BY <1>2, <1>0, <2>2, <2>3 DEF CompactMove, Go, Finished
<1>3. ASSUME NEW p \in Proc, CompactSwap(p) PROVE Kept'
  <2>1. /\ At(p, "swap") /\ UNCHANGED <<ts, base, ever, dropped>>
        /\ pc'[p] \in {"backup", "down"}
        /\ \A q \in Proc : q # p => pc'[q] = pc[q] /\ pc[q] \notin {"move", "swap"}
    BY <1>3, <1>0 DEF CompactSwap, At, Go, Compacting, Finished
  <2>2. ASSUME NEW f, NEW n, Replace(f, n), base \subseteq f \cup dropped
        PROVE  ever \ (dropped \cup stray' \cup aside') \subseteq f
    BY <1>0, <2>2 DEF Replace, Items
  <2>3. ever \ (dropped \cup stray' \cup aside') \subseteq db'
    <3>1. CASE Replace(tmp[p], open)
      <4>1. base \subseteq tmp[p] \cup dropped /\ db' = tmp[p]
        BY <2>1, <3>1 DEF Replace
      <4>2. QED BY <2>2, <3>1, <4>1
    <3>2. CASE ts[p] \in DOMAIN bak /\ Replace(bak[ts[p]], IF InBak(ts[p]) THEN "db" ELSE open)
      <4>1. base \subseteq bak[ts[p]] \cup dropped /\ db' = bak[ts[p]]
        BY <2>1, <3>2 DEF Replace
      <4>2. QED BY <2>2, <3>2, <4>1
    <3>3. CASE UNCHANGED <<db, aside, stray>>
      BY <3>3
    <3>4. QED BY <1>3, <3>1, <3>2, <3>3 DEF CompactSwap
  <2>4. QED BY <2>1, <2>3 DEF At
<1>4. ASSUME NEW c \in BOOLEAN, Start(c) PROVE Kept'
  BY <1>4, <1>0 DEF Start, files, handle, Go, At
<1>5. CASE BackupRead
  <2>1. /\ UNCHANGED <<db, base, ever, dropped, stray, aside>> /\ pc'["ctl"] = pc["ctl"]
        /\ pc'["server"] \in {"copy", "open"} /\ tmp'["ctl"] = tmp["ctl"]
    BY <1>5, <1>0 DEF BackupRead, Go
  <2>2. /\ ts'["ctl"] = ts["ctl"]
        /\ ts["ctl"] > 0 /\ ts["ctl"] \in DOMAIN bak' =>
             ts["ctl"] \in DOMAIN bak /\ bak'[ts["ctl"]] = bak[ts["ctl"]]
    BY <1>5, <1>0, BackupReadFacts
  <2>3. pc["ctl"] \in {"move", "swap"} => ts["ctl"] > 0
    BY DEF ClockOK
  <2>4. QED BY <2>1, <2>2, <2>3 DEF At
<1>6. CASE BackupWrite
  <2>1. /\ UNCHANGED <<db, base, ever, dropped, stray, aside, ts>> /\ pc'["ctl"] = pc["ctl"]
        /\ pc'["server"] \in {"rotate", "open"} /\ tmp'["ctl"] = tmp["ctl"] /\ At("server", "copy")
        /\ bak' = bak \/ bak' = [bak EXCEPT ![ts["server"]] = tmp["server"]]
    BY <1>6, <1>0 DEF BackupWrite, Go
  <2>2. pc["ctl"] \in {"move", "swap"} => ts["ctl"] # ts["server"]
    BY DEF ClockOK
  <2>3. DOMAIN bak' = DOMAIN bak /\ \A t \in DOMAIN bak : t # ts["server"] => bak'[t] = bak[t]
    BY <2>1
  <2>4. QED BY <2>1, <2>2, <2>3 DEF At
<1>7. CASE Rotate
  <2>1. /\ UNCHANGED <<db, base, ever, dropped, stray, aside, ts, tmp>> /\ pc'["ctl"] = pc["ctl"]
        /\ pc'["server"] = "open" /\ bak' = rotateBackups(bak)
    BY <1>7, <1>0 DEF Rotate, Go, ghosts
  <2>2. \A t \in DOMAIN bak' : t \in DOMAIN bak /\ bak'[t] = bak[t]
    BY <2>1, RotateFacts
  <2>3. QED BY <2>1, <2>2 DEF At
<1>8. CASE Open
  <2>1. /\ UNCHANGED <<bak, base, ever, dropped, stray, aside, ts, tmp>> /\ pc'["ctl"] = pc["ctl"]
        /\ pc'["server"] \in {"tenant", "migrate", "down"} /\ pc["server"] = "open"
        /\ db' = db \/ db' = Opened(db)
    BY <1>8, <1>0 DEF Open, Go, At
  <2>2. Items(db') = Items(db) /\ (Whole(db) => db' = db)
    BY <2>1, <1>0, OpenedFacts
  <2>3. ever \ (dropped \cup stray \cup aside) \subseteq db'
    BY <2>2, <1>0 DEF Items
  <2>4. pc["ctl"] = "move" => db' = db
    BY <2>2 DEF BakOK, At
  <2>5. QED BY <2>1, <2>3, <2>4 DEF At
<1>9. CASE MigrateLoad
  BY <1>9, <1>0 DEF MigrateLoad, files, handle, Go, At, NextFile
<1>10. CASE \E f \in Legacy : MigrateWrite(f)
  BY <1>10, KeptTransaction
<1>11. ASSUME NEW f \in Legacy, MigrateRename(f) PROVE Kept'
  BY <1>11, <1>0 DEF MigrateRename, handle, Go, At, NextFile
<1>12. CASE LoadTenant
  BY <1>12, KeptTransaction
<1>13. CASE \E w \in Write : Save(w)
  BY <1>13, KeptTransaction
<1>14. ASSUME NEW k \in DOMAIN status, RunOnline(k) PROVE Kept'
  BY <1>14, <1>0 DEF RunOnline, files, handle, At
<1>15. CASE SecondServer
  <2>1. UNCHANGED <<db, base, ever, dropped, stray, aside, ts, tmp, pc>> /\ now' = now + 1
    BY <1>15 DEF SecondServer
  <2>2. \A t \in DOMAIN bak' : t = now' \/ (t \in DOMAIN bak /\ bak'[t] = bak[t])
    BY <1>15, SecondFacts
  <2>3. \A p \in Proc : ts[p] # now'
    BY <2>1, Later DEF ClockOK
  <2>4. QED BY <2>1, <2>2, <2>3 DEF At
<1>16. CASE Crash
  BY <1>16, <1>0 DEF Crash, files, Go, At
<1>17. CASE CompactCmd
  BY <1>17, <1>0 DEF CompactCmd, files, handle, Go, At
<1>18. ASSUME NEW k \in DOMAIN copies, BackupCmd(k) PROVE Kept'
  BY <1>18, <1>0 DEF BackupCmd, Rewrite, handle, Go, At
<1>19. CASE RekeyCmd
  BY <1>19, <1>0 DEF RekeyCmd, Rewrite, handle, Go, At
<1>20. ASSUME NEW k \in DOMAIN copies, Written(k) PROVE Kept'
  BY <1>20, <1>0 DEF Written, handle, ghosts, Go, At
<1>21. CASE RestoreCmd
  <2>1. dropped' = ever /\ ever' = ever /\ pc'["ctl"] = "restore" /\ pc'["server"] = "down"
    BY <1>21, <1>0 DEF RestoreCmd, Go, At
  <2>2. QED BY <2>1 DEF At
<1>22. CASE RestoreKeyCmd
  BY <1>22, <1>0 DEF RestoreKeyCmd, files, handle, Go, At
<1>23. CASE Restored
  <2>1. /\ dropped' = ever \ Items(db') /\ ever' = ever /\ pc'["ctl"] = "down"
        /\ pc'["server"] = "down"
    BY <1>23, <1>0 DEF Restored, Go, At
  <2>2. ever' \ (dropped' \cup stray' \cup aside') \subseteq db'
    BY <2>1 DEF Items
  <2>3. QED BY <2>1, <2>2 DEF At
<1>24. CASE Interrupt
  <2>1. /\ UNCHANGED <<bak, base, ever, dropped, stray, aside, ts>> /\ pc'["server"] = pc["server"]
        /\ pc'["ctl"] = "down" /\ tmp'["server"] = tmp["server"]
    BY <1>24, <1>0 DEF Interrupt, Go
  <2>2. db' = db \/ At("ctl", "restore")
    BY <1>24 DEF Interrupt, Partial, At
  <2>3. CASE db' = db
    BY <2>1, <2>3 DEF At
  <2>4. CASE At("ctl", "restore")
    BY <2>1, <2>4, <1>0 DEF At
  <2>5. QED BY <2>2, <2>3, <2>4
<1>25. CASE UNCHANGED vars
  BY <1>25, <1>0 DEF vars, files, handle, ghosts, At
<1>26. QED BY <1>1, <1>2, <1>3, <1>4, <1>5, <1>6, <1>7, <1>8, <1>9, <1>10, <1>11, <1>12,
       <1>13, <1>14, <1>15, <1>16, <1>17, <1>18, <1>19, <1>20, <1>21, <1>22, <1>23, <1>24, <1>25
       DEF Next, Boot, Run, Ctl

-----------------------------------------------------------------------------
(* What the database lacks is in the newest file that ever held it, until retention. *)

\* A step that leaves the database, the .bak files and what was committed alone.
Idle == UNCHANGED <<db, bak, ever, dropped, stray, holder, made>>

\* The steps that concern them.
LEMMA Frame ==
  ASSUME [Next]_vars
  PROVE  \/ Idle
         \/ \E p \in Proc : CompactMove(p) \/ CompactSwap(p)
         \/ BackupRead \/ BackupWrite \/ Rotate \/ Open \/ SecondServer
         \/ RestoreCmd \/ Restored \/ Interrupt
         \/ (\E f \in Legacy : MigrateWrite(f)) \/ LoadTenant \/ (\E w \in Write : Save(w))
<1> USE DEF Idle
<1>1. ASSUME NEW p \in Proc, CompactBegin(p) PROVE Idle
  BY <1>1 DEF CompactBegin, files
<1>2. ASSUME NEW c \in BOOLEAN, Start(c) PROVE Idle
  BY <1>2 DEF Start, files
<1>3. MigrateLoad => Idle
  BY DEF MigrateLoad, files
<1>4. ASSUME NEW f \in Legacy, MigrateRename(f) PROVE Idle
  BY <1>4 DEF MigrateRename
<1>5. ASSUME NEW k \in DOMAIN status, RunOnline(k) PROVE Idle
  BY <1>5 DEF RunOnline, files
<1>6. Crash \/ CompactCmd \/ RestoreKeyCmd => Idle
  BY DEF Crash, CompactCmd, RestoreKeyCmd, files
<1>7. ASSUME NEW k \in DOMAIN copies, BackupCmd(k) \/ Written(k)
      PROVE  Idle
  BY <1>7 DEF BackupCmd, Rewrite, Written, ghosts
<1>8. RekeyCmd => Idle
  BY DEF RekeyCmd, Rewrite
<1>9. UNCHANGED vars => Idle
  BY DEF vars, files, ghosts
<1>10. QED BY <1>1, <1>2, <1>3, <1>4, <1>5, <1>6, <1>7, <1>8, <1>9 DEF Next, Boot, Run, Ctl

\* Who is about to move the database began it, and keeps its second.
LEMMA MoveFrame ==
  ASSUME PcOK, ClockOK, [Next]_vars, NEW r \in Proc, pc'[r] = "move"
  PROVE  (pc[r] = "move" /\ ts'[r] = ts[r]) \/ CompactBegin(r)
<1> USE DEF Proc, Legacy
<1>0. /\ pc \in [Proc -> Step] /\ ts \in [Proc -> 0 .. now]
  BY DEF PcOK, ClockOK
<1>1. ASSUME NEW p \in Proc, CompactBegin(p)
      PROVE  (pc[r] = "move" /\ ts'[r] = ts[r]) \/ CompactBegin(r)
  BY <1>1, <1>0 DEF CompactBegin, files, handle, Go, At, Finished
<1>2. ASSUME NEW p \in Proc, CompactMove(p)
      PROVE  (pc[r] = "move" /\ ts'[r] = ts[r]) \/ CompactBegin(r)
  BY <1>2, <1>0 DEF CompactMove, Go, At, Finished
<1>3. ASSUME NEW p \in Proc, CompactSwap(p)
      PROVE  (pc[r] = "move" /\ ts'[r] = ts[r]) \/ CompactBegin(r)
  BY <1>3, <1>0 DEF CompactSwap, Replace, Locked, Go, At, Finished
<1>4. ASSUME NEW c \in BOOLEAN, Start(c)
      PROVE  (pc[r] = "move" /\ ts'[r] = ts[r]) \/ CompactBegin(r)
  BY <1>4, <1>0 DEF Start, files, handle, Go, At
<1>5. CASE BackupRead
  BY <1>5, <1>0 DEF BackupRead, handle, Go, At
<1>6. CASE BackupWrite
  BY <1>6, <1>0 DEF BackupWrite, handle, Go, At
<1>7. CASE Rotate
  BY <1>7, <1>0 DEF Rotate, handle, ghosts, Go, At
<1>8. CASE Open
  BY <1>8, <1>0 DEF Open, ghosts, Go, At
<1>9. CASE MigrateLoad
  BY <1>9, <1>0 DEF MigrateLoad, files, handle, Go, At, NextFile
<1>10. ASSUME NEW f \in Legacy, MigrateWrite(f)
       PROVE  (pc[r] = "move" /\ ts'[r] = ts[r]) \/ CompactBegin(r)
  BY <1>10, <1>0 DEF MigrateWrite, Commit, NoCommit, Go, At
<1>11. ASSUME NEW f \in Legacy, MigrateRename(f)
       PROVE  (pc[r] = "move" /\ ts'[r] = ts[r]) \/ CompactBegin(r)
  BY <1>11, <1>0 DEF MigrateRename, handle, Go, At, NextFile
<1>12. CASE LoadTenant
  BY <1>12, <1>0 DEF LoadTenant, Commit, NoCommit, Go, At
<1>13. ASSUME NEW w \in Write, Save(w)
       PROVE  (pc[r] = "move" /\ ts'[r] = ts[r]) \/ CompactBegin(r)
  BY <1>13, <1>0 DEF Save, Commit, At
<1>14. ASSUME NEW k \in DOMAIN status, RunOnline(k)
       PROVE  (pc[r] = "move" /\ ts'[r] = ts[r]) \/ CompactBegin(r)
  BY <1>14, <1>0 DEF RunOnline, files, handle, At
<1>15. CASE SecondServer
  BY <1>15, <1>0 DEF SecondServer, handle, At
<1>16. CASE Crash
  BY <1>16, <1>0 DEF Crash, files, Go, At
<1>17. CASE CompactCmd
  BY <1>17, <1>0 DEF CompactCmd, files, handle, Go, At
<1>18. ASSUME NEW k \in DOMAIN copies, BackupCmd(k)
       PROVE  (pc[r] = "move" /\ ts'[r] = ts[r]) \/ CompactBegin(r)
  BY <1>18, <1>0 DEF BackupCmd, Rewrite, handle, Go, At
<1>19. CASE RekeyCmd
  BY <1>19, <1>0 DEF RekeyCmd, Rewrite, handle, Go, At
<1>20. ASSUME NEW k \in DOMAIN copies, Written(k)
       PROVE  (pc[r] = "move" /\ ts'[r] = ts[r]) \/ CompactBegin(r)
  BY <1>20, <1>0 DEF Written, handle, ghosts, Go, At
<1>21. CASE RestoreCmd
  BY <1>21, <1>0 DEF RestoreCmd, handle, Go, At
<1>22. CASE RestoreKeyCmd
  BY <1>22, <1>0 DEF RestoreKeyCmd, files, handle, Go, At
<1>23. CASE Restored
  BY <1>23, <1>0 DEF Restored, handle, Go, At
<1>24. CASE Interrupt
  BY <1>24, <1>0 DEF Interrupt, handle, Go, At
<1>25. CASE UNCHANGED vars
  BY <1>25, <1>0 DEF vars, files, handle, ghosts, At
<1>26. QED BY <1>1, <1>2, <1>3, <1>4, <1>5, <1>6, <1>7, <1>8, <1>9, <1>10, <1>11, <1>12,
       <1>13, <1>14, <1>15, <1>16, <1>17, <1>18, <1>19, <1>20, <1>21, <1>22, <1>23, <1>24, <1>25
       DEF Next, Boot, Run, Ctl

\* Every .bak file has a time, and none has one that is still to come.
LEMMA Times ==
  ASSUME ClockOK
  PROVE  /\ \A t \in made : t \in Nat /\ t > 0 /\ t <= now
         /\ \A i \in Item : holder[i] \in Nat /\ holder[i] <= now
         /\ now + 1 \notin made /\ DOMAIN bak \subseteq made
<1>1. now \in Nat /\ made \subseteq 1 .. now /\ holder \in [Item -> made \cup {0}] /\ DOMAIN bak \subseteq made
  BY DEF ClockOK
<1>2. \A t \in made : t \in Nat /\ t > 0 /\ t <= now
  BY <1>1
<1>3. \A i \in Item : holder[i] \in made \/ holder[i] = 0
  BY <1>1
<1>4. ASSUME NEW i \in Item PROVE holder[i] \in Nat /\ holder[i] <= now
  <2>1. CASE holder[i] \in made BY <1>2, <2>1
  <2>2. CASE holder[i] = 0
    <3>1. PICK n \in Nat : n = now BY <1>1
    <3>2. 0 <= n OBVIOUS
    <3>3. QED BY <2>2, <3>1, <3>2
  <2>3. QED BY <1>3, <2>1, <2>2
<1>5. now + 1 \notin made
  <2>1. PICK n \in Nat : n = now
    BY <1>1
  <2>2. ~(n + 1 <= n)
    BY <2>1
  <2>3. QED BY <1>2, <2>1, <2>2
<1>6. QED BY <1>1, <1>2, <1>4, <1>5

\* More files were made since: no fewer of them are newer than h.
LEMMA NewerGrow ==
  ASSUME NEW n \in Nat, NEW m, NEW m2, m \subseteq m2, m2 \subseteq 1 .. n, NEW h
  PROVE  /\ Cardinality({t \in m : t > h}) \in Nat
         /\ Cardinality({t \in m2 : t > h}) \in Nat
         /\ Cardinality({t \in m : t > h}) <= Cardinality({t \in m2 : t > h})
<1>1. IsFiniteSet(1 .. n)
  BY FS_Interval
<1>2. {t \in m2 : t > h} \subseteq 1 .. n /\ {t \in m : t > h} \subseteq {t \in m2 : t > h}
  OBVIOUS
<1>3. IsFiniteSet({t \in m2 : t > h})
  BY <1>1, <1>2, FS_Subset
<1>4. QED BY <1>2, <1>3, FS_Subset, FS_CardinalityType

\* What retention has taken away stays so.
LEMMA RotatedStays ==
  ASSUME ClockOK', made \subseteq made', NEW i \in Item, holder'[i] = holder[i], Rotated(i)
  PROVE  Rotated(i)'
<1>1. PICK m, h : m = made' /\ h = holder[i]
  OBVIOUS
<1>2. PICK n \in Nat : n = now'
  BY DEF ClockOK
<1>3. /\ Cardinality({t \in made : t > h}) \in Nat /\ Cardinality({t \in m : t > h}) \in Nat
      /\ Cardinality({t \in made : t > h}) <= Cardinality({t \in m : t > h})
  <2>1. made \subseteq m /\ m \subseteq 1 .. n
    BY <1>1, <1>2 DEF ClockOK
  <2>2. QED BY <2>1, NewerGrow
<1>4. Cardinality({t \in m : t > h}) >= Retention
  BY <1>1, <1>3, StorageAssumption DEF Rotated, StorageAssumption
<1>5. QED BY <1>1, <1>4 DEF Rotated

\* A file that retention took away was followed by enough others.
LEMMA RotatedNow ==
  ASSUME ClockOK', NEW i \in Item, NEW d, d \subseteq made', holder'[i] > 0, Retention > 0,
         ~(Cardinality({u \in d : u > holder'[i]}) < Retention)
  PROVE  Rotated(i)'
<1>1. PICK m, h : m = made' /\ h = holder'[i]
  OBVIOUS
<1>2. PICK n \in Nat : n = now'
  BY DEF ClockOK
<1>3. /\ Cardinality({t \in d : t > h}) \in Nat /\ Cardinality({t \in m : t > h}) \in Nat
      /\ Cardinality({t \in d : t > h}) <= Cardinality({t \in m : t > h})
  <2>1. d \subseteq m /\ m \subseteq 1 .. n
    BY <1>1, <1>2 DEF ClockOK
  <2>2. QED BY <2>1, NewerGrow
<1>4. Cardinality({t \in m : t > h}) >= Retention
  BY <1>1, <1>3, StorageAssumption DEF StorageAssumption
<1>5. QED BY <1>1, <1>4 DEF Rotated

\* An item that is saved stays so, or is back in the database.
OldItem(i) ==
  /\ holder'[i] = holder[i] \/ holder'[i] = 0 \/ Saved(i)'
  /\ Saved(i) => \/ Saved(i)'
                 \/ i \in db' /\ (holder'[i] = 0 \/ \A p \in Proc : pc'[p] # "move")
  /\ i \in db => i \in db' \/ Saved(i)'

\* The same .bak files, or more of them, save the same items.
LEMMA SavedSame ==
  ASSUME ClockOK', made \subseteq made', NEW i \in Item, holder'[i] = holder[i], Saved(i),
         InHolder(i) => holder[i] \in DOMAIN bak' /\ i \in bak'[holder[i]]
  PROVE  Saved(i)'
<1>1. CASE Rotated(i)
  BY <1>1, RotatedStays DEF Saved
<1>2. CASE InHolder(i)
  BY <1>2 DEF Saved, InHolder
<1>3. QED BY <1>1, <1>2 DEF Saved

\* A compaction that renames the database to a .bak file saves what is in it.
LEMMA OldMove ==
  ASSUME Sound, ClockOK', Movable, NEW p \in Proc, CompactMove(p), NEW i \in Item, i \in Live
  PROVE  OldItem(i)
<1>1. /\ At(p, "move") /\ Whole(db) /\ ts[p] \notin DOMAIN bak /\ ts[p] \in Nat
      /\ holder[i] \in Nat
  BY DEF Sound, CompactMove, At, BakOK, ClockOK
<1>2. CASE /\ bak' = [t \in DOMAIN bak \cup {ts[p]} |-> IF t = ts[p] THEN db ELSE bak[t]]
           /\ holder' = Held(db, ts[p]) /\ made' = made \cup {ts[p]}
  <2>1. CASE i \in db /\ ts[p] > holder[i]
    <3>1. holder'[i] = ts[p] /\ bak'[ts[p]] = db /\ ts[p] \in DOMAIN bak'
      BY <1>2, <2>1 DEF Held, Items
    <3>2. QED BY <2>1, <3>1 DEF OldItem, Saved, InHolder
  <2>2. CASE ~(i \in db /\ ts[p] > holder[i])
    <3>1. holder'[i] = holder[i]
      BY <1>2, <2>2 DEF Held, Items
    <3>2. Saved(i) => Saved(i)'
      BY <1>1, <1>2, <3>1, SavedSame DEF InHolder
    <3>3. i \in db => Saved(i)
      BY <1>1, <2>2 DEF Movable
    <3>4. QED BY <3>1, <3>2, <3>3 DEF OldItem
  <2>3. QED BY <2>1, <2>2
<1>3. CASE UNCHANGED <<bak, db, holder, made>>
  BY <1>3 DEF OldItem, Saved, InHolder, Rotated
<1>4. QED BY <1>2, <1>3 DEF CompactMove

\* The file that a compaction renames to dbPath holds what the database held.
LEMMA OldSwap ==
  ASSUME Sound, ClockOK', NEW p \in Proc, CompactSwap(p), NEW i \in Item, i \in Live'
  PROVE  OldItem(i)
<1>1. /\ At(p, "swap") /\ holder' = holder /\ made' = made
      /\ \A q \in Proc : pc'[q] # "move"
  <2>1. \A q \in Proc : q # p => pc[q] # "move" /\ pc'[q] = pc[q]
    BY DEF Sound, PcOK, CompactSwap, At, Compacting, Go, Proc
  <2>2. pc'[p] # "move"
    BY DEF Sound, PcOK, CompactSwap, Go, Finished
  <2>3. QED BY <2>1, <2>2 DEF CompactSwap
<1>2. ASSUME NEW f, NEW n, Replace(f, n), i \in db PROVE i \in db'
  BY <1>2 DEF Replace, Live, Items
<1>3. CASE Replace(tmp[p], open) /\ bak' = bak
  <2>1. Saved(i) => Saved(i)'
    BY <1>1, <1>3 DEF Saved, InHolder, Rotated
  <2>2. QED BY <1>1, <1>2, <1>3, <2>1 DEF OldItem
<1>4. CASE /\ Replace(bak[ts[p]], IF InBak(ts[p]) THEN "db" ELSE open) /\ ts[p] \in DOMAIN bak
           /\ bak' = [t \in DOMAIN bak \ {ts[p]} |-> bak[t]]
  <2>1. db' = bak[ts[p]]
    BY <1>4 DEF Replace
  <2>2. InHolder(i) /\ holder[i] = ts[p] => i \in db'
    BY <2>1 DEF InHolder
  <2>3. Saved(i) => Saved(i)' \/ i \in db'
    BY <1>1, <1>4, <2>2, SavedSame DEF InHolder
  <2>4. QED BY <1>1, <1>2, <1>4, <2>3 DEF OldItem
<1>5. CASE UNCHANGED <<db, bak>>
  BY <1>1, <1>5 DEF OldItem, Saved, InHolder, Rotated
<1>6. QED BY <1>3, <1>4, <1>5 DEF CompactSwap

\* The startup backup overwrites no file that alone saves something.
LEMMA OldBackup ==
  ASSUME Sound, ClockOK', Renamed, BackupRead \/ BackupWrite, NEW i \in Item, i \in Live
  PROVE  OldItem(i)
<1>2. CASE UNCHANGED <<db, bak, holder, made>>
  BY <1>2 DEF OldItem, Saved, InHolder, Rotated
<1>3. ASSUME NEW t \in {now, now + 1}, t = now + 1 \/ (t = ts["server"] /\ t > 0),
             db # Missing, db' = db, At("server", "backup"),
             bak' = [u \in DOMAIN bak \cup {t} |-> IF u = t THEN Torn ELSE bak[u]],
             made' = made \cup {t}, holder' = Overwritten(t)
      PROVE  OldItem(i)
  <2>1. CASE holder[i] = t
    <3>1. t # now + 1
      BY <2>1, Later DEF Sound, ClockOK
    <3>2. i \in db
      BY <1>3, <2>1, <3>1 DEF Renamed
    <3>3. holder'[i] = 0
      BY <1>3, <2>1 DEF Overwritten
    <3>4. QED BY <1>3, <3>2, <3>3 DEF OldItem
  <2>2. CASE holder[i] # t
    <3>1. holder'[i] = holder[i]
      BY <1>3, <2>2 DEF Overwritten
    <3>2. InHolder(i) => holder[i] \in DOMAIN bak' /\ i \in bak'[holder[i]]
      BY <1>3, <2>2 DEF InHolder
    <3>3. made \subseteq made'
      BY <1>3
    <3>4. Saved(i) => Saved(i)'
      BY <3>1, <3>2, <3>3, SavedSame
    <3>5. QED BY <1>3, <3>1, <3>4 DEF OldItem
  <2>3. QED BY <2>1, <2>2
<1>4. CASE /\ At("server", "copy") /\ db' = db /\ made' = made
           /\ bak' = [bak EXCEPT ![ts["server"]] = tmp["server"]]
           /\ holder' = Held(tmp["server"], ts["server"])
  <2>1. ts["server"] \in DOMAIN bak /\ bak[ts["server"]] = Torn /\ i \notin Torn
    BY <1>4, FileFacts DEF Sound, BakOK, Renamed, Items
  <2>2. CASE i \in tmp["server"] /\ ts["server"] > holder[i]
    <3>1. holder'[i] = ts["server"] /\ bak'[ts["server"]] = tmp["server"] /\ ts["server"] \in DOMAIN bak'
      BY <1>4, <2>1, <2>2 DEF Held, Items
    <3>2. QED BY <1>4, <2>2, <3>1 DEF OldItem, Saved, InHolder
  <2>3. CASE ~(i \in tmp["server"] /\ ts["server"] > holder[i])
    <3>1. holder'[i] = holder[i]
      BY <1>4, <2>3 DEF Held, Items
    <3>2. InHolder(i) => holder[i] \in DOMAIN bak' /\ i \in bak'[holder[i]]
      BY <1>4, <2>1 DEF InHolder
    <3>3. Saved(i) => Saved(i)'
      BY <1>4, <3>1, <3>2, SavedSame
    <3>4. QED BY <1>4, <3>1, <3>3 DEF OldItem
  <2>4. QED BY <2>2, <2>3
<1>5. CASE BackupRead
  BY <1>2, <1>3, <1>5 DEF BackupRead
<1>6. CASE BackupWrite
  BY <1>2, <1>4, <1>6 DEF BackupWrite
<1>7. QED BY <1>5, <1>6

\* Retention takes a file away only after enough newer ones.
LEMMA OldRotate ==
  ASSUME Sound, ClockOK', Rotate \/ SecondServer, NEW i \in Item, i \in Live
  PROVE  OldItem(i)
<1>1. CASE Rotate
  <2>1. bak' = rotateBackups(bak) /\ UNCHANGED <<db, holder, made>> /\ DOMAIN bak \subseteq made'
    BY <1>1 DEF Rotate, ghosts, Sound, ClockOK
  <2>2. CASE InHolder(i) /\ holder[i] \notin DOMAIN bak'
    <3>1. /\ Retention > 0 /\ ~(Cardinality({u \in DOMAIN bak : u > holder[i]}) < Retention)
          /\ holder'[i] = holder[i] /\ holder'[i] > 0
      <4>1. holder[i] \in DOMAIN bak \ DOMAIN rotateBackups(bak)
        BY <2>1, <2>2 DEF InHolder
      <4>2. holder[i] > 0
        <5>1. holder[i] \in DOMAIN bak
          BY <2>2 DEF InHolder
        <5>2. DOMAIN bak \subseteq 1 .. now /\ now \in Nat
          BY DEF Sound, ClockOK
        <5>3. QED BY <5>1, <5>2
      <4>3. QED BY <2>1, <4>1, <4>2, RotateFacts
    <3>2. Rotated(i)'
      <4>1. ~(Cardinality({u \in DOMAIN bak : u > holder'[i]}) < Retention)
        BY <3>1
      <4>2. QED BY <2>1, <3>1, <4>1, RotatedNow
    <3>3. QED BY <2>1, <3>2 DEF OldItem, Saved
  <2>3. CASE ~(InHolder(i) /\ holder[i] \notin DOMAIN bak')
    <3>1. InHolder(i) => holder[i] \in DOMAIN bak' /\ i \in bak'[holder[i]]
      BY <2>1, <2>3, RotateFacts DEF InHolder
    <3>2. Saved(i) => Saved(i)'
      BY <2>1, <3>1, SavedSame
    <3>3. QED BY <2>1, <3>2 DEF OldItem
  <2>4. QED BY <2>2, <2>3
<1>2. CASE SecondServer
  <2>1. PICK f \in {db, Torn} :
          /\ holder' = Held(f, now')
          /\ \A t \in DOMAIN bak' :
               (t = now' /\ bak'[t] = f) \/ (t \in DOMAIN bak /\ bak'[t] = bak[t])
          /\ \A t \in (DOMAIN bak \cup {now'}) \ DOMAIN bak' :
               /\ Retention > 0
               /\ ~(Cardinality({u \in DOMAIN bak \cup {now'} : u > t}) < Retention)
    BY <1>2, SecondFacts
  <2>2. /\ db' = db /\ now' = now + 1 /\ made' = made \cup {now'} /\ holder[i] \in Nat
        /\ DOMAIN bak \cup {now'} \subseteq made' /\ now' \notin DOMAIN bak
    <3>1. db' = db /\ now' = now + 1 /\ made' = made \cup {now'}
      BY <1>2 DEF SecondServer
    <3>2. holder[i] \in Nat /\ now + 1 \notin made /\ DOMAIN bak \subseteq made
      BY Times DEF Sound
    <3>3. QED BY <3>1, <3>2
  <2>3. CASE i \in Items(f) /\ now' > holder[i]
    <3>1. PICK n \in Nat : n = now'
      BY DEF ClockOK
    <3>2. {u \in DOMAIN bak \cup {n} : u > n} = {}
      <4>1. made' \subseteq 1 .. n
        BY <3>1 DEF ClockOK
      <4>2. QED BY <2>2, <3>1, <4>1
    <3>3. now' \in DOMAIN bak'
      BY <2>1, <3>1, <3>2, FS_EmptySet, StorageAssumption DEF StorageAssumption
    <3>4. holder'[i] = now' /\ bak'[now'] = f
      BY <2>1, <2>2, <2>3, <3>3 DEF Held
    <3>5. InHolder(i)'
      BY <2>3, <3>3, <3>4 DEF InHolder, Items
    <3>6. QED BY <3>5 DEF OldItem, Saved
  <2>4. CASE ~(i \in Items(f) /\ now' > holder[i])
    <3>1. holder'[i] = holder[i]
      BY <2>1, <2>4 DEF Held
    <3>2. CASE InHolder(i) /\ holder[i] \notin DOMAIN bak'
      <4>1. Retention > 0 /\ ~(Cardinality({u \in DOMAIN bak \cup {now'} : u > holder'[i]}) < Retention)
        BY <2>1, <3>1, <3>2 DEF InHolder
      <4>2. holder'[i] > 0
        BY <3>1, <3>2, Times DEF InHolder, Sound
      <4>3. Rotated(i)'
        BY <2>2, <4>1, <4>2, RotatedNow
      <4>4. QED BY <2>2, <3>1, <4>3 DEF OldItem, Saved
    <3>3. CASE ~(InHolder(i) /\ holder[i] \notin DOMAIN bak')
      <4>1. InHolder(i) => holder[i] \in DOMAIN bak' /\ i \in bak'[holder[i]]
        BY <2>1, <2>2, <3>3 DEF InHolder
      <4>2. Saved(i) => Saved(i)'
        BY <2>2, <3>1, <4>1, SavedSame
      <4>3. QED BY <2>2, <3>1, <4>2 DEF OldItem
    <3>4. QED BY <3>2, <3>3
  <2>5. QED BY <2>3, <2>4
<1>3. QED BY <1>1, <1>2

\* The other steps save what the .bak files saved.
LEMMA OldOther ==
  ASSUME Sound, ClockOK', Kept, NEW i \in Item, i \in Live, i \in Live',
         \/ Idle
         \/ Open \/ RestoreCmd \/ Restored \/ Interrupt
  PROVE  OldItem(i)
<1>1. CASE Idle
  BY <1>1 DEF Idle, OldItem, Saved, InHolder, Rotated
<1>2. CASE Open
  <2>1. UNCHANGED <<bak, holder, made>> /\ Items(db') = Items(db)
    BY <1>2, OpenedFacts DEF Open, ghosts, Sound, BakOK
  <2>2. QED BY <2>1 DEF OldItem, Saved, InHolder, Rotated, Items
<1>3. CASE RestoreCmd
  BY <1>3 DEF RestoreCmd, Live
<1>4. CASE Restored
  <2>1. UNCHANGED <<bak, holder, made>> /\ dropped' = ever' \ Items(db')
    BY <1>4 DEF Restored
  <2>2. i \in db'
    BY <2>1 DEF Live, Items
  <2>3. QED BY <2>1, <2>2 DEF OldItem, Saved, InHolder, Rotated
<1>5. CASE Interrupt
  <2>1. UNCHANGED <<bak, holder, made, ever, dropped>> /\ ~At("ctl", "restore")
    BY <1>5 DEF Interrupt, Kept, Live
  <2>2. db' = db
    BY <1>5, <2>1 DEF Interrupt, Partial, At
  <2>3. QED BY <2>1, <2>2 DEF OldItem, Saved, InHolder, Rotated
<1>6. QED BY <1>1, <1>2, <1>3, <1>4, <1>5

\* What a transaction adds is in the database, or in the .bak file that is open.
LEMMA Transacted ==
  ASSUME Sound, ClockOK', Honest, NEW i \in Item, i \in Live',
         (\E f \in Legacy : MigrateWrite(f)) \/ LoadTenant \/ (\E w \in Write : Save(w))
  PROVE  /\ i \in Live => OldItem(i)
         /\ i \notin Live => Saved(i)' \/ (i \in db' /\ holder'[i] = 0)
<1>1. made' = made /\ open # "none" /\ (NoCommit \/ \E items \in SUBSET Item : Commit(items))
  BY Transaction DEF Sound, OpenOK, Quiet
<1>2. CASE NoCommit
  BY <1>1, <1>2 DEF NoCommit, OldItem, Live, Saved, InHolder, Rotated
<1>3. ASSUME NEW items \in SUBSET Item, Commit(items)
      PROVE  /\ i \in Live => OldItem(i)
             /\ i \notin Live => Saved(i)' \/ (i \in db' /\ holder'[i] = 0)
  <2>1. /\ ever' = ever \cup items /\ dropped \subseteq dropped' /\ stray \subseteq stray'
        /\ db \subseteq db' \cup dropped' /\ DOMAIN bak' = DOMAIN bak
        /\ \A t \in DOMAIN bak : bak[t] \subseteq bak'[t] \cup dropped'
        /\ open = "db" => items \subseteq db'
        /\ open = "gone" => items \subseteq stray'
        /\ open = "bak" => items \subseteq bak'[openAt]
    BY <1>1, <1>3, CommitLoses DEF Sound
  <2>2. CASE open = "bak" /\ i \in items /\ openAt > holder[i]
    <3>1. holder'[i] = openAt /\ openAt \in DOMAIN bak /\ i \in bak'[openAt]
      BY <1>3, <2>1, <2>2, CommitFacts DEF Held, Items, Sound, OpenOK
    <3>2. InHolder(i)'
      BY <2>1, <3>1 DEF InHolder
    <3>3. QED BY <3>2 DEF OldItem, Saved
  <2>3. CASE ~(open = "bak" /\ i \in items /\ openAt > holder[i])
    <3>1. holder'[i] = holder[i]
      BY <1>3, <2>3, CommitFacts DEF Held, Items
    <3>2. InHolder(i) => holder[i] \in DOMAIN bak' /\ i \in bak'[holder[i]]
      BY <2>1 DEF InHolder, Live
    <3>3. Saved(i) => Saved(i)'
      BY <1>1, <3>1, <3>2, SavedSame
    <3>4. i \in db => i \in db'
      BY <2>1 DEF Live
    <3>5. ASSUME i \notin Live PROVE i \in db' /\ holder'[i] = 0
      <4>1. i \notin ever /\ i \in items /\ i \notin stray'
        BY <2>1, <3>5 DEF Live
      <4>2. holder[i] = 0
        BY <4>1, Times DEF Honest, Sound
      <4>3. open = "db"
        BY <1>1, <2>1, <2>3, <4>1, <4>2 DEF Sound, OpenOK, ClockOK
      <4>4. QED BY <2>1, <3>1, <4>1, <4>2, <4>3
    <3>6. QED BY <3>1, <3>3, <3>4, <3>5 DEF OldItem
  <2>4. QED BY <2>2, <2>3
<1>4. QED BY <1>1, <1>2, <1>3

\* No step loses an item that was not lost or given up before.
LEMMA OldStep ==
  ASSUME Sound, ClockOK', Honest, Kept, Movable, Renamed, [Next]_vars,
         NEW i \in Item, i \in Live, i \in Live'
  PROVE  OldItem(i)
<1>1. \A p \in Proc : CompactMove(p) \/ CompactSwap(p) => OldItem(i)
  BY OldMove, OldSwap
<1>2. BackupRead \/ BackupWrite \/ Rotate \/ SecondServer => OldItem(i)
  BY OldBackup, OldRotate
<1>3. \/ Idle
      \/ Open \/ RestoreCmd \/ Restored \/ Interrupt
      => OldItem(i)
  BY OldOther
<1>4. (\E f \in Legacy : MigrateWrite(f)) \/ LoadTenant \/ (\E w \in Write : Save(w)) => OldItem(i)
  BY Transacted
<1>5. QED BY <1>1, <1>2, <1>3, <1>4, Frame

\* An item that was not there before, or was given up, is in a file.
LEMMA NewStep ==
  ASSUME Sound, ClockOK', Honest, [Next]_vars, NEW i \in Item, i \notin Live, i \in Live'
  PROVE  Saved(i)' \/ (i \in db' /\ (holder'[i] = 0 \/ \A p \in Proc : pc'[p] # "move"))
<1>1. ~(UNCHANGED <<ever, dropped>> /\ stray \subseteq stray')
  BY DEF Live
<1>2. ~Idle
  BY <1>1 DEF Idle
<1>3. ASSUME NEW p \in Proc PROVE ~CompactMove(p) /\ ~CompactSwap(p)
  BY <1>1 DEF CompactMove, CompactSwap, Replace
<1>4. ~(BackupRead \/ BackupWrite \/ Rotate \/ Open \/ SecondServer \/ Interrupt)
  BY <1>1 DEF BackupRead, BackupWrite, Rotate, Open, SecondServer, Interrupt, ghosts
<1>5. ~RestoreCmd
  BY DEF RestoreCmd, Live
<1>6. Restored => i \in db' /\ \A p \in Proc : pc'[p] # "move"
  <2>1. ASSUME Restored
        PROVE  /\ dropped' = ever' \ Items(db') /\ pc["server"] = "down"
               /\ pc'["server"] = pc["server"] /\ pc'["ctl"] = "down"
    BY <2>1 DEF Restored, Go, At, Sound, PcOK, Proc
  <2>2. QED BY <2>1 DEF Live, Items, Proc
<1>7. (\E f \in Legacy : MigrateWrite(f)) \/ LoadTenant \/ (\E w \in Write : Save(w))
        => Saved(i)' \/ (i \in db' /\ holder'[i] = 0)
  BY Transacted
<1>8. QED BY <1>2, <1>3, <1>4, <1>5, <1>6, <1>7, Frame

\* Nothing is lost but to retention.
LEMMA AccountedStep ==
  ASSUME Sound, Sound', Honest, Kept, Accounted, Movable, Renamed, [Next]_vars
  PROVE  Accounted'
<1>1. SUFFICES ASSUME NEW i \in Live' PROVE i \in db' \/ Saved(i)'
  BY DEF Accounted
<1>2. i \in Item /\ ClockOK'
  BY DEF Sound, FileOK, Live
<1>3. CASE i \in Live
  BY <1>2, <1>3, OldStep DEF OldItem, Accounted
<1>4. CASE i \notin Live
  BY <1>2, <1>4, NewStep
<1>5. QED BY <1>3, <1>4

\* Nor can the rename to a .bak file that is to come make it so.
LEMMA MovableStep ==
  ASSUME Sound, Sound', Honest, Kept, Accounted, Movable, Renamed, [Next]_vars
  PROVE  Movable'
<1>1. SUFFICES ASSUME NEW p \in Proc, pc'[p] = "move", NEW i \in Live'
               PROVE  holder'[i] < ts'[p] \/ Saved(i)'
  BY DEF Movable, At
<1>2. i \in Item /\ ClockOK' /\ ts'[p] > 0
  BY <1>1 DEF Sound, FileOK, ClockOK, Live
<1>3. CASE CompactBegin(p)
  <2>1. ts' = [ts EXCEPT ![p] = now + 1] /\ holder' = holder
    BY <1>1, <1>3 DEF CompactBegin, Go, Finished, Sound, PcOK
  <2>2. PICK n \in Nat : n = now
    BY DEF Sound, ClockOK
  <2>3. ts'[p] = n + 1 /\ holder'[i] \in Nat /\ holder'[i] <= n
    BY <1>2, <2>1, <2>2, Times DEF Sound, ClockOK
  <2>4. QED BY <2>3
<1>4. CASE pc[p] = "move" /\ ts'[p] = ts[p]
  <2>1. CASE i \in Live
    <3>1. OldItem(i)
      BY <1>2, <2>1, OldStep
    <3>2. holder[i] < ts[p] \/ Saved(i)
      BY <1>4, <2>1 DEF Movable, At
    <3>3. QED BY <1>1, <1>2, <1>4, <3>1, <3>2 DEF OldItem
  <2>2. CASE i \notin Live
    BY <1>1, <1>2, <2>2, NewStep
  <2>3. QED BY <2>1, <2>2
<1>5. QED BY <1>1, <1>3, <1>4, MoveFrame DEF Sound

\* The name that a compaction of this start has used holds nothing that is missing.
LEMMA RenamedStep == ASSUME Sound, Kept, Renamed, [Next]_vars PROVE Renamed'
<1> USE DEF Renamed, Live, Proc, Legacy
<1>0. /\ pc \in [Proc -> Step] /\ tmp \in [Proc -> File] /\ ts \in [Proc -> 0 .. now]
      /\ \A p, q \in Proc : Compacting(p) /\ p # q => ~Compacting(q)
      /\ pc["ctl"] \in {"restore", "replace"} => pc["server"] = "down"
  BY DEF Sound, PcOK, FileOK, ClockOK, Compacting, At, Proc
<1>1. ASSUME NEW p \in Proc, CompactBegin(p) PROVE Renamed'
  <2>1. At(p, "compact") /\ UNCHANGED <<db, bak, ever, dropped, stray, holder>>
    BY <1>1 DEF CompactBegin, files
  <2>2. CASE p = "server"
    <3>1. /\ pc'["ctl"] = pc["ctl"] /\ ts["server"] = 0 /\ pc["ctl"] # "move"
          /\ \/ pc'["server"] = "move" /\ tmp'["server"] = db
             \/ pc'["server"] = "backup" /\ ts' = ts
      BY <1>1, <1>0, <2>1, <2>2, FileFacts
             DEF CompactBegin, Compact, Go, Finished, At, Compacting
    <3>2. QED BY <2>1, <3>1 DEF At
  <2>3. CASE p = "ctl"
    <3>1. /\ pc'["server"] = pc["server"] /\ pc["server"] \notin {"compact", "move", "swap"}
          /\ ts'["server"] = ts["server"] /\ pc["ctl"] = "compact"
          /\ \/ pc'["ctl"] = "move" /\ ts'["ctl"] = now + 1
             \/ pc'["ctl"] = "down"
      BY <1>1, <1>0, <2>1, <2>3 DEF CompactBegin, Go, Finished, At, Compacting
    <3>2. ts["server"] < now + 1
      BY Later DEF Sound, ClockOK
    <3>3. QED BY <2>1, <3>1, <3>2 DEF At
  <2>4. QED BY <2>2, <2>3
<1>2. ASSUME NEW p \in Proc, CompactMove(p) PROVE Renamed'
  <2>1. /\ At(p, "move") /\ UNCHANGED <<ts, ever, dropped, stray>>
        /\ Whole(db) /\ ts[p] \notin made /\ ts[p] > 0 /\ DOMAIN bak \subseteq made
        /\ holder \in [Item -> made \cup {0}]
    BY <1>2 DEF CompactMove, Sound, ClockOK, BakOK, At
  <2>2. CASE UNCHANGED <<db, bak, holder>> /\ tmp' = [tmp EXCEPT ![p] = Missing] /\ Go(p, Finished(p))
    <3>1. CASE p = "server"
      <4>1. \A i \in Item : holder[i] # ts["server"]
        BY <2>1, <3>1
      <4>2. /\ pc'["server"] = "backup" /\ pc'["ctl"] = pc["ctl"] /\ pc["ctl"] # "move"
        BY <1>0, <2>1, <2>2, <3>1 DEF Go, Finished, At, Compacting
      <4>3. Live' = Live /\ Live \subseteq Item
        BY <2>1 DEF Sound, FileOK
      <4>4. QED BY <2>1, <2>2, <4>1, <4>2, <4>3 DEF At
    <3>2. CASE p = "ctl"
      <4>1. /\ pc'["ctl"] = "down" /\ pc'["server"] = pc["server"] /\ pc["ctl"] = "move"
            /\ tmp'["server"] = tmp["server"]
        BY <1>0, <2>1, <2>2, <3>2 DEF Go, Finished, At
      <4>2. QED BY <2>1, <2>2, <4>1 DEF At
    <3>3. QED BY <3>1, <3>2
  <2>3. CASE /\ bak' = [t \in DOMAIN bak \cup {ts[p]} |-> IF t = ts[p] THEN db ELSE bak[t]]
             /\ db' = Missing /\ holder' = Held(db, ts[p]) /\ tmp' = tmp /\ Go(p, "swap")
    <3>1. CASE p = "server"
      <4>1. pc'["server"] = "swap" /\ db = tmp["server"] /\ bak'[ts["server"]] = db
        BY <1>0, <2>1, <2>3, <3>1 DEF Go, At
      <4>2. \A i \in Item : holder'[i] = ts["server"] => i \in db
        BY <2>1, <2>3, <3>1 DEF Held, Items
      <4>3. QED BY <2>1, <2>3, <4>1, <4>2 DEF At
    <3>2. CASE p = "ctl"
      <4>1. /\ pc'["ctl"] = "swap" /\ pc'["server"] = pc["server"] /\ pc["ctl"] = "move"
            /\ pc["server"] \notin {"compact", "move", "swap"}
        BY <1>0, <2>1, <2>3, <3>2 DEF Go, At, Compacting
      <4>2. ASSUME pc["server"] = "backup", ts["server"] > 0, NEW i \in Live
            PROVE  holder'[i] # ts["server"]
        <5>1. ts["server"] < ts["ctl"] /\ i \in Item /\ ts["server"] \in Nat /\ ts["ctl"] \in Nat
          BY <4>1, <4>2, <1>0 DEF At, Sound, FileOK
        <5>2. holder[i] = ts["server"] => i \in db
          BY <2>1, <4>1, <4>2, FileFacts DEF At
        <5>3. QED BY <2>3, <3>2, <5>1, <5>2 DEF Held, Items
      <4>3. pc["server"] = "copy" => bak'[ts["server"]] = bak[ts["server"]]
        BY <2>1, <2>3, <3>2 DEF Sound, BakOK, At
      <4>4. Live' = Live
        BY <2>1
      <4>5. QED BY <2>1, <2>3, <4>1, <4>2, <4>3, <4>4 DEF At
    <3>3. QED BY <3>1, <3>2
  <2>4. QED BY <1>2, <2>2, <2>3 DEF CompactMove
<1>3. ASSUME NEW p \in Proc, CompactSwap(p) PROVE Renamed'
  <2>1. /\ At(p, "swap") /\ UNCHANGED <<ts, ever, dropped, holder>> /\ stray \subseteq stray'
    BY <1>3 DEF CompactSwap, Replace
  <2>2. CASE p = "server"
    <3>1. /\ pc'["server"] = "backup" /\ pc'["ctl"] = pc["ctl"]
          /\ pc["ctl"] \notin {"move", "swap"} /\ pc["server"] = "swap"
      BY <1>0, <1>3, <2>1, <2>2 DEF CompactSwap, Go, Finished, At, Compacting
    <3>2. db' = tmp["server"] \/ db' = Missing
      BY <1>3, <2>2, <3>1 DEF CompactSwap, Replace, At
    <3>3. \A i \in Live' : i \in Item
      BY <2>1 DEF Sound, FileOK
    <3>4. QED BY <2>1, <3>1, <3>2, <3>3 DEF At
  <2>3. CASE p = "ctl"
    <3>1. /\ pc'["ctl"] = "down" /\ pc'["server"] = pc["server"] /\ pc["ctl"] = "swap"
          /\ pc["server"] \notin {"compact", "move", "swap"}
      BY <1>0, <1>3, <2>1, <2>3 DEF CompactSwap, Go, Finished, At, Compacting
    <3>2. \A i \in Live' : i \in Live /\ (i \in db => i \in db')
      BY <1>3, <2>1 DEF CompactSwap, Replace, Items, Sound, FileOK
    <3>3. pc["server"] = "copy" => bak'[ts["server"]] = bak[ts["server"]]
      <4>1. pc["server"] = "copy" => ts["server"] # ts["ctl"] /\ ts["server"] \in DOMAIN bak
        BY <3>1 DEF Sound, BakOK, ClockOK, At
      <4>2. QED BY <1>3, <2>3, <4>1 DEF CompactSwap
    <3>4. QED BY <2>1, <3>1, <3>2, <3>3 DEF At
  <2>4. QED BY <2>2, <2>3
<1>4. ASSUME NEW c \in BOOLEAN, Start(c) PROVE Renamed'
  BY <1>4, <1>0 DEF Start, files, handle, Go, At
<1>5. CASE BackupRead
  BY <1>5, <1>0 DEF BackupRead, handle, Go, At
<1>6. CASE BackupWrite
  BY <1>6, <1>0 DEF BackupWrite, handle, Go, At
<1>7. CASE Rotate
  BY <1>7, <1>0 DEF Rotate, handle, ghosts, Go, At
<1>8. CASE Open
  BY <1>8, <1>0 DEF Open, ghosts, Go, At
<1>9. CASE MigrateLoad
  BY <1>9, <1>0 DEF MigrateLoad, files, handle, Go, At, NextFile
<1>10. ASSUME NEW f \in Legacy, MigrateWrite(f) PROVE Renamed'
  BY <1>10, <1>0 DEF MigrateWrite, Commit, NoCommit, Go, At
<1>11. ASSUME NEW f \in Legacy, MigrateRename(f) PROVE Renamed'
  BY <1>11, <1>0 DEF MigrateRename, handle, Go, At, NextFile
<1>12. CASE LoadTenant
  BY <1>12, <1>0 DEF LoadTenant, Commit, NoCommit, Go, At
<1>13. ASSUME NEW w \in Write, Save(w) PROVE Renamed'
  BY <1>13, <1>0 DEF Save, Commit, At
<1>14. ASSUME NEW k \in DOMAIN status, RunOnline(k) PROVE Renamed'
  BY <1>14, <1>0 DEF RunOnline, files, handle, At
<1>15. CASE SecondServer
  BY <1>15, <1>0 DEF SecondServer, handle, At
<1>16. CASE Crash
  BY <1>16, <1>0 DEF Crash, files, Go, At
<1>17. CASE CompactCmd
  BY <1>17, <1>0 DEF CompactCmd, files, handle, Go, At
<1>18. ASSUME NEW k \in DOMAIN copies, BackupCmd(k) PROVE Renamed'
  BY <1>18, <1>0 DEF BackupCmd, Rewrite, handle, Go, At
<1>19. CASE RekeyCmd
  BY <1>19, <1>0 DEF RekeyCmd, Rewrite, handle, Go, At
<1>20. ASSUME NEW k \in DOMAIN copies, Written(k) PROVE Renamed'
  BY <1>20, <1>0 DEF Written, handle, ghosts, Go, At
<1>21. CASE RestoreCmd
  BY <1>21, <1>0 DEF RestoreCmd, handle, Go, At
<1>22. CASE RestoreKeyCmd
  BY <1>22, <1>0 DEF RestoreKeyCmd, files, handle, Go, At
<1>23. CASE Restored
  BY <1>23, <1>0 DEF Restored, handle, Go, At
<1>24. CASE Interrupt
  <2>1. /\ UNCHANGED <<bak, ever, dropped, stray, holder, ts>> /\ pc'["ctl"] = "down"
        /\ pc'["server"] = pc["server"] /\ tmp'["server"] = tmp["server"]
        /\ db' = db \/ pc["server"] = "down"
    BY <1>24, <1>0 DEF Interrupt, Partial, Go, At
  <2>2. QED BY <2>1 DEF At
<1>25. CASE UNCHANGED vars
  BY <1>25, <1>0 DEF vars, files, handle, ghosts, At
<1>26. QED BY <1>1, <1>2, <1>3, <1>4, <1>5, <1>6, <1>7, <1>8, <1>9, <1>10, <1>11, <1>12,
       <1>13, <1>14, <1>15, <1>16, <1>17, <1>18, <1>19, <1>20, <1>21, <1>22, <1>23, <1>24, <1>25
       DEF Next, Boot, Run, Ctl

-----------------------------------------------------------------------------
(* The migration of the JSON files. *)

\* A JSON file is renamed after it was stored.
LEMMA StoredStep == ASSUME Sound, Stored, [Next]_vars PROVE Stored'
<1> USE DEF Stored, MigratedIsStored, Proc, Legacy
<1>0. pc \in [Proc -> Step] /\ ever \subseteq Item /\ legacy \in [Legacy -> [body : Body, named : BOOLEAN]]
  BY DEF Sound, PcOK, FileOK
<1>1. ASSUME NEW p \in Proc, CompactBegin(p) PROVE Stored'
  BY <1>1, <1>0 DEF CompactBegin, files, handle, Go, At, Finished
<1>2. ASSUME NEW p \in Proc, CompactMove(p) PROVE Stored'
  BY <1>2, <1>0 DEF CompactMove, Go, At, Finished
<1>3. ASSUME NEW p \in Proc, CompactSwap(p) PROVE Stored'
  BY <1>3, <1>0 DEF CompactSwap, Replace, Locked, Go, At, Finished
<1>4. ASSUME NEW c \in BOOLEAN, Start(c) PROVE Stored'
  BY <1>4, <1>0 DEF Start, files, handle, Go, At
<1>5. CASE BackupRead
  BY <1>5, <1>0 DEF BackupRead, handle, Go, At
<1>6. CASE BackupWrite
  BY <1>6, <1>0 DEF BackupWrite, handle, Go, At
<1>7. CASE Rotate
  BY <1>7, <1>0 DEF Rotate, handle, ghosts, Go, At
<1>8. CASE Open
  BY <1>8, <1>0 DEF Open, ghosts, Go, At
<1>9. CASE MigrateLoad
  BY <1>9, <1>0 DEF MigrateLoad, files, handle, Go, At, NextFile
<1>10. ASSUME NEW f \in Legacy, MigrateWrite(f) PROVE Stored'
  BY <1>10, <1>0 DEF MigrateWrite, Commit, NoCommit, Go, At
<1>11. ASSUME NEW f \in Legacy, MigrateRename(f) PROVE Stored'
  BY <1>11, <1>0 DEF MigrateRename, handle, Go, At, NextFile
<1>12. CASE LoadTenant
  BY <1>12, <1>0 DEF LoadTenant, Commit, NoCommit, Go, At
<1>13. ASSUME NEW w \in Write, Save(w) PROVE Stored'
  BY <1>13, <1>0 DEF Save, Commit, At
<1>14. ASSUME NEW k \in DOMAIN status, RunOnline(k) PROVE Stored'
  BY <1>14, <1>0 DEF RunOnline, files, handle, At
<1>15. CASE SecondServer
  BY <1>15, <1>0 DEF SecondServer, handle, At
<1>16. CASE Crash
  BY <1>16, <1>0 DEF Crash, files, Go, At
<1>17. CASE CompactCmd
  BY <1>17, <1>0 DEF CompactCmd, files, handle, Go, At
<1>18. ASSUME NEW k \in DOMAIN copies, BackupCmd(k) PROVE Stored'
  BY <1>18, <1>0 DEF BackupCmd, Rewrite, handle, Go, At
<1>19. CASE RekeyCmd
  BY <1>19, <1>0 DEF RekeyCmd, Rewrite, handle, Go, At
<1>20. ASSUME NEW k \in DOMAIN copies, Written(k) PROVE Stored'
  BY <1>20, <1>0 DEF Written, handle, ghosts, Go, At
<1>21. CASE RestoreCmd
  BY <1>21, <1>0 DEF RestoreCmd, handle, Go, At
<1>22. CASE RestoreKeyCmd
  BY <1>22, <1>0 DEF RestoreKeyCmd, files, handle, Go, At
<1>23. CASE Restored
  BY <1>23, <1>0 DEF Restored, handle, Go, At
<1>24. CASE Interrupt
  BY <1>24, <1>0 DEF Interrupt, handle, Go, At
<1>25. CASE UNCHANGED vars
  BY <1>25, <1>0 DEF vars, files, handle, ghosts, At
<1>26. QED BY <1>1, <1>2, <1>3, <1>4, <1>5, <1>6, <1>7, <1>8, <1>9, <1>10, <1>11, <1>12,
       <1>13, <1>14, <1>15, <1>16, <1>17, <1>18, <1>19, <1>20, <1>21, <1>22, <1>23, <1>24, <1>25
       DEF Next, Boot, Run, Ctl

\* Files that are missing or damaged do not stop a migration.
LEMMA NoData == ~HasData(Missing) /\ ~HasData(Blank) /\ ~HasData(Torn) /\ ~HasData({})
BY DEF HasData, Missing, Blank, Torn

\* Nothing but a migration that succeeds takes a JSON file away; that one was cut stays known.
LEMMA WaitsLess == ASSUME Sound, [Next]_vars PROVE (cut => cut') /\ \A g \in Legacy : Good(g)' => Good(g)
<1> USE DEF Good, InPlace
<1>0. legacy \in [Legacy -> [body : Body, named : BOOLEAN]] /\ cut \in BOOLEAN
  BY DEF Sound, FileOK
<1>1. ASSUME NEW p \in Proc, CompactBegin(p)
      PROVE  (cut => cut') /\ \A g \in Legacy : Good(g)' => Good(g)
  BY <1>1, <1>0 DEF CompactBegin, files, handle
<1>2. ASSUME NEW p \in Proc, CompactMove(p)
      PROVE  (cut => cut') /\ \A g \in Legacy : Good(g)' => Good(g)
  BY <1>2, <1>0 DEF CompactMove
<1>3. ASSUME NEW p \in Proc, CompactSwap(p)
      PROVE  (cut => cut') /\ \A g \in Legacy : Good(g)' => Good(g)
  BY <1>3, <1>0 DEF CompactSwap, Replace, Locked
<1>4. ASSUME NEW c \in BOOLEAN, Start(c)
      PROVE  (cut => cut') /\ \A g \in Legacy : Good(g)' => Good(g)
  BY <1>4, <1>0 DEF Start, files, handle
<1>5. CASE BackupRead
  BY <1>5, <1>0 DEF BackupRead, handle
<1>6. CASE BackupWrite
  BY <1>6, <1>0 DEF BackupWrite, handle
<1>7. CASE Rotate
  BY <1>7, <1>0 DEF Rotate, handle, ghosts
<1>8. CASE Open
  BY <1>8, <1>0 DEF Open, ghosts
<1>9. CASE MigrateLoad
  BY <1>9, <1>0 DEF MigrateLoad, files, handle
<1>10. ASSUME NEW f \in Legacy, MigrateWrite(f)
       PROVE  (cut => cut') /\ \A g \in Legacy : Good(g)' => Good(g)
  BY <1>10, <1>0 DEF MigrateWrite, Commit, NoCommit
<1>11. ASSUME NEW f \in Legacy, MigrateRename(f)
       PROVE  (cut => cut') /\ \A g \in Legacy : Good(g)' => Good(g)
  BY <1>11, <1>0 DEF MigrateRename, handle
<1>12. CASE LoadTenant
  BY <1>12, <1>0 DEF LoadTenant, Commit, NoCommit
<1>13. ASSUME NEW w \in Write, Save(w)
       PROVE  (cut => cut') /\ \A g \in Legacy : Good(g)' => Good(g)
  BY <1>13, <1>0 DEF Save, Commit
<1>14. ASSUME NEW k \in DOMAIN status, RunOnline(k)
       PROVE  (cut => cut') /\ \A g \in Legacy : Good(g)' => Good(g)
  BY <1>14, <1>0 DEF RunOnline, files, handle
<1>15. CASE SecondServer
  BY <1>15, <1>0 DEF SecondServer, handle
<1>16. CASE Crash
  BY <1>16, <1>0 DEF Crash, files
<1>17. CASE CompactCmd
  BY <1>17, <1>0 DEF CompactCmd, files, handle
<1>18. ASSUME NEW k \in DOMAIN copies, BackupCmd(k)
       PROVE  (cut => cut') /\ \A g \in Legacy : Good(g)' => Good(g)
  BY <1>18, <1>0 DEF BackupCmd, Rewrite, handle
<1>19. CASE RekeyCmd
  BY <1>19, <1>0 DEF RekeyCmd, Rewrite, handle
<1>20. ASSUME NEW k \in DOMAIN copies, Written(k)
       PROVE  (cut => cut') /\ \A g \in Legacy : Good(g)' => Good(g)
  BY <1>20, <1>0 DEF Written, handle, ghosts
<1>21. CASE RestoreCmd
  BY <1>21, <1>0 DEF RestoreCmd, handle
<1>22. CASE RestoreKeyCmd
  BY <1>22, <1>0 DEF RestoreKeyCmd, files, handle
<1>23. CASE Restored
  BY <1>23, <1>0 DEF Restored, handle
<1>24. CASE Interrupt
  BY <1>24, <1>0 DEF Interrupt, handle
<1>25. CASE UNCHANGED vars
  BY <1>25, <1>0 DEF vars, files, handle, ghosts
<1>26. QED BY <1>1, <1>2, <1>3, <1>4, <1>5, <1>6, <1>7, <1>8, <1>9, <1>10, <1>11, <1>12,
       <1>13, <1>14, <1>15, <1>16, <1>17, <1>18, <1>19, <1>20, <1>21, <1>22, <1>23, <1>24, <1>25
       DEF Next, Boot, Run, Ctl

\* As long as a JSON file waits, no other file is given data.
LEMMA CleanStep ==
  ASSUME Sound, Sound', Waiting, Clean, Pending, Pending', ~cut, ~cut', [Next]_vars
  PROVE  Clean'
<1> USE DEF Clean, Proc, Legacy, Writing, InBak, Quiet
<1>0. /\ pc \in [Proc -> Step] /\ tmp \in [Proc -> File] /\ copies \in [{"plain", "key"} -> File]
      /\ ts \in [Proc -> 0 .. now] /\ ~HasData(Missing) /\ ~HasData(Blank) /\ ~HasData(Torn)
      /\ open = "none" <=> pc["server"] \in Quiet
  BY NoData DEF Sound, PcOK, FileOK, ClockOK, OpenOK, Quiet
<1>1. ASSUME NEW p \in Proc, CompactBegin(p) PROVE Clean'
  BY <1>1, <1>0 DEF CompactBegin, files, handle, Go, At, Finished, Compact, Locked
<1>2. ASSUME NEW p \in Proc, CompactMove(p) PROVE Clean'
  <2>1. /\ copies' = copies /\ gone' = gone /\ pc'["server"] \notin {"tenant", "up"}
        /\ p = "ctl" => pc'["server"] = pc["server"]
        /\ p = "server" => pc["server"] \notin Writing
        /\ \A q \in Proc : tmp'[q] = tmp[q] \/ tmp'[q] = Missing
        /\ ts[p] \notin DOMAIN bak
    BY <1>2, <1>0 DEF CompactMove, Go, At, Finished, Sound, ClockOK
  <2>2. CASE UNCHANGED <<db, bak, open, openAt>>
    BY <1>0, <2>1, <2>2
  <2>3. CASE /\ bak' = [t \in DOMAIN bak \cup {ts[p]} |-> IF t = ts[p] THEN db ELSE bak[t]]
             /\ db' = Missing
             /\ IF open = "db" THEN open' = "bak" /\ openAt' = ts[p] ELSE UNCHANGED <<open, openAt>>
    <3>1. \A t \in DOMAIN bak : t # ts[p] /\ bak'[t] = bak[t]
      BY <2>1, <2>3
    <3>2. DOMAIN bak' = DOMAIN bak \cup {ts[p]} /\ bak'[ts[p]] = db
      BY <2>3
    <3>3. CASE open = "db"
      <4>1. /\ \A t \in DOMAIN bak : ~HasData(bak[t])
            /\ HasData(db) => pc["server"] \in Writing
        BY <3>3
      <4>2. QED BY <1>0, <2>1, <2>3, <3>1, <3>2, <3>3, <4>1
    <3>4. CASE open # "db"
      BY <1>0, <2>1, <2>3, <3>1, <3>2, <3>4
    <3>5. QED BY <3>3, <3>4
  <2>4. QED BY <1>2, <2>2, <2>3 DEF CompactMove, Locked
<1>3. ASSUME NEW p \in Proc, CompactSwap(p) PROVE Clean'
  BY <1>3, <1>0 DEF CompactSwap, Replace, Locked, Go, At, Finished
<1>4. ASSUME NEW c \in BOOLEAN, Start(c) PROVE Clean'
  BY <1>4, <1>0 DEF Start, files, handle, Go, At
<1>5. CASE BackupRead
  BY <1>5, <1>0 DEF BackupRead, handle, Go, At
<1>6. CASE BackupWrite
  BY <1>6, <1>0 DEF BackupWrite, handle, Go, At
<1>7. CASE Rotate
  <2>1. /\ bak' = rotateBackups(bak) /\ UNCHANGED <<db, copies, tmp, open, openAt, gone>>
        /\ pc'["server"] = "open" /\ pc["server"] = "rotate"
    BY <1>7, <1>0 DEF Rotate, handle, Go, At
  <2>2. \A t \in DOMAIN bak' : t \in DOMAIN bak /\ bak'[t] = bak[t]
    BY <2>1, RotateFacts
  <2>3. QED BY <2>1, <2>2
<1>8. CASE Open
  <2>1. /\ UNCHANGED <<bak, copies, tmp, openAt, gone>> /\ pc["server"] = "open" /\ open = "none"
        /\ db' = db \/ db' = Opened(db)
        /\ ~Damaged(db) \/ ~(open' = "db")
    BY <1>8, <1>0 DEF Open, Go, At
  <2>2. ~HasData(db') /\ (~Damaged(db) => ~Damaged(db'))
    BY <2>1, NoData, OpenedFacts DEF Opened, Sound, BakOK
  <2>3. pc'["server"] \in {"migrate", "down"} /\ open' \in {"none", "db"}
    BY <1>8, <2>1, <2>2, OpenEffect DEF Sound
  <2>4. QED BY <2>1, <2>2, <2>3
<1>9. CASE MigrateLoad
  <2>1. /\ UNCHANGED <<db, bak, copies, tmp, open, openAt, gone>> /\ pc["server"] = "migrate"
        /\ pc'["server"] \in {"blocks", "routes", "tenant"}
    BY <1>9, <1>0 DEF MigrateLoad, files, handle, Go, At, NextFile
  <2>2. pc'["server"] # "tenant"
    <3>1. PICK f \in Legacy : Good(f)
      BY DEF Pending
    <3>2. Loaded("blocks") \/ Loaded("routes")
      BY <3>1 DEF Good, Loaded
    <3>3. QED BY <1>9, <1>0, <3>2 DEF MigrateLoad, Go, NextFile
  <2>3. QED BY <2>1, <2>2
<1>10. ASSUME NEW f \in Legacy, MigrateWrite(f) PROVE Clean'
  BY <1>10, <1>0 DEF MigrateWrite, Commit, NoCommit, Go, At
<1>11. ASSUME NEW f \in Legacy, MigrateRename(f) PROVE Clean'
  <2>1. /\ UNCHANGED <<db, bak, copies, tmp, open, openAt, gone>>
        /\ pc["server"] = IF f = "blocks" THEN "blocks done" ELSE "routes done"
        /\ pc'["server"] = NextFile(f) /\ legacy' = [legacy EXCEPT ![f].named = FALSE]
    BY <1>11, <1>0 DEF MigrateRename, handle, Go, At
  <2>2. PICK g \in Legacy : Good(g)'
    BY DEF Pending
  <2>3. Good(g) /\ g # f
    <3>1. ~legacy'[f].named
      BY <2>1 DEF Sound, FileOK
    <3>2. g # f
      BY <2>2, <3>1 DEF Good, InPlace
    <3>3. QED BY <1>11, <2>2, <3>2, WaitsLess
  <2>4. f = "blocks" /\ g = "routes"
    BY <2>1, <2>3 DEF Waiting
  <2>5. Loaded("routes")
    BY <2>3, <2>4 DEF Good, Loaded
  <2>6. pc'["server"] = "routes"
    BY <2>1, <2>4, <2>5 DEF NextFile
  <2>7. QED BY <2>1, <2>6, <2>4
<1>12. CASE LoadTenant
  BY <1>12, <1>0 DEF LoadTenant, Commit, NoCommit, Go, At
<1>13. ASSUME NEW w \in Write, Save(w) PROVE Clean'
  BY <1>13, <1>0 DEF Save, Commit, At
<1>14. ASSUME NEW k \in DOMAIN status, RunOnline(k) PROVE Clean'
  BY <1>14, <1>0 DEF RunOnline, files, handle, At
<1>15. CASE SecondServer
  BY <1>15, <1>0 DEF SecondServer, handle, At
<1>16. CASE Crash
  BY <1>16, <1>0 DEF Crash, files, Go, At
<1>17. CASE CompactCmd
  BY <1>17, <1>0 DEF CompactCmd, files, handle, Go, At
<1>18. ASSUME NEW k \in DOMAIN copies, BackupCmd(k) PROVE Clean'
  BY <1>18, <1>0 DEF BackupCmd, Rewrite, handle, Go, At, Compact, Locked
<1>19. CASE RekeyCmd
  BY <1>19, <1>0 DEF RekeyCmd, Rewrite, handle, Go, At
<1>20. ASSUME NEW k \in DOMAIN copies, Written(k) PROVE Clean'
  BY <1>20, <1>0 DEF Written, handle, ghosts, Go, At
<1>21. CASE RestoreCmd
  BY <1>21, <1>0 DEF RestoreCmd, handle, Go, At
<1>22. CASE RestoreKeyCmd
  BY <1>22, <1>0 DEF RestoreKeyCmd, files, handle, Go, At
<1>23. CASE Restored
  BY <1>23, <1>0 DEF Restored, handle, Go, At
<1>24. CASE Interrupt
  <2>1. /\ UNCHANGED <<bak, open, openAt, gone>> /\ tmp' = [tmp EXCEPT !["ctl"] = Missing]
        /\ pc'["server"] = pc["server"]
    BY <1>24, <1>0 DEF Interrupt, handle, Go
  <2>2. db' = db \/ ~HasData(db')
    BY <1>24, <1>0 DEF Interrupt, Partial
  <2>3. PICK a \in PartialCopy("plain"), b \in PartialCopy("key") :
          copies' = [copies EXCEPT !["plain"] = a, !["key"] = b]
    BY <1>24 DEF Interrupt
  <2>4. ~HasData(a) /\ ~HasData(b)
    BY <1>0, <2>3 DEF PartialCopy
  <2>5. QED BY <1>0, <2>1, <2>2, <2>3, <2>4
<1>25. CASE UNCHANGED vars
  BY <1>25, <1>0 DEF vars, files, handle, ghosts, At
<1>26. QED BY <1>1, <1>2, <1>3, <1>4, <1>5, <1>6, <1>7, <1>8, <1>9, <1>10, <1>11, <1>12,
       <1>13, <1>14, <1>15, <1>16, <1>17, <1>18, <1>19, <1>20, <1>21, <1>22, <1>23, <1>24, <1>25
       DEF Next, Boot, Run, Ctl

\* The server comes to the routes from MigrateLoad or from the blocks.
LEMMA RoutesFrom ==
  ASSUME Sound, [Next]_vars, pc'["server"] \in {"routes", "routes done"}
  PROVE  \/ pc["server"] \in {"routes", "routes done"} \/ MigrateLoad
         \/ \E f \in Legacy : MigrateRename(f)
<1> USE DEF Proc, Legacy
<1>0. pc \in [Proc -> Step]
  BY DEF Sound, PcOK
<1>1. ASSUME NEW p \in Proc, CompactBegin(p) PROVE pc["server"] \in {"routes", "routes done"}
  BY <1>1, <1>0 DEF CompactBegin, files, handle, Go, At, Finished
<1>2. ASSUME NEW p \in Proc, CompactMove(p) PROVE pc["server"] \in {"routes", "routes done"}
  BY <1>2, <1>0 DEF CompactMove, Go, At, Finished
<1>3. ASSUME NEW p \in Proc, CompactSwap(p) PROVE pc["server"] \in {"routes", "routes done"}
  BY <1>3, <1>0 DEF CompactSwap, Replace, Locked, Go, At, Finished
<1>4. ASSUME NEW c \in BOOLEAN, Start(c) PROVE pc["server"] \in {"routes", "routes done"}
  BY <1>4, <1>0 DEF Start, files, handle, Go, At
<1>5. CASE BackupRead
  BY <1>5, <1>0 DEF BackupRead, handle, Go, At
<1>6. CASE BackupWrite
  BY <1>6, <1>0 DEF BackupWrite, handle, Go, At
<1>7. CASE Rotate
  BY <1>7, <1>0 DEF Rotate, handle, ghosts, Go, At
<1>8. CASE Open
  BY <1>8, <1>0 DEF Open, ghosts, Go, At
<1>9. CASE MigrateLoad
  BY <1>9
<1>10. ASSUME NEW f \in Legacy, MigrateWrite(f) PROVE pc["server"] \in {"routes", "routes done"}
  BY <1>10, <1>0 DEF MigrateWrite, Commit, NoCommit, Go, At
<1>12. CASE LoadTenant
  BY <1>12, <1>0 DEF LoadTenant, Commit, NoCommit, Go, At
<1>13. ASSUME NEW w \in Write, Save(w) PROVE pc["server"] \in {"routes", "routes done"}
  BY <1>13, <1>0 DEF Save, Commit, At
<1>14. ASSUME NEW k \in DOMAIN status, RunOnline(k)
       PROVE  pc["server"] \in {"routes", "routes done"}
  BY <1>14, <1>0 DEF RunOnline, files, handle, At
<1>15. CASE SecondServer
  BY <1>15, <1>0 DEF SecondServer, handle, At
<1>16. CASE Crash
  BY <1>16, <1>0 DEF Crash, files, Go, At
<1>17. CASE CompactCmd
  BY <1>17, <1>0 DEF CompactCmd, files, handle, Go, At
<1>18. ASSUME NEW k \in DOMAIN copies, BackupCmd(k)
       PROVE  pc["server"] \in {"routes", "routes done"}
  BY <1>18, <1>0 DEF BackupCmd, Rewrite, handle, Go, At
<1>19. CASE RekeyCmd
  BY <1>19, <1>0 DEF RekeyCmd, Rewrite, handle, Go, At
<1>20. ASSUME NEW k \in DOMAIN copies, Written(k)
       PROVE  pc["server"] \in {"routes", "routes done"}
  BY <1>20, <1>0 DEF Written, handle, ghosts, Go, At
<1>21. CASE RestoreCmd
  BY <1>21, <1>0 DEF RestoreCmd, handle, Go, At
<1>22. CASE RestoreKeyCmd
  BY <1>22, <1>0 DEF RestoreKeyCmd, files, handle, Go, At
<1>23. CASE Restored
  BY <1>23, <1>0 DEF Restored, handle, Go, At
<1>24. CASE Interrupt
  BY <1>24, <1>0 DEF Interrupt, handle, Go, At
<1>25. CASE UNCHANGED vars
  BY <1>25, <1>0 DEF vars, files, handle, ghosts, At
<1>26. QED BY <1>1, <1>2, <1>3, <1>4, <1>5, <1>6, <1>7, <1>8, <1>9, <1>10, <1>12, <1>13,
       <1>14, <1>15, <1>16, <1>17, <1>18, <1>19, <1>20, <1>21, <1>22, <1>23, <1>24, <1>25
       DEF Next, Boot, Run, Ctl

\* The routes are migrated after the blocks.
LEMMA RoutesLast ==
  ASSUME Sound, Waiting, ~cut', [Next]_vars, pc'["server"] \in {"routes", "routes done"}
  PROVE  ~Good("blocks")'
<1>0. /\ pc \in [Proc -> Step] /\ legacy \in [Legacy -> [body : Body, named : BOOLEAN]]
      /\ "blocks" \in Legacy
  BY DEF Sound, PcOK, FileOK, Legacy
<1>1. ~cut /\ (Good("blocks")' => Good("blocks"))
  BY <1>0, WaitsLess
<1>2. CASE pc["server"] \in {"routes", "routes done"}
  BY <1>1, <1>2 DEF Waiting
<1>3. CASE MigrateLoad
  <2>1. ~Loaded("blocks")
    BY <1>0, <1>3 DEF MigrateLoad, Go, Proc
  <2>2. QED BY <1>1, <2>1 DEF Loaded, Good
<1>4. ASSUME NEW f \in Legacy, MigrateRename(f) PROVE ~Good("blocks")'
  <2>1. /\ legacy' = [legacy EXCEPT ![f].named = FALSE] /\ pc'["server"] = NextFile(f)
    BY <1>0, <1>4 DEF MigrateRename, Go, Proc
  <2>2. f = "blocks"
    BY <2>1 DEF NextFile
  <2>3. ~legacy'["blocks"].named
    BY <1>0, <2>1, <2>2
  <2>4. QED BY <2>3 DEF Good, InPlace
<1>5. QED BY <1>2, <1>3, <1>4, RoutesFrom

\* As long as a JSON file waits, nothing else has data.
LEMMA WaitingStep == ASSUME Sound, Sound', Waiting, [Next]_vars PROVE Waiting'
<1>1. ASSUME ~cut', Pending' PROVE Clean'
  <2>1. ~cut /\ Pending
    BY <1>1, WaitsLess DEF Pending
  <2>2. QED BY <1>1, <2>1, CleanStep DEF Waiting
<1>2. QED BY <1>1, RoutesLast DEF Waiting

-----------------------------------------------------------------------------
(* The theorems. *)

Inv == Sound /\ Honest /\ Kept /\ Accounted /\ Movable /\ Renamed /\ Stored /\ Waiting

\* At first there is the database, if any, and the JSON files beside it.
LEMMA InitInv == Init => Inv
<1> SUFFICES ASSUME Init PROVE Inv
  OBVIOUS
<1>1. PICK s \in Scenarios :
        /\ db = s.db /\ ever = Items(s.db) /\ cut = HasData(s.db)
        /\ legacy = [f \in Legacy |-> [body |-> s.legacy[f], named |-> TRUE]]
  BY DEF Init
<1>2. /\ bak = [t \in {} |-> {}] /\ copies = [k \in {"plain", "key"} |-> Missing]
      /\ pc = [p \in Proc |-> "down"] /\ tmp = [p \in Proc |-> Missing]
      /\ open = "none" /\ gone = Missing /\ holder = [i \in Item |-> 0]
      /\ dropped = {} /\ aside = {} /\ base = {} /\ stray = {}
  BY DEF Init
<1>3. Sound
  BY InitSound
<1>4. Honest
  BY <1>1, <1>2, FileFacts DEF Honest, Items, Proc
<1>5. db \in File /\ ever = Items(db)
  BY <1>1, <1>3 DEF Sound, BakOK
<1>6. Kept
  BY <1>2, <1>5 DEF Kept, Items, At, Proc
<1>7. Accounted /\ Movable /\ Renamed
  BY <1>2, <1>5 DEF Accounted, Movable, Renamed, Live, Items, At, Proc
<1>8. Stored
  BY <1>1, <1>2 DEF Stored, MigratedIsStored, At, Proc
<1>9. Waiting
  BY <1>1, <1>2, NoData DEF Waiting, Clean, Proc, Writing
<1>10. QED BY <1>3, <1>4, <1>6, <1>7, <1>8, <1>9 DEF Inv

\* All the parts together are inductive.
LEMMA InvStep == ASSUME Inv, [Next]_vars PROVE Inv'
<1>1. Sound'
  BY SoundStep DEF Inv
<1>2. Honest' /\ Kept'
  BY HonestStep, KeptStep DEF Inv, Sound
<1>3. Accounted' /\ Movable' /\ Renamed'
  BY <1>1, AccountedStep, MovableStep, RenamedStep DEF Inv
<1>4. Stored' /\ Waiting'
  BY <1>1, StoredStep, WaitingStep DEF Inv
<1>5. QED BY <1>1, <1>2, <1>3, <1>4 DEF Inv

\* The parts of the invariant are enough.
LEMMA InvImplies == ASSUME Inv PROVE DataKept /\ MigrationIsSound
<1>1. ServesAcked
  BY DEF Inv, Kept, ServesAcked
<1>2. ASSUME NEW i \in Live
      PROVE  \/ i \in Items(db)
             \/ \E t \in DOMAIN bak : i \in Items(bak[t])
             \/ /\ Retention > 0 /\ holder[i] > 0
                /\ Cardinality({t \in made : t > holder[i]}) >= Retention
  <2>1. i \in Item
    BY DEF Inv, Sound, FileOK, Live
  <2>2. i \in db \/ Saved(i)
    BY DEF Inv, Accounted
  <2>3. i \in db => i \in Items(db)
    BY <2>1 DEF Items
  <2>4. InHolder(i) => \E t \in DOMAIN bak : i \in Items(bak[t])
    BY <2>1 DEF InHolder, Items
  <2>5. QED BY <2>2, <2>3, <2>4 DEF Saved, Rotated
<1>3. LostOnlyToRetention
  BY <1>2 DEF LostOnlyToRetention, Live
<1>4. MigratedIsStored
  BY DEF Inv, Stored
<1>5. ASSUME At("server", "up"), ~cut, NEW f \in Legacy, InPlace(f)
      PROVE  legacy[f].body # "good"
  <2>1. ~Clean
    BY <1>5 DEF Clean, At
  <2>2. ~Pending
    BY <1>5, <2>1 DEF Inv, Waiting
  <2>3. QED BY <1>5, <2>2 DEF Pending, Good
<1>6. MigratedUnlessCut
  BY <1>5 DEF MigratedUnlessCut
<1>7. QED BY <1>1, <1>3, <1>4, <1>6 DEF DataKept, MigrationIsSound

\* The parts hold together in every state.
THEOREM InvAlways == Spec => []Inv
<1>1. Init => Inv
  BY InitInv
<1>2. Inv /\ [Next]_vars => Inv'
  BY InvStep
<1>3. QED BY <1>1, <1>2, PTL DEF Spec

\* Committed data is served, or is in a .bak file until retention rotates it away, however
\* starts, compactions, backups, restores and crashes of the two processes interleave.
THEOREM DataKeptAlways == Spec => []DataKept
<1>1. Inv => DataKept
  BY InvImplies
<1>2. QED BY <1>1, InvAlways, PTL

\* A JSON file of an older version is renamed only after its content is stored, and is
\* left in place only if its migration was cut short.
THEOREM MigrationIsSoundAlways == Spec => []MigrationIsSound
<1>1. Inv => MigrationIsSound
  BY InvImplies
<1>2. QED BY <1>1, InvAlways, PTL
=============================================================================
