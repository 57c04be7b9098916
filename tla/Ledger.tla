------------------------------- MODULE Ledger -------------------------------
(***************************************************************************)
(* The tenants' blockchains: pkg/blockchain, the cache of tenants in       *)
(* cmd/spectral-cloud/tenant.go, the blocks key of pkg/store, and the      *)
(* handlers /blockchain/add, /blockchain/import and DELETE /admin/tenants. *)
(*                                                                         *)
(* A handler works on the chain object it got from getTenant and holds no  *)
(* lock between its steps: check the quota, append, sign, take a snapshot, *)
(* write the snapshot.  Only the single calls are atomic (bc.mu, tm.mu and *)
(* one BoltDB transaction).                                                *)
(***************************************************************************)
EXTENDS Integers, Sequences, FiniteSets

CONSTANTS
  Tenant,
  Handler,       \* request goroutines
  NoBucket,      \* the tenant's bucket does not exist
  NoHash,        \* PreviousHash of a genesis block
  Kinds,         \* the kinds of request made for each tenant
  Damageable,    \* the tenants whose blocks may be damaged on disk
  Quota,         \* TENANT_MAX_BLOCKS, 0 when there is no limit
  Signing,       \* is a block signing key configured?
  ImportLen,     \* number of blocks in an imported file
  Flaky,         \* the tenants whose writes may fail
  MaxOp,         \* bound on requests
  MaxCrash,      \* bound on restarts
  MaxCorrupt     \* bound on blocks damaged on disk

HashValue == Int \X Int
BlockType == [index : Nat, tx : Int, hash : HashValue,
              prev : HashValue \cup {NoHash}, signed : BOOLEAN]

RequestKind == {"read", "add", "import", "delete"}

ASSUME LedgerAssumption ==
  /\ Kinds \in [Tenant -> SUBSET RequestKind] /\ Damageable \subseteq Tenant
  /\ NoBucket \notin Tenant /\ NoBucket \notin Seq(BlockType) /\ IsFiniteSet(Handler)
  /\ Quota \in Nat /\ ImportLen \in Nat \ {0}
  /\ Signing \in BOOLEAN /\ Flaky \subseteq Tenant
  /\ MaxOp \in Nat /\ MaxCrash \in Nat /\ MaxCorrupt \in Nat

VARIABLES
  chain,    \* the Blockchain objects, named by the request that created them
  cached,   \* tm.tenants: the object of each tenant, 0 when there is none
  bucket,   \* the stored blocks of each tenant; <<>> when the key is missing
  lock,     \* tm.mu: the handler that is loading a tenant, if any
  pc,       \* what each handler does next
  req,      \* its request, with the chain object it works on
  data,     \* the blocks it read from the store, or its snapshot
  ops,      \* requests so far; their numbers stand for their transactions
  \* for the properties only, sets of <<tenant, number>> of requests:
  acked,     \* adds answered 201
  missed,    \* missed[h]: stored by others while h holds a copy of the chain
  overtaken, \* of these, no longer stored since h has written its copy
  lost,      \* overtaken when the server died
  crashes, corrupted

saves == <<missed, overtaken, lost>>

vars == <<chain, cached, bucket, lock, pc, req, data, ops, acked, missed, overtaken,
          lost, crashes, corrupted>>

Obj == 1..MaxOp

-----------------------------------------------------------------------------
(* Blocks.  The hash covers index, time and transactions, not the previous  *)
(* hash; the number of a request stands for its time and transactions.      *)

Block(i, tx, prev) ==
  [index |-> i, tx |-> tx, hash |-> <<i, tx>>, prev |-> prev, signed |-> FALSE]

\* createGenesisBlock, called for object n.
Genesis(n) == Block(0, 0 - n, NoHash)

Verify(b) == b.hash = <<b.index, b.tx>>

\* VerifyChain
VerifyChain(s) ==
  \A i \in 1..Len(s) : Verify(s[i]) /\ (i > 1 => s[i].prev = s[i-1].hash)

\* filterValidBlocks keeps the first n blocks of s.
Kept(s, i) ==
  Verify(s[i]) /\ (s[i].index > 0 => i > 1 /\ s[i].prev = s[i-1].hash)
FilterKeeps(s, n) ==
  /\ \A i \in 1..n : Kept(s, i)
  /\ n < Len(s) => ~Kept(s, n + 1)

\* Mutation of AddBlock: the link is made to the genesis block.
AddBlockUnlinked(s, tx) == Append(s, Block(s[Len(s)].index + 1, tx, s[1].hash))

AddBlock(s, tx) == Append(s, Block(s[Len(s)].index + 1, tx, s[Len(s)].hash))

HasTx(s, n) == \E i \in 1..Len(s) : s[i].tx = n

-----------------------------------------------------------------------------
NoReq == [kind |-> "read", tenant |-> NoBucket, n |-> 0, obj |-> 0,
          at |-> 0, todo |-> 0]

Init ==
  /\ chain = [o \in Obj |-> <<>>]
  /\ cached = [t \in Tenant |-> 0]
  /\ bucket = [t \in Tenant |-> NoBucket]
  /\ lock = {}
  /\ pc = [h \in Handler |-> "idle"]
  /\ req = [h \in Handler |-> NoReq]
  /\ data = [h \in Handler |-> <<>>]
  /\ ops = 0 /\ acked = {}
  /\ missed = [h \in Handler |-> {}] /\ overtaken = {} /\ lost = {}
  /\ crashes = 0 /\ corrupted = 0

\* A request arrives; its tenant comes from the API key.
Start(h, k, t) ==
  /\ pc[h] = "idle" /\ ops < MaxOp
  /\ ops' = ops + 1
  /\ req' = [req EXCEPT ![h] = [NoReq EXCEPT !.kind = k, !.tenant = t, !.n = ops + 1]]
  /\ pc' = [pc EXCEPT ![h] = IF k = "delete" THEN "bucket" ELSE "lookup"]
  /\ UNCHANGED <<chain, cached, bucket, lock, data, acked, saves, crashes, corrupted>>

\* The handler ends.  What it kept on its stack is dropped.
Done(h) ==
  /\ pc' = [pc EXCEPT ![h] = "idle"]
  /\ req' = [req EXCEPT ![h] = NoReq]
  /\ data' = [data EXCEPT ![h] = <<>>]

\* getTenant returns object o: what the handler does with it.
After(k) == CASE k = "add" -> "check" [] k = "import" -> "height"
              [] OTHER -> "read"
Got(h, o) ==
  /\ pc' = [pc EXCEPT ![h] = After(req[h].kind)]
  /\ req' = [req EXCEPT ![h].obj = o]
  /\ data' = [data EXCEPT ![h] = <<>>]

-----------------------------------------------------------------------------
(* getTenant *)

\* Mutation of Lookup: after a miss the read lock is not released.
LookupKeepsLock(h) ==
  LET o == cached[req[h].tenant] IN
  /\ pc[h] = "lookup" /\ lock = {}
  /\ \/ o # 0 /\ Got(h, o) /\ UNCHANGED lock
     \/ /\ o = 0 /\ lock' = {h}
        /\ pc' = [pc EXCEPT ![h] = "load"] /\ UNCHANGED <<req, data>>
  /\ UNCHANGED <<chain, cached, bucket, ops, acked, saves, crashes, corrupted>>

\* The first look, under the read lock.
Lookup(h) ==
  LET o == cached[req[h].tenant] IN
  /\ pc[h] = "lookup" /\ lock = {}
  /\ \/ o # 0 /\ Got(h, o)
     \/ o = 0 /\ pc' = [pc EXCEPT ![h] = "load"] /\ UNCHANGED <<req, data>>
  /\ UNCHANGED <<chain, cached, bucket, lock, ops, acked, saves, crashes, corrupted>>

\* Under the write lock: another handler has loaded the tenant meanwhile.
Relook(h) ==
  LET o == cached[req[h].tenant] IN
  /\ pc[h] = "load" /\ lock = {} /\ o # 0
  /\ Got(h, o)
  /\ UNCHANGED <<chain, cached, bucket, lock, ops, acked, saves, crashes, corrupted>>

\* Mutation of MustLoad: the second look is left out.
LoadAlways(h) == TRUE

\* The second look has failed too ...
MustLoad(h) == cached[req[h].tenant] = 0

\* ... so create the bucket if need be, and read the blocks.
LoadBegin(h) ==
  LET t == req[h].tenant
      s == IF bucket[t] = NoBucket THEN <<>> ELSE bucket[t]
  IN
  /\ pc[h] = "load" /\ lock = {} /\ MustLoad(h)
  /\ \/ /\ bucket' = [bucket EXCEPT ![t] = s]
        /\ data' = [data EXCEPT ![h] = s]
        /\ lock' = {h}
        /\ pc' = [pc EXCEPT ![h] = "store"]
        /\ UNCHANGED req
     \/ t \in Flaky /\ Done(h) /\ UNCHANGED <<bucket, lock>>
  /\ UNCHANGED <<chain, cached, ops, acked, saves, crashes, corrupted>>

\* Keep the valid blocks, or start with a genesis block; write back what
\* differs from the store; publish the object.  A failed write ends in a 500.
LoadEnd(h) ==
  LET t == req[h].tenant
      o == req[h].n
      s == data[h]
  IN
  /\ pc[h] = "store"
  /\ \E n \in 0..Len(s) :
       /\ FilterKeeps(s, n)
       /\ \/ /\ chain' = [chain EXCEPT ![o] =
                  IF n = 0 THEN <<Genesis(o)>> ELSE SubSeq(s, 1, n)]
             /\ bucket' = IF s = <<>> THEN [bucket EXCEPT ![t] = <<Genesis(o)>>]
                          ELSE IF n # Len(s) THEN [bucket EXCEPT ![t] = SubSeq(s, 1, n)]
                          ELSE bucket
             /\ cached' = [cached EXCEPT ![t] = o]
             /\ Got(h, o)
          \/ /\ t \in Flaky /\ (s = <<>> \/ n # Len(s))
             /\ Done(h)
             /\ UNCHANGED <<chain, bucket, cached>>
  /\ lock' = {}
  /\ UNCHANGED <<ops, acked, saves, crashes, corrupted>>

\* Any other handler, the gauge ticker included: it only reads the chain.
Read(h) ==
  /\ pc[h] = "read"
  /\ Done(h)
  /\ UNCHANGED <<chain, cached, bucket, lock, ops, acked, saves, crashes, corrupted>>

-----------------------------------------------------------------------------
(* /blockchain/add and /blockchain/import *)

\* Mutation of QuotaReached: the limit is never reached.
QuotaIgnored(s) == FALSE

QuotaReached(s) == Quota > 0 /\ Len(s) >= Quota

\* 429 at the limit; otherwise the body is read, and validated.
Check(h) ==
  /\ pc[h] = "check"
  /\ \/ QuotaReached(chain[req[h].obj]) /\ Done(h)
     \/ /\ ~QuotaReached(chain[req[h].obj])
        /\ pc' = [pc EXCEPT ![h] = "append"]
        /\ UNCHANGED <<req, data>>
  /\ UNCHANGED <<chain, cached, bucket, lock, ops, acked, saves, crashes, corrupted>>

\* import: how many blocks of the file lie beyond the current height.
Height(h) ==
  LET new == ImportLen - Len(chain[req[h].obj]) IN
  /\ pc[h] = "height"
  /\ \/ new <= 0 /\ Done(h)
     \/ /\ new > 0
        /\ req' = [req EXCEPT ![h].todo = new]
        /\ pc' = [pc EXCEPT ![h] = "append"]
        /\ UNCHANGED data
  /\ UNCHANGED <<chain, cached, bucket, lock, ops, acked, saves, crashes, corrupted>>

\* AddBlock, under bc.mu.  An import repeats it; only add signs.
AppendBlock(h) ==
  LET r == req[h] IN
  /\ pc[h] = "append"
  /\ chain' = [chain EXCEPT ![r.obj] = AddBlock(@, r.n)]
  /\ req' = [req EXCEPT ![h].at = Len(chain[r.obj]) + 1,
                        ![h].todo = IF r.todo > 0 THEN r.todo - 1 ELSE 0]
  /\ pc' = [pc EXCEPT ![h] = IF r.todo > 1 THEN "append"
                             ELSE IF r.kind = "add" /\ Signing THEN "sign"
                             ELSE "snapshot"]
  /\ UNCHANGED <<cached, bucket, lock, data, ops, acked, saves, crashes, corrupted>>

\* SignBlock writes to the block after bc.mu has been released.
SignBlock(h) ==
  /\ pc[h] = "sign"
  /\ chain' = [chain EXCEPT ![req[h].obj][req[h].at].signed = TRUE]
  /\ pc' = [pc EXCEPT ![h] = "snapshot"]
  /\ UNCHANGED <<cached, bucket, lock, req, data, ops, acked, saves, crashes, corrupted>>

\* SaveChainTenant: first a copy of the chain ...
Snapshot(h) ==
  /\ pc[h] = "snapshot"
  /\ data' = [data EXCEPT ![h] = chain[req[h].obj]]
  /\ pc' = [pc EXCEPT ![h] = "write"]
  /\ UNCHANGED <<chain, cached, bucket, lock, req, ops, acked, saves, crashes, corrupted>>

\* The requests whose blocks are in a stored chain of t.
Stored(t, s) == {<<t, s[i].tx>> : i \in DOMAIN s}

\* For the properties: what the others miss now, and what this save has overtaken.
NoteSave(h) ==
  LET new == Stored(req[h].tenant, data[h])
      copies(k) == pc[k] = "write" /\ req[k].tenant = req[h].tenant
  IN
  /\ missed' = [k \in Handler |-> IF k = h THEN {}
                                 ELSE IF copies(k) THEN missed[k] \cup new
                                 ELSE missed[k]]
  /\ overtaken' = (overtaken \cup missed[h]) \ new
  /\ UNCHANGED lost

\* ... then the transaction, which creates the bucket when it is not there.
\* add answers 500 when it fails, import ignores the error.
SaveChain(h) ==
  LET t == req[h].tenant IN
  /\ pc[h] = "write"
  /\ \/ /\ bucket' = [bucket EXCEPT ![t] = data[h]]
        /\ acked' = IF req[h].kind = "add" THEN acked \cup {<<t, req[h].n>>} ELSE acked
        /\ NoteSave(h)
     \/ /\ t \in Flaky /\ UNCHANGED <<bucket, acked, overtaken, lost>>
        /\ missed' = [missed EXCEPT ![h] = {}]
  /\ Done(h)
  /\ UNCHANGED <<chain, cached, lock, ops, crashes, corrupted>>

-----------------------------------------------------------------------------
(* DELETE /admin/tenants *)

DeleteBucket(h) ==
  LET t == req[h].tenant IN
  /\ pc[h] = "bucket"
  /\ \/ bucket[t] = NoBucket /\ Done(h) /\ UNCHANGED bucket
     \/ /\ bucket[t] # NoBucket
        /\ bucket' = [bucket EXCEPT ![t] = NoBucket]
        /\ pc' = [pc EXCEPT ![h] = "evict"]
        /\ UNCHANGED <<req, data>>
  /\ UNCHANGED <<chain, cached, lock, ops, acked, saves, crashes, corrupted>>

Evict(h) ==
  /\ pc[h] = "evict" /\ lock = {}
  /\ cached' = [cached EXCEPT ![req[h].tenant] = 0]
  /\ Done(h)
  /\ UNCHANGED <<chain, bucket, lock, ops, acked, saves, crashes, corrupted>>

-----------------------------------------------------------------------------
\* The process dies; BoltDB keeps what was committed.
Crash ==
  /\ crashes < MaxCrash
  /\ crashes' = crashes + 1
  /\ chain' = [o \in Obj |-> <<>>]
  /\ cached' = [t \in Tenant |-> 0]
  /\ lock' = {}
  /\ pc' = [h \in Handler |-> "idle"]
  /\ req' = [h \in Handler |-> NoReq]
  /\ data' = [h \in Handler |-> <<>>]
  /\ missed' = [h \in Handler |-> {}]
  /\ lost' = lost \cup overtaken
  /\ UNCHANGED <<bucket, ops, acked, overtaken, corrupted>>

\* The content of a stored block changes on disk.
Corrupt(t) ==
  /\ corrupted < MaxCorrupt
  /\ corrupted' = corrupted + 1
  /\ bucket[t] # NoBucket
  /\ \E i \in 1..Len(bucket[t]) : bucket' = [bucket EXCEPT ![t][i].tx = MaxOp + 1]
  /\ UNCHANGED <<chain, cached, lock, pc, req, data, ops, acked, saves, crashes>>

Step(h) ==
  \/ Lookup(h) \/ Relook(h) \/ LoadBegin(h) \/ LoadEnd(h) \/ Read(h)
  \/ Check(h) \/ Height(h) \/ AppendBlock(h) \/ SignBlock(h)
  \/ Snapshot(h) \/ SaveChain(h)
  \/ DeleteBucket(h) \/ Evict(h)

Next ==
  \/ \E h \in Handler : Step(h) \/ \E t \in Tenant : \E k \in Kinds[t] : Start(h, k, t)
  \/ Crash
  \/ \E t \in Damageable : Corrupt(t)

Spec == Init /\ [][Next]_vars
FairSpec == Spec /\ \A h \in Handler : WF_vars(Step(h))

-----------------------------------------------------------------------------
(* Properties *)

ReqType == [kind : RequestKind, tenant : Tenant \cup {NoBucket}, n : 0..MaxOp,
            obj : 0..MaxOp, at : Nat, todo : Nat]
PC == {"idle", "lookup", "load", "store", "read", "check", "height", "append",
       "sign", "snapshot", "write", "bucket", "evict"}

\* Every variable has its type; a block is one that a request can have made.
TypeOK ==
  /\ chain \in [Obj -> Seq(BlockType)]
  /\ cached \in [Tenant -> 0..MaxOp]
  /\ bucket \in [Tenant -> Seq(BlockType) \cup {NoBucket}]
  /\ lock \in SUBSET Handler
  /\ pc \in [Handler -> PC]
  /\ req \in [Handler -> ReqType]
  /\ data \in [Handler -> Seq(BlockType)]
  /\ ops \in 0..MaxOp
  /\ acked \in SUBSET (Tenant \X Int)
  /\ crashes \in 0..MaxCrash /\ corrupted \in 0..MaxCorrupt

\* The chain a tenant is served always passes VerifyChain and is numbered from
\* 0, whatever handlers interleave and whatever was found on disk at the load.
ServedIntact ==
  \A t \in Tenant : cached[t] # 0 =>
    /\ Len(chain[cached[t]]) > 0
    /\ VerifyChain(chain[cached[t]])
    /\ \A i \in 1..Len(chain[cached[t]]) : chain[cached[t]][i].index = i - 1

\* Nobody deletes the tenant, or damages its blocks.
Undisturbed(t) == "delete" \notin Kinds[t] /\ t \notin Damageable

\* What is stored is a beginning of what is served, so that a restart can lose
\* the last blocks but never exchanges or reorders any.  (A handler that still
\* holds the chain of a deleted tenant writes it back.)
StoredIsPrefix ==
  \A t \in Tenant : Undisturbed(t) /\ cached[t] # 0 /\ bucket[t] # NoBucket =>
    /\ Len(bucket[t]) <= Len(chain[cached[t]])
    /\ \A i \in 1..Len(bucket[t]) : bucket[t][i].hash = chain[cached[t]][i].hash

\* A block answered with 201 is in the chain the tenant is served.  It is lost only
\* if the server died after another request had put a copy of the chain into the
\* store that it had taken before the block was stored there.
AckedServed ==
  \A p \in acked \ lost :
    Undisturbed(p[1]) /\ cached[p[1]] # 0 => HasTx(chain[cached[p[1]]], p[2])

\* Concurrent adds can pass the quota, each by at most one block.  (An import does
\* not look at it.)
QuotaOvershoot ==
  Quota > 0 => \A t \in Tenant : "import" \notin Kinds[t] /\ cached[t] # 0 =>
    Len(chain[cached[t]]) < Quota + Cardinality(Handler)

\* Every request is answered: nobody waits for ever for the tenant lock.
RequestsEnd == \A h \in Handler : (pc[h] # "idle") ~> (pc[h] = "idle")

\* The chain that is served has everything: a block answered 201 is in it, but for
\* a crash after overlapping saves, and the stored chain, whichever of two overlapping
\* saves was committed last, is a beginning of it.
ServedHasAll == TypeOK /\ StoredIsPrefix /\ AckedServed
=============================================================================
