---------------------------- MODULE Ledger_proofs ----------------------------
(***************************************************************************)
(* Proofs about Ledger.  No handler holds a lock from getTenant to its     *)
(* last write, so every fact below is one that the steps of all the other  *)
(* handlers leave alone: chain objects only grow, an object is published   *)
(* under a number that nobody holds yet, and what a handler has copied     *)
(* stays a beginning of the object it was copied from.                     *)
(***************************************************************************)
EXTENDS Ledger, FiniteSetTheorems, SequenceTheorems, TLAPS

-----------------------------------------------------------------------------
(* The inductive invariants *)

Numbered(s) == \A i \in 1..Len(s) : s[i].index = i - 1
Intact(s) == VerifyChain(s) /\ Numbered(s)
Begins(s, c) == Len(s) <= Len(c) /\ \A i \in 1..Len(s) : s[i].hash = c[i].hash

Loading == {"lookup", "load", "store"}
Holding == {"read", "check", "height", "append", "sign", "snapshot", "write"}

\* A chain may grow and its blocks may be signed; nothing else happens to it.
Grows(c, d) ==
  /\ Len(c) <= Len(d)
  /\ \A i \in 1..Len(c) : d[i].hash = c[i].hash /\ d[i].tx = c[i].tx

\* A handler works for a request of its tenant, with an object once it has one.
ReqInv ==
  \A h \in Handler :
    /\ pc[h] # "idle" => /\ req[h].n \in 1..ops /\ req[h].tenant \in Tenant
                         /\ req[h].kind \in Kinds[req[h].tenant]
    /\ pc[h] \in {"bucket", "evict"} => req[h].kind = "delete"
    /\ IF pc[h] \in Holding THEN req[h].obj \in Obj ELSE req[h].obj = 0

\* Requests have numbers of their own; an object that is being loaded is known
\* to nobody yet; a tenant is loaded by the holder of tm.mu.
ObjInv ==
  /\ \A t \in Tenant : cached[t] <= ops
  /\ \A h \in Handler : req[h].obj <= ops
  /\ \A g, h \in Handler : pc[g] # "idle" /\ pc[h] # "idle" /\ req[g].n = req[h].n => g = h
  /\ \A h \in Handler : pc[h] \in Loading =>
       /\ \A t \in Tenant : cached[t] # req[h].n
       /\ \A g \in Handler : req[g].obj # req[h].n
  /\ \A h \in Handler : pc[h] = "store" => lock = {h} /\ cached[req[h].tenant] = 0

\* Every object is intact, and one that is published or held is not empty.
ChainInv ==
  /\ \A o \in Obj : Intact(chain[o])
  /\ \A t \in Tenant : cached[t] # 0 => chain[cached[t]] # <<>>
  /\ \A h \in Handler : pc[h] \in Holding => chain[req[h].obj] # <<>>

\* Damage on disk does not touch the numbering.
NumberInv ==
  /\ \A t \in Tenant : bucket[t] # NoBucket => Numbered(bucket[t])
  /\ \A h \in Handler : Numbered(data[h])

\* A handler of an undisturbed tenant holds the chain that is served; what it has
\* copied is a beginning of that chain, which has its block; what a loader has
\* read is what is stored.
HeldInv ==
  \A h \in Handler :
    /\ pc[h] \in Holding /\ Undisturbed(req[h].tenant) => req[h].obj = cached[req[h].tenant]
    /\ pc[h] = "write" => Begins(data[h], chain[req[h].obj]) /\ Intact(data[h])
    /\ pc[h] \in {"sign", "snapshot", "write"} => HasTx(chain[req[h].obj], req[h].n)
    /\ pc[h] = "store" /\ Undisturbed(req[h].tenant) => bucket[req[h].tenant] = data[h]

\* What is stored is intact, and has every acknowledged block before a load, unless
\* it was lost.
StoredInv ==
  /\ \A t \in Tenant : Undisturbed(t) /\ bucket[t] # NoBucket => Intact(bucket[t])
  /\ \A p \in acked \ lost : Undisturbed(p[1]) /\ cached[p[1]] = 0 =>
       bucket[p[1]] # NoBucket /\ HasTx(bucket[p[1]], p[2])

\* Is the block of request p stored?
IsStored(t, x) == bucket[t] # NoBucket /\ HasTx(bucket[t], x)

\* A copy that is to be written has what was stored when it was taken, and the block of
\* the request; what was stored since then has been missed.
CopyOK(h) ==
  /\ HasTx(data[h], req[h].n)
  /\ Undisturbed(req[h].tenant) =>
       \A x \in Int : IsStored(req[h].tenant, x) =>
         HasTx(data[h], x) \/ <<req[h].tenant, x>> \in missed[h]

CopyInv ==
  /\ missed \in [Handler -> SUBSET (Tenant \X Int)]
  /\ \A h \in Handler : pc[h] = "write" => CopyOK(h)

\* A block that was answered 201 is stored, or a save has overtaken it.
OvertakenInv == \A p \in acked : Undisturbed(p[1]) => IsStored(p[1], p[2]) \/ p \in overtaken

SavedInv == HeldInv /\ StoredInv /\ StoredIsPrefix /\ AckedServed /\ CopyInv /\ OvertakenInv

\* An object belongs to one tenant.
OwnInv ==
  /\ \A t, u \in Tenant : cached[t] # 0 /\ cached[t] = cached[u] => t = u
  /\ \A t \in Tenant, h \in Handler : cached[t] # 0 /\ cached[t] = req[h].obj => req[h].tenant = t
  /\ \A g, h \in Handler : req[g].obj # 0 /\ req[g].obj = req[h].obj => req[g].tenant = req[h].tenant

\* The handlers that have passed the quota check and not yet appended.
Appending(o) == {h \in Handler : pc[h] = "append" /\ req[h].obj = o}
NoImport(t) == "import" \notin Kinds[t]
Room(s, o) == Len(s) + Cardinality(Appending(o)) < Quota + Cardinality(Handler)
Fits(s) == Len(s) < Quota + Cardinality(Handler)

QuotaInv ==
  Quota > 0 =>
  /\ \A t \in Tenant : NoImport(t) =>
       /\ cached[t] # 0 => Room(chain[cached[t]], cached[t])
       /\ bucket[t] # NoBucket => Fits(bucket[t])
  /\ \A h \in Handler : pc[h] # "idle" /\ NoImport(req[h].tenant) =>
       /\ req[h].todo = 0 /\ pc[h] # "height"
       /\ pc[h] \in Holding => Room(chain[req[h].obj], req[h].obj)
       /\ pc[h] \in {"store", "write"} => Fits(data[h])

-----------------------------------------------------------------------------
(* The operations on chains *)

\* A chain of the genesis block alone verifies.
LEMMA GenesisIntact ==
  ASSUME NEW o \in Obj
  PROVE  /\ <<Genesis(o)>> \in Seq(BlockType) /\ Len(<<Genesis(o)>>) = 1
         /\ <<Genesis(o)>> # <<>> /\ Intact(<<Genesis(o)>>)
<1>1. o \in Int /\ 0 - o \in Int
  BY LedgerAssumption DEF Obj
<1>2. Genesis(o) \in BlockType /\ Verify(Genesis(o)) /\ Genesis(o).index = 0
  BY <1>1 DEF Genesis, Block, BlockType, HashValue, Verify
<1> HIDE DEF Genesis
<1>3. QED
  BY <1>2 DEF Intact, VerifyChain, Numbered

\* AddBlock numbers and links the new block, and leaves the others alone.
LEMMA AddBlockIntact ==
  ASSUME NEW s \in Seq(BlockType), s # <<>>, Intact(s), NEW n \in Int
  PROVE  /\ AddBlock(s, n) \in Seq(BlockType) /\ Len(AddBlock(s, n)) = Len(s) + 1
         /\ AddBlock(s, n) # <<>> /\ Intact(AddBlock(s, n))
         /\ Grows(s, AddBlock(s, n)) /\ HasTx(AddBlock(s, n), n)
<1> DEFINE l == s[Len(s)]
           b == Block(l.index + 1, n, l.hash)
<1>1. Len(s) \in 1..Len(s) /\ Len(s) \in Nat
  BY EmptySeq
<1>2. l \in BlockType /\ l.index = Len(s) - 1
  BY <1>1 DEF Intact, Numbered
<1>3. /\ b \in BlockType /\ b.index = Len(s) /\ Verify(b)
      /\ b.prev = l.hash /\ b.tx = n
  BY <1>1, <1>2 DEF BlockType, HashValue, Block, Verify
<1>4. AddBlock(s, n) = Append(s, b)
  BY DEF AddBlock
<1> HIDE DEF b
<1> DEFINE d == Append(s, b)
<1>5. /\ d \in Seq(BlockType) /\ Len(d) = Len(s) + 1 /\ d # <<>>
      /\ \A i \in 1..Len(s) : d[i] = s[i]
      /\ d[Len(s) + 1] = b
  BY <1>3, AppendProperties
<1> HIDE DEF d
<1>6. Numbered(d)
  BY <1>1, <1>3, <1>5 DEF Intact, Numbered
<1>7. ASSUME NEW i \in 1..Len(d)
      PROVE  Verify(d[i]) /\ (i > 1 => d[i].prev = d[i-1].hash)
  <2>1. CASE i \in 1..Len(s)
    <3>1. i > 1 => i - 1 \in 1..Len(s)
      BY <2>1, <1>1
    <3>2. QED
      BY <2>1, <3>1, <1>5 DEF Intact, VerifyChain
  <2>2. CASE i = Len(s) + 1
    BY <2>2, <1>1, <1>3, <1>5
  <2>3. QED
    BY <2>1, <2>2, <1>1, <1>5
<1>8. HasTx(d, n)
  <2>1. Len(s) + 1 \in 1..Len(d)
    BY <1>1, <1>5
  <2>2. QED
    BY <2>1, <1>3, <1>5 DEF HasTx
<1>9. QED
  BY <1>1, <1>4, <1>5, <1>6, <1>7, <1>8 DEF Intact, VerifyChain, Grows, d

\* SignBlock touches neither hashes nor links.
LEMMA SignIntact ==
  ASSUME NEW s \in Seq(BlockType), Intact(s), NEW i \in Nat
  PROVE  LET d == [s EXCEPT ![i].signed = TRUE]
         IN  /\ d \in Seq(BlockType) /\ Len(d) = Len(s)
             /\ Intact(d) /\ Grows(s, d)
<1> DEFINE b == [s[i] EXCEPT !.signed = TRUE]
           d == [s EXCEPT ![i] = b]
<1>1. CASE i \in 1..Len(s)
  <2>1. s[i] \in BlockType
    BY <1>1
  <2>2. /\ b \in BlockType /\ b.index = s[i].index /\ b.tx = s[i].tx
        /\ b.hash = s[i].hash /\ b.prev = s[i].prev
    BY <2>1 DEF BlockType
  <2> HIDE DEF b
  <2>3. /\ d \in Seq(BlockType) /\ Len(d) = Len(s)
        /\ \A j \in 1..Len(s) : d[j] = IF j = i THEN b ELSE s[j]
    BY <1>1, <2>2, ExceptSeq
  <2> HIDE DEF d
  <2>4. \A j \in 1..Len(s) : /\ d[j].index = s[j].index /\ d[j].tx = s[j].tx
                             /\ d[j].hash = s[j].hash /\ d[j].prev = s[j].prev
    BY <2>2, <2>3
  <2>5. Numbered(d) /\ Grows(s, d)
    BY <2>3, <2>4 DEF Intact, Numbered, Grows
  <2>6. VerifyChain(d)
    <3>1. ASSUME NEW j \in 1..Len(s)
          PROVE  Verify(d[j]) /\ (j > 1 => d[j].prev = d[j-1].hash)
      <4>1. j > 1 => j - 1 \in 1..Len(s)
        OBVIOUS
      <4>2. QED
        BY <2>4, <4>1 DEF Intact, VerifyChain, Verify
    <3>2. QED
      BY <2>3, <3>1 DEF VerifyChain
  <2>7. QED
    BY <2>3, <2>5, <2>6 DEF Intact, d, b
<1>2. CASE i \notin 1..Len(s)
  <2>1. d = s
    BY <1>2
  <2> HIDE DEF d
  <2>2. d \in Seq(BlockType) /\ Len(d) = Len(s) /\ Intact(d) /\ Grows(s, d)
    BY <2>1 DEF Grows
  <2>3. QED
    BY <2>2 DEF d, b
<1>3. QED
  BY <1>1, <1>2

\* What filterValidBlocks keeps of a numbered chain is intact; it keeps all of
\* an intact one.
LEMMA FilterIntact ==
  ASSUME NEW s \in Seq(BlockType), Numbered(s), NEW n \in 0..Len(s), FilterKeeps(s, n)
  PROVE  /\ SubSeq(s, 1, n) \in Seq(BlockType) /\ Len(SubSeq(s, 1, n)) = n
         /\ \A i \in 1..n : SubSeq(s, 1, n)[i] = s[i]
         /\ Intact(SubSeq(s, 1, n))
         /\ Intact(s) => n = Len(s)
         /\ n = Len(s) => SubSeq(s, 1, n) = s
<1> DEFINE d == SubSeq(s, 1, n)
<1>1. n \in Int /\ Len(s) \in Nat /\ \A i \in 1..n : s[i] \in BlockType
  OBVIOUS
<1>2. /\ d \in Seq(BlockType) /\ Len(d) = n
      /\ \A i \in 1..n : d[i] = s[i]
  BY <1>1, SubSeqProperties
<1> HIDE DEF d
<1>3. Numbered(d)
  BY SMTT(30), <1>1, <1>2 DEF Numbered
<1>4. ASSUME NEW i \in 1..n
      PROVE  Verify(d[i]) /\ (i > 1 => d[i].prev = d[i-1].hash)
  <2>1. i \in 1..Len(s) /\ (i > 1 => i - 1 \in 1..n)
    BY <1>1
  <2>2. Kept(s, i) /\ s[i].index = i - 1
    BY <2>1 DEF FilterKeeps, Numbered
  <2>3. QED
    BY <1>1, <1>2, <2>1, <2>2 DEF Kept
<1>5. ASSUME Intact(s), n # Len(s) PROVE FALSE
  <2>1. n + 1 \in 1..Len(s) /\ (n + 1 > 1 => n \in 1..Len(s)) /\ n + 1 - 1 = n
    BY <1>1, <1>5
  <2>2. Kept(s, n + 1)
    BY <1>5, <2>1 DEF Intact, VerifyChain, Numbered, Kept
  <2>3. QED
    BY <1>1, <2>1, <2>2 DEF FilterKeeps
<1>6. n = Len(s) => d = s
  BY <1>2, SeqEqual
<1>7. QED
  BY <1>2, <1>3, <1>4, <1>5, <1>6 DEF Intact, VerifyChain, d

\* Damage to the content of a block keeps the numbering.
LEMMA CorruptNumbered ==
  ASSUME NEW s \in Seq(BlockType), NEW i \in 1..Len(s), NEW x \in Int
  PROVE  LET d == [s EXCEPT ![i].tx = x]
         IN  d \in Seq(BlockType) /\ Len(d) = Len(s) /\ (Numbered(s) => Numbered(d))
<1> DEFINE b == [s[i] EXCEPT !.tx = x]
           d == [s EXCEPT ![i] = b]
<1>1. s[i] \in BlockType
  OBVIOUS
<1>2. b \in BlockType /\ b.index = s[i].index
  BY <1>1 DEF BlockType
<1> HIDE DEF b
<1>3. /\ d \in Seq(BlockType) /\ Len(d) = Len(s)
      /\ \A j \in 1..Len(s) : d[j] = IF j = i THEN b ELSE s[j]
  BY <1>2, ExceptSeq
<1>4. QED
  BY <1>2, <1>3 DEF Numbered, b

-----------------------------------------------------------------------------
(* Types, requests and objects.  AddBlock reads the last block, so that types *)
(* already need the fact that a chain in use is not empty.                    *)

Inv == TypeOK /\ ReqInv /\ ObjInv /\ ChainInv /\ NumberInv

\* AppendBlock lets one chain grow by one block, the handler's.
LEMMA AppendEffect ==
  ASSUME Inv, NEW h \in Handler, AppendBlock(h)
  PROVE  /\ req[h].obj \in Obj /\ req[h].n \in Int
         /\ chain' \in [Obj -> Seq(BlockType)]
         /\ \A o \in Obj : /\ Intact(chain'[o]) /\ Grows(chain[o], chain'[o])
                           /\ chain[o] # <<>> => chain'[o] # <<>>
                           /\ o # req[h].obj => chain'[o] = chain[o]
         /\ Len(chain'[req[h].obj]) = Len(chain[req[h].obj]) + 1
         /\ HasTx(chain'[req[h].obj], req[h].n)
<1> DEFINE o == req[h].obj
           s == chain[o]
           n == req[h].n
<1>1. o \in Obj /\ n \in Int /\ pc[h] = "append"
  <2>1. req[h] \in ReqType /\ pc[h] = "append"
    BY DEF Inv, TypeOK, AppendBlock
  <2>2. QED
    BY <2>1, LedgerAssumption DEF Inv, ReqInv, ReqType, Holding
<1>2. s \in Seq(BlockType) /\ s # <<>> /\ Intact(s)
  BY <1>1 DEF Inv, TypeOK, ChainInv, Holding
<1>3. chain' = [chain EXCEPT ![o] = AddBlock(s, n)]
  BY DEF AppendBlock
<1> DEFINE d == AddBlock(s, n)
<1>4. /\ d \in Seq(BlockType) /\ Len(d) = Len(s) + 1
      /\ d # <<>> /\ Intact(d) /\ Grows(s, d) /\ HasTx(d, n)
  BY <1>1, <1>2, AddBlockIntact
<1> HIDE DEF d
<1>5. chain'[o] = d /\ \A p \in Obj : p # o => chain'[p] = chain[p]
  BY <1>1, <1>3 DEF Inv, TypeOK, d
<1>6. \A p \in Obj : Grows(chain[p], chain[p])
  BY DEF Inv, TypeOK, Grows
<1>7. chain' \in [Obj -> Seq(BlockType)]
  BY <1>1, <1>3, <1>4 DEF Inv, TypeOK, d
<1>8. QED
  BY <1>1, <1>4, <1>5, <1>6, <1>7 DEF Inv, ChainInv

\* SignBlock changes no hash and no link.
LEMMA SignEffect ==
  ASSUME Inv, NEW h \in Handler, SignBlock(h)
  PROVE  /\ req[h].obj \in Obj
         /\ chain' \in [Obj -> Seq(BlockType)]
         /\ \A o \in Obj : /\ Intact(chain'[o]) /\ Grows(chain[o], chain'[o])
                           /\ chain[o] # <<>> => chain'[o] # <<>>
                           /\ Len(chain'[o]) = Len(chain[o])
<1> DEFINE o == req[h].obj
           s == chain[o]
           d == [s EXCEPT ![req[h].at].signed = TRUE]
<1>1. o \in Obj /\ req[h].at \in Nat
  <2>1. req[h] \in ReqType /\ pc[h] = "sign"
    BY DEF Inv, TypeOK, SignBlock
  <2>2. QED
    BY <2>1 DEF Inv, ReqInv, ReqType, Holding
<1>2. s \in Seq(BlockType) /\ Intact(s)
  BY <1>1 DEF Inv, TypeOK, ChainInv
<1>3. chain' = [chain EXCEPT ![o] = d]
  BY DEF SignBlock
<1>4. d \in Seq(BlockType) /\ Len(d) = Len(s) /\ Intact(d) /\ Grows(s, d)
  BY <1>1, <1>2, SignIntact
<1> HIDE DEF d
<1>5. chain'[o] = d /\ \A p \in Obj : p # o => chain'[p] = chain[p]
  BY <1>1, <1>3 DEF Inv, TypeOK
<1>6. \A p \in Obj : Grows(chain[p], chain[p]) /\ chain[p] \in Seq(BlockType)
  BY DEF Inv, TypeOK, Grows
<1>7. chain' \in [Obj -> Seq(BlockType)]
  BY <1>1, <1>3, <1>4 DEF Inv, TypeOK
<1>8. s # <<>> => d # <<>>
  BY <1>2, <1>4, EmptySeq
<1>9. QED
  BY <1>1, <1>4, <1>5, <1>6, <1>7, <1>8 DEF Inv, ChainInv

\* What LoadEnd publishes under the number of its request: a chain that is
\* intact, and the one it read if that was; what it writes is a beginning of it.
Publishes(h) ==
  /\ \E c \in Seq(BlockType) :
       /\ c # <<>> /\ Intact(c)
       /\ data[h] # <<>> /\ Intact(data[h]) => c = data[h]
       /\ Len(c) <= Len(data[h]) \/ Len(c) = 1
       /\ chain' = [chain EXCEPT ![req[h].n] = c]
       /\ \/ bucket' = bucket /\ (Intact(data[h]) => c = data[h])
          \/ \E d \in Seq(BlockType) :
               /\ bucket' = [bucket EXCEPT ![req[h].tenant] = d]
               /\ Intact(d) /\ Begins(d, c)
               /\ data[h] = <<>> \/ ~Intact(data[h])
  /\ cached' = [cached EXCEPT ![req[h].tenant] = req[h].n]
  /\ Got(h, req[h].n)

\* LoadEnd publishes a chain, or fails.
LEMMA LoadEndEffect ==
  ASSUME Inv, NEW h \in Handler, LoadEnd(h)
  PROVE  /\ req[h].n \in Obj /\ req[h].tenant \in Tenant
         /\ Publishes(h) \/ (Done(h) /\ UNCHANGED <<chain, bucket, cached>>)
<1> DEFINE t == req[h].tenant
           o == req[h].n
           s == data[h]
           g == <<Genesis(o)>>
<1>1. o \in Obj /\ t \in Tenant /\ o # 0
  BY LedgerAssumption DEF Inv, ReqInv, TypeOK, LoadEnd, Obj
<1>2. s \in Seq(BlockType) /\ Numbered(s)
  BY DEF Inv, TypeOK, NumberInv
<1>3. g \in Seq(BlockType) /\ Len(g) = 1 /\ g # <<>> /\ Intact(g)
  BY <1>1, GenesisIntact
<1>4. PICK n \in 0..Len(s) :
        /\ FilterKeeps(s, n)
        /\ \/ /\ chain' = [chain EXCEPT ![o] = IF n = 0 THEN g ELSE SubSeq(s, 1, n)]
              /\ bucket' = IF s = <<>> THEN [bucket EXCEPT ![t] = g]
                           ELSE IF n # Len(s) THEN [bucket EXCEPT ![t] = SubSeq(s, 1, n)]
                           ELSE bucket
              /\ cached' = [cached EXCEPT ![t] = o]
              /\ Got(h, o)
           \/ Done(h) /\ UNCHANGED <<chain, bucket, cached>>
  BY DEF LoadEnd
<1> DEFINE k == SubSeq(s, 1, n)
           c == IF n = 0 THEN g ELSE k
<1>5. /\ k \in Seq(BlockType) /\ Len(k) = n
      /\ Intact(k) /\ (Intact(s) => n = Len(s)) /\ (n = Len(s) => k = s)
  BY <1>2, <1>4, FilterIntact
<1> HIDE DEF g, k
<1>6. n \in Nat /\ Len(s) \in Nat /\ (s # <<>> <=> Len(s) # 0)
  BY <1>2, EmptySeq
<1>7. /\ c \in Seq(BlockType) /\ c # <<>> /\ Intact(c)
      /\ Len(c) <= Len(s) \/ Len(c) = 1
      /\ s # <<>> /\ Intact(s) => c = s
  BY <1>3, <1>5, <1>6, EmptySeq
<1>8. Begins(c, c) /\ Begins(g, g)
  BY <1>3, <1>7 DEF Begins
<1>9. Begins(k, c)
  <2>1. CASE n = 0
    BY <2>1, <1>3, <1>5 DEF Begins
  <2>2. CASE n # 0
    BY <2>2, <1>8
  <2>3. QED
    BY <2>1, <2>2
<1>10. s = <<>> => c = g
  BY <1>6
<1>11. ASSUME bucket' = IF s = <<>> THEN [bucket EXCEPT ![t] = g]
                        ELSE IF n # Len(s) THEN [bucket EXCEPT ![t] = k]
                        ELSE bucket
       PROVE  \/ bucket' = bucket /\ (Intact(s) => c = s)
              \/ \E d \in Seq(BlockType) :
                   /\ bucket' = [bucket EXCEPT ![t] = d] /\ Intact(d) /\ Begins(d, c)
                   /\ s = <<>> \/ ~Intact(s)
  <2>1. CASE s = <<>>
    BY <2>1, <1>3, <1>8, <1>10, <1>11
  <2>2. CASE s # <<>> /\ n # Len(s)
    BY <2>2, <1>5, <1>9, <1>11
  <2>3. QED
    BY <2>1, <2>2, <1>7, <1>11
<1> HIDE DEF c
<1>12. \/ /\ chain' = [chain EXCEPT ![o] = c]
          /\ \/ bucket' = bucket /\ (Intact(s) => c = s)
             \/ \E d \in Seq(BlockType) :
                  /\ bucket' = [bucket EXCEPT ![t] = d] /\ Intact(d) /\ Begins(d, c)
                  /\ s = <<>> \/ ~Intact(s)
          /\ cached' = [cached EXCEPT ![t] = o]
          /\ Got(h, o)
       \/ Done(h) /\ UNCHANGED <<chain, bucket, cached>>
  BY <1>4, <1>11 DEF c, g, k
<1>13. ASSUME ~(Done(h) /\ UNCHANGED <<chain, bucket, cached>>) PROVE Publishes(h)
  <2>1. /\ c # <<>> /\ Intact(c)
        /\ s # <<>> /\ Intact(s) => c = s
        /\ Len(c) <= Len(s) \/ Len(c) = 1
        /\ chain' = [chain EXCEPT ![o] = c]
        /\ \/ bucket' = bucket /\ (Intact(s) => c = s)
           \/ \E d \in Seq(BlockType) :
                /\ bucket' = [bucket EXCEPT ![t] = d]
                /\ Intact(d) /\ Begins(d, c)
                /\ s = <<>> \/ ~Intact(s)
    BY <1>7, <1>12, <1>13
  <2>2. cached' = [cached EXCEPT ![t] = o] /\ Got(h, o)
    BY <1>12, <1>13
  <2>3. c \in Seq(BlockType)
    BY <1>7
  <2>4. QED
    BY <2>1, <2>2, <2>3, Zenon DEF Publishes
<1>14. QED
  BY <1>1, <1>13

\* The handler's own variables.
StackType ==
  pc \in [Handler -> PC] /\ req \in [Handler -> ReqType] /\ data \in [Handler -> Seq(BlockType)]

\* An idle handler has no object.
LEMMA NoReqType == NoReq \in ReqType /\ NoReq.obj = 0
BY LedgerAssumption DEF NoReq, ReqType, RequestKind

\* A handler that is done forgets its request; the other handlers keep theirs.
LEMMA DoneType ==
  ASSUME TypeOK, NEW h \in Handler, Done(h)
  PROVE  /\ StackType'
         /\ pc'[h] = "idle" /\ req'[h] = NoReq /\ data'[h] = <<>>
         /\ \A g \in Handler : g # h => pc'[g] = pc[g] /\ req'[g] = req[g] /\ data'[g] = data[g]
<1>1. <<>> \in Seq(BlockType) /\ "idle" \in PC
  BY DEF PC
<1>2. QED
  BY <1>1, NoReqType DEF TypeOK, Done, StackType

\* A handler that has got a chain goes on to the first step of its request.
LEMMA GotType ==
  ASSUME TypeOK, NEW h \in Handler, NEW o \in 0..MaxOp, Got(h, o)
  PROVE  /\ StackType'
         /\ pc'[h] = After(req[h].kind) /\ data'[h] = <<>>
         /\ pc'[h] \in {"check", "height", "read"}
         /\ pc'[h] = "height" => req[h].kind = "import"
         /\ req'[h].obj = o /\ req'[h].n = req[h].n /\ req'[h].tenant = req[h].tenant
         /\ req'[h].kind = req[h].kind /\ req'[h].todo = req[h].todo
         /\ \A g \in Handler : g # h => pc'[g] = pc[g] /\ req'[g] = req[g] /\ data'[g] = data[g]
<1>1. <<>> \in Seq(BlockType)
  OBVIOUS
<1>2. req[h] \in ReqType
  BY DEF TypeOK
<1>3. /\ After(req[h].kind) \in {"check", "height", "read"}
      /\ After(req[h].kind) = "height" => req[h].kind = "import"
  BY DEF After
<1>4. After(req[h].kind) \in PC
  BY <1>3 DEF PC
<1>5. [req[h] EXCEPT !.obj = o] \in ReqType
  BY <1>2 DEF ReqType
<1>6. req' = [req EXCEPT ![h] = [req[h] EXCEPT !.obj = o]]
  BY DEF Got
<1>7. req'[h] = [req[h] EXCEPT !.obj = o]
  BY <1>6 DEF TypeOK
<1>8. /\ req'[h].obj = o /\ req'[h].n = req[h].n /\ req'[h].tenant = req[h].tenant
      /\ req'[h].kind = req[h].kind /\ req'[h].todo = req[h].todo
  BY <1>2, <1>7 DEF ReqType
<1>9. req' \in [Handler -> ReqType] /\ \A g \in Handler : g # h => req'[g] = req[g]
  BY <1>5, <1>6 DEF TypeOK
<1>10. QED
  BY <1>1, <1>3, <1>4, <1>8, <1>9 DEF TypeOK, Got, StackType

\* Every step keeps the types.
LEMMA TypeStep ==
  ASSUME Inv, [Next]_vars
  PROVE  TypeOK'
<1> USE DEF Inv
<1>0. TypeOK /\ ReqInv /\ MaxOp \in Nat /\ MaxCrash \in Nat /\ MaxCorrupt \in Nat
  BY LedgerAssumption
<1>a. \A h \in Handler : pc[h] # "idle" => req[h].tenant \in Tenant /\ req[h].n \in Obj
  BY <1>0 DEF ReqInv, TypeOK, Obj
<1>b. \A h \in Handler : pc[h] \in Holding => req[h].obj \in Obj
  BY DEF ReqInv
<1>c. Obj \subseteq 0..MaxOp
  BY <1>0 DEF Obj
<1>d. \A h \in Handler : req[h] \in ReqType /\ data[h] \in Seq(BlockType)
  BY DEF TypeOK
<1>1. ASSUME NEW h \in Handler, NEW t \in Tenant, NEW k \in Kinds[t], Start(h, k, t)
      PROVE  TypeOK'
  <2>1. k \in RequestKind
    BY LedgerAssumption
  <2>2. ops + 1 \in 0..MaxOp
    BY <1>0, <1>1 DEF Start, TypeOK
  <2>3. [NoReq EXCEPT !.kind = k, !.tenant = t, !.n = ops + 1] \in ReqType
    BY <2>1, <2>2, NoReqType DEF ReqType, NoReq
  <2>4. req' \in [Handler -> ReqType]
    BY <1>1, <2>3 DEF Start, TypeOK
  <2>5. pc' \in [Handler -> PC]
    BY <1>1 DEF Start, TypeOK, PC
  <2>6. QED
    BY <1>1, <2>2, <2>4, <2>5 DEF Start, TypeOK
<1>2. ASSUME NEW h \in Handler, Lookup(h) PROVE TypeOK'
  <2>1. cached[req[h].tenant] \in 0..MaxOp
    BY <1>a, <1>2 DEF Lookup, TypeOK
  <2>2. CASE Got(h, cached[req[h].tenant])
    BY <1>2, <2>1, <2>2, GotType DEF Lookup, TypeOK, StackType
  <2>3. CASE pc' = [pc EXCEPT ![h] = "load"] /\ UNCHANGED <<req, data>>
    BY <1>2, <2>3 DEF Lookup, TypeOK, PC
  <2>4. QED
    BY <1>2, <2>2, <2>3 DEF Lookup
<1>3. ASSUME NEW h \in Handler, Relook(h) PROVE TypeOK'
  <2>1. cached[req[h].tenant] \in 0..MaxOp
    BY <1>a, <1>3 DEF Relook, TypeOK
  <2>2. QED
    BY <1>3, <2>1, GotType DEF Relook, TypeOK, StackType
<1>4. ASSUME NEW h \in Handler, LoadBegin(h) PROVE TypeOK'
  <2> DEFINE t == req[h].tenant
             s == IF bucket[t] = NoBucket THEN <<>> ELSE bucket[t]
  <2>1. t \in Tenant /\ s \in Seq(BlockType)
    BY <1>a, <1>4 DEF LoadBegin, TypeOK
  <2>2. CASE /\ bucket' = [bucket EXCEPT ![t] = s] /\ data' = [data EXCEPT ![h] = s]
             /\ lock' = {h} /\ pc' = [pc EXCEPT ![h] = "store"] /\ UNCHANGED req
    <3> HIDE DEF s, t
    <3>1. QED
      BY <1>4, <2>1, <2>2 DEF LoadBegin, TypeOK, PC
  <2>3. CASE Done(h) /\ UNCHANGED <<bucket, lock>>
    BY <1>4, <2>3, DoneType DEF LoadBegin, TypeOK, StackType
  <2>4. QED
    BY <1>4, <2>2, <2>3 DEF LoadBegin
<1>5. ASSUME NEW h \in Handler, LoadEnd(h) PROVE TypeOK'
  <2>1. /\ lock' = {} /\ UNCHANGED <<ops, acked, crashes, corrupted>>
        /\ req[h].n \in Obj /\ req[h].n \in 0..MaxOp /\ req[h].tenant \in Tenant
    BY <1>5, <1>a, <1>c DEF LoadEnd
  <2>2. CASE Done(h) /\ UNCHANGED <<chain, bucket, cached>>
    BY <2>1, <2>2, DoneType DEF TypeOK, StackType
  <2>3. CASE Publishes(h)
    <3>1. /\ chain' \in [Obj -> Seq(BlockType)]
          /\ bucket' \in [Tenant -> Seq(BlockType) \cup {NoBucket}]
          /\ cached' \in [Tenant -> 0..MaxOp]
      <4>1. PICK c \in Seq(BlockType) :
              /\ chain' = [chain EXCEPT ![req[h].n] = c]
              /\ \/ bucket' = bucket
                 \/ \E d \in Seq(BlockType) : bucket' = [bucket EXCEPT ![req[h].tenant] = d]
              /\ cached' = [cached EXCEPT ![req[h].tenant] = req[h].n]
        BY <2>3 DEF Publishes
      <4>2. QED
        BY <2>1, <4>1 DEF TypeOK
    <3>2. QED
      BY <2>1, <2>3, <3>1, GotType DEF Publishes, TypeOK, StackType
  <2>4. QED
    BY <1>5, <2>2, <2>3, LoadEndEffect
<1>6. ASSUME NEW h \in Handler, Read(h) PROVE TypeOK'
  BY <1>6, DoneType DEF Read, TypeOK, StackType
<1>7. ASSUME NEW h \in Handler, Check(h) PROVE TypeOK'
  <2>1. CASE Done(h)
    BY <1>7, <2>1, DoneType DEF Check, TypeOK, StackType
  <2>2. CASE pc' = [pc EXCEPT ![h] = "append"] /\ UNCHANGED <<req, data>>
    BY <1>7, <2>2 DEF Check, TypeOK, PC
  <2>3. QED
    BY <1>7, <2>1, <2>2 DEF Check
<1>8. ASSUME NEW h \in Handler, Height(h) PROVE TypeOK'
  <2> DEFINE new == ImportLen - Len(chain[req[h].obj])
  <2>1. CASE Done(h)
    BY <1>8, <2>1, DoneType DEF Height, TypeOK, StackType
  <2>2. CASE /\ new > 0 /\ req' = [req EXCEPT ![h] = [req[h] EXCEPT !.todo = new]]
             /\ pc' = [pc EXCEPT ![h] = "append"] /\ UNCHANGED data
    <3>1. new \in Nat
      <4>1. Len(chain[req[h].obj]) \in Nat
        BY <1>8, <1>b DEF Height, Holding, TypeOK
      <4>2. QED
        BY <2>2, <4>1, LedgerAssumption
    <3>2. [req[h] EXCEPT !.todo = new] \in ReqType
      BY <1>d, <3>1 DEF ReqType
    <3>3. QED
      BY <1>8, <2>2, <3>2 DEF Height, TypeOK, PC
  <2>3. QED
    BY <1>8, <2>1, <2>2 DEF Height
<1>9. ASSUME NEW h \in Handler, AppendBlock(h) PROVE TypeOK'
  <2> DEFINE at == Len(chain[req[h].obj]) + 1
             todo == IF req[h].todo > 0 THEN req[h].todo - 1 ELSE 0
  <2>1. at \in Nat /\ todo \in Nat
    <3>1. req[h].obj \in Obj
      BY <1>9, AppendEffect
    <3>2. QED
      BY <1>d, <3>1 DEF TypeOK, ReqType
  <2>2. req' = [req EXCEPT ![h] = [req[h] EXCEPT !.at = at, !.todo = todo]]
    BY <1>9, <1>0 DEF AppendBlock, TypeOK
  <2>3. [req[h] EXCEPT !.at = at, !.todo = todo] \in ReqType
    BY <1>d, <2>1 DEF ReqType
  <2>4. req' \in [Handler -> ReqType]
    BY <2>2, <2>3 DEF TypeOK
  <2>5. chain' \in [Obj -> Seq(BlockType)]
    BY <1>9, AppendEffect
  <2>6. pc' \in [Handler -> PC]
    BY <1>9 DEF AppendBlock, TypeOK, PC
  <2>7. QED
    BY <1>9, <2>4, <2>5, <2>6 DEF AppendBlock, TypeOK
<1>10. ASSUME NEW h \in Handler, SignBlock(h) PROVE TypeOK'
  <2>1. chain' \in [Obj -> Seq(BlockType)]
    BY <1>10, SignEffect
  <2>2. QED
    BY <1>10, <2>1 DEF SignBlock, TypeOK, PC
<1>11. ASSUME NEW h \in Handler, Snapshot(h) PROVE TypeOK'
  <2>1. chain[req[h].obj] \in Seq(BlockType)
    BY <1>11, <1>b DEF Snapshot, TypeOK, Holding
  <2>2. QED
    BY <1>11, <2>1 DEF Snapshot, TypeOK, PC
<1>12. ASSUME NEW h \in Handler, SaveChain(h) PROVE TypeOK'
  <2>1. req[h].tenant \in Tenant /\ req[h].n \in Int
    BY <1>12, <1>a, <1>0 DEF SaveChain, Obj
  <2>2. bucket' \in [Tenant -> Seq(BlockType) \cup {NoBucket}]
    BY <1>12, <1>d, <2>1 DEF SaveChain, TypeOK
  <2>3. <<req[h].tenant, req[h].n>> \in Tenant \X Int
    BY <2>1
  <2>4. acked' \in SUBSET (Tenant \X Int)
    BY <1>12, <2>3 DEF SaveChain, TypeOK
  <2>5. QED
    BY <1>12, <2>2, <2>4, DoneType DEF SaveChain, TypeOK, StackType
<1>13. ASSUME NEW h \in Handler, DeleteBucket(h) PROVE TypeOK'
  <2>1. CASE Done(h) /\ UNCHANGED bucket
    BY <1>13, <2>1, DoneType DEF DeleteBucket, TypeOK, StackType
  <2>2. CASE /\ bucket' = [bucket EXCEPT ![req[h].tenant] = NoBucket]
             /\ pc' = [pc EXCEPT ![h] = "evict"] /\ UNCHANGED <<req, data>>
    BY <1>13, <2>2 DEF DeleteBucket, TypeOK, PC
  <2>3. QED
    BY <1>13, <2>1, <2>2 DEF DeleteBucket
<1>14. ASSUME NEW h \in Handler, Evict(h) PROVE TypeOK'
  <2>1. cached' \in [Tenant -> 0..MaxOp]
    <3>1. 0 \in 0..MaxOp
      BY <1>0
    <3>2. QED
      BY <1>14, <3>1 DEF Evict, TypeOK
  <2>2. QED
    BY <1>14, <2>1, DoneType DEF Evict, TypeOK, StackType
<1>15. ASSUME Crash PROVE TypeOK'
  <2>1. <<>> \in Seq(BlockType) /\ "idle" \in PC /\ 0 \in 0..MaxOp
    BY <1>0 DEF PC
  <2>2. QED
    BY <1>0, <1>15, <2>1, NoReqType DEF Crash, TypeOK
<1>16. ASSUME NEW t \in Damageable, Corrupt(t) PROVE TypeOK'
  <2>1. t \in Tenant /\ MaxOp + 1 \in Int
    BY <1>0, LedgerAssumption
  <2>2. bucket[t] \in Seq(BlockType)
    BY <1>16, <2>1 DEF Corrupt, TypeOK
  <2>3. PICK i \in 1..Len(bucket[t]) :
          bucket' = [bucket EXCEPT ![t] = [bucket[t] EXCEPT ![i].tx = MaxOp + 1]]
    BY <1>16 DEF Corrupt
  <2> DEFINE d == [bucket[t] EXCEPT ![i].tx = MaxOp + 1]
  <2>4. d \in Seq(BlockType)
    BY <2>1, <2>2, CorruptNumbered
  <2> HIDE DEF d
  <2>5. bucket' \in [Tenant -> Seq(BlockType) \cup {NoBucket}]
    BY <2>1, <2>3, <2>4 DEF TypeOK, d
  <2>6. corrupted' \in 0..MaxCorrupt
    BY <1>0, <1>16 DEF Corrupt, TypeOK
  <2>7. QED
    BY <1>16, <2>5, <2>6 DEF Corrupt, TypeOK
<1>17. CASE UNCHANGED vars
  BY <1>17 DEF vars, TypeOK
<1>18. QED
  BY <1>1, <1>2, <1>3, <1>4, <1>5, <1>6, <1>7, <1>8, <1>9, <1>10, <1>11, <1>12,
     <1>13, <1>14, <1>15, <1>16, <1>17 DEF Next, Step

\* How a step of a handler changes its own request, and nobody else's.
Ends(h) == pc'[h] = "idle" /\ req'[h] = NoReq /\ data'[h] = <<>>

SameReq(h) ==
  req'[h].n = req[h].n /\ req'[h].tenant = req[h].tenant /\ req'[h].kind = req[h].kind

Goes(h) ==
  /\ pc[h] # "idle" /\ SameReq(h)
  /\ \/ pc[h] \in Loading /\ pc'[h] \in {"load", "store"} /\ req'[h] = req[h]
     \/ /\ pc[h] \in Loading /\ pc'[h] \in {"read", "check", "height"}
        /\ req'[h].obj = cached'[req[h].tenant] /\ req'[h].obj \in Obj
        /\ req'[h].todo = req[h].todo /\ (pc'[h] = "height" => req[h].kind = "import")
        /\ data'[h] = <<>>
     \/ /\ pc[h] \in Holding /\ pc'[h] \in {"append", "sign", "snapshot", "write"}
        /\ req'[h].obj = req[h].obj
     \/ pc[h] = "bucket" /\ pc'[h] = "evict" /\ req'[h] = req[h]

Others(h) ==
  \A g \in Handler : g # h => pc'[g] = pc[g] /\ req'[g] = req[g] /\ data'[g] = data[g]

\* To get the object in the cache is to go on with it.
LEMMA GotShape ==
  ASSUME TypeOK, NEW h \in Handler, NEW o \in Obj, Got(h, o),
         pc[h] \in Loading, cached'[req[h].tenant] = o
  PROVE  Goes(h) /\ Others(h)
<1>1. o \in 0..MaxOp /\ pc[h] # "idle"
  BY LedgerAssumption DEF Obj, Loading
<1>2. /\ SameReq(h) /\ Others(h) /\ req'[h].obj = o /\ data'[h] = <<>>
      /\ req'[h].todo = req[h].todo
      /\ pc'[h] \in {"read", "check", "height"} /\ (pc'[h] = "height" => req[h].kind = "import")
  BY <1>1, GotType DEF SameReq, Others
<1>3. QED
  BY <1>1, <1>2 DEF Goes

\* Whatever a handler does, it ends its request or goes on with it, alone.
LEMMA StepShape ==
  ASSUME Inv, NEW h \in Handler, Step(h)
  PROVE  ops' = ops /\ Others(h) /\ (Ends(h) \/ Goes(h))
<1> USE DEF Inv
<1>0. /\ TypeOK /\ req[h] \in ReqType /\ data[h] \in Seq(BlockType)
      /\ \A t \in Tenant : cached[t] # 0 => cached[t] \in Obj
  BY LedgerAssumption DEF TypeOK, Obj
<1>a. /\ pc[h] # "idle" => req[h].tenant \in Tenant /\ req[h].n \in Obj
      /\ pc[h] \in Holding => req[h].obj \in Obj
  BY LedgerAssumption DEF ReqInv, TypeOK, Obj
<1>1. ASSUME Done(h) PROVE Ends(h) /\ Others(h)
  BY <1>0, <1>1, DoneType DEF Ends, Others
<1>2. CASE Lookup(h)
  <2>1. pc[h] \in Loading /\ cached' = cached /\ ops' = ops /\ req[h].tenant \in Tenant
    BY <1>2, <1>a DEF Lookup, Loading
  <2>2. CASE cached[req[h].tenant] # 0 /\ Got(h, cached[req[h].tenant])
    BY <1>0, <2>1, <2>2, GotShape
  <2>3. CASE pc' = [pc EXCEPT ![h] = "load"] /\ UNCHANGED <<req, data>>
    BY <2>1, <2>3 DEF TypeOK, Goes, SameReq, Others, Loading
  <2>4. QED
    BY <1>2, <2>1, <2>2, <2>3 DEF Lookup
<1>3. CASE Relook(h)
  <2>1. pc[h] \in Loading /\ cached' = cached /\ ops' = ops /\ req[h].tenant \in Tenant
    BY <1>3, <1>a DEF Relook, Loading
  <2>2. cached[req[h].tenant] # 0 /\ Got(h, cached[req[h].tenant])
    BY <1>3 DEF Relook
  <2>3. QED
    BY <1>0, <2>1, <2>2, GotShape
<1>4. CASE LoadBegin(h)
  <2>1. CASE Done(h)
    BY <1>1, <1>4, <2>1 DEF LoadBegin
  <2>2. CASE ~Done(h)
    BY <1>4, <2>2 DEF LoadBegin, TypeOK, Goes, SameReq, Others, Loading
  <2>3. QED
    BY <2>1, <2>2
<1>5. CASE LoadEnd(h)
  <2>1. ops' = ops /\ pc[h] \in Loading /\ req[h].n \in Obj /\ req[h].tenant \in Tenant
    BY <1>5, <1>a DEF LoadEnd, Loading
  <2>2. CASE Publishes(h)
    <3>1. cached'[req[h].tenant] = req[h].n /\ Got(h, req[h].n)
      BY <2>1, <2>2 DEF Publishes, TypeOK
    <3>2. QED
      BY <1>0, <2>1, <3>1, GotShape
  <2>3. QED
    BY <1>1, <1>5, <2>1, <2>2, LoadEndEffect
<1>6. CASE Read(h)
  BY <1>1, <1>6 DEF Read
<1>7. CASE Check(h)
  <2>1. CASE Done(h)
    BY <1>1, <1>7, <2>1 DEF Check
  <2>2. CASE pc' = [pc EXCEPT ![h] = "append"] /\ UNCHANGED <<req, data>>
    BY <1>7, <2>2 DEF Check, TypeOK, Goes, SameReq, Others, Holding
  <2>3. QED
    BY <1>7, <2>1, <2>2 DEF Check
<1>8. CASE Height(h)
  <2>1. CASE Done(h)
    BY <1>1, <1>8, <2>1 DEF Height
  <2>2. CASE ~Done(h)
    <3> DEFINE new == ImportLen - Len(chain[req[h].obj])
    <3>1. /\ pc[h] = "height" /\ ops' = ops
          /\ req' = [req EXCEPT ![h] = [req[h] EXCEPT !.todo = new]]
          /\ pc' = [pc EXCEPT ![h] = "append"] /\ data' = data
      BY <1>8, <2>2 DEF Height
    <3> HIDE DEF new
    <3>2. req'[h] = [req[h] EXCEPT !.todo = new]
      BY <3>1 DEF TypeOK
    <3>3. SameReq(h) /\ req'[h].obj = req[h].obj
      BY <1>0, <3>2 DEF ReqType, SameReq
    <3>4. pc[h] \in Holding /\ pc'[h] = "append" /\ Others(h) /\ pc[h] # "idle"
      BY <3>1 DEF TypeOK, Holding, Others
    <3>5. QED
      BY <3>1, <3>3, <3>4 DEF Goes
  <2>3. QED
    BY <2>1, <2>2
<1>9. CASE AppendBlock(h)
  <2> DEFINE at == Len(chain[req[h].obj]) + 1
             todo == IF req[h].todo > 0 THEN req[h].todo - 1 ELSE 0
  <2>1. req' = [req EXCEPT ![h] = [req[h] EXCEPT !.at = at, !.todo = todo]]
    BY <1>9 DEF AppendBlock, TypeOK
  <2> HIDE DEF at, todo
  <2>2. req'[h] = [req[h] EXCEPT !.at = at, !.todo = todo]
    BY <2>1 DEF TypeOK
  <2>3. SameReq(h) /\ req'[h].obj = req[h].obj
    BY <1>0, <2>2 DEF ReqType, SameReq
  <2>4. /\ pc[h] \in Holding /\ pc'[h] \in {"append", "sign", "snapshot", "write"}
        /\ Others(h) /\ pc[h] # "idle" /\ ops' = ops
    BY <1>9, <2>1 DEF AppendBlock, TypeOK, Holding, Others
  <2>5. QED
    BY <2>3, <2>4 DEF Goes
<1>10. CASE SignBlock(h) \/ Snapshot(h)
  BY <1>10 DEF SignBlock, Snapshot, TypeOK, Goes, SameReq, Others, Holding
<1>11. CASE SaveChain(h)
  BY <1>1, <1>11 DEF SaveChain
<1>12. CASE DeleteBucket(h)
  <2>1. CASE Done(h)
    BY <1>1, <1>12, <2>1 DEF DeleteBucket
  <2>2. CASE ~Done(h)
    BY <1>12, <2>2 DEF DeleteBucket, TypeOK, Goes, SameReq, Others
  <2>3. QED
    BY <2>1, <2>2
<1>13. CASE Evict(h)
  BY <1>1, <1>13 DEF Evict
<1>14. QED
  BY <1>2, <1>3, <1>4, <1>5, <1>6, <1>7, <1>8, <1>9, <1>10, <1>11, <1>12, <1>13 DEF Step

\* The tenant cache: an entry is kept, evicted, or published by its loader.
LEMMA CacheShape ==
  ASSUME Inv, NEW h \in Handler, Step(h)
  PROVE  \/ cached' = cached
         \/ /\ Evict(h) /\ Ends(h) /\ req[h].tenant \in Tenant /\ req[h].kind = "delete"
            /\ cached' = [cached EXCEPT ![req[h].tenant] = 0]
         \/ /\ LoadEnd(h) /\ Publishes(h) /\ pc[h] = "store" /\ lock = {h}
            /\ req[h].tenant \in Tenant /\ req[h].n \in Obj
            /\ cached[req[h].tenant] = 0
            /\ cached' = [cached EXCEPT ![req[h].tenant] = req[h].n]
<1>1. CASE Evict(h)
  <2>1. pc[h] = "evict" /\ cached' = [cached EXCEPT ![req[h].tenant] = 0] /\ Done(h)
    BY <1>1 DEF Evict
  <2>2. req[h].tenant \in Tenant /\ req[h].kind = "delete"
    BY <2>1 DEF Inv, ReqInv
  <2>3. Ends(h)
    BY <2>1, DoneType DEF Inv, Ends
  <2>4. QED
    BY <1>1, <2>1, <2>2, <2>3
<1>2. CASE LoadEnd(h)
  <2>1. pc[h] = "store"
    BY <1>2 DEF LoadEnd
  <2>2. lock = {h} /\ cached[req[h].tenant] = 0
    BY <2>1 DEF Inv, ObjInv
  <2>3. CASE Publishes(h)
    BY <1>2, <2>1, <2>2, <2>3, LoadEndEffect DEF Publishes
  <2>4. QED
    BY <1>2, <2>3, LoadEndEffect
<1>3. CASE ~Evict(h) /\ ~LoadEnd(h)
  BY <1>3 DEF Step, Lookup, Relook, LoadBegin, Read, Check, Height, AppendBlock,
     SignBlock, Snapshot, SaveChain, DeleteBucket
<1>4. QED
  BY <1>1, <1>2, <1>3

\* A new request has a number that was never used.
LEMMA StartShape ==
  ASSUME TypeOK, NEW h \in Handler, NEW t \in Tenant, NEW k \in Kinds[t], Start(h, k, t)
  PROVE  /\ Others(h) /\ ops' = ops + 1 /\ ops' \in Obj
         /\ pc[h] = "idle" /\ pc'[h] = IF k = "delete" THEN "bucket" ELSE "lookup"
         /\ req'[h].n = ops + 1 /\ req'[h].tenant = t /\ req'[h].kind = k
         /\ req'[h].obj = 0 /\ req'[h].todo = 0
         /\ UNCHANGED <<chain, cached, bucket, lock, data, acked>>
<1>1. ops' = ops + 1 /\ ops + 1 \in Obj
  BY LedgerAssumption DEF Start, TypeOK, Obj
<1>2. req'[h] = [NoReq EXCEPT !.kind = k, !.tenant = t, !.n = ops + 1]
  BY DEF Start, TypeOK
<1>3. /\ req'[h].n = ops + 1 /\ req'[h].tenant = t /\ req'[h].kind = k
      /\ req'[h].obj = 0 /\ req'[h].todo = 0
  BY <1>2 DEF NoReq
<1>4. QED
  BY <1>1, <1>3 DEF Start, TypeOK, Others

\* ReqInv, which says what requests there are, is kept.
LEMMA ReqStep ==
  ASSUME Inv, [Next]_vars
  PROVE  ReqInv'
<1>0. TypeOK /\ ReqInv /\ ops \in Nat
  BY LedgerAssumption DEF Inv, TypeOK
<1> USE DEF Loading, Holding
<1>1. ASSUME NEW h \in Handler, Step(h) PROVE ReqInv'
  <2>1. ops' = ops /\ Others(h) /\ (Ends(h) \/ Goes(h))
    BY <1>1, StepShape
  <2>2. CASE Ends(h)
    BY <1>0, <2>1, <2>2, NoReqType DEF ReqInv, Others, Ends
  <2>3. CASE Goes(h)
    BY <1>0, <2>1, <2>3 DEF ReqInv, Others, Goes, SameReq
  <2>4. QED
    BY <2>1, <2>2, <2>3
<1>2. ASSUME NEW h \in Handler, NEW t \in Tenant, NEW k \in Kinds[t], Start(h, k, t)
      PROVE  ReqInv'
  <2>1. ASSUME NEW g \in Handler, g # h
        PROVE  /\ pc'[g] = pc[g] /\ req'[g] = req[g]
               /\ pc[g] # "idle" => req[g].n \in 1..ops'
    BY <1>0, <1>2, <2>1, StartShape DEF Others, ReqInv
  <2>2. 1 \in 1..ops' /\ ops + 1 \in 1..ops'
    BY <1>0, <1>2, StartShape
  <2>3. QED
    BY <1>0, <1>2, <2>1, <2>2, StartShape DEF ReqInv
<1>3. CASE Crash
  BY <1>3, NoReqType DEF Crash, ReqInv
<1>4. CASE UNCHANGED <<pc, req, ops>>
  BY <1>0, <1>4 DEF ReqInv
<1>5. QED
  BY <1>1, <1>2, <1>3, <1>4 DEF Next, vars, Corrupt

\* Only LoadBegin leads to LoadEnd, and LoadEnd away from it.
LEMMA LoadEndMoves ==
  ASSUME Inv, NEW h \in Handler, LoadEnd(h)
  PROVE  pc'[h] \in {"idle", "read", "check", "height"} /\ lock' = {}
<1>1. req[h].n \in 0..MaxOp /\ TypeOK /\ lock' = {}
  <2>1. req[h].n \in 1..MaxOp /\ MaxOp \in Nat
    BY LoadEndEffect, LedgerAssumption DEF Obj
  <2>2. QED
    BY <2>1 DEF Inv, LoadEnd
<1>2. CASE Publishes(h)
  BY <1>1, <1>2, GotType DEF Publishes
<1>3. CASE Done(h)
  BY <1>1, <1>3, DoneType
<1>4. QED
  BY <1>1, <1>2, <1>3, LoadEndEffect

\* Only LoadBegin leads to the end of a load.
LEMMA StoreIsLoad ==
  ASSUME Inv, NEW h \in Handler, Step(h), pc'[h] = "store"
  PROVE  LoadBegin(h)
<1>1. ~LoadEnd(h)
  BY LoadEndMoves
<1>2. TypeOK /\ pc \in [Handler -> PC]
  BY DEF Inv, TypeOK
<1>3. ~Done(h)
  BY <1>2, DoneType
<1>4. \A o : Got(h, o) => FALSE
  BY <1>2 DEF Got, After
<1>5. ~AppendBlock(h)
  BY <1>2 DEF AppendBlock
<1>6. QED
  BY <1>1, <1>2, <1>3, <1>4, <1>5 DEF Step, Lookup, Relook, Read, Check, Height,
     SignBlock, Snapshot, SaveChain, DeleteBucket, Evict

\* ObjInv, which says who has which object, is kept.
LEMMA ObjStep ==
  ASSUME Inv, [Next]_vars
  PROVE  ObjInv'
<1>0. TypeOK /\ ReqInv /\ ObjInv /\ ops \in Nat
  BY LedgerAssumption DEF Inv, TypeOK
<1>a. \A h \in Handler : pc[h] \in Loading \cup Holding => pc[h] # "idle"
  BY DEF Loading, Holding
<1>b. \A h \in Handler : /\ pc[h] # "idle" => req[h].n \in 1..ops /\ req[h].tenant \in Tenant
                         /\ req[h].obj \in Int /\ req[h].n \in Int
                         /\ req[h].obj <= ops
      /\ \A t \in Tenant : cached[t] \in Int /\ cached[t] <= ops
  BY <1>0, LedgerAssumption DEF ReqInv, ObjInv, TypeOK, ReqType
<1>1. ASSUME NEW h \in Handler, Step(h) PROVE ObjInv'
  <2>1. ops' = ops /\ Others(h) /\ (Ends(h) \/ Goes(h))
    BY <1>1, StepShape
  <2>2. \A t \in Tenant : cached'[t] # cached[t] =>
           \/ cached'[t] = 0
           \/ /\ LoadEnd(h) /\ pc[h] = "store" /\ cached'[t] = req[h].n /\ t = req[h].tenant
              /\ lock = {h}
    BY <1>0, <1>1, CacheShape DEF TypeOK
  <2>3. pc[h] # "idle" /\ req[h].n \in 1..ops
    <3>1. pc[h] # "idle"
      BY <1>1 DEF Step, Lookup, Relook, LoadBegin, LoadEnd, Read, Check, Height, AppendBlock,
         SignBlock, Snapshot, SaveChain, DeleteBucket, Evict
    <3>2. QED
      BY <1>b, <3>1
  <2>4. \A t \in Tenant : cached'[t] <= ops'
    BY <1>0, <1>b, <2>1, <2>2, <2>3
  <2>5. \A g \in Handler : pc'[g] # "idle" => pc[g] # "idle" /\ req'[g].n = req[g].n
    BY <2>1 DEF Others, Ends, Goes, SameReq
  <2>6. \A g \in Handler : \/ req'[g].obj = 0
                           \/ req'[g].obj = req[g].obj
                           \/ g = h /\ req'[g].obj = cached'[req[h].tenant] /\ pc'[g] \in Holding
    BY <2>1, NoReqType DEF Others, Ends, Goes, SameReq, Holding
  <2>7. \A g \in Handler : req'[g].obj <= ops'
    BY <1>0, <1>b, <2>1, <2>3, <2>4, <2>6
  <2>8. ASSUME NEW g \in Handler, pc'[g] \in Loading
        PROVE  /\ \A t \in Tenant : cached'[t] # req'[g].n
               /\ \A f \in Handler : req'[f].obj # req'[g].n
    <3>1. /\ pc[g] \in Loading /\ pc[g] # "idle"
          /\ req'[g].n = req[g].n /\ req[g].n # 0
          /\ req'[g].tenant = req[g].tenant
      <4>1. pc[g] \in Loading /\ req'[g] = req[g]
        BY <2>1, <2>8 DEF Others, Ends, Goes, Loading
      <4>2. QED
        BY <1>a, <1>b, <4>1
    <3>2. /\ \A t \in Tenant : cached[t] # req[g].n
          /\ \A f \in Handler : req[f].obj # req[g].n
      BY <1>0, <3>1 DEF ObjInv
    <3>3. ASSUME LoadEnd(h) PROVE g # h
      BY <2>8, <3>3, LoadEndMoves DEF Loading
    <3>4. LoadEnd(h) => req[h].n # req[g].n
      BY <1>0, <2>3, <3>1, <3>3 DEF ObjInv
    <3>5. \A t \in Tenant : cached'[t] # req[g].n
      BY <2>2, <3>1, <3>2, <3>4
    <3>6. \A f \in Handler : req'[f].obj # req[g].n
      BY <1>b, <2>3, <2>6, <3>1, <3>2, <3>5
    <3>7. QED
      BY <3>1, <3>5, <3>6
  <2>9. ASSUME NEW g \in Handler, pc'[g] = "store"
        PROVE  lock' = {g} /\ cached'[req'[g].tenant] = 0
    <3>1. CASE g = h
      <4>1. LoadBegin(h)
        BY <1>0, <1>1, <2>9, <3>1, StoreIsLoad
      <4>2. ~Done(h)
        BY <1>0, <2>9, <3>1, DoneType
      <4>3. /\ lock' = {h} /\ req' = req /\ cached' = cached
            /\ cached[req[h].tenant] = 0
        BY <4>1, <4>2 DEF LoadBegin, MustLoad
      <4>4. QED
        BY <3>1, <4>3
    <3>2. CASE g # h
      <4>1. pc[g] = "store" /\ req'[g] = req[g]
        BY <2>1, <2>9, <3>2 DEF Others
      <4>2. lock = {g} /\ cached[req[g].tenant] = 0 /\ req[g].tenant \in Tenant
        BY <1>0, <1>b, <4>1 DEF ObjInv
      <4>3. lock # {} /\ lock # {h}
        BY <3>2, <4>2
      <4>4. ~LoadEnd(h)
        BY <1>0, <4>3 DEF ObjInv, LoadEnd
      <4>5. lock' = lock
        BY <1>1, <4>3, <4>4 DEF Step, Lookup, Relook, LoadBegin, Read, Check, Height,
           AppendBlock, SignBlock, Snapshot, SaveChain, DeleteBucket, Evict
      <4>6. cached'[req[g].tenant] = 0
        BY <2>2, <4>2, <4>4
      <4>7. QED
        BY <4>1, <4>2, <4>5, <4>6
    <3>3. QED
      BY <3>1, <3>2
  <2>10. ASSUME NEW f \in Handler, NEW g \in Handler,
                pc'[f] # "idle", pc'[g] # "idle", req'[f].n = req'[g].n
         PROVE  f = g
    BY <1>0, <2>5, <2>10 DEF ObjInv
  <2>11. QED
    BY <2>4, <2>7, <2>8, <2>9, <2>10 DEF ObjInv
<1>2. ASSUME NEW h \in Handler, NEW t \in Tenant, NEW k \in Kinds[t], Start(h, k, t)
      PROVE  ObjInv'
  BY <1>0, <1>a, <1>b, <1>2, StartShape DEF ObjInv, Others, Loading
<1>3. CASE Crash
  BY <1>0, <1>3, NoReqType DEF Crash, ObjInv, Loading
<1>4. CASE UNCHANGED <<pc, req, ops, cached, lock>>
  BY <1>0, <1>4 DEF ObjInv
<1>5. QED
  BY <1>1, <1>2, <1>3, <1>4 DEF Next, vars, Corrupt

-----------------------------------------------------------------------------
(* The chain that is served is intact *)

\* What a step of a handler does to the chain objects.
LEMMA ChainShape ==
  ASSUME Inv, NEW h \in Handler, Step(h)
  PROVE  \/ chain' = chain
         \/ AppendBlock(h) \/ SignBlock(h)
         \/ LoadEnd(h) /\ Publishes(h)
<1>1. CASE LoadEnd(h)
  BY <1>1, LoadEndEffect
<1>2. CASE ~LoadEnd(h)
  BY <1>2 DEF Step, Lookup, Relook, LoadBegin, Read, Check, Height, Snapshot, SaveChain,
     DeleteBucket, Evict
<1>3. QED
  BY <1>1, <1>2

\* Every object stays intact; only the one that is being published is replaced.
LEMMA ChainsGrow ==
  ASSUME Inv, NEW h \in Handler, Step(h)
  PROVE  \A o \in Obj : /\ Intact(chain'[o])
                        /\ chain[o] # <<>> => chain'[o] # <<>>
                        /\ Grows(chain[o], chain'[o]) \/ (pc[h] \in Loading /\ o = req[h].n)
<1>0. TypeOK /\ ChainInv
  BY DEF Inv
<1>1. CASE chain' = chain
  BY <1>0, <1>1 DEF ChainInv, TypeOK, Grows
<1>2. CASE AppendBlock(h)
  BY <1>2, AppendEffect
<1>3. CASE SignBlock(h)
  BY <1>3, SignEffect
<1>4. CASE LoadEnd(h) /\ Publishes(h)
  <2>1. req[h].n \in Obj /\ pc[h] \in Loading
    BY <1>4, LoadEndEffect DEF LoadEnd, Loading
  <2>2. PICK c \in Seq(BlockType) : /\ c # <<>> /\ Intact(c)
                                    /\ chain' = [chain EXCEPT ![req[h].n] = c]
    BY <1>4 DEF Publishes
  <2>3. \A o \in Obj : chain'[o] = IF o = req[h].n THEN c ELSE chain[o]
    BY <1>0, <2>1, <2>2 DEF TypeOK
  <2>4. QED
    BY <1>0, <2>1, <2>2, <2>3 DEF ChainInv, TypeOK, Grows
<1>5. QED
  BY <1>1, <1>2, <1>3, <1>4, ChainShape

\* ChainInv, which says that chains verify, is kept.
LEMMA ChainStep ==
  ASSUME Inv, [Next]_vars
  PROVE  ChainInv'
<1>0. TypeOK /\ ReqInv /\ ChainInv /\ TypeOK'
  BY TypeStep DEF Inv
<1>a. \A t \in Tenant : cached'[t] # 0 => cached'[t] \in Obj
  BY <1>0, LedgerAssumption DEF TypeOK, Obj
<1>1. ASSUME NEW h \in Handler, Step(h) PROVE ChainInv'
  <2>1. \A o \in Obj : Intact(chain'[o]) /\ (chain[o] # <<>> => chain'[o] # <<>>)
    BY <1>1, ChainsGrow
  <2>2. \A t \in Tenant : cached'[t] # 0 => chain'[cached'[t]] # <<>>
    <3>1. CASE LoadEnd(h) /\ Publishes(h)
      <4>1. req[h].n \in Obj /\ req[h].tenant \in Tenant
        BY <3>1, LoadEndEffect
      <4>2. PICK c : c # <<>> /\ chain' = [chain EXCEPT ![req[h].n] = c]
        BY <3>1 DEF Publishes
      <4>3. chain'[req[h].n] # <<>>
        BY <1>0, <4>1, <4>2 DEF TypeOK
      <4>4. \A t \in Tenant : cached'[t] = cached[t] \/ cached'[t] = req[h].n
        BY <1>0, <3>1, <4>1 DEF Publishes, TypeOK
      <4>5. QED
        BY <1>0, <1>a, <2>1, <4>3, <4>4 DEF ChainInv
    <3>2. CASE ~(LoadEnd(h) /\ Publishes(h))
      <4>1. \A t \in Tenant : cached'[t] = cached[t] \/ cached'[t] = 0
        <5>1. cached' = cached \/ cached' = [cached EXCEPT ![req[h].tenant] = 0]
          BY <1>1, <3>2, CacheShape
        <5>2. QED
          BY <1>0, <5>1 DEF TypeOK
      <4>2. QED
        BY <1>0, <1>a, <2>1, <4>1 DEF ChainInv
    <3>3. QED
      BY <3>1, <3>2
  <2>3. ASSUME NEW g \in Handler, pc'[g] \in Holding PROVE chain'[req'[g].obj] # <<>>
    <3>1. ops' = ops /\ Others(h) /\ (Ends(h) \/ Goes(h))
      BY <1>1, StepShape
    <3>2. CASE pc[g] \in Holding /\ req'[g].obj = req[g].obj
      BY <1>0, <2>1, <3>2 DEF ReqInv, ChainInv
    <3>3. CASE g = h /\ req'[h].obj = cached'[req[h].tenant] /\ req'[h].obj \in Obj /\ pc[h] # "idle"
      <4>1. req[h].tenant \in Tenant /\ req'[h].obj # 0
        BY <1>0, <3>3, LedgerAssumption DEF ReqInv, Obj
      <4>2. QED
        BY <2>2, <3>3, <4>1
    <3>4. QED
      BY <2>3, <3>1, <3>2, <3>3 DEF Others, Ends, Goes, Holding
  <2>4. QED
    BY <2>1, <2>2, <2>3 DEF ChainInv
<1>2. ASSUME NEW h \in Handler, NEW t \in Tenant, NEW k \in Kinds[t], Start(h, k, t)
      PROVE  ChainInv'
  BY <1>0, <1>2, StartShape DEF ChainInv, Others, Holding
<1>3. CASE Crash
  <2>1. Intact(<<>>)
    BY DEF Intact, VerifyChain, Numbered
  <2>2. QED
    BY <1>3, <2>1 DEF Crash, ChainInv, Holding
<1>4. CASE UNCHANGED <<pc, req, chain, cached>>
  BY <1>0, <1>4 DEF ChainInv
<1>5. QED
  BY <1>1, <1>2, <1>3, <1>4 DEF Next, vars, Corrupt

\* What a step of a handler reads and writes.
LEMMA StoreShape ==
  ASSUME Inv, NEW h \in Handler, Step(h)
  PROVE  \/ bucket' = bucket
         \/ LoadBegin(h)
         \/ LoadEnd(h) /\ Publishes(h)
         \/ SaveChain(h) \/ DeleteBucket(h)
<1>1. CASE LoadEnd(h)
  BY <1>1, LoadEndEffect
<1>2. CASE ~LoadEnd(h)
  BY <1>2 DEF Step, Lookup, Relook, Read, Check, Height, AppendBlock, SignBlock, Snapshot, Evict
<1>3. QED
  BY <1>1, <1>2

\* What a handler carries is what it loaded, a snapshot, or nothing.
LEMMA DataShape ==
  ASSUME Inv, NEW h \in Handler, Step(h)
  PROVE  \/ data'[h] = data[h] \/ data'[h] = <<>>
         \/ LoadBegin(h) \/ Snapshot(h)
<1>0. TypeOK
  BY DEF Inv
<1>1. Done(h) => data'[h] = <<>>
  BY <1>0 DEF Done, TypeOK
<1>2. \A o : Got(h, o) => data'[h] = <<>>
  BY <1>0 DEF Got, TypeOK
<1>3. CASE LoadEnd(h)
  BY <1>1, <1>2, <1>3, LoadEndEffect DEF Publishes
<1>4. CASE ~LoadEnd(h)
  BY <1>1, <1>2, <1>4 DEF Step, Lookup, Relook, LoadBegin, Read, Check, Height, AppendBlock,
     SignBlock, Snapshot, SaveChain, DeleteBucket, Evict
<1>5. QED
  BY <1>3, <1>4

\* NumberInv, which says that blocks are numbered in a row, is kept.
LEMMA NumberStep ==
  ASSUME Inv, [Next]_vars
  PROVE  NumberInv'
<1>0. TypeOK /\ ReqInv /\ ChainInv /\ NumberInv
  BY DEF Inv
<1>a. Numbered(<<>>)
  BY DEF Numbered
<1>1. ASSUME NEW h \in Handler, Step(h) PROVE NumberInv'
  <2>1. Numbered(data'[h])
    <3>1. CASE LoadBegin(h)
      <4>1. CASE Done(h)
        BY <1>0, <1>a, <4>1, DoneType
      <4>2. CASE ~Done(h)
        <5>1. /\ req[h].tenant \in Tenant
              /\ data'[h] = IF bucket[req[h].tenant] = NoBucket THEN <<>> ELSE bucket[req[h].tenant]
          BY <1>0, <3>1, <4>2 DEF LoadBegin, ReqInv, TypeOK
        <5>2. QED
          BY <1>0, <1>a, <5>1 DEF NumberInv
      <4>3. QED
        BY <4>1, <4>2
    <3>2. CASE Snapshot(h)
      <4>1. req[h].obj \in Obj /\ data'[h] = chain[req[h].obj]
        BY <1>0, <3>2 DEF Snapshot, ReqInv, Holding, TypeOK
      <4>2. QED
        BY <1>0, <4>1 DEF ChainInv, Intact
    <3>3. QED
      BY <1>0, <1>1, <1>a, <3>1, <3>2, DataShape DEF NumberInv
  <2>2. ASSUME NEW t \in Tenant, bucket'[t] # NoBucket PROVE Numbered(bucket'[t])
    <3>1. CASE bucket' = bucket
      BY <1>0, <2>2, <3>1 DEF NumberInv
    <3>2. CASE LoadBegin(h)
      BY <1>0, <1>a, <2>2, <3>2 DEF LoadBegin, NumberInv, TypeOK
    <3>3. CASE LoadEnd(h) /\ Publishes(h)
      <4>1. CASE bucket' = bucket
        BY <3>1, <4>1
      <4>2. CASE bucket' # bucket
        <5>1. PICK d \in Seq(BlockType) :
                bucket' = [bucket EXCEPT ![req[h].tenant] = d] /\ Intact(d)
          BY <3>3, <4>2 DEF Publishes
        <5>2. QED
          BY <1>0, <2>2, <5>1 DEF NumberInv, TypeOK, Intact
      <4>3. QED
        BY <4>1, <4>2
    <3>4. CASE SaveChain(h)
      BY <1>0, <2>2, <3>4 DEF SaveChain, NumberInv, TypeOK
    <3>5. CASE DeleteBucket(h)
      BY <1>0, <2>2, <3>5 DEF DeleteBucket, NumberInv, TypeOK
    <3>6. QED
      BY <1>1, <3>1, <3>2, <3>3, <3>4, <3>5, StoreShape
  <2>3. Others(h)
    BY <1>1, StepShape
  <2>4. QED
    BY <1>0, <2>1, <2>2, <2>3 DEF NumberInv, Others
<1>2. CASE Crash
  BY <1>0, <1>2, <1>a DEF Crash, NumberInv
<1>3. ASSUME NEW t \in Damageable, Corrupt(t) PROVE NumberInv'
  <2>1. t \in Tenant /\ MaxOp + 1 \in Int /\ bucket[t] # NoBucket
    BY <1>3, LedgerAssumption DEF Corrupt
  <2>2. bucket[t] \in Seq(BlockType) /\ Numbered(bucket[t])
    BY <1>0, <2>1 DEF NumberInv, TypeOK
  <2>3. PICK i \in 1..Len(bucket[t]) :
          bucket' = [bucket EXCEPT ![t] = [bucket[t] EXCEPT ![i].tx = MaxOp + 1]]
    BY <1>3 DEF Corrupt
  <2> DEFINE d == [bucket[t] EXCEPT ![i].tx = MaxOp + 1]
  <2>4. Numbered(d)
    BY <2>1, <2>2, CorruptNumbered
  <2> HIDE DEF d
  <2>5. bucket' = [bucket EXCEPT ![t] = d]
    BY <2>3 DEF d
  <2>6. \A u \in Tenant : bucket'[u] = IF u = t THEN d ELSE bucket[u]
    BY <1>0, <2>5 DEF TypeOK
  <2>7. QED
    BY <1>0, <1>3, <2>4, <2>6 DEF Corrupt, NumberInv
<1>4. CASE UNCHANGED <<bucket, data>>
  BY <1>0, <1>4 DEF NumberInv
<1>5. QED
  BY <1>1, <1>2, <1>3, <1>4 DEF Next, vars, Start

\* An empty server.
LEMMA InitInv == Init => Inv
<1> SUFFICES ASSUME Init PROVE Inv
  OBVIOUS
<1>1. <<>> \in Seq(BlockType) /\ Intact(<<>>) /\ Numbered(<<>>)
  BY DEF Intact, VerifyChain, Numbered
<1>2. TypeOK
  BY <1>1, NoReqType, LedgerAssumption DEF Init, TypeOK, PC
<1>3. ReqInv /\ ObjInv
  BY NoReqType DEF Init, ReqInv, ObjInv, Loading, Holding
<1>4. ChainInv /\ NumberInv
  BY <1>1 DEF Init, ChainInv, NumberInv, Holding
<1>5. QED
  BY <1>2, <1>3, <1>4 DEF Inv

\* The invariant holds in every state.
LEMMA Invariance == Spec => []Inv
<1>1. Inv /\ [Next]_vars => Inv'
  BY TypeStep, ReqStep, ObjStep, ChainStep, NumberStep DEF Inv
<1>2. QED
  BY <1>1, InitInv, PTL DEF Spec

\* However the handlers interleave, and whatever was damaged on disk, the chain a
\* tenant is served is never empty, verifies, and is numbered from 0.
THEOREM ServedChainIsIntact == Spec => []ServedIntact
<1>1. Inv => ServedIntact
  <2> SUFFICES ASSUME Inv, NEW t \in Tenant, cached[t] # 0
               PROVE  /\ Len(chain[cached[t]]) > 0
                      /\ VerifyChain(chain[cached[t]])
                      /\ \A i \in 1..Len(chain[cached[t]]) : chain[cached[t]][i].index = i - 1
    BY DEF ServedIntact
  <2>1. cached[t] \in Obj
    BY LedgerAssumption DEF Inv, TypeOK, Obj
  <2>2. chain[cached[t]] \in Seq(BlockType) /\ chain[cached[t]] # <<>> /\ Intact(chain[cached[t]])
    BY <2>1 DEF Inv, TypeOK, ChainInv
  <2>3. QED
    BY <2>2, EmptySeq DEF Intact, Numbered
<1>2. QED
  BY <1>1, Invariance, PTL

-----------------------------------------------------------------------------
(* The chain that is served has every acknowledged block, and what is stored *)
(* is a beginning of it                                                      *)

\* What a chain begins with it begins with when it has grown.
LEMMA BeginsGrows ==
  ASSUME NEW s \in Seq(BlockType), NEW c \in Seq(BlockType), NEW d \in Seq(BlockType),
         Begins(s, c), Grows(c, d)
  PROVE  Begins(s, d)
<1>1. Len(s) \in Nat /\ Len(c) \in Nat /\ Len(d) \in Nat
  OBVIOUS
<1>2. QED
  BY <1>1 DEF Begins, Grows

\* The transactions of a chain stay in it when it grows.
LEMMA HasTxGrows ==
  ASSUME NEW c \in Seq(BlockType), NEW d \in Seq(BlockType), NEW n,
         HasTx(c, n), Grows(c, d)
  PROVE  HasTx(d, n)
<1>1. Len(c) \in Nat /\ Len(d) \in Nat
  OBVIOUS
<1>2. QED
  BY <1>1 DEF HasTx, Grows

\* A chain in use only grows.
LEMMA UsedGrows ==
  ASSUME Inv, NEW h \in Handler, Step(h), NEW o \in Obj,
         (\E t \in Tenant : cached[t] = o) \/ (\E g \in Handler : req[g].obj = o)
  PROVE  Grows(chain[o], chain'[o])
<1>1. pc[h] \in Loading => o # req[h].n
  BY DEF Inv, ObjInv
<1>2. QED
  BY <1>1, ChainsGrow

\* Nobody evicts an undisturbed tenant: an entry changes only when it is published.
LEMMA QuietCache ==
  ASSUME Inv, NEW h \in Handler, Step(h), NEW t \in Tenant, Undisturbed(t)
  PROVE  \/ cached'[t] = cached[t]
         \/ /\ LoadEnd(h) /\ Publishes(h) /\ pc[h] = "store"
            /\ req[h].tenant = t /\ cached[t] = 0
            /\ cached'[t] = req[h].n /\ req[h].n \in Obj
<1>0. TypeOK
  BY DEF Inv
<1>1. CASE cached' = cached
  BY <1>1
<1>2. CASE /\ Evict(h) /\ req[h].kind = "delete"
           /\ cached' = [cached EXCEPT ![req[h].tenant] = 0]
  <2>1. req[h].kind \in Kinds[req[h].tenant]
    BY <1>2 DEF Inv, ReqInv, Evict
  <2>2. req[h].tenant # t
    BY <1>2, <2>1 DEF Undisturbed
  <2>3. QED
    BY <1>0, <1>2, <2>2 DEF TypeOK
<1>3. CASE /\ LoadEnd(h) /\ Publishes(h) /\ pc[h] = "store"
           /\ req[h].tenant \in Tenant /\ req[h].n \in Obj
           /\ cached[req[h].tenant] = 0
           /\ cached' = [cached EXCEPT ![req[h].tenant] = req[h].n]
  BY <1>0, <1>3 DEF TypeOK
<1>4. QED
  BY <1>1, <1>2, <1>3, CacheShape

\* The bucket of an undisturbed tenant.
LEMMA QuietStore ==
  ASSUME Inv, HeldInv, NEW h \in Handler, Step(h), NEW t \in Tenant, Undisturbed(t)
  PROVE  \/ bucket'[t] = bucket[t]
         \/ /\ LoadBegin(h) /\ cached[t] = 0 /\ bucket[t] = NoBucket /\ bucket'[t] = <<>>
            /\ lock = {} /\ cached' = cached /\ acked' = acked
         \/ /\ LoadEnd(h) /\ Publishes(h) /\ req[h].tenant = t /\ pc[h] = "store"
            /\ cached'[t] = req[h].n /\ cached[t] = 0
            /\ \E d \in Seq(BlockType), c \in Seq(BlockType) :
                 /\ bucket'[t] = d /\ Intact(d) /\ Begins(d, c)
                 /\ chain'[req[h].n] = c
         \/ /\ SaveChain(h) /\ req[h].tenant = t
            /\ req[h].obj = cached[t] /\ cached[t] \in Obj
            /\ bucket'[t] = data[h] /\ Intact(data[h])
            /\ Begins(data[h], chain[cached[t]]) /\ chain' = chain /\ cached' = cached
<1>0. TypeOK /\ ReqInv /\ ObjInv
  BY DEF Inv
<1>1. CASE bucket' = bucket
  BY <1>1
<1>2. CASE LoadBegin(h)
  <2>1. /\ lock = {} /\ cached[req[h].tenant] = 0 /\ cached' = cached /\ acked' = acked
        /\ req[h].tenant \in Tenant
    BY <1>0, <1>2 DEF LoadBegin, MustLoad, ReqInv
  <2>2. CASE req[h].tenant # t \/ bucket[t] # NoBucket
    BY <1>0, <1>2, <2>2 DEF LoadBegin, TypeOK
  <2>3. CASE req[h].tenant = t /\ bucket[t] = NoBucket
    BY <1>0, <1>2, <2>1, <2>3 DEF LoadBegin, TypeOK
  <2>4. QED
    BY <2>2, <2>3
<1>3. CASE LoadEnd(h) /\ Publishes(h)
  <2>1. /\ req[h].n \in Obj /\ req[h].tenant \in Tenant /\ pc[h] = "store"
        /\ cached'[req[h].tenant] = req[h].n /\ cached[req[h].tenant] = 0
    BY <1>0, <1>3, LoadEndEffect DEF LoadEnd, Publishes, ObjInv, TypeOK
  <2>2. CASE bucket' = bucket \/ req[h].tenant # t
    BY <1>0, <1>3, <2>2 DEF Publishes, TypeOK
  <2>3. CASE bucket' # bucket /\ req[h].tenant = t
    <3>1. PICK c \in Seq(BlockType) :
            /\ chain' = [chain EXCEPT ![req[h].n] = c]
            /\ \E d \in Seq(BlockType) :
                 /\ bucket' = [bucket EXCEPT ![req[h].tenant] = d]
                 /\ Intact(d) /\ Begins(d, c)
      BY <1>3, <2>3 DEF Publishes
    <3>2. PICK d \in Seq(BlockType) :
            bucket' = [bucket EXCEPT ![req[h].tenant] = d] /\ Intact(d) /\ Begins(d, c)
      BY <3>1
    <3>3. bucket'[t] = d /\ chain'[req[h].n] = c
      BY <1>0, <2>1, <2>3, <3>1, <3>2 DEF TypeOK
    <3>4. QED
      BY <1>3, <2>1, <2>3, <3>2, <3>3
  <2>4. QED
    BY <2>2, <2>3
<1>4. CASE SaveChain(h)
  <2>1. CASE req[h].tenant # t \/ bucket' = bucket
    BY <1>0, <1>4, <2>1 DEF SaveChain, TypeOK
  <2>2. CASE req[h].tenant = t /\ bucket' # bucket
    <3>1. /\ pc[h] = "write" /\ pc[h] \in Holding
          /\ bucket'[t] = data[h] /\ chain' = chain /\ cached' = cached
      BY <1>0, <1>4, <2>2 DEF SaveChain, Holding, TypeOK
    <3>2. req[h].obj = cached[t] /\ req[h].obj \in Obj
      BY <1>0, <2>2, <3>1 DEF HeldInv, ReqInv
    <3>3. Begins(data[h], chain[req[h].obj]) /\ Intact(data[h])
      BY <3>1 DEF HeldInv
    <3>4. QED
      BY <1>4, <2>2, <3>1, <3>2, <3>3
  <2>3. QED
    BY <2>1, <2>2
<1>5. CASE DeleteBucket(h)
  <2>1. req[h].kind = "delete" /\ req[h].kind \in Kinds[req[h].tenant]
    BY <1>0, <1>5 DEF ReqInv, DeleteBucket
  <2>2. req[h].tenant # t
    BY <2>1 DEF Undisturbed
  <2>3. QED
    BY <1>0, <1>5, <2>2 DEF DeleteBucket, TypeOK
<1>6. QED
  BY <1>1, <1>2, <1>3, <1>4, <1>5, StoreShape

\* How a handler comes to sign, copy and write.
LEMMA WriteMoves ==
  ASSUME Inv, NEW h \in Handler, Step(h), pc'[h] \in {"sign", "snapshot", "write"}
  PROVE  /\ AppendBlock(h) \/ SignBlock(h) \/ Snapshot(h)
         /\ pc'[h] = "write" <=> Snapshot(h)
<1>1. ~LoadEnd(h)
  BY LoadEndMoves
<1>2. TypeOK /\ pc \in [Handler -> PC]
  BY DEF Inv, TypeOK
<1>3. ~Done(h)
  BY <1>2, DoneType
<1>4. \A o : Got(h, o) => FALSE
  BY <1>2 DEF Got, After
<1>5. AppendBlock(h) \/ SignBlock(h) \/ Snapshot(h)
  BY <1>1, <1>2, <1>3, <1>4 DEF Step, Lookup, Relook, LoadBegin, Read, Check, Height,
     SaveChain, DeleteBucket, Evict
<1>6. QED
  BY <1>2, <1>5 DEF AppendBlock, SignBlock, Snapshot

\* HeldInv, about the objects and copies in the hands of handlers, is kept.
LEMMA HeldStep ==
  ASSUME Inv, HeldInv, NEW h \in Handler, Step(h)
  PROVE  HeldInv'
<1>0. TypeOK /\ ReqInv /\ ObjInv /\ ChainInv /\ TypeOK'
  BY TypeStep DEF Inv, Next
<1>1. ops' = ops /\ Others(h) /\ (Ends(h) \/ Goes(h))
  BY StepShape
<1>2. \A g \in Handler : pc'[g] # "idle" => /\ pc[g] # "idle" /\ req'[g].n = req[g].n
                                            /\ req'[g].tenant = req[g].tenant
                                            /\ req[g].tenant \in Tenant
  BY <1>0, <1>1 DEF Others, Ends, Goes, SameReq, ReqInv
<1> SUFFICES ASSUME NEW g \in Handler
             PROVE  /\ pc'[g] \in Holding /\ Undisturbed(req'[g].tenant) =>
                         req'[g].obj = cached'[req'[g].tenant]
                    /\ pc'[g] = "write" => Begins(data'[g], chain'[req'[g].obj]) /\ Intact(data'[g])
                    /\ pc'[g] \in {"sign", "snapshot", "write"} => HasTx(chain'[req'[g].obj], req'[g].n)
                    /\ pc'[g] = "store" /\ Undisturbed(req'[g].tenant) => bucket'[req'[g].tenant] = data'[g]
  BY DEF HeldInv, Undisturbed
<1>3. ASSUME pc'[g] \in Holding, Undisturbed(req'[g].tenant)
      PROVE  req'[g].obj = cached'[req'[g].tenant]
  <2>1. pc'[g] # "idle" /\ req'[g].tenant = req[g].tenant /\ req[g].tenant \in Tenant
    BY <1>2, <1>3 DEF Holding
  <2>2. CASE pc[g] \in Holding /\ req'[g].obj = req[g].obj
    <3>1. req[g].obj = cached[req[g].tenant] /\ req[g].obj \in Obj /\ req[g].obj # 0
      BY <1>0, <1>3, <2>1, <2>2, LedgerAssumption DEF HeldInv, ReqInv, Obj
    <3>2. cached'[req[g].tenant] = cached[req[g].tenant]
      BY <1>3, <2>1, <3>1, QuietCache
    <3>3. QED
      BY <2>1, <2>2, <3>1, <3>2
  <2>3. QED
    BY <1>1, <1>3, <2>1, <2>2 DEF Others, Ends, Goes, Holding
<1>4. ASSUME pc'[g] \in {"sign", "snapshot", "write"}
      PROVE  /\ req'[g].obj = req[g].obj /\ req[g].obj \in Obj
             /\ Grows(chain[req[g].obj], chain'[req[g].obj])
             /\ HasTx(chain'[req'[g].obj], req'[g].n)
  <2>1. /\ req'[g].obj = req[g].obj /\ req[g].obj \in Obj /\ pc[g] \in Holding
        /\ req'[g].n = req[g].n
        /\ g # h => pc'[g] = pc[g]
    BY <1>0, <1>1, <1>2, <1>4 DEF Others, Ends, Goes, Holding, ReqInv
  <2>2. Grows(chain[req[g].obj], chain'[req[g].obj])
    BY <2>1, UsedGrows
  <2>3. chain[req[g].obj] \in Seq(BlockType) /\ chain'[req[g].obj] \in Seq(BlockType)
    BY <1>0, <2>1 DEF TypeOK
  <2>4. CASE pc[g] \in {"sign", "snapshot", "write"}
    <3>1. HasTx(chain[req[g].obj], req[g].n)
      BY <2>4 DEF HeldInv
    <3>2. QED
      BY <2>1, <2>2, <2>3, <3>1, HasTxGrows
  <2>5. CASE pc[g] \notin {"sign", "snapshot", "write"}
    <3>1. g = h /\ AppendBlock(h)
      <4>1. g = h
        BY <1>4, <2>1, <2>5
      <4>2. QED
        BY <1>4, <2>5, <4>1, WriteMoves DEF SignBlock, Snapshot
    <3>2. QED
      BY <2>1, <2>2, <3>1, AppendEffect
  <2>6. QED
    BY <2>1, <2>2, <2>4, <2>5
<1>5. ASSUME pc'[g] = "write"
      PROVE  Begins(data'[g], chain'[req'[g].obj]) /\ Intact(data'[g])
  <2>1. /\ req'[g].obj = req[g].obj /\ req[g].obj \in Obj
        /\ Grows(chain[req[g].obj], chain'[req[g].obj])
    BY <1>4, <1>5
  <2>2. chain[req[g].obj] \in Seq(BlockType) /\ chain'[req[g].obj] \in Seq(BlockType)
    BY <1>0, <2>1 DEF TypeOK
  <2>3. CASE g # h
    <3>1. pc[g] = "write" /\ data'[g] = data[g] /\ data[g] \in Seq(BlockType)
      BY <1>0, <1>1, <1>5, <2>3 DEF Others, TypeOK
    <3>2. Begins(data[g], chain[req[g].obj]) /\ Intact(data[g])
      BY <3>1 DEF HeldInv
    <3>3. QED
      BY <2>1, <2>2, <3>1, <3>2, BeginsGrows
  <2>4. CASE g = h
    <3>1. Snapshot(h)
      BY <1>5, <2>4, WriteMoves
    <3>2. data'[g] = chain[req[g].obj] /\ chain' = chain
      BY <1>0, <2>4, <3>1 DEF Snapshot, TypeOK
    <3>3. Intact(chain[req[g].obj]) /\ Begins(chain[req[g].obj], chain[req[g].obj])
      BY <1>0, <2>1, <2>2 DEF ChainInv, Begins
    <3>4. QED
      BY <2>1, <3>2, <3>3
  <2>5. QED
    BY <2>3, <2>4
<1>6. ASSUME pc'[g] = "store", Undisturbed(req'[g].tenant)
      PROVE  bucket'[req'[g].tenant] = data'[g]
  <2>1. req'[g].tenant = req[g].tenant /\ req[g].tenant \in Tenant
    BY <1>2, <1>6
  <2>2. CASE g = h
    <3>1. LoadBegin(h) /\ ~Done(h)
      BY <1>0, <1>6, <2>2, StoreIsLoad, DoneType
    <3>2. QED
      BY <1>0, <2>1, <2>2, <3>1 DEF LoadBegin, TypeOK
  <2>3. CASE g # h
    <3>1. pc[g] = "store" /\ data'[g] = data[g]
      BY <1>1, <1>6, <2>3 DEF Others
    <3>2. lock = {g} /\ cached[req[g].tenant] = 0 /\ bucket[req[g].tenant] = data[g]
      BY <1>0, <1>6, <2>1, <3>1 DEF ObjInv, HeldInv
    <3>3. ~LoadBegin(h) /\ ~LoadEnd(h)
      BY <1>0, <2>3, <3>2 DEF LoadBegin, LoadEnd, ObjInv
    <3>4. 0 \notin Obj
      BY LedgerAssumption DEF Obj
    <3>5. bucket'[req[g].tenant] = bucket[req[g].tenant]
      BY <1>6, <2>1, <3>2, <3>3, <3>4, QuietStore
    <3>6. QED
      BY <2>1, <3>1, <3>2, <3>5
  <2>4. QED
    BY <2>2, <2>3
<1>7. QED
  BY <1>3, <1>4, <1>5, <1>6

\* After a load, what is stored is a beginning of what is served, and everything
\* that was stored is served.
LEMMA LoadServes ==
  ASSUME Inv, HeldInv, StoredInv, NEW h \in Handler, LoadEnd(h), Publishes(h),
         Undisturbed(req[h].tenant)
  PROVE  /\ req[h].tenant \in Tenant /\ req[h].n \in Obj
         /\ bucket'[req[h].tenant] # NoBucket => Begins(bucket'[req[h].tenant], chain'[req[h].n])
         /\ bucket[req[h].tenant] # NoBucket /\ bucket[req[h].tenant] # <<>> =>
              chain'[req[h].n] = bucket[req[h].tenant]
<1> DEFINE t == req[h].tenant
           o == req[h].n
<1>0. TypeOK
  BY DEF Inv
<1>1. t \in Tenant /\ o \in Obj /\ pc[h] = "store"
  BY LoadEndEffect DEF LoadEnd
<1>2. bucket[t] = data[h] /\ (bucket[t] # NoBucket => Intact(data[h]))
  BY <1>0, <1>1 DEF HeldInv, StoredInv, TypeOK
<1>3. PICK c \in Seq(BlockType) :
        /\ data[h] # <<>> /\ Intact(data[h]) => c = data[h]
        /\ chain' = [chain EXCEPT ![o] = c]
        /\ \/ bucket' = bucket /\ (Intact(data[h]) => c = data[h])
           \/ \E d \in Seq(BlockType) :
                /\ bucket' = [bucket EXCEPT ![t] = d]
                /\ Intact(d) /\ Begins(d, c)
  BY DEF Publishes
<1>4. chain'[o] = c
  BY <1>0, <1>1, <1>3 DEF TypeOK
<1>5. ASSUME bucket'[t] # NoBucket PROVE Begins(bucket'[t], c)
  <2>1. CASE bucket' = bucket /\ (Intact(data[h]) => c = data[h])
    <3>1. c = bucket[t]
      BY <1>2, <1>5, <2>1
    <3>2. Begins(c, c)
      BY DEF Begins
    <3>3. QED
      BY <2>1, <3>1, <3>2
  <2>2. ASSUME NEW d \in Seq(BlockType), bucket' = [bucket EXCEPT ![t] = d], Begins(d, c)
        PROVE  Begins(bucket'[t], c)
    <3>1. bucket'[t] = d
      BY <1>0, <1>1, <2>2 DEF TypeOK
    <3>2. QED
      BY <2>2, <3>1
  <2>3. QED
    BY <1>3, <2>1, <2>2
<1>6. QED
  BY <1>1, <1>2, <1>3, <1>4, <1>5

\* What is noted for the properties changes when a handler writes its copy.
LEMMA NotedShape ==
  ASSUME NEW h \in Handler, Step(h)
  PROVE  \/ UNCHANGED <<acked, missed, overtaken, lost>>
         \/ /\ SaveChain(h) /\ UNCHANGED <<bucket, acked, overtaken, lost>>
            /\ missed' = [missed EXCEPT ![h] = {}]
         \/ /\ SaveChain(h) /\ NoteSave(h)
            /\ bucket' = [bucket EXCEPT ![req[h].tenant] = data[h]]
            /\ acked' \subseteq acked \cup {<<req[h].tenant, req[h].n>>}
            /\ acked \subseteq acked'
<1>1. CASE LoadEnd(h)
  BY <1>1 DEF LoadEnd, saves
<1>2. CASE SaveChain(h)
  BY <1>2 DEF SaveChain
<1>3. CASE ~LoadEnd(h) /\ ~SaveChain(h)
  BY <1>3 DEF Step, Lookup, Relook, LoadBegin, Read, Check, Height, AppendBlock,
     SignBlock, Snapshot, DeleteBucket, Evict, saves
<1>4. QED
  BY <1>1, <1>2, <1>3

\* The transactions of a beginning are those of the chain.
LEMMA HasTxBegins ==
  ASSUME NEW s \in Seq(BlockType), NEW c \in Seq(BlockType), NEW x,
         Intact(s), Intact(c), Begins(s, c), HasTx(s, x)
  PROVE  HasTx(c, x)
<1>1. PICK i \in 1..Len(s) : s[i].tx = x
  BY DEF HasTx
<1>2. i \in 1..Len(c) /\ s[i].hash = c[i].hash
  <2>1. Len(s) \in Nat /\ Len(c) \in Nat
    OBVIOUS
  <2>2. QED
    BY <1>1, <2>1 DEF Begins
<1>3. s[i].hash = <<s[i].index, s[i].tx>> /\ c[i].hash = <<c[i].index, c[i].tx>>
  BY <1>1, <1>2 DEF Intact, VerifyChain, Verify
<1>4. c[i].tx = x
  <2>1. <<s[i].index, s[i].tx>> = <<c[i].index, c[i].tx>>
    BY <1>2, <1>3
  <2>2. s[i].tx = c[i].tx
    BY ONLY <2>1
  <2>3. QED
    BY <1>1, <2>2
<1>5. QED
  BY <1>2, <1>4 DEF HasTx

\* What is stored is the set of its transactions.
LEMMA StoredHas ==
  ASSUME NEW t, NEW s \in Seq(BlockType), NEW x
  PROVE  <<t, x>> \in Stored(t, s) <=> HasTx(s, x)
<1>1. DOMAIN s = 1..Len(s)
  OBVIOUS
<1>2. QED
  BY <1>1 DEF Stored, HasTx

\* A copy on its way to the store lacks only what is noted as missed.
LEMMA CopyStep ==
  ASSUME Inv, SavedInv, NEW h \in Handler, Step(h)
  PROVE  CopyInv'
<1>0. TypeOK /\ ReqInv /\ ChainInv /\ HeldInv /\ StoredInv /\ StoredIsPrefix /\ CopyInv
  BY DEF Inv, SavedInv
<1>1. Others(h) /\ (Ends(h) \/ Goes(h))
  BY StepShape
<1>2. missed' \in [Handler -> SUBSET (Tenant \X Int)]
  <2>1. CASE SaveChain(h) /\ NoteSave(h)
    <3>1. req[h].tenant \in Tenant /\ data[h] \in Seq(BlockType)
      BY <1>0, <2>1 DEF SaveChain, ReqInv, TypeOK
    <3>2. \A i \in DOMAIN data[h] : data[h][i].tx \in Int
      <4>1. \A i \in DOMAIN data[h] : data[h][i] \in BlockType
        BY <3>1
      <4>2. QED
        BY <4>1 DEF BlockType
    <3>3. Stored(req[h].tenant, data[h]) \subseteq Tenant \X Int
      BY <3>1, <3>2 DEF Stored
    <3>4. QED
      BY <1>0, <2>1, <3>3 DEF NoteSave, CopyInv
  <2>2. QED
    BY <1>0, <2>1, NotedShape DEF CopyInv
<1>3. ASSUME NEW g \in Handler, pc'[g] = "write" PROVE CopyOK(g)'
  <2>1. CASE g # h
    <3>1. /\ pc[g] = "write" /\ data'[g] = data[g] /\ req'[g].n = req[g].n
          /\ req'[g].tenant = req[g].tenant /\ req[g].tenant \in Tenant
      BY <1>0, <1>1, <1>3, <2>1 DEF Others, ReqInv
    <3>2. CopyOK(g) /\ missed[g] \subseteq missed'[g]
      <4>1. CASE SaveChain(h) /\ NoteSave(h)
        BY <1>0, <2>1, <3>1, <4>1 DEF NoteSave, CopyInv
      <4>2. QED
        BY <1>0, <2>1, <3>1, <4>1, NotedShape DEF CopyInv
    <3>3. ASSUME Undisturbed(req[g].tenant), NEW x \in Int, IsStored(req[g].tenant, x)'
          PROVE  HasTx(data[g], x) \/ <<req[g].tenant, x>> \in missed'[g]
      <4> DEFINE t == req[g].tenant
      <4>b. bucket'[t] # NoBucket /\ HasTx(bucket'[t], x)
        BY <3>1, <3>3 DEF IsStored
      <4>1. CASE bucket'[t] = bucket[t]
        <5>1. IsStored(t, x)
          BY <4>b, <4>1 DEF IsStored
        <5>2. QED
          BY <3>2, <3>3, <5>1 DEF CopyOK
      <4>2. CASE bucket'[t] # bucket[t]
        <5>1. cached[t] = req[g].obj /\ cached[t] # 0
          BY <1>0, <3>1, <3>3, LedgerAssumption DEF HeldInv, ReqInv, Holding, Obj
        <5>2. SaveChain(h) /\ req[h].tenant = t /\ bucket'[t] = data[h]
          BY <1>0, <3>1, <3>3, <4>2, <5>1, QuietStore
        <5>3. NoteSave(h) /\ pc[h] = "write"
          BY <4>2, <5>2, NotedShape DEF SaveChain
        <5>4. data[h] \in Seq(BlockType) /\ HasTx(data[h], x)
          BY <1>0, <4>b, <5>2 DEF TypeOK
        <5>5. <<t, x>> \in Stored(req[h].tenant, data[h])
          BY <5>2, <5>4, StoredHas
        <5>6. QED
          BY <2>1, <3>1, <5>2, <5>3, <5>5 DEF NoteSave
      <4>3. QED
        BY <4>1, <4>2
    <3>4. QED
      BY <3>1, <3>2, <3>3 DEF CopyOK, Undisturbed
  <2>2. CASE g = h
    <3>1. Snapshot(h)
      BY <1>3, <2>2, WriteMoves
    <3>2. /\ data'[h] = chain[req[h].obj] /\ UNCHANGED <<chain, bucket, req>>
          /\ pc[h] = "snapshot" /\ req[h].tenant \in Tenant /\ req[h].obj \in Obj
      BY <1>0, <3>1 DEF Snapshot, TypeOK, ReqInv, Holding
    <3>3. HasTx(chain[req[h].obj], req[h].n)
      BY <1>0, <3>2 DEF HeldInv
    <3>4. ASSUME Undisturbed(req[h].tenant), NEW x \in Int, IsStored(req[h].tenant, x)
          PROVE  HasTx(chain[req[h].obj], x)
      <4> DEFINE t == req[h].tenant
      <4>1. cached[t] = req[h].obj /\ cached[t] # 0
        BY <1>0, <3>2, <3>4, LedgerAssumption DEF HeldInv, Holding, Obj
      <4>2. bucket[t] # NoBucket /\ HasTx(bucket[t], x) /\ bucket[t] \in Seq(BlockType)
        BY <1>0, <3>2, <3>4 DEF IsStored, TypeOK
      <4>3. Begins(bucket[t], chain[req[h].obj]) /\ Intact(bucket[t])
        BY <1>0, <3>2, <3>4, <4>1, <4>2 DEF StoredIsPrefix, StoredInv, Begins
      <4>4. chain[req[h].obj] \in Seq(BlockType) /\ Intact(chain[req[h].obj])
        BY <1>0, <3>2 DEF TypeOK, ChainInv
      <4>5. QED
        BY <4>2, <4>3, <4>4, HasTxBegins
    <3>5. QED
      BY <2>2, <3>2, <3>3, <3>4 DEF CopyOK, IsStored, Undisturbed
  <2>3. QED
    BY <2>1, <2>2
<1>4. QED
  BY <1>2, <1>3 DEF CopyInv

\* A block that was answered stays in the store, or is overtaken by a copy that missed it.
LEMMA OvertakenStep ==
  ASSUME Inv, SavedInv, NEW h \in Handler, Step(h)
  PROVE  OvertakenInv'
<1>0. TypeOK /\ ReqInv /\ HeldInv /\ StoredInv /\ CopyInv /\ OvertakenInv
  BY DEF Inv, SavedInv
<1> SUFFICES ASSUME NEW p \in acked', Undisturbed(p[1])
             PROVE  IsStored(p[1], p[2])' \/ p \in overtaken'
  BY DEF OvertakenInv, Undisturbed
<1>1. CASE SaveChain(h) /\ NoteSave(h) /\ bucket' = [bucket EXCEPT ![req[h].tenant] = data[h]]
  <2>1. /\ pc[h] = "write" /\ req[h].tenant \in Tenant /\ data[h] \in Seq(BlockType)
        /\ CopyOK(h) /\ bucket'[req[h].tenant] = data[h] /\ data[h] # NoBucket
    <3>1. pc[h] = "write"
      BY <1>1 DEF SaveChain
    <3>2. data[h] \in Seq(BlockType) /\ req[h].tenant \in Tenant
      BY <1>0, <3>1 DEF TypeOK, ReqInv
    <3>3. CopyOK(h) /\ bucket'[req[h].tenant] = data[h]
      BY <1>0, <1>1, <3>1, <3>2 DEF CopyInv, TypeOK
    <3>4. QED
      BY <3>1, <3>2, <3>3, LedgerAssumption
  <2>2. CASE p = <<req[h].tenant, req[h].n>>
    BY <2>1, <2>2 DEF CopyOK, IsStored
  <2>3. CASE p \in acked
    <3>1. p[1] \in Tenant /\ p[2] \in Int /\ p = <<p[1], p[2]>>
      BY <1>0, <2>3 DEF TypeOK
    <3>2. CASE p \in Stored(req[h].tenant, data[h])
      <4>1. p[1] = req[h].tenant
        BY <3>2 DEF Stored
      <4>2. HasTx(data[h], p[2])
        BY <2>1, <3>1, <3>2, <4>1, StoredHas
      <4>3. QED
        BY <2>1, <4>1, <4>2 DEF IsStored
    <3>3. CASE p \notin Stored(req[h].tenant, data[h])
      <4>1. overtaken' = (overtaken \cup missed[h]) \ Stored(req[h].tenant, data[h])
        BY <1>1 DEF NoteSave
      <4>2. CASE p \in overtaken
        BY <3>3, <4>1, <4>2
      <4>3. CASE IsStored(p[1], p[2]) /\ p[1] # req[h].tenant
        BY <1>0, <1>1, <3>1, <4>3 DEF IsStored, TypeOK
      <4>4. CASE IsStored(p[1], p[2]) /\ p[1] = req[h].tenant
        <5>1. ~HasTx(data[h], p[2])
          BY <2>1, <3>1, <3>3, <4>4, StoredHas
        <5>2. <<req[h].tenant, p[2]>> \in missed[h]
          BY <2>1, <3>1, <4>4, <5>1 DEF CopyOK
        <5>3. QED
          BY <3>1, <3>3, <4>1, <4>4, <5>2
      <4>5. QED
        BY <1>0, <2>3, <4>2, <4>3, <4>4 DEF OvertakenInv
    <3>4. QED
      BY <3>2, <3>3
  <2>4. QED
    BY <1>1, <2>2, <2>3 DEF SaveChain
<1>2. CASE UNCHANGED <<acked, overtaken>>
  <2>1. p \in acked /\ p[1] \in Tenant /\ (IsStored(p[1], p[2]) \/ p \in overtaken)
    BY <1>0, <1>2 DEF OvertakenInv, TypeOK
  <2>2. CASE bucket'[p[1]] = bucket[p[1]]
    BY <1>2, <2>1, <2>2 DEF IsStored
  <2>3. CASE bucket'[p[1]] # bucket[p[1]] /\ ~SaveChain(h)
    <3>1. \/ bucket[p[1]] = NoBucket
          \/ LoadEnd(h) /\ Publishes(h) /\ req[h].tenant = p[1] /\ pc[h] = "store"
      BY <1>0, <2>1, <2>3, QuietStore
    <3>2. CASE bucket[p[1]] # NoBucket
      <4>1. bucket[p[1]] = data[h] /\ Intact(data[h]) /\ bucket' # bucket
        BY <1>0, <2>1, <2>3, <3>1, <3>2 DEF HeldInv, StoredInv
      <4>2. data[h] = <<>>
        BY <3>1, <3>2, <4>1 DEF Publishes
      <4>3. ~IsStored(p[1], p[2])
        BY <4>1, <4>2 DEF IsStored, HasTx
      <4>4. QED
        BY <1>2, <2>1, <4>3
    <3>3. CASE bucket[p[1]] = NoBucket
      BY <1>2, <2>1, <3>3 DEF IsStored
    <3>4. QED
      BY <3>2, <3>3
  <2>4. CASE bucket'[p[1]] # bucket[p[1]] /\ SaveChain(h)
    <3>1. bucket' # bucket
      BY <2>4
    <3>2. NoteSave(h) /\ bucket' = [bucket EXCEPT ![req[h].tenant] = data[h]]
      BY <2>4, <3>1 DEF SaveChain
    <3>3. QED
      BY <1>1, <2>4, <3>2
  <2>5. QED
    BY <2>2, <2>3, <2>4
<1>3. QED
  BY <1>1, <1>2, NotedShape

\* So is what is said of the store, by the steps of handlers ...
LEMMA StoredStep ==
  ASSUME Inv, SavedInv, NEW h \in Handler, Step(h)
  PROVE  StoredInv' /\ StoredIsPrefix' /\ AckedServed'
<1>0. TypeOK /\ ReqInv /\ TypeOK' /\ HeldInv /\ StoredInv /\ StoredIsPrefix /\ AckedServed
  BY TypeStep DEF Inv, Next, SavedInv
<1>a. Obj \subseteq 1..MaxOp /\ 0 \notin Obj
  BY LedgerAssumption DEF Obj
<1>c. lost' = lost
  BY NotedShape DEF NoteSave
<1>b. \A t \in Tenant : cached[t] # 0 =>
        /\ cached[t] \in Obj /\ Grows(chain[cached[t]], chain'[cached[t]])
        /\ chain[cached[t]] \in Seq(BlockType) /\ chain'[cached[t]] \in Seq(BlockType)
  <2>1. \A t \in Tenant : cached[t] # 0 => cached[t] \in Obj
    BY <1>0, LedgerAssumption DEF TypeOK, Obj
  <2>2. QED
    BY <1>0, <2>1, UsedGrows DEF TypeOK
<1>1. ASSUME NEW t \in Tenant, Undisturbed(t), bucket'[t] # NoBucket
      PROVE  Intact(bucket'[t])
  <2>1. Intact(<<>>)
    BY DEF Intact, VerifyChain, Numbered
  <2>2. QED
    BY <1>0, <1>1, <2>1, QuietStore DEF StoredInv
<1>2. ASSUME NEW t \in Tenant, Undisturbed(t), cached'[t] # 0, bucket'[t] # NoBucket
      PROVE  Begins(bucket'[t], chain'[cached'[t]])
  <2>1. CASE LoadEnd(h) /\ Publishes(h) /\ req[h].tenant = t
    <3>1. cached'[t] = req[h].n
      BY <1>0, <1>2, <2>1 DEF Publishes, TypeOK
    <3>2. QED
      BY <1>0, <1>2, <2>1, <3>1, LoadServes
  <2>2. CASE ~(LoadEnd(h) /\ Publishes(h) /\ req[h].tenant = t)
    <3>1. cached'[t] = cached[t] /\ cached[t] # 0
      BY <1>2, <2>2, QuietCache
    <3>2. CASE bucket'[t] = bucket[t]
      <4>1. bucket[t] \in Seq(BlockType) /\ Begins(bucket[t], chain[cached[t]])
        BY <1>0, <1>2, <3>1, <3>2 DEF StoredIsPrefix, Begins, TypeOK
      <4>2. QED
        BY <1>b, <3>1, <3>2, <4>1, BeginsGrows
    <3>3. CASE bucket'[t] # bucket[t]
      BY <1>0, <1>2, <2>2, <3>1, <3>3, QuietStore
    <3>4. QED
      BY <3>2, <3>3
  <2>3. QED
    BY <2>1, <2>2
<1>3. ASSUME NEW p \in acked', p \notin acked, Undisturbed(p[1])
      PROVE  /\ p[1] \in Tenant /\ cached'[p[1]] # 0
             /\ HasTx(chain'[cached'[p[1]]], p[2])
  <2>1. SaveChain(h)
    <3>1. CASE LoadEnd(h)
      BY <1>3, <3>1 DEF LoadEnd
    <3>2. CASE ~LoadEnd(h)
      BY <1>3, <3>2 DEF Step, Lookup, Relook, LoadBegin, Read, Check, Height, AppendBlock,
         SignBlock, Snapshot, DeleteBucket, Evict
    <3>3. QED
      BY <3>1, <3>2
  <2>2. /\ p = <<req[h].tenant, req[h].n>> /\ pc[h] = "write"
        /\ cached' = cached /\ chain' = chain
    BY <1>3, <2>1 DEF SaveChain
  <2>3. p[1] = req[h].tenant /\ p[2] = req[h].n
    BY <2>2
  <2>4. req[h].tenant \in Tenant /\ req[h].obj = cached[req[h].tenant] /\ req[h].obj \in Obj
    BY <1>0, <1>3, <2>2, <2>3 DEF ReqInv, HeldInv, Holding
  <2>5. HasTx(chain[req[h].obj], req[h].n)
    BY <1>0, <2>2 DEF HeldInv
  <2>6. QED
    BY <1>a, <2>2, <2>3, <2>4, <2>5
<1>4. ASSUME NEW p \in acked', p \in acked \ lost, Undisturbed(p[1]), cached'[p[1]] = 0
      PROVE  bucket'[p[1]] # NoBucket /\ HasTx(bucket'[p[1]], p[2])
  <2>1. p[1] \in Tenant
    BY <1>0, <1>4 DEF TypeOK
  <2>2. cached[p[1]] = 0
    BY <1>4, <1>a, <2>1, QuietCache
  <2>3. bucket[p[1]] # NoBucket /\ HasTx(bucket[p[1]], p[2])
    BY <1>0, <1>4, <2>2 DEF StoredInv
  <2>4. bucket'[p[1]] = bucket[p[1]]
    <3>1. CASE LoadEnd(h) /\ Publishes(h) /\ req[h].tenant = p[1]
      BY SMTT(30), <1>0, <1>4, <1>a, <2>1, <3>1, LoadEndEffect DEF Publishes, TypeOK
    <3>2. QED
      BY <1>0, <1>4, <1>a, <2>1, <2>2, <2>3, <3>1, QuietStore
  <2>5. QED
    BY <2>3, <2>4
<1>5. ASSUME NEW p \in acked', p \in acked \ lost, Undisturbed(p[1]), cached'[p[1]] # 0
      PROVE  HasTx(chain'[cached'[p[1]]], p[2])
  <2>1. p[1] \in Tenant
    BY <1>0, <1>5 DEF TypeOK
  <2>2. CASE cached[p[1]] # 0
    <3>1. cached'[p[1]] = cached[p[1]]
      BY <1>5, <2>1, <2>2, QuietCache
    <3>2. HasTx(chain[cached[p[1]]], p[2])
      BY <1>0, <1>5, <2>2 DEF AckedServed
    <3>3. QED
      BY <1>b, <2>1, <2>2, <3>1, <3>2, HasTxGrows
  <2>3. CASE cached[p[1]] = 0
    <3>1. LoadEnd(h) /\ Publishes(h) /\ req[h].tenant = p[1] /\ cached'[p[1]] = req[h].n
      BY <1>5, <2>1, <2>3, QuietCache
    <3>2. bucket[p[1]] # NoBucket /\ HasTx(bucket[p[1]], p[2])
      BY <1>0, <1>5, <2>3 DEF StoredInv
    <3>3. bucket[p[1]] # <<>>
      BY <3>2 DEF HasTx
    <3>4. chain'[req[h].n] = bucket[p[1]]
      BY <1>0, <1>5, <3>1, <3>2, <3>3, LoadServes
    <3>5. QED
      BY <3>1, <3>2, <3>4
  <2>4. QED
    BY <2>2, <2>3
<1>6. StoredInv'
  BY <1>1, <1>3, <1>4, <1>c DEF StoredInv, Undisturbed
<1>7. StoredIsPrefix'
  BY <1>2 DEF StoredIsPrefix, Begins, Undisturbed
<1>8. AckedServed'
  BY <1>3, <1>5, <1>c DEF AckedServed, Undisturbed
<1>9. QED
  BY <1>6, <1>7, <1>8

\* ... and by every other step.
LEMMA SavedStep ==
  ASSUME Inv, SavedInv, [Next]_vars
  PROVE  SavedInv'
<1>0. /\ TypeOK /\ ReqInv /\ HeldInv /\ StoredInv /\ StoredIsPrefix /\ AckedServed
      /\ CopyInv /\ OvertakenInv
  BY DEF Inv, SavedInv
<1>1. ASSUME NEW h \in Handler, Step(h) PROVE SavedInv'
  BY <1>1, HeldStep, StoredStep, CopyStep, OvertakenStep DEF SavedInv
<1>2. ASSUME NEW h \in Handler, NEW t \in Tenant, NEW k \in Kinds[t], Start(h, k, t)
      PROVE  SavedInv'
  <2>1. /\ Others(h) /\ pc'[h] \in {"bucket", "lookup"}
        /\ UNCHANGED <<chain, cached, bucket, data, acked>>
    BY <1>0, <1>2, StartShape
  <2>a. UNCHANGED <<missed, overtaken, lost>>
    BY <1>2 DEF Start, saves
  <2>2. HeldInv'
    BY <1>0, <2>1 DEF HeldInv, Others, Holding, Undisturbed
  <2>3. CopyInv' /\ OvertakenInv'
    BY <1>0, <2>1, <2>a DEF CopyInv, CopyOK, OvertakenInv, IsStored, Others, Undisturbed
  <2>4. StoredInv' /\ StoredIsPrefix' /\ AckedServed'
    BY <1>0, <2>1, <2>a DEF StoredInv, StoredIsPrefix, AckedServed, Undisturbed
  <2>5. QED
    BY <2>2, <2>3, <2>4 DEF SavedInv
<1>3. CASE Crash
  <2>1. HeldInv' /\ StoredIsPrefix'
    BY <1>3 DEF Crash, HeldInv, Holding, StoredIsPrefix
  <2>2. \A p \in acked' \ lost' : Undisturbed(p[1]) =>
          /\ p \in acked /\ p[1] \in Tenant
          /\ bucket'[p[1]] # NoBucket /\ HasTx(bucket'[p[1]], p[2])
    BY <1>0, <1>3 DEF Crash, TypeOK, OvertakenInv, IsStored
  <2>a. CopyInv' /\ OvertakenInv'
    BY <1>0, <1>3 DEF Crash, CopyInv, OvertakenInv, IsStored, Undisturbed
  <2>3. StoredInv'
    BY <1>0, <1>3, <2>2 DEF Crash, StoredInv, Undisturbed
  <2>4. AckedServed'
    BY <1>3, <2>2 DEF Crash, AckedServed, Undisturbed
  <2>5. QED
    BY <2>1, <2>3, <2>4, <2>a DEF SavedInv
<1>4. ASSUME NEW t \in Damageable, Corrupt(t) PROVE SavedInv'
  <2>1. /\ \A u \in Tenant : Undisturbed(u) => bucket'[u] = bucket[u]
        /\ UNCHANGED <<chain, cached, pc, req, data, acked>>
        /\ UNCHANGED <<missed, overtaken, lost>>
    BY <1>0, <1>4 DEF Corrupt, Undisturbed, TypeOK, saves
  <2>2. \A h \in Handler : pc[h] = "store" => req[h].tenant \in Tenant
    BY <1>0 DEF ReqInv
  <2>3. HeldInv'
    BY <1>0, <2>1, <2>2 DEF HeldInv, Undisturbed
  <2>4. \A p \in acked : p[1] \in Tenant
    BY <1>0 DEF TypeOK
  <2>5. StoredInv' /\ StoredIsPrefix' /\ AckedServed'
    BY <1>0, <2>1, <2>4 DEF StoredInv, StoredIsPrefix, AckedServed, Undisturbed
  <2>6. OvertakenInv'
    BY <1>0, <2>1, <2>4 DEF OvertakenInv, IsStored, Undisturbed
  <2>7. CopyInv'
    <3>1. \A h \in Handler : pc[h] = "write" => req[h].tenant \in Tenant
      BY <1>0 DEF ReqInv
    <3>2. QED
      BY <1>0, <2>1, <3>1 DEF CopyInv, CopyOK, IsStored, Undisturbed
  <2>8. QED
    BY <2>3, <2>5, <2>6, <2>7 DEF SavedInv
<1>5. CASE UNCHANGED vars
  BY <1>0, <1>5 DEF vars, SavedInv, HeldInv, StoredInv, StoredIsPrefix, AckedServed,
     CopyInv, CopyOK, OvertakenInv, IsStored, Undisturbed
<1>6. QED
  BY <1>1, <1>2, <1>3, <1>4, <1>5 DEF Next

\* Whichever of two overlapping saves is committed last, and whenever the process
\* dies: what is stored of an undisturbed tenant is a beginning of what is served,
\* and a block answered 201 is in the chain that is served, unless the server died
\* after another request had stored a copy that it had taken before the block was there.
THEOREM ServedChainHasAll == Spec => []ServedHasAll
<1>1. Init => SavedInv
  BY DEF Init, SavedInv, HeldInv, StoredInv, StoredIsPrefix, AckedServed, CopyInv,
     OvertakenInv, Holding
<1>2. Inv /\ SavedInv /\ [Next]_vars => SavedInv'
  BY SavedStep
<1>3. Inv /\ SavedInv => ServedHasAll
  BY DEF Inv, SavedInv, ServedHasAll
<1>4. QED
  BY <1>1, <1>2, <1>3, Invariance, PTL DEF Spec

-----------------------------------------------------------------------------
(* The quota.  Only a count bounds what concurrent adds can do: the blocks of  *)
(* a chain and the handlers that are past the check for it together stay below *)
(* the quota plus the number of handlers.                                      *)

\* OwnInv is kept: a chain object serves one tenant only.
LEMMA OwnStep ==
  ASSUME Inv, OwnInv, [Next]_vars
  PROVE  OwnInv'
<1>0. TypeOK /\ ReqInv /\ ObjInv /\ NoReq.obj = 0 /\ 0 \notin Obj
  BY NoReqType, LedgerAssumption DEF Inv, Obj
<1>1. ASSUME NEW h \in Handler, Step(h) PROVE OwnInv'
  <2>1. ops' = ops /\ Others(h) /\ (Ends(h) \/ Goes(h))
    BY <1>1, StepShape
  <2>2. \A t \in Tenant : \/ cached'[t] = cached[t] \/ cached'[t] = 0
                          \/ /\ t = req[h].tenant /\ cached'[t] = req[h].n
                             /\ pc[h] \in Loading
    <3>1. \/ cached' = cached
          \/ cached' = [cached EXCEPT ![req[h].tenant] = 0]
          \/ cached' = [cached EXCEPT ![req[h].tenant] = req[h].n] /\ pc[h] \in Loading
      BY <1>1, CacheShape DEF Loading
    <3>2. QED
      BY <1>0, <3>1 DEF TypeOK
  <2>3. pc[h] \in Loading => /\ \A t \in Tenant : cached[t] # req[h].n
                             /\ \A g \in Handler : req[g].obj # req[h].n
    BY <1>0 DEF ObjInv
  <2>4. \A t, u \in Tenant : cached'[t] # 0 /\ cached'[t] = cached'[u] => t = u
    BY <2>2, <2>3 DEF OwnInv
  <2>5. \A g \in Handler :
          \/ req'[g].obj = 0
          \/ req'[g].obj = req[g].obj /\ req'[g].tenant = req[g].tenant
          \/ /\ g = h /\ req'[h].obj = cached'[req'[h].tenant] /\ req'[h].tenant \in Tenant
             /\ req'[h].obj # 0
    BY <1>0, <2>1 DEF Others, Ends, Goes, SameReq, ReqInv
  <2>6. \A t \in Tenant, g \in Handler :
          cached'[t] # 0 /\ cached'[t] = req'[g].obj => req'[g].tenant = t
    BY <2>2, <2>3, <2>4, <2>5 DEF OwnInv
  <2>7. \A f, g \in Handler :
          req'[f].obj # 0 /\ req'[f].obj = req'[g].obj => req'[f].tenant = req'[g].tenant
    BY <2>5, <2>6 DEF OwnInv
  <2>8. QED
    BY <2>4, <2>6, <2>7 DEF OwnInv
<1>2. ASSUME NEW h \in Handler, NEW t \in Tenant, NEW k \in Kinds[t], Start(h, k, t)
      PROVE  OwnInv'
  BY <1>0, <1>2, StartShape DEF OwnInv, Others
<1>3. CASE Crash
  BY <1>0, <1>3 DEF Crash, OwnInv
<1>4. CASE UNCHANGED <<req, cached>>
  BY <1>4 DEF OwnInv
<1>5. QED
  BY <1>1, <1>2, <1>3, <1>4 DEF Next, vars, Corrupt

\* The handlers past the check are handlers.
LEMMA AppendingCount ==
  ASSUME NEW S \in SUBSET Handler
  PROVE  /\ IsFiniteSet(S) /\ Cardinality(S) \in Nat
         /\ Cardinality(Handler) \in Nat /\ Cardinality(S) <= Cardinality(Handler)
BY LedgerAssumption, FS_Subset, FS_CardinalityType

\* How a handler gets past the check.
LEMMA AppendMoves ==
  ASSUME Inv, NEW h \in Handler, Step(h), pc'[h] = "append"
  PROVE  Check(h) \/ Height(h) \/ AppendBlock(h)
<1>1. ~LoadEnd(h)
  BY LoadEndMoves
<1>2. TypeOK /\ pc \in [Handler -> PC]
  BY DEF Inv, TypeOK
<1>3. ~Done(h)
  BY <1>2, DoneType
<1>4. \A o : Got(h, o) => FALSE
  BY <1>2 DEF Got, After
<1>5. QED
  BY <1>1, <1>2, <1>3, <1>4 DEF Step, Lookup, Relook, LoadBegin, Read, SignBlock, Snapshot,
     SaveChain, DeleteBucket, Evict

\* Appending and Room after a step, of a given object.
AppendingAfter(o) == {h \in Handler : pc'[h] = "append" /\ req'[h].obj = o}
RoomAfter(o) == Len(chain'[o]) + Cardinality(AppendingAfter(o)) < Quota + Cardinality(Handler)

\* A chain in use by a tenant without imports keeps its room.
LEMMA RoomStep ==
  ASSUME Inv, QuotaInv, Quota > 0, NEW h \in Handler, Step(h), NEW o \in Obj, NEW t \in Tenant,
         NoImport(t), \A g \in Handler : req[g].obj = o => req[g].tenant = t,
         (\E u \in Tenant : cached[u] = o) \/ (\E g \in Handler : req[g].obj = o),
         Room(chain[o], o)
  PROVE  RoomAfter(o)
<1> DEFINE A == Appending(o)
           B == AppendingAfter(o)
<1>0. TypeOK /\ ReqInv /\ ObjInv /\ TypeOK' /\ Quota \in Nat /\ chain[o] \in Seq(BlockType)
  BY TypeStep, LedgerAssumption DEF Inv, Next, TypeOK
<1>1. A \in SUBSET Handler /\ B \in SUBSET Handler
  BY DEF Appending, AppendingAfter
<1>2. /\ IsFiniteSet(A) /\ Cardinality(A) \in Nat
      /\ IsFiniteSet(B) /\ Cardinality(B) \in Nat
      /\ Cardinality(Handler) \in Nat /\ Cardinality(B) <= Cardinality(Handler)
  BY <1>1, AppendingCount
<1>3. Len(chain[o]) \in Nat /\ Len(chain[o]) + Cardinality(A) < Quota + Cardinality(Handler)
  BY <1>0 DEF Room
<1>4. ops' = ops /\ Others(h) /\ (Ends(h) \/ Goes(h))
  BY StepShape
<1>5. \A g \in Handler : g # h => (g \in B <=> g \in A)
  BY <1>4 DEF Others, Appending, AppendingAfter
<1>6. SUFFICES Len(chain'[o]) + Cardinality(B) < Quota + Cardinality(Handler)
  BY DEF RoomAfter
<1> HIDE DEF A, B
<1>7. CASE AppendBlock(h) /\ req[h].obj = o
  <2>1. req[h].tenant = t /\ pc[h] = "append" /\ Len(chain'[o]) = Len(chain[o]) + 1
    BY <1>7, AppendEffect DEF AppendBlock
  <2>2. req[h].todo = 0
    BY <2>1 DEF QuotaInv
  <2>3. pc'[h] # "append"
    BY <1>0, <1>7, <2>2 DEF AppendBlock, TypeOK
  <2>4. h \in A /\ h \notin B
    BY <1>7, <2>1, <2>3 DEF A, B, Appending, AppendingAfter
  <2>5. B = A \ {h}
    BY <1>1, <1>5, <2>4
  <2>6. Cardinality(B) = Cardinality(A) - 1
    BY <1>2, <2>4, <2>5, FS_RemoveElement
  <2>7. QED
    BY <1>2, <1>3, <2>1, <2>6
<1>8. CASE ~(AppendBlock(h) /\ req[h].obj = o)
  <2>1. Len(chain'[o]) = Len(chain[o])
    <3>1. CASE LoadEnd(h) /\ Publishes(h)
      <4>1. req[h].n \in Obj /\ req[h].n # o
        BY <1>0, <3>1, LoadEndEffect DEF ObjInv, LoadEnd, Loading
      <4>2. chain'[o] = chain[o]
        BY <1>0, <3>1, <4>1 DEF Publishes, TypeOK
      <4>3. QED
        BY <4>2
    <3>2. CASE AppendBlock(h)
      BY <1>8, <3>2, AppendEffect
    <3>3. CASE SignBlock(h)
      BY <3>3, SignEffect
    <3>4. QED
      BY <3>1, <3>2, <3>3, ChainShape
  <2>2. CASE h \in B /\ h \notin A
    <3>1. pc'[h] = "append" /\ req'[h].obj = o
      BY <2>2 DEF B, AppendingAfter
    <3>2. /\ req'[h].obj = req[h].obj /\ pc[h] # "append"
      BY <1>4, <2>2, <3>1 DEF Goes, Ends, A, Appending, Holding
    <3>3. Check(h) \/ Height(h)
      BY <3>1, <3>2, AppendMoves DEF AppendBlock
    <3>4. req[h].tenant = t
      BY <3>1, <3>2
    <3>5. ~Height(h)
      BY <3>4 DEF QuotaInv, Height
    <3>6. ~QuotaReached(chain[o])
      <4>1. ~Done(h)
        BY <1>0, <3>1, DoneType
      <4>2. QED
        BY <3>1, <3>2, <3>3, <3>5, <4>1 DEF Check
    <3>7. Len(chain[o]) < Quota
      BY <1>0, <1>3, <3>6 DEF QuotaReached
    <3>8. QED
      BY <1>0, <1>2, <1>3, <2>1, <3>7
  <2>3. CASE ~(h \in B /\ h \notin A)
    <3>1. B \in SUBSET A
      BY <1>1, <1>5, <2>3
    <3>2. Cardinality(B) <= Cardinality(A)
      BY <1>2, <3>1, FS_Subset
    <3>3. QED
      BY <1>0, <1>2, <1>3, <2>1, <3>2
  <2>4. QED
    BY <2>2, <2>3
<1>9. QED
  BY <1>7, <1>8

\* QuotaInv is kept: who appends was counted before, and who checks finds room.
LEMMA QuotaStep ==
  ASSUME Inv, OwnInv, QuotaInv, Quota > 0, NEW h \in Handler, Step(h)
  PROVE  QuotaInv'
<1> DEFINE N == Quota + Cardinality(Handler)
<1>0. TypeOK /\ ReqInv /\ ObjInv /\ TypeOK' /\ 0 \notin Obj /\ Quota \in Nat
  BY TypeStep, LedgerAssumption DEF Inv, Next, Obj
<1>a. ops' = ops /\ Others(h) /\ (Ends(h) \/ Goes(h))
  BY StepShape
<1>b. Cardinality(Handler) \in Nat /\ Cardinality(Handler) > 0
  BY LedgerAssumption, FS_CardinalityType, FS_EmptySet
<1>c. Len(<<>>) = 0 /\ Fits(<<>>)
  BY <1>0, <1>b DEF Fits
<1>d. \A t \in Tenant : cached'[t] # 0 => cached'[t] \in Obj
  BY <1>0, LedgerAssumption DEF TypeOK, Obj
<1>e. ASSUME NEW s \in Seq(BlockType), NEW o, Room(s, o) PROVE Fits(s)
  <2>1. Cardinality(Appending(o)) \in Nat
    BY AppendingCount DEF Appending
  <2>2. Len(s) \in Nat
    OBVIOUS
  <2>3. QED
    BY <1>0, <1>b, <1>e, <2>1, <2>2 DEF Room, Fits
<1>1. ASSUME NEW t \in Tenant, NoImport(t), cached'[t] # 0
      PROVE  RoomAfter(cached'[t])
  <2>1. CASE LoadEnd(h) /\ Publishes(h) /\ req[h].tenant = t
    <3>1. /\ req[h].n \in Obj /\ cached'[t] = req[h].n /\ pc[h] = "store"
          /\ pc'[h] # "append"
      BY <1>0, <1>1, <2>1, LoadEndEffect, LoadEndMoves DEF LoadEnd, Publishes, TypeOK
    <3>2. Fits(data[h]) /\ data[h] \in Seq(BlockType)
      BY <1>0, <1>1, <2>1, <3>1 DEF QuotaInv, TypeOK
    <3>3. PICK c \in Seq(BlockType) : /\ chain' = [chain EXCEPT ![req[h].n] = c]
                                      /\ Len(c) <= Len(data[h]) \/ Len(c) = 1
      BY <2>1 DEF Publishes
    <3>4. chain'[req[h].n] = c
      BY <1>0, <3>1, <3>3 DEF TypeOK
    <3>5. AppendingAfter(req[h].n) = {}
      <4>1. \A g \in Handler : req[g].obj # req[h].n
        BY <1>0, <3>1 DEF ObjInv, Loading
      <4>2. \A g \in Handler : ~(pc'[g] = "append" /\ req'[g].obj = req[h].n)
        BY <1>a, <3>1, <4>1 DEF Others
      <4>3. QED
        BY <4>2 DEF AppendingAfter
    <3>6. Len(c) < Quota + Cardinality(Handler)
      <4>1. Len(c) \in Nat /\ Len(data[h]) \in Nat
        BY <3>2
      <4>2. Len(data[h]) < Quota + Cardinality(Handler)
        BY <3>2 DEF Fits
      <4>3. Len(c) <= Len(data[h]) \/ Len(c) = 1
        BY <3>3
      <4>4. \A a, b, q, k \in Nat :
              q > 0 /\ k > 0 /\ b < q + k /\ (a <= b \/ a = 1) => a < q + k
        OBVIOUS
      <4>5. Quota \in Nat
        BY <1>0
      <4>6. QED
        BY <1>b, <4>1, <4>2, <4>3, <4>4, <4>5
    <3>7. Len(c) + Cardinality(AppendingAfter(req[h].n)) < Quota + Cardinality(Handler)
      BY <1>0, <1>b, <3>5, <3>6, FS_EmptySet
    <3>8. QED
      BY <3>1, <3>4, <3>7 DEF RoomAfter
  <2>2. CASE ~(LoadEnd(h) /\ Publishes(h) /\ req[h].tenant = t)
    <3>1. cached'[t] = cached[t] /\ cached[t] \in Obj
      <4>1. cached'[t] = cached[t]
        <5>1. \/ cached' = cached
              \/ cached' = [cached EXCEPT ![req[h].tenant] = 0]
              \/ /\ cached' = [cached EXCEPT ![req[h].tenant] = req[h].n]
                 /\ req[h].tenant # t
          BY <2>2, CacheShape
        <5>2. QED
          BY <1>0, <1>1, <5>1 DEF TypeOK
      <4>2. QED
        BY <1>1, <1>d, <4>1
    <3>2. Room(chain[cached[t]], cached[t])
      BY <1>1, <3>1 DEF QuotaInv
    <3>3. \A g \in Handler : req[g].obj = cached[t] => req[g].tenant = t
      BY <1>1, <3>1 DEF OwnInv
    <3>4. RoomAfter(cached[t])
      BY <1>1, <3>1, <3>2, <3>3, RoomStep
    <3>5. QED
      BY <3>1, <3>4
  <2>3. QED
    BY <2>1, <2>2
<1>2. ASSUME NEW t \in Tenant, NoImport(t), bucket'[t] # NoBucket PROVE Fits(bucket'[t])
  <2>1. CASE bucket'[t] = bucket[t]
    BY <1>2, <2>1 DEF QuotaInv
  <2>2. CASE LoadBegin(h)
    BY <1>0, <1>2, <1>c, <2>2 DEF LoadBegin, QuotaInv, TypeOK
  <2>3. CASE LoadEnd(h) /\ Publishes(h) /\ bucket'[t] # bucket[t]
    <3>1. PICK c \in Seq(BlockType) :
            /\ chain' = [chain EXCEPT ![req[h].n] = c]
            /\ \/ bucket' = bucket
               \/ \E d \in Seq(BlockType) :
                    bucket' = [bucket EXCEPT ![req[h].tenant] = d] /\ Begins(d, c)
      BY <2>3 DEF Publishes
    <3>2. PICK d \in Seq(BlockType) :
            bucket' = [bucket EXCEPT ![req[h].tenant] = d] /\ Begins(d, c)
      BY <2>3, <3>1
    <3>3. /\ req[h].n \in Obj /\ req[h].tenant = t /\ bucket'[t] = d
          /\ cached'[t] = req[h].n /\ chain'[req[h].n] = c
      BY <1>0, <2>3, <3>1, <3>2, LoadEndEffect DEF Publishes, TypeOK
    <3>4. RoomAfter(cached'[t])
      BY <1>0, <1>1, <1>2, <3>3
    <3>5. Cardinality(AppendingAfter(req[h].n)) \in Nat
      BY AppendingCount DEF AppendingAfter
    <3>6. Len(c) \in Nat /\ Len(d) \in Nat /\ Len(d) <= Len(c)
      BY <3>2 DEF Begins
    <3>7. QED
      BY <1>0, <1>b, <3>3, <3>4, <3>5, <3>6 DEF RoomAfter, Fits
  <2>4. CASE SaveChain(h)
    <3>1. CASE req[h].tenant # t \/ bucket' = bucket
      BY <1>0, <2>1, <2>4, <3>1 DEF SaveChain, TypeOK
    <3>2. CASE req[h].tenant = t /\ bucket' # bucket
      BY <1>0, <1>2, <2>4, <3>2 DEF SaveChain, QuotaInv, TypeOK
    <3>3. QED
      BY <3>1, <3>2
  <2>5. CASE DeleteBucket(h)
    BY <1>0, <1>2, <2>5 DEF DeleteBucket, QuotaInv, TypeOK
  <2>6. QED
    BY <2>1, <2>2, <2>3, <2>4, <2>5, StoreShape
<1>3. ASSUME NEW g \in Handler, pc'[g] # "idle", NoImport(req'[g].tenant)
      PROVE  /\ req'[g].todo = 0 /\ pc'[g] # "height"
             /\ pc'[g] \in Holding => RoomAfter(req'[g].obj)
             /\ pc'[g] \in {"store", "write"} => Fits(data'[g])
  <2>1. /\ pc[g] # "idle" /\ req'[g].tenant = req[g].tenant /\ req[g].tenant \in Tenant
        /\ req[g].kind \in Kinds[req[g].tenant]
    BY <1>0, <1>3, <1>a DEF Others, Ends, Goes, SameReq, ReqInv
  <2>2. /\ req[g].todo = 0 /\ pc[g] # "height" /\ req[g].kind # "import"
        /\ pc[g] \in Holding => Room(chain[req[g].obj], req[g].obj)
        /\ pc[g] \in {"store", "write"} => Fits(data[g])
    BY <1>3, <2>1 DEF QuotaInv, NoImport
  <2>3. req'[g].todo = 0
    <3>1. CASE g # h
      BY <1>a, <2>2, <3>1 DEF Others
    <3>2. CASE g = h /\ AppendBlock(h)
      <4>1. req[h] \in ReqType /\ req[h].todo = 0
        BY <1>0, <2>2, <3>2 DEF TypeOK
      <4>2. req'[h] = [req[h] EXCEPT !.at = Len(chain[req[h].obj]) + 1, !.todo = 0]
        BY <1>0, <3>2, <4>1 DEF AppendBlock, TypeOK
      <4>3. QED
        BY <3>2, <4>1, <4>2 DEF ReqType
    <3>3. CASE g = h /\ ~AppendBlock(h)
      <4>1. ~Height(h)
        BY <2>2, <3>3 DEF Height
      <4>2. ASSUME NEW o, Got(h, o) PROVE req'[h].todo = req[h].todo
        <5>1. req[h] \in ReqType /\ req'[h] = [req[h] EXCEPT !.obj = o]
          BY <1>0, <4>2 DEF Got, TypeOK
        <5>2. QED
          BY <5>1 DEF ReqType
      <4>3. CASE LoadEnd(h)
        BY <1>0, <1>3, <2>2, <3>3, <4>2, <4>3, LoadEndEffect, DoneType DEF Publishes
      <4>4. CASE ~LoadEnd(h)
        <5>1. req' = req \/ (\E o : Got(h, o)) \/ Done(h)
          BY <3>3, <4>1, <4>4 DEF Step, Lookup, Relook, LoadBegin, Read, Check,
             SignBlock, Snapshot, SaveChain, DeleteBucket, Evict
        <5>2. QED
          BY <1>0, <1>3, <2>2, <3>3, <4>2, <5>1, DoneType
      <4>5. QED
        BY <4>3, <4>4
    <3>4. QED
      BY <3>1, <3>2, <3>3
  <2>4. pc'[g] # "height"
    BY <1>a, <2>2 DEF Others, Ends, Goes, Holding
  <2>5. ASSUME pc'[g] \in Holding PROVE RoomAfter(req'[g].obj)
    <3>1. CASE pc[g] \in Holding /\ req'[g].obj = req[g].obj
      <4>1. /\ req[g].obj \in Obj
            /\ \A f \in Handler : req[f].obj = req[g].obj => req[f].tenant = req[g].tenant
        BY <1>0, <3>1 DEF ReqInv, OwnInv
      <4>2. NoImport(req[g].tenant)
        BY <1>3, <2>1
      <4>3. RoomAfter(req[g].obj)
        BY <2>1, <2>2, <3>1, <4>1, <4>2, RoomStep
      <4>4. QED
        BY <3>1, <4>3
    <3>2. CASE g = h /\ req'[h].obj = cached'[req[h].tenant] /\ req'[h].obj \in Obj
      <4>1. cached'[req[h].tenant] # 0 /\ NoImport(req[h].tenant) /\ req[h].tenant \in Tenant
        BY <1>0, <1>3, <2>1, <3>2
      <4>2. QED
        BY <1>1, <3>2, <4>1
    <3>3. QED
      BY <1>a, <2>5, <3>1, <3>2 DEF Others, Ends, Goes, Holding
  <2>6. ASSUME pc'[g] = "store" PROVE Fits(data'[g])
    <3>1. CASE g # h
      BY <1>a, <2>2, <2>6, <3>1 DEF Others
    <3>2. CASE g = h
      <4>1. LoadBegin(h) /\ ~Done(h)
        BY <1>0, <2>6, <3>2, StoreIsLoad, DoneType
      <4>2. data'[h] = IF bucket[req[h].tenant] = NoBucket THEN <<>> ELSE bucket[req[h].tenant]
        BY <1>0, <4>1 DEF LoadBegin, TypeOK
      <4>3. bucket[req[h].tenant] # NoBucket => Fits(bucket[req[h].tenant])
        BY <1>3, <2>1, <3>2 DEF QuotaInv
      <4>4. QED
        BY <1>c, <3>2, <4>2, <4>3
    <3>3. QED
      BY <3>1, <3>2
  <2>7. ASSUME pc'[g] = "write" PROVE Fits(data'[g])
    <3>1. CASE g # h
      BY <1>a, <2>2, <2>7, <3>1 DEF Others
    <3>2. CASE g = h
      <4>1. Snapshot(h)
        BY <2>7, <3>2, WriteMoves
      <4>2. data'[h] = chain[req[h].obj] /\ pc[h] \in Holding
        BY <1>0, <4>1 DEF Snapshot, Holding, TypeOK
      <4>3. Room(chain[req[h].obj], req[h].obj) /\ chain[req[h].obj] \in Seq(BlockType)
        BY <1>0, <2>2, <3>2, <4>2 DEF ReqInv, TypeOK
      <4>4. QED
        BY <1>e, <3>2, <4>2, <4>3
    <3>3. QED
      BY <3>1, <3>2
  <2>8. QED
    BY <2>3, <2>4, <2>5, <2>6, <2>7
<1>4. QED
  BY <1>1, <1>2, <1>3 DEF QuotaInv, Room, RoomAfter, Appending, AppendingAfter, Fits, NoImport

\* Concurrent adds overshoot TENANT_MAX_BLOCKS by less than the number of handlers,
\* also across restarts, as long as nothing is imported.
THEOREM QuotaIsBounded == Spec => []QuotaOvershoot
<1>1. Init => OwnInv /\ QuotaInv
  BY NoReqType DEF Init, OwnInv, QuotaInv
<1>2. Inv /\ OwnInv /\ [Next]_vars => OwnInv'
  BY OwnStep
<1>3. Inv /\ OwnInv /\ QuotaInv /\ [Next]_vars => QuotaInv'
  <2> SUFFICES ASSUME Inv, OwnInv, QuotaInv, [Next]_vars, Quota > 0 PROVE QuotaInv'
    BY DEF QuotaInv
  <2>0. TypeOK /\ ReqInv /\ TypeOK'
    BY TypeStep DEF Inv
  <2>1. ASSUME NEW h \in Handler, Step(h) PROVE QuotaInv'
    BY <2>1, QuotaStep
  <2>2. ASSUME NEW h \in Handler, NEW t \in Tenant, NEW k \in Kinds[t], Start(h, k, t)
        PROVE  QuotaInv'
    <3>1. /\ Others(h) /\ pc[h] = "idle" /\ pc'[h] \in {"bucket", "lookup"}
          /\ req'[h].todo = 0 /\ req'[h].tenant = t
          /\ UNCHANGED <<chain, cached, bucket, data>>
      BY <2>0, <2>2, StartShape
    <3>2. \A o : AppendingAfter(o) = Appending(o)
      BY <3>1 DEF Others, Appending, AppendingAfter
    <3>3. \A u \in Tenant : NoImport(u) =>
            /\ cached'[u] # 0 => RoomAfter(cached'[u])
            /\ bucket'[u] # NoBucket => Fits(bucket'[u])
      BY <3>1, <3>2 DEF QuotaInv, Room, RoomAfter
    <3>4. \A g \in Handler : pc'[g] # "idle" /\ NoImport(req'[g].tenant) =>
            /\ req'[g].todo = 0 /\ pc'[g] # "height"
            /\ pc'[g] \in Holding => RoomAfter(req'[g].obj)
            /\ pc'[g] \in {"store", "write"} => Fits(data'[g])
      BY <3>1, <3>2 DEF QuotaInv, Room, RoomAfter, Others, Holding
    <3>5. QED
      BY <3>3, <3>4 DEF QuotaInv, Room, RoomAfter, Appending, AppendingAfter, Fits, NoImport
  <2>3. CASE Crash
    <3>1. /\ \A t \in Tenant : cached'[t] = 0
          /\ \A g \in Handler : pc'[g] = "idle"
          /\ bucket' = bucket
      BY <2>3 DEF Crash
    <3>2. QED
      BY <3>1 DEF QuotaInv, NoImport, Fits
  <2>4. ASSUME NEW t \in Damageable, Corrupt(t) PROVE QuotaInv'
    <3>1. t \in Tenant /\ MaxOp + 1 \in Int /\ bucket[t] # NoBucket
      BY <2>4, LedgerAssumption DEF Corrupt
    <3>2. bucket[t] \in Seq(BlockType)
      BY <2>0, <3>1 DEF TypeOK
    <3>3. PICK i \in 1..Len(bucket[t]) :
            bucket' = [bucket EXCEPT ![t] = [bucket[t] EXCEPT ![i].tx = MaxOp + 1]]
      BY <2>4 DEF Corrupt
    <3> DEFINE d == [bucket[t] EXCEPT ![i].tx = MaxOp + 1]
    <3>4. Len(d) = Len(bucket[t])
      BY <3>1, <3>2, CorruptNumbered
    <3> HIDE DEF d
    <3>5. bucket' = [bucket EXCEPT ![t] = d]
      BY <3>3 DEF d
    <3>6. \A u \in Tenant : bucket'[u] = IF u = t THEN d ELSE bucket[u]
      BY <2>0, <3>5 DEF TypeOK
    <3>7. \A u \in Tenant : NoImport(u) /\ bucket'[u] # NoBucket => Fits(bucket'[u])
      BY <3>1, <3>4, <3>6 DEF QuotaInv, Fits
    <3>8. UNCHANGED <<chain, cached, pc, req, data>>
      BY <2>4 DEF Corrupt
    <3>9. QED
      BY <3>7, <3>8 DEF QuotaInv, Room, Appending, Fits, NoImport
  <2>5. CASE UNCHANGED vars
    BY <2>5 DEF vars, QuotaInv, Room, Appending, Fits, NoImport
  <2>6. QED
    BY <2>1, <2>2, <2>3, <2>4, <2>5 DEF Next
<1>4. Inv /\ QuotaInv => QuotaOvershoot
  <2> SUFFICES ASSUME Inv, QuotaInv, Quota > 0, NEW t \in Tenant, NoImport(t), cached[t] # 0
               PROVE  Len(chain[cached[t]]) < Quota + Cardinality(Handler)
    BY DEF QuotaOvershoot, NoImport
  <2>1. cached[t] \in Obj
    BY LedgerAssumption DEF Inv, TypeOK, Obj
  <2>2. Len(chain[cached[t]]) \in Nat
    BY <2>1 DEF Inv, TypeOK
  <2>3. Cardinality(Appending(cached[t])) \in Nat /\ Cardinality(Handler) \in Nat
    BY AppendingCount DEF Appending
  <2>4. Len(chain[cached[t]]) + Cardinality(Appending(cached[t])) < Quota + Cardinality(Handler)
    BY DEF QuotaInv, Room
  <2>5. QED
    BY <2>2, <2>3, <2>4, LedgerAssumption
<1>5. QED
  BY <1>1, <1>2, <1>3, <1>4, Invariance, PTL DEF Spec
=============================================================================
