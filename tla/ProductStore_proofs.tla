------------------------ MODULE ProductStore_proofs ------------------------
(***************************************************************************)
(* Proofs about ProductStore, for any writes, readers, requests and seeds: *)
(* wherever the process crashes the file is whole, an unlocked map is what *)
(* the file holds, and the store implements the atomic, durable catalogue  *)
(* that ProductReplicas takes a product service to be.                     *)
(***************************************************************************)
EXTENDS ProductStore, Catalogue_proofs

(* The file is absent or whole, and what is about to be renamed over it is *)
(* the map.                                                                *)
FilesInv ==
    /\ disk = Absent \/ disk = Whole(disk.content)
    /\ stage = "written" => temporary = Whole(memory)

(* Who holds the lock, and since when: a write that is busy, or main while *)
(* it creates the file or a seed.                                          *)
LockInv ==
    /\ lock = "nobody" <=> stage = "none"
    /\ process = "down" => lock = "nobody"
    /\ process = "opening" => lock = "main"
    /\ lock = "main" => process \in {"opening", "seeding"}
    /\ lock \in Writes => process = "serving" /\ pc[lock] = "busy"
    /\ \A w \in Writes : pc[w] = "busy" => lock = w

(* What start-up has done so far is a beginning of the default catalogue,  *)
(* of which main's persistLocked has yet to write the last product.        *)
StartInv ==
    /\ process = "opening" => disk = Absent /\ memory = <<>>
    /\ process = "seeding" =>
         /\ disk = Whole(disk.content)
         /\ Len(memory) <= Len(SeedProducts)
         /\ memory = SubSeq(SeedProducts, 1, Len(memory))
         /\ lock = "nobody" => disk.content = memory
         /\ lock = "main" =>
              Len(memory) > 0 /\ disk.content = SubSeq(SeedProducts, 1, Len(memory) - 1)

(* While a write is busy, the file is the catalogue that it has found, the *)
(* map what it makes of that; otherwise a serving store holds its file.    *)
ServingInv ==
    /\ process = "serving" => disk = Whole(disk.content)
    /\ UnlockedMemoryIsOnDisk
    /\ \A w \in Writes : pc[w] = "new" => answer[w] = Failed
    /\ \A w \in Writes : pc[w] = "busy" =>
         /\ Accepts(request[w], disk.content)
         /\ memory = Effect(request[w], w, disk.content)
         /\ answer[w] = Acceptance(request[w], disk.content)

IInv == TypeOK /\ FilesInv /\ LockInv /\ StartInv /\ ServingInv

---------------------------------------------------------------------------
(* Operators *)

(* The rollbacks of Create and of DecrementStock restore the map.          *)
LEMMA UndoRestores ==
    ASSUME NEW w \in Writes, request[w] \in RequestType,
           NEW c \in Seq(ProductType(Origins)), Accepts(request[w], c),
           memory = Effect(request[w], w, c)
    PROVE  Undo(w) = c
<1>. DEFINE q == request[w]
<1>1. CASE IsCreate(q)
  <2>. DEFINE p == [origin |-> w, quantity |-> q.quantity]
  <2>1. p \in ProductType(Origins)
    BY DEF ProductType, RequestType, Origins
  <2>2. memory = Append(c, p)
    BY <1>1 DEF Effect, Create
  <2>. HIDE DEF p
  <2>3. memory \in Seq(ProductType(Origins)) /\ Len(memory) = Len(c) + 1
    BY <2>1, <2>2
  <2>4. Undo(w) = SubSeq(memory, 1, Len(c))
    BY <1>1, <2>3 DEF Undo
  <2>5. SubSeq(memory, 1, Len(c)) = c
    BY <2>1, <2>2
  <2>. QED  BY <2>4, <2>5
<1>2. CASE ~IsCreate(q)
  <2>1. q.id \in DOMAIN c /\ c[q.id] \in ProductType(Origins) /\ c[q.id].quantity > 0
    BY <1>2, AcceptedSale
  <2>. DEFINE p == c[q.id]
              sold == [p EXCEPT !.quantity = p.quantity - 1]
  <2>2. memory = [c EXCEPT ![q.id] = sold]
    BY <1>2, <2>1 DEF Effect, DecrementStock
  <2>3. [sold EXCEPT !.quantity = sold.quantity + 1] = p
    <3>1. p \in [origin: Origins, quantity: Nat]
      BY <2>1 DEF ProductType
    <3>. HIDE DEF p
    <3>2. sold = [origin |-> p.origin, quantity |-> p.quantity - 1]
      BY <3>1
    <3>3. p = [origin |-> p.origin, quantity |-> p.quantity] /\ p.quantity \in Nat
      BY <3>1
    <3>. HIDE DEF sold
    <3>. QED  BY <3>2, <3>3
  <2>. HIDE DEF p, sold
  <2>4. Undo(w) = [memory EXCEPT ![q.id] = [memory[q.id] EXCEPT !.quantity = memory[q.id].quantity + 1]]
    BY <1>2 DEF Undo
  <2>5. memory[q.id] = sold
    BY <2>1, <2>2
  <2>6. Undo(w) = [[c EXCEPT ![q.id] = sold] EXCEPT ![q.id] = p]
    BY <2>2, <2>3, <2>4, <2>5
  <2>7. p = c[q.id]
    BY DEF p
  <2>. QED  BY <2>1, <2>6, <2>7
<1>. QED  BY <1>1, <1>2

(* Beginnings of the default catalogue: the next one appends one product.  *)
LEMMA NextSeed ==
    ASSUME NEW n \in Nat, n < Len(SeedProducts)
    PROVE  /\ SubSeq(SeedProducts, 1, n) \in Seq(ProductType(Origins))
           /\ Len(SubSeq(SeedProducts, 1, n)) = n
           /\ SeedProducts[n + 1] \in ProductType(Origins)
           /\ Append(SubSeq(SeedProducts, 1, n), SeedProducts[n + 1])
                = SubSeq(SeedProducts, 1, n + 1)
<1>1. SeedProducts \in Seq(ProductType(Seeds))
  BY SeedProductsAssumption
<1>2. ProductType(Seeds) \subseteq ProductType(Origins)
  BY DEF ProductType, Origins
<1>3. SeedProducts \in Seq(ProductType(Origins))
  BY <1>1, <1>2
<1>. HIDE DEF Origins
<1>. QED  BY <1>3

(* A verdict that does not come from the store does not depend on it.      *)
LEMMA TurnedAwayAnyway ==
    ASSUME NEW q, NEW c, NEW d, Status(q, c) \in {400, 401, 403}
    PROVE  Status(q, d) = Status(q, c)
BY DEF Status

(* The writes' names are not those of the other holders of the lock.       *)
LEMMA Holders == "main" \notin Writes /\ "nobody" \notin Writes
BY SeedProductsAssumption

(* What a request may ask for is a request.                                *)
LEMMA RequestIs ==
    ASSUME TypeOK, NEW w \in Writes
    PROVE  request[w] \in RequestType
BY RequestsAssumption DEF TypeOK

---------------------------------------------------------------------------
(* The invariant *)

LEMMA InvInit == Init => IInv
<1>. SUFFICES ASSUME Init PROVE IInv
  OBVIOUS
<1>1. Failed \in Answers
  BY FailedType
<1>2. <<>> \in Seq(ProductType(Origins))
  OBVIOUS
<1>3. TypeOK
  BY <1>1, <1>2 DEF Init, TypeOK, FileType, Absent
<1>. QED
  BY <1>3, Holders DEF Init, IInv, FilesInv, LockInv, StartInv, ServingInv,
     UnlockedMemoryIsOnDisk, Absent

(* The store at rest, or in the hands of the same holder: what clients are *)
(* told does not concern it, unless the client is the holder.              *)
LEMMA AnswerStep ==
    ASSUME IInv, NEW w \in Writes, NEW result \in Answers, pc[w] = "new",
           Answer(w, result), UNCHANGED <<lock, stage, memory>>
    PROVE  IInv'
<1>1. /\ UNCHANGED <<process, lock, stage, memory, disk, temporary, request, listing>>
      /\ answer' = [answer EXCEPT ![w] = result]
      /\ pc' = [pc EXCEPT ![w] = "answered"]
  BY DEF Answer, fileVars
<1>2. TypeOK'
  BY <1>1 DEF IInv, TypeOK
<1>3. FilesInv' /\ StartInv'
  BY <1>1 DEF IInv, FilesInv, StartInv
<1>4. LockInv'
  BY <1>1 DEF IInv, LockInv, TypeOK
<1>5. ServingInv'
  BY <1>1 DEF IInv, ServingInv, UnlockedMemoryIsOnDisk, TypeOK
<1>. QED  BY <1>2, <1>3, <1>4, <1>5 DEF IInv

LEMMA StartUpStep ==
    ASSUME IInv, StartUp
    PROVE  IInv'
<1>. USE DEF IInv
<1>0. /\ UNCHANGED <<disk, temporary, request, pc, answer, listing>>
      /\ ~ (lock' \in Writes)
  <2>1. lock \in Writes => process = "serving"
    BY DEF LockInv
  <2>. QED  BY <2>1, Holders DEF StartUp, CreateFile, LoadFile, CreateSeed, StartServing, fileVars, clientVars
<1>1. CASE CreateFile
  <2>1. /\ process = "down" /\ process' = "opening"
        /\ disk.state = "absent"
        /\ memory' = <<>> /\ lock' = "main" /\ stage' = "mutated"
    BY <1>1 DEF CreateFile
  <2>2. TypeOK'
    BY <1>0, <2>1 DEF TypeOK
  <2>3. disk = Absent
    BY <2>1 DEF FilesInv, Whole
  <2>4. FilesInv' /\ LockInv'
    BY <1>0, <2>1, Holders DEF FilesInv, LockInv
  <2>5. StartInv'
    BY <1>0, <2>1, <2>3 DEF StartInv
  <2>6. ServingInv'
    BY <1>0, <2>1 DEF ServingInv, LockInv, UnlockedMemoryIsOnDisk
  <2>. QED  BY <2>2, <2>4, <2>5, <2>6
<1>2. CASE LoadFile
  <2>1. /\ process = "down"
        /\ disk.state = "whole" /\ memory' = disk.content
        /\ process' = IF disk.content = <<>> THEN "seeding" ELSE "serving"
        /\ UNCHANGED <<lock, stage>>
    BY <1>2 DEF LoadFile
  <2>2. lock = "nobody" /\ stage = "none"
    BY <2>1 DEF LockInv
  <2>3. TypeOK'
    BY <1>0, <2>1 DEF TypeOK, FileType
  <2>4. disk = Whole(disk.content)
    BY <2>1 DEF FilesInv, Absent
  <2>5. FilesInv' /\ LockInv'
    BY <1>0, <2>1, <2>2 DEF FilesInv, LockInv
  <2>6. StartInv'
    <3>1. CASE disk.content = <<>>
      <4>1. Len(memory') = 0 /\ SubSeq(SeedProducts, 1, 0) = <<>> /\ Len(SeedProducts) >= 0
        BY <2>1, <3>1, SeedProductsAssumption
      <4>. QED  BY <1>0, <2>1, <2>2, <2>4, <3>1, <4>1, Holders DEF StartInv
    <3>2. CASE disk.content # <<>>
      BY <1>0, <2>1, <3>2 DEF StartInv
    <3>. QED  BY <3>1, <3>2
  <2>7. ServingInv'
    BY <1>0, <2>1, <2>2, <2>4, Holders DEF ServingInv, LockInv, UnlockedMemoryIsOnDisk
  <2>. QED  BY <2>3, <2>5, <2>6, <2>7
<1>3. CASE CreateSeed
  <2>1. /\ process = "seeding" /\ process' = process
        /\ lock = "nobody" /\ lock' = "main" /\ stage' = "mutated"
        /\ Len(memory) < Len(SeedProducts)
        /\ memory' = Append(memory, SeedProducts[Len(memory) + 1])
    BY <1>3 DEF CreateSeed
  <2>2. /\ memory = SubSeq(SeedProducts, 1, Len(memory))
        /\ disk = Whole(disk.content) /\ disk.content = memory
        /\ Len(memory) \in Nat
        /\ memory \in Seq(ProductType(Origins))
    BY <2>1 DEF StartInv, TypeOK
  <2>3. /\ SeedProducts[Len(memory) + 1] \in ProductType(Origins)
        /\ memory' = SubSeq(SeedProducts, 1, Len(memory) + 1)
    BY <2>1, <2>2, NextSeed
  <2>4. memory' \in Seq(ProductType(Origins)) /\ Len(memory') = Len(memory) + 1
    BY <2>1, <2>2, <2>3
  <2>5. TypeOK'
    BY <1>0, <2>1, <2>4 DEF TypeOK
  <2>6. FilesInv' /\ LockInv'
    BY <1>0, <2>1, Holders DEF FilesInv, LockInv
  <2>7. StartInv'
    BY <1>0, <2>1, <2>2, <2>3, <2>4, SeedProductsAssumption DEF StartInv
  <2>8. ServingInv'
    BY <1>0, <2>1 DEF ServingInv, LockInv, UnlockedMemoryIsOnDisk
  <2>. QED  BY <2>5, <2>6, <2>7, <2>8
<1>4. CASE StartServing
  <2>1. /\ process = "seeding" /\ process' = "serving"
        /\ lock = "nobody"
        /\ UNCHANGED <<lock, stage, memory>>
    BY <1>4 DEF StartServing
  <2>2. disk = Whole(disk.content) /\ disk.content = memory
    BY <2>1 DEF StartInv
  <2>3. TypeOK'
    BY <1>0, <2>1 DEF TypeOK
  <2>4. FilesInv' /\ LockInv' /\ StartInv'
    BY <1>0, <2>1 DEF FilesInv, LockInv, StartInv
  <2>5. ServingInv'
    BY <1>0, <2>1, <2>2 DEF ServingInv, LockInv, UnlockedMemoryIsOnDisk
  <2>. QED  BY <2>3, <2>4, <2>5
<1>. QED  BY <1>1, <1>2, <1>3, <1>4 DEF StartUp

LEMMA MutateStep ==
    ASSUME IInv, NEW w \in Writes, MutateMemory(w)
    PROVE  IInv'
<1>. USE DEF IInv
<1>1. /\ process = "serving" /\ pc[w] = "new" /\ lock = "nobody"
      /\ Accepts(request[w], memory)
      /\ lock' = w /\ stage' = "mutated"
      /\ memory' = Effect(request[w], w, memory)
      /\ answer' = [answer EXCEPT ![w] = Acceptance(request[w], memory)]
      /\ pc' = [pc EXCEPT ![w] = "busy"]
      /\ UNCHANGED <<process, disk, temporary, request, listing>>
  BY DEF MutateMemory, fileVars
<1>2. request[w] \in RequestType /\ memory \in Seq(ProductType(Origins)) /\ w \in Origins
  BY RequestIs DEF TypeOK, Origins
<1>3. memory' \in Seq(ProductType(Origins))
  BY <1>1, <1>2, EffectType
<1>4. answer' \in [Writes -> Answers]
  BY <1>1, <1>2, AcceptanceType DEF TypeOK
<1>5. TypeOK'
  BY <1>1, <1>3, <1>4, Holders DEF TypeOK
<1>6. FilesInv' /\ StartInv'
  BY <1>1 DEF FilesInv, StartInv
<1>7. LockInv'
  BY <1>1, Holders DEF LockInv, TypeOK
<1>8. disk = Whole(memory) /\ disk.content = memory
  BY <1>1 DEF ServingInv, UnlockedMemoryIsOnDisk, Whole
<1>9. ServingInv'
  <2>1. UnlockedMemoryIsOnDisk'
    BY <1>1, Holders DEF UnlockedMemoryIsOnDisk
  <2>2. \A v \in Writes : v # w => pc'[v] = pc[v] /\ answer'[v] = answer[v] /\ pc[v] # "busy"
    BY <1>1, Holders DEF LockInv, TypeOK
  <2>3. pc'[w] = "busy" /\ answer'[w] = Acceptance(request[w], memory)
    BY <1>1 DEF TypeOK
  <2>. QED  BY <1>1, <1>8, <2>1, <2>2, <2>3 DEF ServingInv
<1>. QED  BY <1>5, <1>6, <1>7, <1>9

LEMMA TruncateStep ==
    ASSUME IInv, TruncateTemporary \/ FillTemporary
    PROVE  IInv'
<1>. USE DEF IInv
<1>1. /\ UNCHANGED <<process, lock, memory, disk, request, pc, answer, listing>>
      /\ stage # "none" /\ stage' \in {"writing", "written"}
      /\ temporary' = Torn \/ temporary' = Whole(memory)
      /\ stage' = "written" => temporary' = Whole(memory)
  BY DEF TruncateTemporary, FillTemporary, clientVars
<1>2. TypeOK'
  <2>1. memory \in Seq(ProductType(Origins))
    BY DEF TypeOK
  <2>2. Torn \in FileType
    BY DEF FileType, Torn
  <2>3. Whole(memory) \in FileType
    BY <2>1 DEF FileType, Whole
  <2>. QED  BY <1>1, <2>2, <2>3 DEF TypeOK
<1>3. FilesInv' /\ LockInv'
  BY <1>1 DEF FilesInv, LockInv
<1>4. StartInv'
  BY <1>1 DEF StartInv
<1>5. ServingInv'
  BY <1>1 DEF ServingInv, UnlockedMemoryIsOnDisk
<1>. QED  BY <1>2, <1>3, <1>4, <1>5

LEMMA RenameStep ==
    ASSUME IInv, RenameTemporary
    PROVE  IInv'
<1>. USE DEF IInv
<1>1. /\ stage = "written" /\ disk' = temporary /\ temporary' = Absent
      /\ lock' = "nobody" /\ stage' = "none"
      /\ process' = IF process = "opening" THEN "seeding" ELSE process
      /\ pc' = IF lock \in Writes THEN [pc EXCEPT ![lock] = "committed"] ELSE pc
      /\ UNCHANGED <<memory, request, answer, listing>>
  BY DEF RenameTemporary, Unlock
<1>2. disk' = Whole(memory) /\ disk'.content = memory
  BY <1>1 DEF FilesInv, Whole
<1>3. TypeOK'
  BY <1>1 DEF TypeOK, FileType, Absent
<1>4. FilesInv'
  BY <1>1, <1>2 DEF FilesInv
<1>5. lock # "nobody"
  BY <1>1 DEF LockInv
<1>6. LockInv'
  BY <1>1, <1>5, Holders DEF LockInv, TypeOK
<1>7. StartInv'
  <2>1. CASE process = "opening"
    <3>1. memory = <<>> /\ Len(memory) = 0
      BY <2>1 DEF StartInv
    <3>2. SubSeq(SeedProducts, 1, 0) = <<>> /\ 0 <= Len(SeedProducts)
      BY SeedProductsAssumption
    <3>. QED  BY <1>1, <1>2, <2>1, <3>1, <3>2, Holders DEF StartInv
  <2>2. CASE process # "opening"
    BY <1>1, <1>2, <2>2, Holders DEF StartInv
  <2>. QED  BY <2>1, <2>2
<1>8. ServingInv'
  <2>1. \A w \in Writes : pc'[w] # "busy"
    BY <1>1, <1>5 DEF LockInv, TypeOK
  <2>2. \A w \in Writes : pc'[w] = "new" => pc[w] = "new"
    BY <1>1 DEF TypeOK
  <2>. QED  BY <1>1, <1>2, <2>1, <2>2 DEF ServingInv, UnlockedMemoryIsOnDisk
<1>. QED  BY <1>3, <1>4, <1>6, <1>7, <1>8

LEMMA PersistFailsStep ==
    ASSUME IInv, NEW w \in Writes, PersistFails(w)
    PROVE  IInv'
<1>. USE DEF IInv
<1>1. /\ lock = w /\ stage # "none"
      /\ memory' = Undo(w)
      /\ answer' = [answer EXCEPT ![w] = Refusal(500)]
      /\ pc' = [pc EXCEPT ![w] = "answered"]
      /\ lock' = "nobody" /\ stage' = "none"
      /\ UNCHANGED <<process, disk, temporary, request, listing>>
  BY DEF PersistFails, Persisting, Answer, Unlock, fileVars
<1>2. process = "serving" /\ pc[w] = "busy"
  BY <1>1 DEF LockInv
<1>3. /\ Accepts(request[w], disk.content)
      /\ memory = Effect(request[w], w, disk.content)
      /\ disk = Whole(disk.content)
  BY <1>2 DEF ServingInv
<1>4. request[w] \in RequestType /\ disk.content \in Seq(ProductType(Origins))
  BY RequestIs DEF TypeOK, FileType
<1>5. memory' = disk.content
  BY <1>1, <1>3, <1>4, UndoRestores
<1>6. Refusal(500) \in Answers
  BY RefusalType DEF Statuses
<1>7. TypeOK'
  BY <1>1, <1>4, <1>5, <1>6 DEF TypeOK
<1>8. FilesInv' /\ StartInv'
  BY <1>1, <1>2 DEF FilesInv, StartInv
<1>9. LockInv'
  BY <1>1, <1>2, Holders DEF LockInv, TypeOK
<1>10. ServingInv'
  <2>1. \A v \in Writes : pc'[v] # "busy"
    BY <1>1 DEF LockInv, TypeOK
  <2>2. \A v \in Writes : pc'[v] = "new" => pc[v] = "new" /\ answer'[v] = answer[v]
    BY <1>1 DEF TypeOK
  <2>. QED  BY <1>1, <1>3, <1>5, <2>1, <2>2 DEF ServingInv, UnlockedMemoryIsOnDisk
<1>. QED  BY <1>7, <1>8, <1>9, <1>10

LEMMA CrashStep ==
    ASSUME IInv, Crash
    PROVE  IInv'
<1>. USE DEF IInv
<1>1. /\ process' = "down" /\ memory' = <<>> /\ lock' = "nobody" /\ stage' = "none"
      /\ pc' = [w \in Writes |-> IF pc[w] \in {"busy", "committed"} THEN "lost" ELSE pc[w]]
      /\ answer' = [w \in Writes |->
             IF pc[w] \in {"busy", "committed"} THEN Failed ELSE answer[w]]
      /\ UNCHANGED <<disk, temporary, request, listing>>
  BY DEF Crash, Unlock, fileVars
<1>2. TypeOK'
  BY <1>1, FailedType DEF TypeOK
<1>3. FilesInv' /\ StartInv'
  BY <1>1 DEF FilesInv, StartInv
<1>4. LockInv'
  BY <1>1, Holders DEF LockInv, TypeOK
<1>5. ServingInv'
  BY <1>1 DEF ServingInv, UnlockedMemoryIsOnDisk, TypeOK
<1>. QED  BY <1>2, <1>3, <1>4, <1>5

LEMMA RespondStep ==
    ASSUME IInv, NEW w \in Writes, Respond(w)
    PROVE  IInv'
<1>. USE DEF IInv
<1>1. /\ pc[w] = "committed" /\ pc' = [pc EXCEPT ![w] = "answered"]
      /\ UNCHANGED <<process, lock, stage, memory, disk, temporary, request, answer, listing>>
  BY DEF Respond, fileVars
<1>2. TypeOK' /\ FilesInv' /\ StartInv'
  BY <1>1 DEF TypeOK, FilesInv, StartInv
<1>3. LockInv'
  BY <1>1 DEF LockInv, TypeOK
<1>4. ServingInv'
  BY <1>1 DEF ServingInv, UnlockedMemoryIsOnDisk, TypeOK
<1>. QED  BY <1>2, <1>3, <1>4

LEMMA ListStep ==
    ASSUME IInv, NEW d \in Reads, ListAll(d)
    PROVE  IInv'
<1>. USE DEF IInv
<1>1. /\ listing' = [listing EXCEPT ![d] = memory]
      /\ UNCHANGED <<process, lock, stage, memory, disk, temporary, request, pc, answer>>
  BY DEF ListAll, fileVars
<1>2. TypeOK'
  BY <1>1 DEF TypeOK
<1>. QED
  BY <1>1, <1>2 DEF FilesInv, LockInv, StartInv, ServingInv, UnlockedMemoryIsOnDisk

LEMMA Invariance == Spec => []IInv
<1>1. Init => IInv
  BY InvInit
<1>2. ASSUME IInv, [Next]_vars
      PROVE  IInv'
  <2>1. CASE StartUp
    BY <1>2, <2>1, StartUpStep
  <2>2. CASE Persist
    BY <1>2, <2>2, TruncateStep, RenameStep DEF Persist
  <2>3. CASE Crash
    BY <1>2, <2>3, CrashStep
  <2>4. ASSUME NEW w \in Writes, TurnAway(w) \/ StoreRefuses(w)
        PROVE  IInv'
    <3>1. PICK status \in Statuses :
              pc[w] = "new" /\ Answer(w, Refusal(status)) /\ UNCHANGED <<lock, stage, memory>>
      BY <2>4, StatusType DEF TurnAway, StoreRefuses, Statuses
    <3>. QED  BY <1>2, <3>1, RefusalType, AnswerStep
  <2>5. ASSUME NEW w \in Writes, MutateMemory(w) \/ PersistFails(w) \/ Respond(w)
        PROVE  IInv'
    BY <1>2, <2>5, MutateStep, PersistFailsStep, RespondStep
  <2>6. ASSUME NEW d \in Reads, ListAll(d)
        PROVE  IInv'
    BY <1>2, <2>6, ListStep
  <2>7. CASE UNCHANGED vars
    BY <1>2, <2>7 DEF vars, fileVars, clientVars, IInv, TypeOK, FilesInv, LockInv, StartInv,
       ServingInv, UnlockedMemoryIsOnDisk
  <2>. QED  BY <1>2, <2>1, <2>2, <2>3, <2>4, <2>5, <2>6, <2>7 DEF Next
<1>. QED  BY <1>1, <1>2, PTL DEF Spec

(* Every variable has its type, with any writes, seeds and crashes: no     *)
(* stock is ever negative, in memory or in a file, and rolling back a      *)
(* write leaves a catalogue (Create, DecrementStock and persistLocked).    *)
THEOREM StoreTypeCorrect == Spec => []TypeOK
BY Invariance, PTL DEF IInv

(* Wherever the process crashes, products.json is absent or whole: the     *)
(* next loadFromDisk can decode it.                                        *)
THEOREM FileIsWhole == Spec => []FileIsNeverTorn
<1>1. IInv => FileIsNeverTorn
  BY DEF IInv, FilesInv, FileIsNeverTorn, Absent, Whole
<1>. QED  BY <1>1, Invariance, PTL

(* Whoever gets the lock finds in the map what is in the file: a change is *)
(* durable, or has been rolled back, when the lock is released.            *)
THEOREM UnlockedIsOnDisk == Spec => []UnlockedMemoryIsOnDisk
BY Invariance, PTL DEF IInv, ServingInv

---------------------------------------------------------------------------
(* The refinement *)

(* The two copies of the operators on catalogues, that of the store and    *)
(* that which the instance brings, are the same.                           *)
LEMMA SameOperators ==
    ASSUME NEW q, NEW c, NEW w, NEW status
    PROVE  /\ Durable!Status(q, c) = Status(q, c)
           /\ Durable!Accepts(q, c) = Accepts(q, c)
           /\ Durable!Effect(q, w, c) = Effect(q, w, c)
           /\ Durable!Acceptance(q, c) = Acceptance(q, c)
           /\ Durable!Refusal(status) = Refusal(status)
           /\ Durable!Failed = Failed
           /\ Durable!Success = Success
<1>1. Durable!Status(q, c) = Status(q, c)
  BY DEF Durable!Status, Status, Durable!IsCreate, IsCreate
<1>2. Durable!Success = Success
  BY DEF Durable!Success, Success
<1>3. Durable!Accepts(q, c) = Accepts(q, c)
  BY <1>1, <1>2 DEF Durable!Accepts, Accepts
<1>4. Durable!Effect(q, w, c) = Effect(q, w, c)
  BY DEF Durable!Effect, Effect, Durable!Create, Create, Durable!DecrementStock,
         DecrementStock, Durable!IsCreate, IsCreate
<1>5. Durable!Acceptance(q, c) = Acceptance(q, c)
  BY DEF Durable!Acceptance, Acceptance, Durable!IsCreate, IsCreate
<1>6. Durable!Refusal(status) = Refusal(status) /\ Durable!Failed = Failed
  BY DEF Durable!Refusal, Refusal, Durable!Failed, Failed
<1>. QED  BY <1>1, <1>2, <1>3, <1>4, <1>5, <1>6

(* The abstract state of a write, by how far it has come.                  *)
LEMMA CallIs ==
    ASSUME NEW w \in Writes
    PROVE  /\ pc[w] \in {"new", "busy"} => CallOf(w) = "sent"
           /\ pc[w] \in {"committed", "answered"} => CallOf(w) = "handled"
           /\ pc[w] = "lost" => CallOf(w) = "lost"
           /\ pc[w] = "busy" => AnswerTo(w) = Failed
           /\ pc[w] # "busy" => AnswerTo(w) = answer[w]
BY DEF CallOf, AnswerTo

LEMMA CallWillBe ==
    ASSUME NEW w \in Writes
    PROVE  /\ pc'[w] \in {"new", "busy"} => CallOf(w)' = "sent"
           /\ pc'[w] \in {"committed", "answered"} => CallOf(w)' = "handled"
           /\ pc'[w] = "lost" => CallOf(w)' = "lost"
           /\ pc'[w] = "busy" => AnswerTo(w)' = Failed
           /\ pc'[w] # "busy" => AnswerTo(w)' = answer'[w]
BY DEF CallOf, AnswerTo

(* What a step of the store has to do to be a step of the abstract one, or *)
(* none.                                                                   *)
LEMMA Stutters ==
    ASSUME UNCHANGED <<request, listing>>, disk'.content = disk.content,
           \A w \in Writes : CallOf(w)' = CallOf(w) /\ AnswerTo(w)' = AnswerTo(w)
    PROVE  UNCHANGED Durable!vars
BY DEF Durable!vars

(* A step that moves no write and no product, whatever the files do.       *)
LEMMA QuietStep ==
    ASSUME UNCHANGED <<request, pc, answer, listing>>, disk'.content = disk.content
    PROVE  UNCHANGED Durable!vars
<1>1. \A w \in Writes : CallOf(w)' = CallOf(w) /\ AnswerTo(w)' = AnswerTo(w)
  BY DEF CallOf, AnswerTo
<1>. QED  BY <1>1, Stutters

(* A write is refused, before or after it changed the map.                 *)
LEMMA RefusalRefuses ==
    ASSUME IInv, NEW w \in Writes, pc[w] \in {"new", "busy"},
           NEW status \in {500, 503} \cup ({Status(request[w], disk.content)} \ Success),
           Answer(w, Refusal(status))
    PROVE  Durable!Refuse(w)
<1>1. /\ UNCHANGED <<disk, request, listing>>
      /\ answer' = [answer EXCEPT ![w] = Refusal(status)]
      /\ pc' = [pc EXCEPT ![w] = "answered"]
  BY DEF Answer, fileVars
<1>2. pc'[w] = "answered" /\ answer'[w] = Refusal(status)
  BY <1>1 DEF IInv, TypeOK
<1>3. CallOf(w) = "sent" /\ CallOf(w)' = "handled" /\ AnswerTo(w)' = Refusal(status)
  BY <1>2, CallIs, CallWillBe
<1>4. \A v \in Writes : v # w => CallOf(v)' = CallOf(v) /\ AnswerTo(v)' = AnswerTo(v)
  BY <1>1 DEF IInv, TypeOK, CallOf, AnswerTo
<1>5. [v \in Writes |-> CallOf(v)]' = [[v \in Writes |-> CallOf(v)] EXCEPT ![w] = "handled"]
  BY <1>3, <1>4
<1>6. [v \in Writes |-> AnswerTo(v)]'
        = [[v \in Writes |-> AnswerTo(v)] EXCEPT ![w] = Refusal(status)]
  BY <1>3, <1>4
<1>7. Durable!Handle(w, Refusal(status))
  BY <1>3, <1>5, <1>6 DEF Durable!Handle
<1>8. /\ Durable!Refusal(status) = Refusal(status)
      /\ status \in {500, 503} \cup ({Durable!Status(request[w], disk.content)} \ Durable!Success)
  BY SameOperators
<1>. QED  BY <1>1, <1>7, <1>8 DEF Durable!Refuse

(* The rename: the write that holds the lock is served, main has created a *)
(* seed, or the first, empty file.                                         *)
LEMMA RenameServes ==
    ASSUME IInv, RenameTemporary, NEW w \in Writes, lock = w
    PROVE  Durable!Serve(w)
<1>. USE DEF IInv
<1>. DEFINE c == disk.content
<1>1. /\ stage = "written" /\ disk' = temporary
      /\ pc' = [pc EXCEPT ![w] = "committed"]
      /\ UNCHANGED <<memory, request, answer, listing>>
  BY DEF RenameTemporary
<1>2. pc[w] = "busy" /\ pc'[w] = "committed"
  BY <1>1 DEF LockInv, TypeOK
<1>3. /\ Accepts(request[w], c)
      /\ memory = Effect(request[w], w, c)
      /\ answer[w] = Acceptance(request[w], c)
  BY <1>2 DEF ServingInv
<1>4. disk'.content = Effect(request[w], w, c)
  BY <1>1, <1>3 DEF FilesInv, Whole
<1>5. CallOf(w) = "sent" /\ CallOf(w)' = "handled" /\ AnswerTo(w)' = Acceptance(request[w], c)
  BY <1>1, <1>2, <1>3, CallIs, CallWillBe
<1>6. \A v \in Writes : v # w => CallOf(v)' = CallOf(v) /\ AnswerTo(v)' = AnswerTo(v)
  BY <1>1 DEF TypeOK, CallOf, AnswerTo
<1>7. [v \in Writes |-> CallOf(v)]' = [[v \in Writes |-> CallOf(v)] EXCEPT ![w] = "handled"]
  BY <1>5, <1>6
<1>8. [v \in Writes |-> AnswerTo(v)]'
        = [[v \in Writes |-> AnswerTo(v)] EXCEPT ![w] = Acceptance(request[w], c)]
  BY <1>5, <1>6
<1>9. Durable!Handle(w, Acceptance(request[w], c))
  BY <1>5, <1>7, <1>8 DEF Durable!Handle
<1>10. /\ Durable!Accepts(request[w], c)
       /\ Durable!Effect(request[w], w, c) = Effect(request[w], w, c)
       /\ Durable!Acceptance(request[w], c) = Acceptance(request[w], c)
  BY <1>3, SameOperators
<1>. QED  BY <1>1, <1>4, <1>9, <1>10 DEF Durable!Serve

LEMMA RenameSeeds ==
    ASSUME IInv, RenameTemporary, lock \notin Writes
    PROVE  Durable!Seed \/ UNCHANGED Durable!vars
<1>. USE DEF IInv
<1>1. /\ stage = "written" /\ disk' = temporary
      /\ UNCHANGED <<memory, request, pc, answer, listing>>
  BY DEF RenameTemporary
<1>2. lock = "main" /\ process \in {"opening", "seeding"}
  BY <1>1 DEF LockInv, TypeOK
<1>3. disk'.content = memory
  BY <1>1 DEF FilesInv, Whole
<1>4. CASE process = "opening"
  <2>1. disk'.content = disk.content
    BY <1>3, <1>4 DEF StartInv, Absent
  <2>. QED  BY <1>1, <2>1, QuietStep
<1>5. CASE process = "seeding"
  <2>. DEFINE n == Len(memory) - 1
  <2>1. /\ Len(memory) \in Nat /\ Len(memory) > 0 /\ Len(memory) <= Len(SeedProducts)
        /\ memory = SubSeq(SeedProducts, 1, Len(memory))
        /\ disk.content = SubSeq(SeedProducts, 1, Len(memory) - 1)
    BY <1>2, <1>5 DEF StartInv, TypeOK
  <2>2. n \in Nat /\ n < Len(SeedProducts) /\ Len(memory) = n + 1
    BY <2>1, SeedProductsAssumption
  <2>3. Len(disk.content) = n
    BY <2>1, <2>2, NextSeed
  <2>. HIDE DEF n
  <2>4. /\ Len(disk.content) < Len(SeedProducts)
        /\ disk.content = SubSeq(SeedProducts, 1, Len(disk.content))
        /\ disk'.content = SubSeq(SeedProducts, 1, Len(disk.content) + 1)
    BY <1>3, <2>1, <2>2, <2>3 DEF n
  <2>5. UNCHANGED <<request, [w \in Writes |-> CallOf(w)], [w \in Writes |-> AnswerTo(w)], listing>>
    BY <1>1 DEF CallOf, AnswerTo
  <2>. QED  BY <2>4, <2>5 DEF Durable!Seed
<1>. QED  BY <1>2, <1>4, <1>5

(* A write that has changed the map, or was answered: the client's view of *)
(* it is still the one before.                                             *)
LEMMA MutateStutters ==
    ASSUME IInv, NEW w \in Writes, MutateMemory(w) \/ Respond(w)
    PROVE  UNCHANGED Durable!vars
<1>. USE DEF IInv
<1>1. CASE MutateMemory(w)
  <2>1. /\ pc[w] = "new" /\ answer[w] = Failed
        /\ answer' = [answer EXCEPT ![w] = Acceptance(request[w], memory)]
        /\ pc' = [pc EXCEPT ![w] = "busy"]
        /\ UNCHANGED <<disk, request, listing>>
    BY <1>1 DEF MutateMemory, fileVars, ServingInv
  <2>2. pc'[w] = "busy"
    BY <2>1 DEF TypeOK
  <2>3. CallOf(w)' = CallOf(w) /\ AnswerTo(w)' = AnswerTo(w)
    BY <2>1, <2>2, CallIs, CallWillBe
  <2>4. \A v \in Writes : v # w => CallOf(v)' = CallOf(v) /\ AnswerTo(v)' = AnswerTo(v)
    BY <2>1 DEF TypeOK, CallOf, AnswerTo
  <2>. QED  BY <2>1, <2>3, <2>4, Stutters
<1>2. CASE Respond(w)
  <2>1. /\ pc[w] = "committed" /\ pc' = [pc EXCEPT ![w] = "answered"]
        /\ UNCHANGED <<disk, request, answer, listing>>
    BY <1>2 DEF Respond, fileVars
  <2>2. \A v \in Writes : CallOf(v)' = CallOf(v) /\ AnswerTo(v)' = AnswerTo(v)
    BY <2>1 DEF TypeOK, CallOf, AnswerTo
  <2>. QED  BY <2>1, <2>2, Stutters
<1>. QED  BY <1>1, <1>2

(* A crash loses the requests that are busy and the responses not sent.    *)
LEMMA CrashLoses ==
    ASSUME IInv, Crash
    PROVE  Durable!Crash
<1>. DEFINE lost == {w \in Writes : pc[w] \in {"busy", "committed"}}
<1>1. /\ pc' = [w \in Writes |-> IF pc[w] \in {"busy", "committed"} THEN "lost" ELSE pc[w]]
      /\ answer' = [w \in Writes |->
             IF pc[w] \in {"busy", "committed"} THEN Failed ELSE answer[w]]
      /\ UNCHANGED <<disk, request, listing>>
  BY DEF Crash, fileVars
<1>2. \A w \in Writes :
          /\ CallOf(w)' = IF w \in lost THEN "lost" ELSE CallOf(w)
          /\ AnswerTo(w)' = IF w \in lost THEN Failed ELSE AnswerTo(w)
  <2>. SUFFICES ASSUME NEW w \in Writes
                PROVE  /\ CallOf(w)' = IF w \in lost THEN "lost" ELSE CallOf(w)
                       /\ AnswerTo(w)' = IF w \in lost THEN Failed ELSE AnswerTo(w)
    OBVIOUS
  <2>1. CASE w \in lost
    <3>1. pc'[w] = "lost" /\ answer'[w] = Failed
      BY <1>1, <2>1
    <3>. QED  BY <2>1, <3>1, CallWillBe
  <2>2. CASE w \notin lost
    <3>1. pc'[w] = pc[w] /\ answer'[w] = answer[w]
      BY <1>1, <2>2
    <3>. QED  BY <2>2, <3>1 DEF CallOf, AnswerTo
  <2>. QED  BY <2>1, <2>2
<1>3. lost \in SUBSET Writes
  OBVIOUS
<1>. HIDE DEF lost
<1>4. /\ [w \in Writes |-> CallOf(w)]' =
             [w \in Writes |-> IF w \in lost THEN "lost" ELSE [v \in Writes |-> CallOf(v)][w]]
      /\ [w \in Writes |-> AnswerTo(w)]' =
             [w \in Writes |-> IF w \in lost THEN Failed ELSE [v \in Writes |-> AnswerTo(v)][w]]
  BY <1>2
<1>5. Durable!Failed = Failed
  BY SameOperators
<1>. QED  BY <1>1, <1>3, <1>4, <1>5 DEF Durable!Crash

(* A listing is the durable catalogue.                                     *)
LEMMA ListReads ==
    ASSUME IInv, NEW d \in Reads, ListAll(d)
    PROVE  Durable!Read(d)
<1>1. /\ process = "serving" /\ lock = "nobody"
      /\ listing' = [listing EXCEPT ![d] = memory]
      /\ UNCHANGED <<disk, request, pc, answer>>
  BY DEF ListAll, fileVars
<1>2. disk.content = memory
  BY <1>1 DEF IInv, ServingInv, UnlockedMemoryIsOnDisk, Whole
<1>3. UNCHANGED <<[w \in Writes |-> CallOf(w)], [w \in Writes |-> AnswerTo(w)]>>
  BY <1>1 DEF CallOf, AnswerTo
<1>. QED  BY <1>1, <1>2, <1>3 DEF Durable!Read

LEMMA RefinementInit == Init => Durable!Init
<1>. SUFFICES ASSUME Init PROVE Durable!Init
  OBVIOUS
<1>1. \A w \in Writes : CallOf(w) = "sent" /\ AnswerTo(w) = Failed
  BY DEF Init, CallOf, AnswerTo
<1>2. disk.content = <<>>
  BY DEF Init, Absent
<1>3. Durable!Failed = Failed
  BY SameOperators
<1>. QED  BY <1>1, <1>2, <1>3 DEF Init, Durable!Init

LEMMA RefinementStep ==
    ASSUME IInv, [Next]_vars
    PROVE  [Durable!Next]_(Durable!vars)
<1>1. CASE StartUp \/ TruncateTemporary \/ FillTemporary
  <2>1. UNCHANGED <<disk, request, pc, answer, listing>>
    BY <1>1 DEF StartUp, CreateFile, LoadFile, CreateSeed, StartServing, TruncateTemporary,
       FillTemporary, fileVars, clientVars
  <2>. QED  BY <2>1, QuietStep
<1>2. CASE RenameTemporary
  BY <1>2, RenameServes, RenameSeeds DEF Durable!Next
<1>3. CASE Crash
  BY <1>3, CrashLoses DEF Durable!Next
<1>4. ASSUME NEW w \in Writes, TurnAway(w)
      PROVE  Durable!Refuse(w)
  <2>1. PICK status \in {503} \cup ({400, 401, 403} \cap {Status(request[w], memory)}) :
            pc[w] = "new" /\ Answer(w, Refusal(status))
    BY <1>4 DEF TurnAway
  <2>2. status \in {500, 503} \cup ({Status(request[w], disk.content)} \ Success)
    BY <2>1, TurnedAwayAnyway DEF Success
  <2>. QED  BY <2>1, <2>2, RefusalRefuses
<1>5. ASSUME NEW w \in Writes, StoreRefuses(w)
      PROVE  Durable!Refuse(w)
  <2>1. /\ process = "serving" /\ lock = "nobody" /\ pc[w] = "new"
        /\ Status(request[w], memory) \in {404, 409}
        /\ Answer(w, Refusal(Status(request[w], memory)))
    BY <1>5 DEF StoreRefuses
  <2>2. disk.content = memory
    BY <2>1 DEF IInv, ServingInv, UnlockedMemoryIsOnDisk, Whole
  <2>3. Status(request[w], memory) \in
            {500, 503} \cup ({Status(request[w], disk.content)} \ Success)
    BY <2>1, <2>2 DEF Success
  <2>. QED  BY <2>1, <2>3, RefusalRefuses
<1>6. ASSUME NEW w \in Writes, PersistFails(w)
      PROVE  Durable!Refuse(w)
  <2>1. lock = w /\ Answer(w, Refusal(500))
    BY <1>6 DEF PersistFails
  <2>2. pc[w] = "busy"
    BY <2>1 DEF IInv, LockInv
  <2>. QED  BY <2>1, <2>2, RefusalRefuses
<1>7. ASSUME NEW w \in Writes, MutateMemory(w) \/ Respond(w)
      PROVE  UNCHANGED Durable!vars
  BY <1>7, MutateStutters
<1>8. ASSUME NEW d \in Reads, ListAll(d)
      PROVE  Durable!Read(d)
  BY <1>8, ListReads
<1>9. CASE UNCHANGED vars
  BY <1>9, QuietStep DEF vars, fileVars, clientVars
<1>. QED
  BY <1>1, <1>2, <1>3, <1>4, <1>5, <1>6, <1>7, <1>8, <1>9 DEF Next, Persist, Durable!Next

(* The store of internal/products/store.go, with its file, its lock, its   *)
(* rollbacks and its crashes, implements the catalogue that a write        *)
(* changes in one durable step or not at all, and that reads see whole.    *)
THEOREM DurableStore == Spec => ImplementsDurableCatalogue
<1>1. IInv /\ [Next]_vars => [Durable!Next]_(Durable!vars)
  BY RefinementStep
<1>. QED
  BY <1>1, Invariance, RefinementInit, PTL DEF Spec, Durable!Spec, ImplementsDurableCatalogue
=============================================================================
