--------------------------- MODULE ProductStore ---------------------------
(***************************************************************************)
(* One product service in detail: the Store of internal/products/store.go  *)
(* under concurrent requests, its file, and the start-up of                *)
(* cmd/products/main.go.  A write holds the store's lock, changes the map, *)
(* writes products.json.tmp, renames it over products.json, and rolls the  *)
(* map back when that fails.  The process may crash between any two of     *)
(* these steps; Compose starts it again and it loads the file.             *)
(*                                                                         *)
(* A crash is one of the process (or of its container).  Files keep what   *)
(* was written to them: the loss of power, against which the missing       *)
(* fsync would not help, is not modelled.                                  *)
(***************************************************************************)
EXTENDS Catalogue

CONSTANTS
    Writes,         \* the writes that ever reach the service
    Reads,          \* clients that list the catalogue
    Requests,       \* what the writes may ask for
    SeedProducts    \* the products SeedDefaultsIfEmpty creates, in order

Seeds == {SeedProducts[i].origin : i \in DOMAIN SeedProducts}
Origins == Seeds \cup Writes

ASSUME RequestsAssumption == Requests \subseteq RequestType
ASSUME SeedProductsAssumption ==
    /\ SeedProducts \in Seq(ProductType(Seeds))
    /\ SeedProducts # <<>>
    /\ Seeds \cap Writes = {}
    /\ {"main", "nobody"} \cap Writes = {}

VARIABLES
    process,     \* "down", "opening", "seeding", "serving"
    lock,        \* who holds store.mutex: a write, "main" or "nobody"
    stage,       \* how far the holder's persistLocked is
    memory,      \* productsByID and highestID
    disk,        \* products.json
    temporary,   \* products.json.tmp
    request,     \* what each write asks for
    pc,          \* per write: "new", "busy", "committed", "answered", "lost"
    answer,      \* per write: the response its handler prepared
    listing      \* per read: what it was answered last

fileVars == <<disk, temporary>>
clientVars == <<request, pc, answer, listing>>
vars == <<process, lock, stage, memory, fileVars, clientVars>>

(* A file is absent, torn (partly written) or whole. *)
Absent == [state |-> "absent", content |-> <<>>]
Torn == [state |-> "torn", content |-> <<>>]
Whole(content) == [state |-> "whole", content |-> content]

Init ==
    /\ process = "down"
    /\ lock = "nobody"
    /\ stage = "none"
    /\ memory = <<>>
    /\ disk = Absent
    /\ temporary = Absent
    /\ request \in [Writes -> Requests]
    /\ pc = [w \in Writes |-> "new"]
    /\ answer = [w \in Writes |-> Failed]
    /\ listing = [d \in Reads |-> <<>>]

---------------------------------------------------------------------------
(* Start-up: OpenStore, SeedDefaultsIfEmpty. *)

(* loadFromDisk: no file, so an empty one is written first; or the file is *)
(* decoded.  A torn file would not decode and main would exit; an empty    *)
(* one would count as an empty catalogue, but only the temporary file is   *)
(* ever empty (FileIsNeverTorn), so that branch has no state here.         *)
CreateFile ==
    /\ process = "down"
    /\ disk.state = "absent"
    /\ process' = "opening"
    /\ memory' = <<>>
    /\ lock' = "main"
    /\ stage' = "mutated"
    /\ UNCHANGED <<fileVars, clientVars>>

LoadFile ==
    /\ process = "down"
    /\ disk.state = "whole"
    /\ memory' = disk.content
    /\ process' = IF disk.content = <<>> THEN "seeding" ELSE "serving"
    /\ UNCHANGED <<lock, stage, fileVars, clientVars>>

(* The next seed's Create. *)
CreateSeed ==
    /\ process = "seeding"
    /\ lock = "nobody"
    /\ Len(memory) < Len(SeedProducts)
    /\ memory' = Append(memory, SeedProducts[Len(memory) + 1])
    /\ lock' = "main"
    /\ stage' = "mutated"
    /\ UNCHANGED <<process, fileVars, clientVars>>

StartServing ==
    /\ process = "seeding"
    /\ lock = "nobody"
    /\ Len(memory) = Len(SeedProducts)
    /\ process' = "serving"
    /\ UNCHANGED <<lock, stage, memory, fileVars, clientVars>>

---------------------------------------------------------------------------
(* Create and DecrementStock, up to persistLocked. *)

Answer(w, result) ==
    /\ answer' = [answer EXCEPT ![w] = result]
    /\ pc' = [pc EXCEPT ![w] = "answered"]
    /\ UNCHANGED <<process, fileVars, request, listing>>

(* The kill switch, the token check or the handler turns the write away    *)
(* before the store is asked.                                              *)
TurnAway(w) ==
    /\ process = "serving"
    /\ pc[w] = "new"
    /\ \E status \in {503} \cup ({400, 401, 403} \cap {Status(request[w], memory)}) :
          Answer(w, Refusal(status))
    /\ UNCHANGED <<lock, stage, memory>>

(* ErrProductNotFound, ErrOutOfStock: the store locks, looks and unlocks.  *)
StoreRefuses(w) ==
    /\ process = "serving"
    /\ pc[w] = "new"
    /\ lock = "nobody"
    /\ Status(request[w], memory) \in {404, 409}
    /\ Answer(w, Refusal(Status(request[w], memory)))
    /\ UNCHANGED <<lock, stage, memory>>

MutateMemory(w) ==
    /\ process = "serving"
    /\ pc[w] = "new"
    /\ lock = "nobody"
    /\ Accepts(request[w], memory)
    /\ lock' = w
    /\ stage' = "mutated"
    /\ memory' = Effect(request[w], w, memory)
    /\ answer' = [answer EXCEPT ![w] = Acceptance(request[w], memory)]
    /\ pc' = [pc EXCEPT ![w] = "busy"]
    /\ UNCHANGED <<process, fileVars, request, listing>>

---------------------------------------------------------------------------
(* persistLocked, in the hands of whoever holds the lock. *)

(* Mutant: the file is rewritten in place. *)
TruncateFileItself ==
    /\ stage = "mutated"
    /\ disk' = Torn
    /\ stage' = "writing"
    /\ UNCHANGED <<process, lock, memory, temporary, clientVars>>

(* os.WriteFile truncates the temporary file, then fills it. *)
TruncateTemporary ==
    /\ stage = "mutated"
    /\ temporary' = Torn
    /\ stage' = "writing"
    /\ UNCHANGED <<process, lock, memory, disk, clientVars>>

FillTemporary ==
    /\ stage = "writing"
    /\ temporary' = Whole(memory)
    /\ stage' = "written"
    /\ UNCHANGED <<process, lock, memory, disk, clientVars>>

Unlock == lock' = "nobody" /\ stage' = "none"

(* os.Rename is atomic; with it the write is durable and the lock goes.    *)
RenameTemporary ==
    /\ stage = "written"
    /\ disk' = temporary
    /\ temporary' = Absent
    /\ Unlock
    /\ process' = IF process = "opening" THEN "seeding" ELSE process
    /\ pc' = IF lock \in Writes THEN [pc EXCEPT ![lock] = "committed"] ELSE pc
    /\ UNCHANGED <<memory, request, answer, listing>>

(* The rollback of Create and of DecrementStock. *)
Undo(w) ==
    IF IsCreate(request[w])
    THEN SubSeq(memory, 1, Len(memory) - 1)
    ELSE [memory EXCEPT ![request[w].id].quantity = @ + 1]

Persisting == stage \in {"mutated", "writing", "written"}

(* Mutant: no rollback. *)
PersistFailsWithoutUndo(w) ==
    /\ Persisting
    /\ lock = w
    /\ Answer(w, Refusal(500))
    /\ Unlock
    /\ UNCHANGED memory

(* Mutant: the error path keeps the lock. *)
PersistFailsStillLocked(w) ==
    /\ Persisting
    /\ lock = w
    /\ memory' = Undo(w)
    /\ Answer(w, Refusal(500))
    /\ stage' = "none"
    /\ UNCHANGED lock

(* Creating the directory, writing or renaming fails: the map is rolled    *)
(* back and the client gets a 500.                                         *)
PersistFails(w) ==
    /\ Persisting
    /\ lock = w
    /\ memory' = Undo(w)
    /\ Answer(w, Refusal(500))
    /\ Unlock

Respond(w) ==
    /\ pc[w] = "committed"
    /\ pc' = [pc EXCEPT ![w] = "answered"]
    /\ UNCHANGED <<process, lock, stage, memory, fileVars, request, answer, listing>>

---------------------------------------------------------------------------
(* Mutant: ListAll without its read lock. *)
ListAllUnlocked(d) ==
    /\ process = "serving"
    /\ listing' = [listing EXCEPT ![d] = memory]
    /\ UNCHANGED <<process, lock, stage, memory, fileVars, request, pc, answer>>

(* ListAll, under the read lock. *)
ListAll(d) ==
    /\ process = "serving"
    /\ lock = "nobody"
    /\ listing' = [listing EXCEPT ![d] = memory]
    /\ UNCHANGED <<process, lock, stage, memory, fileVars, request, pc, answer>>

---------------------------------------------------------------------------
(* The process ends: killed, or main exits because start-up could not      *)
(* write the file.  Requests in progress get no answer.                    *)
Crash ==
    /\ process # "down"
    /\ process' = "down"
    /\ memory' = <<>>
    /\ Unlock
    /\ pc' = [w \in Writes |-> IF pc[w] \in {"busy", "committed"} THEN "lost" ELSE pc[w]]
    /\ answer' = [w \in Writes |-> IF pc[w] \in {"busy", "committed"} THEN Failed ELSE answer[w]]
    /\ UNCHANGED <<fileVars, request, listing>>

StartUp == CreateFile \/ LoadFile \/ CreateSeed \/ StartServing
Persist == TruncateTemporary \/ FillTemporary \/ RenameTemporary

Next ==
    \/ StartUp \/ Persist \/ Crash
    \/ \E w \in Writes :
         \/ TurnAway(w) \/ StoreRefuses(w) \/ MutateMemory(w) \/ PersistFails(w) \/ Respond(w)
    \/ \E d \in Reads : ListAll(d)

Spec == Init /\ [][Next]_vars

(* Go's runtime lets every goroutine go on, and a system call returns;     *)
(* Compose starts the service again.  Nothing forces a failure.            *)
FairSpec == Spec /\ WF_vars(StartUp) /\ WF_vars(Persist) /\ \A w \in Writes : WF_vars(Respond(w))

---------------------------------------------------------------------------
(* Properties *)

FileType ==
    [state: {"absent", "torn", "whole"}, content: Seq(ProductType(Origins))]

(* Every variable has its type; no stock is negative, in memory or on      *)
(* disk, and the lock is held exactly while persistLocked runs.            *)
TypeOK ==
    /\ process \in {"down", "opening", "seeding", "serving"}
    /\ lock \in Writes \cup {"main", "nobody"}
    /\ stage \in {"none", "mutated", "writing", "written"}
    /\ lock = "nobody" <=> stage = "none"
    /\ memory \in Seq(ProductType(Origins))
    /\ disk \in FileType
    /\ temporary \in FileType
    /\ request \in [Writes -> Requests]
    /\ pc \in [Writes -> {"new", "busy", "committed", "answered", "lost"}]
    /\ answer \in [Writes -> Answers]
    /\ listing \in [Reads -> Seq(ProductType(Origins))]

(* products.json is never partly written, wherever the process crashes:    *)
(* the next start can always decode it.                                    *)
FileIsNeverTorn == disk.state # "torn"

(* Whenever nobody holds the lock of a serving store, the map is what the  *)
(* file holds: no reader sees a change that could still be rolled back,    *)
(* and a failed persistLocked leaves nothing behind.                       *)
UnlockedMemoryIsOnDisk ==
    process = "serving" /\ lock = "nobody" => disk = Whole(memory)

(* The store is an atomic, durable catalogue: the step that changes it is  *)
(* the rename, by which a write that was busy is handled.                  *)
CallOf(w) ==
    CASE pc[w] \in {"new", "busy"} -> "sent"
      [] pc[w] \in {"committed", "answered"} -> "handled"
      [] OTHER -> "lost"
AnswerTo(w) == IF pc[w] = "busy" THEN Failed ELSE answer[w]

Durable ==
    INSTANCE DurableCatalogue WITH
        catalogue <- disk.content,
        call <- [w \in Writes |-> CallOf(w)],
        answer <- [w \in Writes |-> AnswerTo(w)]

ImplementsDurableCatalogue == Durable!Spec

(* The lock does not stay with anybody: every write that takes it commits, *)
(* rolls back or dies with the process, whatever fails.                    *)
LockIsReleased == \A holder \in Writes \cup {"main"} : lock = holder ~> lock # holder

(* What README_execucao.md says of the first start: a service that serves  *)
(* has the whole default catalogue.                                        *)
ServesWithAllSeeds ==
    process = "serving" => \A i \in DOMAIN SeedProducts :
        \E j \in DOMAIN memory : memory[j].origin = SeedProducts[i].origin
=============================================================================
