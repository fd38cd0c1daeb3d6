------------------------- MODULE LedgerFile_proofs -------------------------
(***************************************************************************)
(* Proofs about LedgerFile for one instance whose looks do not overlap its *)
(* first transaction, and any set of transactions: type correctness, that  *)
(* a saved transaction is lost only where a load could not read the file,  *)
(* and that the file implements the abstract DurableJournal.  For two      *)
(* instances, or a look that overlaps, the second is false.                *)
(***************************************************************************)
EXTENDS LedgerFile, TLAPS

\* The assumption of every theorem but the first.
Alone == Instances = {Sole} /\ ~LooksRace

-----------------------------------------------------------------------------
(* Type correctness, for any number of instances *)

LEMMA DocumentTypes ==
    ASSUME FileTypeOK
    PROVE  /\ EmptyDocument(clock) \in Document
           /\ EmptyDocument(0) \in Document
           /\ \A seen \in {disk, NoFile} : Loaded(seen) \in Document
    BY DEF FileTypeOK, EmptyDocument, Document, Loaded

LEMMA ReadType ==
    ASSUME FileTypeOK, NEW i \in Instances, Read(i)
    PROVE  /\ mem' \in [Instances -> Document]
           /\ forgotten' \in [Instances -> SUBSET Ops]
    <1>1. PICK seen \in {disk, NoFile} :
             /\ mem' = [mem EXCEPT ![i] = Loaded(seen)]
             /\ forgotten' = [forgotten EXCEPT ![i] = IF seen = NoFile THEN Saved ELSE {}]
        BY DEF Read
    <1>2. Loaded(seen) \in Document
        BY DocumentTypes
    <1>3. Saved \subseteq Ops
        BY DEF Saved, FileTypeOK, Document
    <1> QED
        BY <1>1, <1>2, <1>3 DEF FileTypeOK

LEMMA TypeInit == FileInit => FileTypeOK
    <1> SUFFICES ASSUME FileInit PROVE FileTypeOK
        OBVIOUS
    <1>1. disk \in Document \cup {NoFile}
        BY DEF FileInit, Document
    <1>2. EmptyDocument(1) \in Document /\ EmptyDocument(0) \in Document
        BY DEF EmptyDocument, Document
    <1>3. submitted \subseteq Ops
        BY <1>1 DEF FileInit, Saved, Document
    <1> QED
        BY <1>1, <1>2, <1>3 DEF FileInit, FileTypeOK

\* The mutation of a transaction and the stamp it leaves.
LEMMA ApplyType ==
    ASSUME FileTypeOK, NEW i \in Instances, Apply(i)
    PROVE  FileTypeOK'
    <1>1. PICK seen \in {disk, NoFile}, now \in {clock, clock + 1} :
             /\ clock' = now
             /\ mem' = [mem EXCEPT ![i] =
                          [at |-> now, ops |-> Freshest(i, seen).ops \cup {Head(queue[i])}]]
        BY DEF Apply
    <1>2. now \in Nat
        BY DEF FileTypeOK
    <1>3. queue[i] \in Seq(Ops) /\ queue[i] # <<>>
        BY DEF FileTypeOK, Apply
    <1>4. Head(queue[i]) \in Ops
        BY <1>3
    <1>5. Freshest(i, seen).ops \subseteq Ops
        BY DEF Freshest, FileTypeOK, Document
    <1>6. [at |-> now, ops |-> Freshest(i, seen).ops \cup {Head(queue[i])}] \in Document
        BY <1>2, <1>4, <1>5 DEF Document
    <1>7. mem' \in [Instances -> Document]
        BY <1>1, <1>6 DEF FileTypeOK
    <1>8. mem'[i] \in Document
        BY <1>7
    <1>9. text' \in [Instances -> Document]
        BY <1>8 DEF Apply, FileTypeOK
    <1> QED
        BY <1>1, <1>2, <1>7, <1>9 DEF Apply, FileTypeOK

LEMMA TypeStep == FileTypeOK /\ [FileNext]_fileVars => FileTypeOK'
    <1> SUFFICES ASSUME FileTypeOK, [FileNext]_fileVars PROVE FileTypeOK'
        OBVIOUS
    <1>1. CASE UNCHANGED fileVars
        BY <1>1 DEF fileVars, FileTypeOK
    <1>2. ASSUME NEW i \in Instances, NEW op \in Ops, Submit(i, op) PROVE FileTypeOK'
        <2>1. queue[i] \in Seq(Ops)
            BY DEF FileTypeOK
        <2>2. /\ Append(queue[i], op) \in Seq(Ops)
              /\ Len(Append(queue[i], op)) = Len(queue[i]) + 1
              /\ Len(queue[i]) \in Nat
            BY <2>1
        <2>3. Append(queue[i], op) # <<>>
            BY <2>2
        <2> QED
            BY <1>2, <2>2, <2>3 DEF Submit, FileTypeOK
    <1>3. ASSUME NEW i \in Instances, Look(i) PROVE FileTypeOK'
        BY <1>3 DEF Look, FileTypeOK
    <1>4. ASSUME NEW i \in Instances, LookLoaded(i) \/ LoadDone(i) PROVE FileTypeOK'
        <2>1. /\ mem' \in [Instances -> Document]
              /\ forgotten' \in [Instances -> SUBSET Ops]
            BY <1>4, ReadType DEF LookLoaded, LoadDone
        <2>2. CASE LookLoaded(i)
            BY <2>1, <2>2 DEF LookLoaded, FileTypeOK
        <2>3. CASE LoadDone(i)
            BY <2>1, <2>3 DEF LoadDone, FileTypeOK
        <2> QED
            BY <1>4, <2>2, <2>3
    <1>5. ASSUME NEW i \in Instances, Start(i) PROVE FileTypeOK'
        BY <1>5 DEF Start, FileTypeOK
    <1>6. ASSUME NEW i \in Instances, Apply(i) PROVE FileTypeOK'
        BY <1>6, ApplyType
    <1>7. ASSUME NEW i \in Instances, Rename(i) \/ WriteFails(i) PROVE FileTypeOK'
        <2>1. text[i] \in Document
            BY DEF FileTypeOK
        <2>2. CASE Rename(i)
            BY <2>1, <2>2 DEF Rename, FileTypeOK
        <2>3. CASE WriteFails(i)
            BY <2>3 DEF WriteFails, FileTypeOK
        <2> QED
            BY <1>7, <2>2, <2>3
    <1>8. ASSUME NEW i \in Instances, Finish(i) PROVE FileTypeOK'
        <2>1. queue[i] \in Seq(Ops) /\ queue[i] # <<>>
            BY <1>8 DEF Finish, FileTypeOK
        <2>2. Head(queue[i]) \in Ops /\ Tail(queue[i]) \in Seq(Ops)
            BY <2>1
        <2> QED
            BY <1>8, <2>2 DEF Finish, FileTypeOK
    <1>9. ASSUME NEW i \in Instances, Crash(i) PROVE FileTypeOK'
        BY <1>9, DocumentTypes DEF Crash, FileTypeOK
    <1> QED
        BY <1>1, <1>2, <1>3, <1>4, <1>5, <1>6, <1>7, <1>8, <1>9 DEF FileNext, Progress

\* The type invariant, for any number of instances and with racing looks: an idle
\* chain aside, exactly a waiting transaction is run.
THEOREM TypeCorrect == FileSpec => []FileTypeOK
    BY TypeInit, TypeStep, PTL DEF FileSpec

-----------------------------------------------------------------------------
(* The inductive invariant for one instance *)

\* The instance knows the file: its load has ended.
Ready == loaded[Sole] /\ reading[Sole] = "no"

\* The running transaction has been applied in memory.
Applied == stage[Sole] \in {"write", "done"}

\* Which reads can be under way.  A look reads only while nothing is queued.
Phases ==
    /\ ~loaded[Sole] => reading[Sole] = "no" /\ stage[Sole] = "idle"
    /\ reading[Sole] = "look" => queue[Sole] = <<>>
    /\ stage[Sole] = "load" <=> reading[Sole] = "queue"

\* The file is never newer than a memory that has loaded, so that the read inside
\* a transaction never replaces it; what is written is the memory.
Stamps ==
    /\ disk # NoFile => disk.at <= clock
    /\ mem[Sole].at <= clock
    /\ Ready => disk = NoFile \/ disk.at <= mem[Sole].at
    /\ stage[Sole] = "write" => text[Sole] = mem[Sole]

\* What is saved is known unless the load could not read it, and what is known was
\* submitted.
Known ==
    /\ Saved \subseteq Current(Sole) \cup forgotten[Sole]
    /\ Current(Sole) \cup Saved \subseteq submitted

\* Every transaction is queued once, and applied only while it is the running one.
Waiting ==
    /\ \A n \in 1..Len(queue[Sole]) : queue[Sole][n] \in submitted
    /\ \A m, n \in 1..Len(queue[Sole]) : queue[Sole][m] = queue[Sole][n] => m = n
    /\ \A n \in 1..Len(queue[Sole]) :
          queue[Sole][n] \in Current(Sole) <=> n = 1 /\ Applied

FileInv ==
    /\ FileTypeOK
    /\ Phases
    /\ Stamps
    /\ Known
    /\ Waiting

LEMMA SoleInstance ==
    ASSUME Alone
    PROVE  /\ Sole \in Instances
           /\ \A i \in Instances : i = Sole
    BY DEF Alone

\* A transaction that has got past load() works on a memory that knows the file.
LEMMA RunningIsReady ==
    ASSUME Alone, FileInv, stage[Sole] \in {"read", "write", "done"}
    PROVE  /\ Ready
           /\ queue[Sole] # <<>>
           /\ Current(Sole) = mem[Sole].ops
    <1>1. Sole \in Instances
        BY SoleInstance
    <1>2. queue[Sole] # <<>> /\ loaded[Sole] /\ reading[Sole] \in {"no", "look", "queue"}
        BY <1>1 DEF FileInv, FileTypeOK, Phases
    <1>3. reading[Sole] = "no"
        BY <1>2 DEF FileInv, Phases
    <1> QED
        BY <1>2, <1>3 DEF Ready, Current

\* The read inside a transaction never wins over memory.
LEMMA MemoryIsFreshest ==
    ASSUME Alone, FileInv, stage[Sole] = "read", NEW seen \in {disk, NoFile}
    PROVE  Freshest(Sole, seen) = mem[Sole]
    <1>1. Ready
        BY RunningIsReady
    <1>2. CASE seen = NoFile
        BY <1>2 DEF Freshest
    <1>3. CASE seen = disk /\ disk # NoFile
        <2>1. disk.at <= mem[Sole].at
            BY <1>1, <1>3 DEF FileInv, Stamps
        <2>2. disk.at \in Nat /\ mem[Sole].at \in Nat
            BY <1>3, SoleInstance DEF FileInv, FileTypeOK, Document
        <2> QED
            BY <1>3, <2>1, <2>2 DEF Freshest
    <1> QED
        BY <1>2, <1>3

LEMMA QueueFacts ==
    ASSUME Alone, FileTypeOK, queue[Sole] # <<>>
    PROVE  /\ queue[Sole] \in Seq(Ops)
           /\ Len(queue[Sole]) \in Nat \ {0}
           /\ Head(queue[Sole]) = queue[Sole][1]
           /\ Head(queue[Sole]) \in Ops
           /\ Len(Tail(queue[Sole])) = Len(queue[Sole]) - 1
           /\ \A n \in 1..Len(queue[Sole]) - 1 : Tail(queue[Sole])[n] = queue[Sole][n + 1]
    <1>1. queue[Sole] \in Seq(Ops)
        BY SoleInstance DEF FileTypeOK
    <1> QED
        BY <1>1

LEMMA FileInvInit ==
    ASSUME Alone, FileInit
    PROVE  FileInv
    <1>1. FileTypeOK
        BY TypeInit
    <1>2. /\ Sole \in Instances
          /\ mem[Sole] = [at |-> 1, ops |-> {}]
          /\ loaded[Sole] = FALSE /\ reading[Sole] = "no"
          /\ stage[Sole] = "idle" /\ queue[Sole] = <<>>
        BY SoleInstance DEF FileInit, EmptyDocument
    <1>3. Phases
        BY <1>2 DEF Phases
    <1>4. disk # NoFile => disk.at = 0
        BY DEF FileInit
    <1>5. Stamps
        BY <1>2, <1>4 DEF FileInit, Stamps, Ready
    <1>6. Known
        BY <1>2 DEF FileInit, Known, Current
    <1>7. Waiting
        BY <1>2 DEF Waiting
    <1> QED
        BY <1>1, <1>3, <1>5, <1>6, <1>7 DEF FileInv

-----------------------------------------------------------------------------
(* What each step does at the one instance *)

\* A step that leaves the queue, its progress and what is known alone.
LEMMA WaitingKept ==
    ASSUME FileInv, UNCHANGED <<queue, submitted>>,
           Applied' <=> Applied, Current(Sole)' = Current(Sole)
    PROVE  Waiting'
    BY DEF FileInv, Waiting

LEMMA SubmitStep ==
    ASSUME Alone, FileInv, FileTypeOK', NEW op \in Ops, Submit(Sole, op)
    PROVE  FileInv'
    <1>1. /\ op \notin submitted
          /\ reading[Sole] # "look"
          /\ submitted' = submitted \cup {op}
          /\ queue'[Sole] = Append(queue[Sole], op)
          /\ UNCHANGED <<disk, clock, mem, loaded, reading, stage, text, forgotten>>
        BY SoleInstance DEF Submit, Alone, FileInv, FileTypeOK
    <1>2. Current(Sole)' = Current(Sole) /\ Saved' = Saved
        BY <1>1 DEF Current, Saved
    <1>3. Phases'
        BY <1>1 DEF FileInv, Phases
    <1>4. Stamps'
        BY <1>1 DEF FileInv, Stamps, Ready
    <1>5. Known'
        BY <1>1, <1>2 DEF FileInv, Known
    <1>6. queue[Sole] \in Seq(Ops)
        BY SoleInstance DEF FileInv, FileTypeOK
    <1>7. /\ Len(queue[Sole]) \in Nat
          /\ Len(queue'[Sole]) = Len(queue[Sole]) + 1
          /\ queue'[Sole][Len(queue[Sole]) + 1] = op
          /\ \A n \in 1..Len(queue[Sole]) : queue'[Sole][n] = queue[Sole][n]
        BY <1>1, <1>6
    <1>8. op \notin Current(Sole)
        BY <1>1 DEF FileInv, Known
    <1>9. Len(queue[Sole]) = 0 => ~Applied
        BY <1>6, SoleInstance DEF FileInv, FileTypeOK, Applied
    <1>10. Waiting'
        <2>1. \A n \in 1..Len(queue[Sole]) : queue[Sole][n] # op
            BY <1>1 DEF FileInv, Waiting
        <2>2. Applied' <=> Applied
            BY <1>1 DEF Applied
        <2>3. \A n \in 1..Len(queue'[Sole]) :
                 n \in 1..Len(queue[Sole]) \/ n = Len(queue[Sole]) + 1
            BY <1>7
        <2>4. \A n \in 1..Len(queue'[Sole]) : queue'[Sole][n] \in submitted'
            BY <1>1, <1>7, <2>3 DEF FileInv, Waiting
        <2>5. \A m, n \in 1..Len(queue'[Sole]) : queue'[Sole][m] = queue'[Sole][n] => m = n
            BY <1>7, <2>1, <2>3 DEF FileInv, Waiting
        <2>6. \A n \in 1..Len(queue'[Sole]) :
                 queue'[Sole][n] \in Current(Sole)' <=> n = 1 /\ Applied'
            BY <1>2, <1>7, <1>8, <1>9, <2>2, <2>3 DEF FileInv, Waiting
        <2> QED
            BY <2>4, <2>5, <2>6 DEF Waiting
    <1> QED
        BY <1>3, <1>4, <1>5, <1>10 DEF FileInv

\* A look that is the first to enter load().
LEMMA LookStep ==
    ASSUME Alone, FileInv, FileTypeOK', Look(Sole)
    PROVE  FileInv'
    <1>1. /\ ~loaded[Sole]
          /\ queue[Sole] = <<>>
          /\ loaded'[Sole]
          /\ reading'[Sole] = "look"
          /\ UNCHANGED <<disk, clock, mem, queue, stage, text, submitted, forgotten>>
        BY SoleInstance DEF Look, Alone, FileInv, FileTypeOK
    <1>2. reading[Sole] = "no" /\ stage[Sole] = "idle"
        BY <1>1 DEF FileInv, Phases
    <1>3. Current(Sole)' = Current(Sole) /\ Saved' = Saved
        BY <1>1, <1>2 DEF Current, Saved
    <1>4. Phases'
        BY <1>1, <1>2 DEF Phases
    <1>5. Stamps'
        BY <1>1, <1>2 DEF FileInv, Stamps, Ready
    <1>6. Known'
        BY <1>1, <1>3 DEF FileInv, Known
    <1>7. Waiting'
        BY <1>1, <1>3, WaitingKept DEF Applied
    <1> QED
        BY <1>4, <1>5, <1>6, <1>7 DEF FileInv

\* The read of load() arrives or fails, of a look or of the first transaction: what
\* the instance knows stays, or is gone, and then it is in `forgotten`.
LEMMA LoadedStep ==
    ASSUME Alone, FileInv, FileTypeOK', LookLoaded(Sole) \/ LoadDone(Sole)
    PROVE  FileInv' /\ Current(Sole)' \in {Current(Sole), {}} /\ ~Ready /\ Ready'
    <1>1. /\ reading[Sole] \in {"look", "queue"}
          /\ loaded[Sole]
          /\ reading'[Sole] = "no"
          /\ Read(Sole)
          /\ stage'[Sole] \in {"idle", "read"}
          /\ stage[Sole] \in {"idle", "load"}
          /\ UNCHANGED <<disk, clock, loaded, queue, text, submitted>>
        <2>1. CASE LookLoaded(Sole)
            <3>1. stage[Sole] = "idle"
                BY <2>1, SoleInstance DEF LookLoaded, FileInv, FileTypeOK, Phases
            <3> QED
                BY <2>1, <3>1, SoleInstance DEF LookLoaded, FileInv, FileTypeOK, Phases
        <2>2. CASE LoadDone(Sole)
            BY <2>2, SoleInstance DEF LoadDone, FileInv, FileTypeOK, Phases
        <2> QED
            BY <2>1, <2>2
    <1>2. PICK seen \in {disk, NoFile} :
             /\ mem'[Sole] = Loaded(seen)
             /\ forgotten'[Sole] = IF seen = NoFile THEN Saved ELSE {}
        BY <1>1, SoleInstance DEF Read, FileInv, FileTypeOK
    <1>3. Current(Sole) = Saved /\ Current(Sole)' = Loaded(seen).ops /\ Saved' = Saved
        BY <1>1, <1>2 DEF Current, Saved
    <1>4. /\ Loaded(seen).ops = IF seen = NoFile THEN {} ELSE Saved
          /\ Loaded(seen).at = IF seen = NoFile THEN clock ELSE disk.at
        BY DEF Loaded, Saved, EmptyDocument
    <1>5. Phases'
        BY <1>1 DEF FileInv, Phases
    <1>6. Stamps'
        <2>1. clock \in Nat /\ (disk # NoFile => disk.at \in Nat)
            BY DEF FileInv, FileTypeOK, Document
        <2>2. disk # NoFile => disk.at <= clock
            BY DEF FileInv, Stamps
        <2>3. seen = NoFile \/ (seen = disk /\ disk # NoFile)
            OBVIOUS
        <2>4. mem'[Sole].at <= clock /\ (disk # NoFile => disk.at <= mem'[Sole].at)
            BY <1>2, <1>4, <2>1, <2>2, <2>3
        <2> QED
            BY <1>1, <2>2, <2>4 DEF Stamps
    <1>7. Known'
        BY <1>1, <1>2, <1>3, <1>4 DEF FileInv, Known
    <1>8. Waiting'
        <2>1. ~Applied /\ ~Applied'
            BY <1>1 DEF Applied
        <2>2. Current(Sole)' \subseteq Current(Sole)
            BY <1>3, <1>4
        <2> QED
            BY <1>1, <2>1, <2>2 DEF FileInv, Waiting
    <1> QED
        BY <1>1, <1>3, <1>4, <1>5, <1>6, <1>7, <1>8 DEF FileInv, Ready

LEMMA StartStep ==
    ASSUME Alone, FileInv, FileTypeOK', Start(Sole)
    PROVE  FileInv' /\ Current(Sole)' = Current(Sole) /\ (Ready' <=> Ready)
    <1>1. /\ stage[Sole] = "idle" /\ queue[Sole] # <<>>
          /\ loaded'[Sole]
          /\ stage'[Sole] = IF loaded[Sole] THEN "read" ELSE "load"
          /\ reading'[Sole] = IF loaded[Sole] THEN reading[Sole] ELSE "queue"
          /\ UNCHANGED <<disk, clock, mem, queue, text, submitted, forgotten>>
        BY SoleInstance DEF Start, FileInv, FileTypeOK
    <1>2. reading[Sole] = "no"
        BY <1>1, SoleInstance DEF FileInv, FileTypeOK, Phases
    <1>3. Current(Sole)' = Current(Sole) /\ Saved' = Saved
        BY <1>1, <1>2 DEF Current, Saved
    <1>4. Phases'
        BY <1>1, <1>2 DEF Phases
    <1>5. Stamps'
        BY <1>1, <1>2 DEF FileInv, Stamps, Ready
    <1>6. Known'
        BY <1>1, <1>3 DEF FileInv, Known
    <1>7. Waiting'
        BY <1>1, <1>3, WaitingKept DEF Applied
    <1>8. Ready' <=> Ready
        BY <1>1, <1>2 DEF Ready
    <1> QED
        BY <1>3, <1>4, <1>5, <1>6, <1>7, <1>8 DEF FileInv

\* The transaction is applied on top of everything known.
LEMMA ApplyStep ==
    ASSUME Alone, FileInv, FileTypeOK', Apply(Sole)
    PROVE  /\ FileInv'
           /\ Head(queue[Sole]) \in Ops
           /\ Head(queue[Sole]) \notin Current(Sole)
           /\ Current(Sole)' = Current(Sole) \cup {Head(queue[Sole])}
           /\ Saved' = Saved
           /\ Ready /\ Ready'
    <1>1. PICK seen \in {disk, NoFile}, now \in {clock, clock + 1} :
             /\ clock' = now
             /\ mem' = [mem EXCEPT ![Sole] =
                   [at |-> now, ops |-> Freshest(Sole, seen).ops \cup {Head(queue[Sole])}]]
        BY DEF Apply
    <1>2. /\ stage[Sole] = "read" /\ stage'[Sole] = "write"
          /\ text'[Sole] = mem'[Sole]
          /\ UNCHANGED <<disk, loaded, reading, queue, submitted, forgotten>>
        BY SoleInstance DEF Apply, FileInv, FileTypeOK
    <1>3. /\ Ready /\ queue[Sole] # <<>>
          /\ Current(Sole) = mem[Sole].ops
        BY <1>2, RunningIsReady
    <1>4. mem'[Sole] = [at |-> now, ops |-> mem[Sole].ops \cup {Head(queue[Sole])}]
        BY <1>1, <1>2, MemoryIsFreshest, SoleInstance DEF FileInv, FileTypeOK
    <1>5. /\ Current(Sole)' = Current(Sole) \cup {Head(queue[Sole])}
          /\ Saved' = Saved
        BY <1>2, <1>3, <1>4 DEF Current, Ready, Saved
    <1>6. /\ Len(queue[Sole]) \in Nat \ {0}
          /\ Head(queue[Sole]) = queue[Sole][1]
          /\ Head(queue[Sole]) \in Ops
        BY <1>3, QueueFacts DEF FileInv
    <1>7. ~Applied /\ Applied'
        BY <1>2 DEF Applied
    <1>8. Head(queue[Sole]) \in submitted /\ Head(queue[Sole]) \notin Current(Sole)
        BY <1>6, <1>7 DEF FileInv, Waiting
    <1>9. Phases'
        BY <1>2 DEF FileInv, Phases
    <1>10. Stamps'
        <2>1. clock \in Nat /\ mem[Sole].at \in Nat /\ (disk # NoFile => disk.at \in Nat)
            BY SoleInstance DEF FileInv, FileTypeOK, Document
        <2>2. mem'[Sole].at = now /\ clock' = now /\ now >= clock /\ now \in Nat
            BY <1>1, <1>4, <2>1
        <2>3. disk # NoFile => disk.at <= now
            BY <2>1, <2>2 DEF FileInv, Stamps
        <2> QED
            BY <1>2, <2>2, <2>3 DEF Stamps
    <1>11. Known'
        BY <1>2, <1>5, <1>8 DEF FileInv, Known
    <1>12. Waiting'
        <2>1. \A n \in 1..Len(queue[Sole]) :
                 queue[Sole][n] \in Current(Sole) \cup {Head(queue[Sole])} <=> n = 1
            BY <1>6, <1>7 DEF FileInv, Waiting
        <2> QED
            BY <1>2, <1>5, <1>7, <2>1 DEF FileInv, Waiting
    <1>13. Ready'
        BY <1>2, <1>3 DEF Ready
    <1> QED
        BY <1>3, <1>5, <1>6, <1>8, <1>9, <1>10, <1>11, <1>12, <1>13 DEF FileInv

\* The rename makes exactly what is known durable.
LEMMA RenameStep ==
    ASSUME Alone, FileInv, FileTypeOK', Rename(Sole)
    PROVE  /\ FileInv'
           /\ Saved' = Current(Sole)
           /\ Current(Sole)' = Current(Sole)
           /\ Ready /\ Ready'
    <1>1. /\ stage[Sole] = "write" /\ stage'[Sole] = "done"
          /\ disk' = text[Sole]
          /\ UNCHANGED <<clock, mem, loaded, reading, queue, text, submitted, forgotten>>
        BY SoleInstance DEF Rename, FileInv, FileTypeOK
    <1>2. Ready /\ Current(Sole) = mem[Sole].ops
        BY <1>1, RunningIsReady
    <1>3. disk' = mem[Sole]
        BY <1>1 DEF FileInv, Stamps
    <1>4. disk' # NoFile
        BY <1>3, SoleInstance, LedgerFileAssumption DEF FileInv, FileTypeOK, Document
    <1>5. /\ Saved' = Current(Sole)
          /\ Current(Sole)' = Current(Sole)
        BY <1>1, <1>2, <1>3, <1>4 DEF Saved, Current, Ready
    <1>6. Phases'
        BY <1>1 DEF FileInv, Phases
    <1>7. mem[Sole].at \in Nat
        BY SoleInstance DEF FileInv, FileTypeOK, Document
    <1>8. Stamps'
        BY <1>1, <1>3, <1>7 DEF FileInv, Stamps
    <1>9. Known'
        BY <1>1, <1>5 DEF FileInv, Known
    <1>10. Waiting'
        BY <1>1, <1>5, WaitingKept DEF Applied
    <1>11. Ready'
        BY <1>1, <1>2 DEF Ready
    <1> QED
        BY <1>2, <1>5, <1>6, <1>8, <1>9, <1>10, <1>11 DEF FileInv

LEMMA WriteFailsStep ==
    ASSUME Alone, FileInv, FileTypeOK', WriteFails(Sole)
    PROVE  FileInv' /\ Current(Sole)' = Current(Sole)
    <1>1. /\ stage[Sole] = "write" /\ stage'[Sole] = "done"
          /\ UNCHANGED <<disk, clock, mem, loaded, reading, queue, text, submitted, forgotten>>
        BY SoleInstance DEF WriteFails, FileInv, FileTypeOK
    <1>2. Current(Sole)' = Current(Sole) /\ Saved' = Saved
        BY <1>1 DEF Current, Saved
    <1>3. Phases'
        BY <1>1 DEF FileInv, Phases
    <1>4. Stamps'
        BY <1>1 DEF FileInv, Stamps, Ready
    <1>5. Known'
        BY <1>1, <1>2 DEF FileInv, Known
    <1>6. Waiting'
        BY <1>1, <1>2, WaitingKept DEF Applied
    <1> QED
        BY <1>2, <1>3, <1>4, <1>5, <1>6 DEF FileInv

\* Only a transaction that is known is answered.
LEMMA FinishStep ==
    ASSUME Alone, FileInv, FileTypeOK', Finish(Sole)
    PROVE  /\ FileInv'
           /\ Head(queue[Sole]) \in Current(Sole)
           /\ Current(Sole)' = Current(Sole)
    <1>1. /\ stage[Sole] = "done" /\ stage'[Sole] = "idle"
          /\ queue'[Sole] = Tail(queue[Sole])
          /\ UNCHANGED <<disk, clock, mem, loaded, reading, text, submitted, forgotten>>
        BY SoleInstance DEF Finish, FileInv, FileTypeOK
    <1>2. Ready /\ queue[Sole] # <<>>
        BY <1>1, RunningIsReady
    <1>3. Current(Sole)' = Current(Sole) /\ Saved' = Saved
        BY <1>1 DEF Current, Saved
    <1>4. /\ Len(queue[Sole]) \in Nat \ {0}
          /\ Head(queue[Sole]) = queue[Sole][1]
          /\ Len(queue'[Sole]) = Len(queue[Sole]) - 1
          /\ \A n \in 1..Len(queue[Sole]) - 1 : queue'[Sole][n] = queue[Sole][n + 1]
        BY <1>1, <1>2, QueueFacts DEF FileInv
    <1>5. Applied /\ ~Applied'
        BY <1>1 DEF Applied
    <1>6. Head(queue[Sole]) \in Current(Sole)
        BY <1>4, <1>5 DEF FileInv, Waiting
    <1>7. Phases'
        BY <1>1, <1>2 DEF Phases, Ready
    <1>8. Stamps'
        BY <1>1 DEF FileInv, Stamps, Ready
    <1>9. Known'
        BY <1>1, <1>3 DEF FileInv, Known
    <1>10. Waiting'
        <2>1. \A n \in 1..Len(queue'[Sole]) :
                 /\ n + 1 \in 1..Len(queue[Sole])
                 /\ queue'[Sole][n] = queue[Sole][n + 1]
                 /\ n + 1 # 1
            BY <1>4
        <2>2. \A n \in 1..Len(queue'[Sole]) : queue'[Sole][n] \in submitted'
            BY <1>1, <2>1 DEF FileInv, Waiting
        <2>3. \A m, n \in 1..Len(queue'[Sole]) :
                 queue'[Sole][m] = queue'[Sole][n] => m + 1 = n + 1
            BY <2>1 DEF FileInv, Waiting
        <2>4. \A m, n \in 1..Len(queue'[Sole]) :
                 queue'[Sole][m] = queue'[Sole][n] => m = n
            BY <2>3
        <2>5. ASSUME NEW n \in 1..Len(queue'[Sole])
              PROVE  queue'[Sole][n] \notin Current(Sole)'
            <3>1. /\ n + 1 \in 1..Len(queue[Sole]) /\ n + 1 # 1
                  /\ queue'[Sole][n] = queue[Sole][n + 1]
                BY <2>1
            <3>2. \A m \in 1..Len(queue[Sole]) : queue[Sole][m] \in Current(Sole) => m = 1
                BY DEF FileInv, Waiting
            <3>3. queue[Sole][n + 1] \notin Current(Sole)
                BY <3>1, <3>2
            <3> QED
                BY <1>3, <3>1, <3>3
        <2> QED
            BY <1>5, <2>2, <2>4, <2>5 DEF Waiting
    <1> QED
        BY <1>3, <1>6, <1>7, <1>8, <1>9, <1>10 DEF FileInv

\* A crash leaves what is saved.
LEMMA CrashStep ==
    ASSUME Alone, FileInv, FileTypeOK', Crash(Sole)
    PROVE  /\ FileInv'
           /\ Current(Sole)' = Saved
           /\ Saved' = Saved
           /\ ~Ready'
    <1>1. /\ mem'[Sole] = EmptyDocument(clock)
          /\ loaded'[Sole] = FALSE /\ reading'[Sole] = "no"
          /\ queue'[Sole] = <<>> /\ stage'[Sole] = "idle"
          /\ UNCHANGED <<disk, clock, submitted>>
        BY SoleInstance DEF Crash, FileInv, FileTypeOK
    <1>2. Current(Sole)' = Saved /\ Saved' = Saved
        BY <1>1 DEF Current, Saved
    <1>3. Phases'
        BY <1>1 DEF Phases
    <1>4. clock \in Nat
        BY DEF FileInv, FileTypeOK
    <1>5. Stamps'
        BY <1>1, <1>4 DEF FileInv, Stamps, Ready, EmptyDocument
    <1>6. Known'
        BY <1>1, <1>2 DEF FileInv, Known
    <1>7. Waiting'
        BY <1>1 DEF Waiting
    <1> QED
        BY <1>1, <1>2, <1>3, <1>5, <1>6, <1>7 DEF FileInv, Ready

-----------------------------------------------------------------------------
(* The theorems *)

\* A step of the one instance keeps the invariant, and is a step of the journal.
LEMMA StutterStep ==
    ASSUME FileInv, FileTypeOK', UNCHANGED fileVars
    PROVE  /\ FileInv'
           /\ UNCHANGED <<Current(Sole), Saved, answered, Ready>>
    <1>1. UNCHANGED <<Current(Sole), Saved, answered, Ready>>
        BY DEF fileVars, Current, Saved, Ready
    <1>2. Phases' /\ Stamps' /\ Known'
        BY <1>1 DEF fileVars, FileInv, Phases, Stamps, Ready, Known
    <1>3. Waiting'
        BY <1>1, WaitingKept DEF fileVars, Applied
    <1> QED
        BY <1>1, <1>2, <1>3 DEF FileInv

LEMMA FileStep ==
    ASSUME Alone, FileInv, [FileNext]_fileVars
    PROVE  /\ FileInv'
           /\ [Journal!Next]_(Journal!vars)
           /\ Saved \ Saved' \subseteq forgotten[Sole]
    <1>1. FileTypeOK'
        BY TypeStep DEF FileInv
    <1>2. Known
        BY DEF FileInv
    <1> DEFINE Goal == /\ FileInv'
                       /\ [Journal!Next]_(Journal!vars)
                       /\ Saved \ Saved' \subseteq forgotten[Sole]
    <1>3. ASSUME FileInv', UNCHANGED <<Current(Sole), Saved, answered, Ready>> PROVE Goal
        BY <1>3 DEF Journal!vars, Ready
    <1>4. CASE UNCHANGED fileVars
        BY <1>1, <1>3, <1>4, StutterStep
    <1>5. ASSUME NEW op \in Ops, Submit(Sole, op) PROVE Goal
        <2>1. FileInv'
            BY <1>1, <1>5, SubmitStep
        <2>2. UNCHANGED <<Current(Sole), Saved, answered, Ready>>
            BY <1>5 DEF Submit, Current, Saved, Ready
        <2> QED
            BY <1>3, <2>1, <2>2
    <1>6. CASE Look(Sole)
        <2>1. FileInv'
            BY <1>1, <1>6, LookStep
        <2>2. UNCHANGED <<Saved, answered>>
            BY <1>6 DEF Look, Saved
        <2>3. Current(Sole) = Saved /\ ~Ready
            BY <1>6 DEF Look, Current, Ready
        <2>4. Current(Sole)' = Saved' /\ ~Ready'
            BY <1>6, SoleInstance DEF Look, Current, Ready, FileInv, FileTypeOK
        <2> QED
            BY <1>3, <2>1, <2>2, <2>3, <2>4 DEF Ready
    <1>7. CASE LookLoaded(Sole) \/ LoadDone(Sole)
        <2>1. FileInv' /\ Current(Sole)' \in {Current(Sole), {}} /\ ~Ready /\ Ready'
            BY <1>1, <1>7, LoadedStep
        <2>2. UNCHANGED <<Saved, answered>>
            BY <1>7 DEF LookLoaded, LoadDone, Saved
        <2>3. Journal!Open
            BY <2>1, <2>2 DEF Journal!Open, Ready
        <2> QED
            BY <2>1, <2>2, <2>3 DEF Journal!Next
    <1>8. CASE Start(Sole)
        <2>1. FileInv' /\ Current(Sole)' = Current(Sole) /\ (Ready' <=> Ready)
            BY <1>1, <1>8, StartStep
        <2>2. UNCHANGED <<Saved, answered>>
            BY <1>8 DEF Start, Saved
        <2> QED
            BY <1>3, <2>1, <2>2 DEF Ready
    <1>9. CASE Apply(Sole)
        <2>1. /\ FileInv'
              /\ Head(queue[Sole]) \in Ops
              /\ Head(queue[Sole]) \notin Current(Sole)
              /\ Current(Sole)' = Current(Sole) \cup {Head(queue[Sole])}
              /\ Saved' = Saved
              /\ Ready /\ Ready'
            BY <1>1, <1>9, ApplyStep
        <2>2. answered' = answered
            BY <1>9 DEF Apply
        <2>3. Journal!Apply(Head(queue[Sole]))
            BY <2>1, <2>2 DEF Journal!Apply, Ready
        <2> QED
            BY <2>1, <2>3 DEF Journal!Next
    <1>10. CASE Rename(Sole)
        <2>1. /\ FileInv' /\ Saved' = Current(Sole) /\ Current(Sole)' = Current(Sole)
              /\ Ready /\ Ready'
            BY <1>1, <1>10, RenameStep
        <2>2. answered' = answered
            BY <1>10 DEF Rename
        <2>3. Journal!Save
            BY <2>1, <2>2 DEF Journal!Save, Ready
        <2> QED
            BY <1>2, <2>1, <2>3 DEF Journal!Next, Known
    <1>11. CASE WriteFails(Sole)
        <2>1. FileInv' /\ Current(Sole)' = Current(Sole)
            BY <1>1, <1>11, WriteFailsStep
        <2>2. UNCHANGED <<Saved, answered, Ready>>
            BY <1>11 DEF WriteFails, Saved, Ready
        <2> QED
            BY <1>3, <2>1, <2>2
    <1>12. CASE Finish(Sole)
        <2>1. /\ FileInv'
              /\ Head(queue[Sole]) \in Current(Sole)
              /\ Current(Sole)' = Current(Sole)
            BY <1>1, <1>12, FinishStep
        <2>2. /\ Saved' = Saved /\ answered' = answered \cup {Head(queue[Sole])}
              /\ UNCHANGED <<loaded, reading>>
            BY <1>12 DEF Finish, Saved
        <2>3. stage[Sole] = "done"
            BY <1>12 DEF Finish
        <2>4. Head(queue[Sole]) \in Ops /\ Ready
            BY <2>3, RunningIsReady, QueueFacts DEF FileInv
        <2>5. Journal!Answer(Head(queue[Sole]))
            BY <2>1, <2>2, <2>4 DEF Journal!Answer, Ready
        <2> QED
            BY <2>1, <2>2, <2>4, <2>5 DEF Journal!Next
    <1>13. CASE Crash(Sole)
        <2>1. FileInv' /\ Current(Sole)' = Saved /\ Saved' = Saved /\ ~Ready'
            BY <1>1, <1>13, CrashStep
        <2>2. answered' = answered
            BY <1>13 DEF Crash
        <2>3. Journal!Crash
            BY <2>1, <2>2 DEF Journal!Crash, Ready
        <2> QED
            BY <2>1, <2>3 DEF Journal!Next
    <1> QED
        BY <1>4, <1>5, <1>6, <1>7, <1>8, <1>9, <1>10, <1>11, <1>12, <1>13, SoleInstance
           DEF FileNext, Progress

\* transact's read-modify-write with the write-and-rename of persist: a later write
\* drops from the file only what the load of this life could not read, through reads
\* inside transactions and writes that fail, equal stamps, crashes and restarts.
THEOREM SavedCorrect ==
    ASSUME Alone
    PROVE  FileSpec => SavedIsNeverLost
    <1>1. FileInit => FileInv
        BY FileInvInit
    <1>2. FileInv /\ [FileNext]_fileVars => FileInv'
        BY FileStep
    <1>3. FileInv /\ [FileNext]_fileVars =>
             [Saved \ Saved' \subseteq UNION {forgotten[i] : i \in Instances}]_fileVars
        <2> SUFFICES ASSUME FileInv, [FileNext]_fileVars
                     PROVE  Saved \ Saved' \subseteq UNION {forgotten[i] : i \in Instances}
            OBVIOUS
        <2>1. Saved \ Saved' \subseteq forgotten[Sole]
            BY FileStep
        <2>2. forgotten[Sole] \subseteq UNION {forgotten[i] : i \in Instances}
            BY SoleInstance
        <2> QED
            BY <2>1, <2>2
    <1> QED
        BY <1>1, <1>2, <1>3, PTL DEF FileSpec, SavedIsNeverLost

\* The ledger file implements the durable journal: it is opened once in a life, with
\* all that is durable or, when it cannot be read, with nothing; transactions are
\* applied one by one and once each, a write makes all that is known durable, only
\* applied ones are answered, and a crash loses only what no write has saved.
THEOREM ImplementsJournal ==
    ASSUME Alone
    PROVE  FileSpec => JournalSpec
    <1>1. FileInit => FileInv
        BY FileInvInit
    <1>2. FileInv /\ [FileNext]_fileVars => FileInv'
        BY FileStep
    <1>3. FileInit => Journal!Init
        <2> SUFFICES ASSUME FileInit PROVE Journal!Init
            OBVIOUS
        <2>1. FileInv
            BY FileInvInit
        <2>2. Current(Sole) = Saved /\ loaded[Sole] = FALSE
            BY SoleInstance DEF FileInit, Current
        <2>3. Saved \subseteq Ops
            BY <2>1 DEF FileInv, FileTypeOK, Known, FileInit
        <2> QED
            BY <2>2, <2>3 DEF FileInit, Journal!Init
    <1>4. FileInv /\ [FileNext]_fileVars => [Journal!Next]_(Journal!vars)
        BY FileStep
    <1> QED
        BY <1>1, <1>2, <1>3, <1>4, PTL DEF FileSpec, JournalSpec, Journal!Spec

=============================================================================
