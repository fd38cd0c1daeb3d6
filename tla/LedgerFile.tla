----------------------------- MODULE LedgerFile -----------------------------
(***************************************************************************)
(* How transactions reach the ledger file: the promise chain of each       *)
(* AdvisorBudgetLedger instance, its one-time load, the read of the file   *)
(* inside every transaction, and the write of a temporary file that a      *)
(* rename puts in place (load, persist, transact in dsh/advisor-budget.js).*)
(*                                                                         *)
(* What a transaction does to the counters is module BudgetLedger's        *)
(* business; here a document is the set of transactions it reflects, with  *)
(* its updatedAt stamp.  Any read may fail: the file is missing, cannot be *)
(* read for a moment, or does not parse.                                   *)
(***************************************************************************)
EXTENDS Integers, Sequences

CONSTANTS
    Instances,  \* ledger instances: one per apply() of the plugin, in any process
    Ops,        \* the transactions that are ever submitted
    NoFile,     \* the ledger file does not exist
    LooksRace   \* may summary() or history() overlap the first transaction?

ASSUME LedgerFileAssumption ==
    /\ LooksRace \in BOOLEAN
    /\ NoFile \notin [at: Nat, ops: SUBSET Ops]

VARIABLES
    disk,       \* the ledger file: a document or NoFile
    clock,      \* Date.now()
    mem,        \* this.ledger of each instance
    loaded,     \* this.loaded: load() has been entered
    reading,    \* a load() awaits its readFile: by "look" or by "queue"
    queue,      \* the promise chain: transactions waiting, the running one first
    stage,      \* how far the running transaction of each instance has come
    text,       \* the serialised document persist() is writing
    submitted,  \* transactions ever submitted
    answered,   \* transactions whose promise has been resolved
    forgotten   \* history: transactions in the file that the load of each
                \* instance could not read

fileVars == <<disk, clock, mem, loaded, reading, queue, stage, text, submitted, answered, forgotten>>

-----------------------------------------------------------------------------
Document == [at: Nat, ops: SUBSET Ops]

EmptyDocument(t) == [at |-> t, ops |-> {}]

\* Mutant: load() does not read the file.
MutantLoaded(seen) == EmptyDocument(clock)

\* What load() leaves in memory: what it read, or, when the read failed, an empty
\* ledger with a new stamp.
Loaded(seen) == IF seen = NoFile THEN EmptyDocument(clock) ELSE seen

\* Mutant: the file always wins over memory.
MutantFreshest(i, seen) == IF seen # NoFile THEN seen ELSE mem[i]

\* The read inside transact: the file wins only when it is strictly newer.
Freshest(i, seen) ==
    IF seen # NoFile /\ seen.at > mem[i].at THEN seen ELSE mem[i]

Saved == IF disk = NoFile THEN {} ELSE disk.ops

\* The read of load() ends: it has read the file, or has failed.
Read(i) ==
    \E seen \in {disk, NoFile} :
        /\ mem' = [mem EXCEPT ![i] = Loaded(seen)]
        /\ forgotten' = [forgotten EXCEPT ![i] = IF seen = NoFile THEN Saved ELSE {}]

-----------------------------------------------------------------------------
FileInit ==
    /\ disk \in {NoFile} \cup {[at |-> 0, ops |-> saved] : saved \in SUBSET Ops}
    /\ clock = 1
    /\ mem = [i \in Instances |-> EmptyDocument(1)]
    /\ loaded = [i \in Instances |-> FALSE]
    /\ reading = [i \in Instances |-> "no"]
    /\ queue = [i \in Instances |-> <<>>]
    /\ stage = [i \in Instances |-> "idle"]
    /\ text = [i \in Instances |-> EmptyDocument(0)]
    /\ submitted = Saved
    /\ answered = {}
    /\ forgotten = [i \in Instances |-> {}]

\* transact(): append to the chain.
Submit(i, op) ==
    /\ op \notin submitted
    /\ LooksRace \/ reading[i] # "look"
    /\ submitted' = submitted \cup {op}
    /\ queue' = [queue EXCEPT ![i] = Append(@, op)]
    /\ UNCHANGED <<disk, clock, mem, loaded, reading, stage, text, answered, forgotten>>

\* summary() or history(), outside the chain.  Once load() was entered it returns
\* at once, so only the first look reads the file.
Look(i) ==
    /\ ~loaded[i]
    /\ LooksRace \/ queue[i] = <<>>
    /\ loaded' = [loaded EXCEPT ![i] = TRUE]
    /\ reading' = [reading EXCEPT ![i] = "look"]
    /\ UNCHANGED <<disk, clock, mem, queue, stage, text, submitted, answered, forgotten>>

LookLoaded(i) ==
    /\ reading[i] = "look"
    /\ reading' = [reading EXCEPT ![i] = "no"]
    /\ Read(i)
    /\ UNCHANGED <<disk, clock, loaded, queue, stage, text, submitted, answered>>

\* Mutant: the chain does not look whether a transaction waits.
MutantStart(i) ==
    /\ stage[i] = "idle"
    /\ loaded' = [loaded EXCEPT ![i] = TRUE]
    /\ stage' = [stage EXCEPT ![i] = IF loaded[i] THEN "read" ELSE "load"]
    /\ reading' = [reading EXCEPT ![i] = IF loaded[i] THEN @ ELSE "queue"]
    /\ UNCHANGED <<disk, clock, mem, queue, text, submitted, answered, forgotten>>

\* The chain runs its next transaction.  load() is entered only once; when it was
\* entered before, the transaction goes on without waiting for that read.
Start(i) ==
    /\ stage[i] = "idle"
    /\ queue[i] # <<>>
    /\ loaded' = [loaded EXCEPT ![i] = TRUE]
    /\ stage' = [stage EXCEPT ![i] = IF loaded[i] THEN "read" ELSE "load"]
    /\ reading' = [reading EXCEPT ![i] = IF loaded[i] THEN @ ELSE "queue"]
    /\ UNCHANGED <<disk, clock, mem, queue, text, submitted, answered, forgotten>>

LoadDone(i) ==
    /\ stage[i] = "load"
    /\ stage' = [stage EXCEPT ![i] = "read"]
    /\ reading' = [reading EXCEPT ![i] = "no"]
    /\ Read(i)
    /\ UNCHANGED <<disk, clock, loaded, queue, text, submitted, answered>>

\* The read of the file arrives (or fails: `seen` is NoFile); then, without a
\* further await, the mutation, the new stamp and the serialisation.
Apply(i) ==
    /\ stage[i] = "read"
    /\ \E seen \in {disk, NoFile}, now \in {clock, clock + 1} :
          /\ clock' = now
          /\ mem' = [mem EXCEPT ![i] =
                        [at |-> now, ops |-> Freshest(i, seen).ops \cup {Head(queue[i])}]]
    /\ text' = [text EXCEPT ![i] = mem'[i]]
    /\ stage' = [stage EXCEPT ![i] = "write"]
    /\ UNCHANGED <<disk, loaded, reading, queue, submitted, answered, forgotten>>

\* persist(): the rename replaces the whole document.
Rename(i) ==
    /\ stage[i] = "write"
    /\ disk' = text[i]
    /\ stage' = [stage EXCEPT ![i] = "done"]
    /\ UNCHANGED <<clock, mem, loaded, reading, queue, text, submitted, answered, forgotten>>

\* Mutant: a failed write rejects the chain, which has no rejection handler.
MutantWriteFails(i) ==
    /\ stage[i] = "write"
    /\ stage' = [stage EXCEPT ![i] = "rejected"]
    /\ UNCHANGED <<disk, clock, mem, loaded, reading, queue, text, submitted, answered, forgotten>>

\* A failed mkdir, write or rename is swallowed.
WriteFails(i) ==
    /\ stage[i] = "write"
    /\ stage' = [stage EXCEPT ![i] = "done"]
    /\ UNCHANGED <<disk, clock, mem, loaded, reading, queue, text, submitted, answered, forgotten>>

\* The transaction's promise resolves and the chain goes on.
Finish(i) ==
    /\ stage[i] = "done"
    /\ answered' = answered \cup {Head(queue[i])}
    /\ queue' = [queue EXCEPT ![i] = Tail(@)]
    /\ stage' = [stage EXCEPT ![i] = "idle"]
    /\ UNCHANGED <<disk, clock, mem, loaded, reading, text, submitted, forgotten>>

\* The process dies at any await and a new one constructs a new instance.
Crash(i) ==
    /\ mem' = [mem EXCEPT ![i] = EmptyDocument(clock)]
    /\ loaded' = [loaded EXCEPT ![i] = FALSE]
    /\ reading' = [reading EXCEPT ![i] = "no"]
    /\ queue' = [queue EXCEPT ![i] = <<>>]
    /\ stage' = [stage EXCEPT ![i] = "idle"]
    /\ text' = [text EXCEPT ![i] = EmptyDocument(0)]
    /\ forgotten' = [forgotten EXCEPT ![i] = {}]
    /\ UNCHANGED <<disk, clock, submitted, answered>>

Progress(i) ==
    LookLoaded(i) \/ Start(i) \/ LoadDone(i) \/ Apply(i) \/ Rename(i) \/ WriteFails(i) \/ Finish(i)

FileNext ==
    \E i \in Instances :
        \/ \E op \in Ops : Submit(i, op)
        \/ Look(i)
        \/ Progress(i)
        \/ Crash(i)

\* File operations end, one way or the other, and settled promises run their
\* continuations.
FileFairness == \A i \in Instances : WF_fileVars(Progress(i))

FileSpec == FileInit /\ [][FileNext]_fileVars
FileFairSpec == FileSpec /\ FileFairness

-----------------------------------------------------------------------------
(* Properties *)

\* Every variable stays in its type, and exactly a waiting transaction is run.
FileTypeOK ==
    /\ disk \in Document \cup {NoFile}
    /\ clock \in Nat
    /\ mem \in [Instances -> Document]
    /\ loaded \in [Instances -> BOOLEAN]
    /\ reading \in [Instances -> {"no", "look", "queue"}]
    /\ queue \in [Instances -> Seq(Ops)]
    /\ stage \in [Instances -> {"idle", "load", "read", "write", "done"}]
    /\ text \in [Instances -> Document]
    /\ submitted \subseteq Ops
    /\ answered \subseteq Ops
    /\ forgotten \in [Instances -> SUBSET Ops]
    /\ \A i \in Instances : stage[i] # "idle" => queue[i] # <<>>

\* A transaction once in the ledger file is dropped from it by a later write only
\* when the load of a living instance could not read the file (transact's
\* read-modify-write, persist).  load() takes such a file for an empty ledger, newer
\* than any, which the next write puts in its place.
SavedIsNeverLost == [][Saved \ Saved' \subseteq UNION {forgotten[i] : i \in Instances}]_fileVars

\* What an instance knows once it has loaded: its memory, before that the file.
Current(i) == IF loaded[i] /\ reading[i] = "no" THEN mem[i].ops ELSE Saved

\* Seen through one instance that no look races, the file is a durable journal:
\* once it was opened, every transaction is applied once, on top of all earlier ones
\* still known; a crash loses only what no write has saved, and only an opening that
\* fails forgets what was.
Sole == CHOOSE i \in Instances : TRUE
Journal == INSTANCE DurableJournal
    WITH log <- Current(Sole), safe <- Saved, open <- loaded[Sole] /\ reading[Sole] = "no"
JournalSpec == Journal!Spec

\* The chain never wedges: every submitted transaction leaves the queue, answered
\* or lost with its process, also after writes that failed (queue.then(run, run)).
ChainNeverWedges ==
    \A i \in Instances, op \in Ops :
        (\E n \in 1..Len(queue[i]) : queue[i][n] = op) ~>
            ~(\E n \in 1..Len(queue[i]) : queue[i][n] = op)
=============================================================================
