------------------------------ MODULE OutcomeLog ------------------------------
(***************************************************************************)
(* What happens to a piece of advice after it was given: the ledger of a   *)
(* session (src/session-state.ts), the record_advisor_outcome tool, and    *)
(* the file all Pi processes of a user append to under a lock file, with   *)
(* the salt its digests are made with (src/outcomes.ts).                   *)
(*                                                                         *)
(* A call is one execution of the tool; every await of the file system is  *)
(* a step of its own.  A process may die at any of them and leaves what it *)
(* wrote.  A lock file grows old (30 seconds) when its owner is dead or    *)
(* was suspended.  Calls that find a lock wait 5 ms and try again, 200     *)
(* times in the code and Tries times here.                                 *)
(***************************************************************************)
EXTENDS Integers, Sequences, FiniteSets

CONSTANTS
    OutCalls,     \* executions of record_advisor_outcome
    Processes,    \* Pi processes that share the agent directory
    ProcessOf,    \* the process a call runs in
    AdviceOf,     \* the adviceId a call names
    Tries,        \* attempts at the lock
    LogMax,       \* lines that fit below MAX_LOG_BYTES
    MaxFaults,    \* process deaths, ageing locks, failing file operations, new sessions
    NoFile        \* no lock file, no salt, no observed file

Advices == {AdviceOf[c] : c \in OutCalls}

ASSUME OutcomeLogAssumption ==
    /\ IsFiniteSet(OutCalls) /\ IsFiniteSet(Processes)
    /\ ProcessOf \in [OutCalls -> Processes]
    /\ \A c, d \in OutCalls : AdviceOf[c] = AdviceOf[d] => ProcessOf[c] = ProcessOf[d]
    /\ Tries \in Nat \ {0} /\ LogMax \in Nat \ {0} /\ MaxFaults \in Nat
    /\ NoFile \notin OutCalls \cup Advices \cup {"left", "partial", "before"}
    /\ OutCalls \cap {"left", "partial", "before"} = {}

VARIABLES
    advice,      \* per process: the AdviceLedger of its session
    outCall,     \* per call: how far it is, what it observed, its attempts
    lockFile,    \* the call that created the lock file, "left" or NoFile
    lockOld,     \* the lock file is older than 30 seconds
    saltFile,    \* NoFile, "partial", or the call that published it or "before"
    outLog,      \* the lines of the log: the call and the salt of its digest
    outFaults,   \* faults so far
    \* History variables.  No action's guard reads them.
    contested,   \* two takers of an old lock overlapped, or a live owner's lock grew old
    written,     \* calls whose line reached the log
    lost         \* a line was dropped though it fitted with the others

outVars == <<advice, outCall, lockFile, lockOld, saltFile, outLog, outFaults,
             contested, written, lost>>
fileVars == <<lockFile, lockOld, saltFile, outLog>>

Locking == {"open", "observe", "confirm", "evict"}
Salting == {"readSalt", "dropSalt", "linkSalt"}
Inside  == Salting \cup {"size", "write", "chmod"}
Leaving == {"close", "unlink"}
Running == Locking \cup Inside \cup Leaving \cup {"settle"}
CallEnded   == {"recorded", "unrecorded", "refused", "dead"}

FreshAdvice == [issued |-> {}, pending |-> {}, reported |-> {}, outcomes |-> 0]
FreshCall == [pc |-> "idle", tries |-> 0, seen |-> NoFile, salt |-> NoFile,
              big |-> FALSE, ok |-> FALSE]

At(c, place) == outCall[c].pc = place
Move(c, place) == outCall' = [outCall EXCEPT ![c].pc = place]
Mine(c) == advice[ProcessOf[c]]
Holders == {c \in OutCalls : outCall[c].pc \in Inside}

-----------------------------------------------------------------------------
(* The session's ledger *)

\* An Advisor call of process p ends with advice a, in whatever session is open then.
Issue(p, a) ==
    /\ \A c \in OutCalls : AdviceOf[c] = a => ProcessOf[c] = p /\ At(c, "idle")
    /\ a \notin advice[p].issued
    /\ advice' = [advice EXCEPT ![p].issued = @ \cup {a}]
    /\ UNCHANGED <<outCall, fileVars, outFaults, contested, written, lost>>

\* Mutant: only what was reported is refused, not what is being reported.
MutantReservable(c) == AdviceOf[c] \in Mine(c).issued \ Mine(c).reported

\* reserveAdvice finds the advice, and nobody reported it or is about to.
Reservable(c) == AdviceOf[c] \in Mine(c).issued \ (Mine(c).reported \cup Mine(c).pending)

Record(c) ==
    /\ At(c, "idle")
    /\ Reservable(c)
    /\ advice' = [advice EXCEPT ![ProcessOf[c]].pending = @ \cup {AdviceOf[c]}]
    /\ Move(c, "open")
    /\ UNCHANGED <<fileVars, outFaults, contested, written, lost>>

\* The advice is unknown, reported or pending.  (Outcome logging is on.)
RefuseReport(c) ==
    /\ At(c, "idle")
    /\ Mine(c) # FreshAdvice
    /\ ~Reservable(c)
    /\ Move(c, "refused")
    /\ UNCHANGED <<advice, fileVars, outFaults, contested, written, lost>>

-----------------------------------------------------------------------------
(* The lock file *)

\* Mutant: attempts are not counted.
MutantRetryLock(c) == outCall' = [outCall EXCEPT ![c].seen = NoFile, ![c].pc = "open"]

RetryLock(c) ==
    outCall' = [outCall EXCEPT ![c].tries = @ + 1, ![c].seen = NoFile,
                               ![c].pc = IF outCall[c].tries + 1 < Tries THEN "open" ELSE "settle"]

\* open(lockPath, "wx")
OpenLock(c) ==
    /\ At(c, "open")
    /\ IF lockFile = NoFile
       THEN /\ lockFile' = c /\ lockOld' = FALSE
            /\ Move(c, "readSalt")
       ELSE /\ Move(c, "observe")
            /\ UNCHANGED <<lockFile, lockOld>>
    /\ UNCHANGED <<advice, saltFile, outLog, outFaults, contested, written, lost>>

\* Mutant: every lock that is found is taken for an old one.
MutantLooksOld == lockFile # NoFile

LooksOld == lockFile # NoFile /\ lockOld

Takers == {c \in OutCalls : outCall[c].pc \in {"confirm", "evict"}}

\* The first stat: an old lock is to be taken over, any other is waited for.
Observe(c) ==
    /\ At(c, "observe")
    /\ IF LooksOld
       THEN /\ outCall' = [outCall EXCEPT ![c].pc = "confirm", ![c].seen = lockFile]
            /\ contested' = (contested \/ (lockOld /\ Takers # {}))
       ELSE /\ RetryLock(c)
            /\ UNCHANGED contested
    /\ UNCHANGED <<advice, fileVars, outFaults, written, lost>>

\* The second stat.
Confirm(c) ==
    /\ At(c, "confirm")
    /\ IF lockFile = outCall[c].seen THEN Move(c, "evict") ELSE RetryLock(c)
    /\ UNCHANGED <<advice, fileVars, outFaults, contested, written, lost>>

\* The unlink removes whatever has the name by now.
Evict(c) ==
    /\ At(c, "evict")
    /\ lockFile' = NoFile /\ lockOld' = FALSE
    /\ RetryLock(c)
    /\ UNCHANGED <<advice, saltFile, outLog, outFaults, contested, written, lost>>

\* The finally of the lock: stat, then unlink what the call created itself.
Close(c) ==
    /\ At(c, "close")
    /\ Move(c, IF lockFile = c THEN "unlink" ELSE "settle")
    /\ UNCHANGED <<advice, fileVars, outFaults, contested, written, lost>>

Unlink(c) ==
    /\ At(c, "unlink")
    /\ lockFile' = NoFile /\ lockOld' = FALSE
    /\ Move(c, "settle")
    /\ UNCHANGED <<advice, saltFile, outLog, outFaults, contested, written, lost>>

-----------------------------------------------------------------------------
(* The salt and the log *)

ReadSalt(c) ==
    /\ At(c, "readSalt")
    /\ outCall' = [outCall EXCEPT
          ![c].pc = CASE saltFile = NoFile -> "linkSalt" [] saltFile = "partial" -> "dropSalt"
                      [] OTHER -> "size",
          ![c].salt = IF saltFile \in {NoFile, "partial"} THEN NoFile ELSE saltFile]
    /\ UNCHANGED <<advice, fileVars, outFaults, contested, written, lost>>

\* The incomplete salt that was read is removed: whatever has its name by now.
DropSalt(c) ==
    /\ At(c, "dropSalt")
    /\ saltFile' = NoFile
    /\ Move(c, "linkSalt")
    /\ UNCHANGED <<advice, lockFile, lockOld, outLog, outFaults, contested, written, lost>>

\* The salt is written aside and linked, unless a salt is there.
LinkSalt(c) ==
    /\ At(c, "linkSalt")
    /\ IF saltFile = NoFile
       THEN /\ saltFile' = c
            /\ outCall' = [outCall EXCEPT ![c].pc = "size", ![c].salt = c]
       ELSE /\ Move(c, "readSalt")
            /\ UNCHANGED saltFile
    /\ UNCHANGED <<advice, lockFile, lockOld, outLog, outFaults, contested, written, lost>>

Size(c) ==
    /\ At(c, "size")
    /\ outCall' = [outCall EXCEPT ![c].pc = "write", ![c].big = Len(outLog) + 1 > LogMax]
    /\ UNCHANGED <<advice, fileVars, outFaults, contested, written, lost>>

\* Appended where it fits, the first line of a new log where it does not.
Write(c) ==
    /\ At(c, "write")
    /\ LET line == [by |-> c, salt |-> outCall[c].salt] IN
       outLog' = IF outCall[c].big THEN <<line>> ELSE Append(outLog, line)
    /\ lost' = (lost \/ (outCall[c].big /\ Len(outLog) + 1 <= LogMax))
    /\ written' = written \cup {c}
    /\ Move(c, "chmod")
    /\ UNCHANGED <<advice, lockFile, lockOld, saltFile, outFaults, contested>>

Chmod(c) ==
    /\ At(c, "chmod")
    /\ outCall' = [outCall EXCEPT ![c].pc = "close", ![c].ok = TRUE]
    /\ UNCHANGED <<advice, fileVars, outFaults, contested, written, lost>>

\* Mutant: what could not be written is reported as well.
MutantAdviceSettled(c) == [Mine(c) EXCEPT !.pending = @ \ {AdviceOf[c]},
    !.reported = IF AdviceOf[c] \in Mine(c).pending THEN @ \cup {AdviceOf[c]} ELSE @,
    !.outcomes = IF AdviceOf[c] \in Mine(c).pending THEN @ + 1 ELSE @]

\* commitAdvice or releaseAdvice: of the session that is open by now.
AdviceSettled(c) ==
    LET committed == outCall[c].ok /\ AdviceOf[c] \in Mine(c).pending IN
    [Mine(c) EXCEPT !.pending = @ \ {AdviceOf[c]},
                    !.reported = IF committed THEN @ \cup {AdviceOf[c]} ELSE @,
                    !.outcomes = IF committed THEN @ + 1 ELSE @]

Settle(c) ==
    /\ At(c, "settle")
    /\ advice' = [advice EXCEPT ![ProcessOf[c]] = AdviceSettled(c)]
    /\ outCall' = [outCall EXCEPT
          ![c] = [FreshCall EXCEPT !.pc = IF outCall[c].ok THEN "recorded" ELSE "unrecorded"]]
    /\ UNCHANGED <<fileVars, outFaults, contested, written, lost>>

-----------------------------------------------------------------------------
(* Faults and new sessions *)

Fault == outFaults < MaxFaults /\ outFaults' = outFaults + 1

\* A file operation inside the lock fails: nothing more is tried and the lock is released.
OperationFails(c) ==
    /\ Fault
    /\ outCall[c].pc \in Inside
    /\ Move(c, "close")
    /\ UNCHANGED <<advice, fileVars, contested, written, lost>>

\* The stat after open fails, or the unlink at the end: the lock file stays behind.
LockLeaks(c) ==
    /\ Fault
    /\ \/ At(c, "open") /\ lockFile = NoFile
       \/ At(c, "unlink") /\ lockFile = c
    /\ lockFile' = "left"
    /\ Move(c, "settle")
    /\ UNCHANGED <<advice, lockOld, saltFile, outLog, contested, written, lost>>

\* resetTask, at the start of a session.
OutcomeSessionStart(p) ==
    /\ Fault
    /\ advice[p] # FreshAdvice
    /\ advice' = [advice EXCEPT ![p] = FreshAdvice]
    /\ UNCHANGED <<outCall, fileVars, contested, written, lost>>

\* A process dies, its session's ledger with it.
ProcessDies(p) ==
    /\ Fault
    /\ \E c \in OutCalls : ProcessOf[c] = p /\ outCall[c].pc \in Running
    /\ advice' = [advice EXCEPT ![p] = FreshAdvice]
    /\ outCall' = [c \in OutCalls |-> IF ProcessOf[c] = p /\ outCall[c].pc \notin CallEnded
                                      THEN [FreshCall EXCEPT !.pc = "dead"] ELSE outCall[c]]
    /\ UNCHANGED <<fileVars, contested, written, lost>>

\* A lock file is 30 seconds old: its owner died, or slept so long.
LockAges ==
    /\ Fault
    /\ lockFile # NoFile /\ ~lockOld
    /\ lockOld' = TRUE
    /\ contested' = (contested \/ \E c \in OutCalls :
                        lockFile = c /\ outCall[c].pc \in Inside \cup Leaving)
    /\ UNCHANGED <<advice, outCall, lockFile, saltFile, outLog, written, lost>>

-----------------------------------------------------------------------------

\* A lock may be left by an earlier crash, a salt be incomplete since one, and every
\* process may have advice to report.
OutInit ==
    /\ advice \in [Processes -> {FreshAdvice}]
    /\ outCall = [c \in OutCalls |-> FreshCall]
    /\ \/ lockFile = NoFile /\ lockOld = FALSE
       \/ lockFile = "left" /\ lockOld = TRUE
    /\ saltFile \in {NoFile, "partial", "before"}
    /\ outLog = <<>>
    /\ outFaults = 0 /\ contested = FALSE /\ written = {} /\ lost = FALSE

OutStep(c) ==
    \/ OpenLock(c) \/ Observe(c) \/ Confirm(c) \/ Evict(c)
    \/ ReadSalt(c) \/ DropSalt(c) \/ LinkSalt(c)
    \/ Size(c) \/ Write(c) \/ Chmod(c)
    \/ Close(c) \/ Unlink(c) \/ Settle(c)

OutNext ==
    \/ \E p \in Processes, a \in Advices : Issue(p, a)
    \/ \E p \in Processes : OutcomeSessionStart(p) \/ ProcessDies(p)
    \/ \E c \in OutCalls : Record(c) \/ RefuseReport(c) \/ OutStep(c) \/ OperationFails(c) \/ LockLeaks(c)
    \/ LockAges

OutSpec == OutInit /\ [][OutNext]_outVars

\* A file operation ends, and the host goes on with the tool that awaited it.
OutFairSpec == OutSpec /\ \A c \in OutCalls : WF_outVars(OutStep(c))

-----------------------------------------------------------------------------
(* Properties *)

OutTypeOK ==
    /\ advice \in [Processes -> [issued: SUBSET Advices, pending: SUBSET Advices,
                                 reported: SUBSET Advices, outcomes: 0..Cardinality(Advices)]]
    /\ \A c \in OutCalls :
          /\ outCall[c].pc \in Running \cup CallEnded \cup {"idle"}
          /\ outCall[c].tries \in 0..Tries
          /\ outCall[c].seen \in OutCalls \cup {NoFile, "left"}
          /\ outCall[c].salt \in OutCalls \cup {NoFile, "before"}
    /\ lockFile \in OutCalls \cup {NoFile, "left"} /\ lockOld \in BOOLEAN
    /\ saltFile \in OutCalls \cup {NoFile, "partial", "before"}
    /\ \A i \in DOMAIN outLog : outLog[i].by \in written
    /\ outFaults \in 0..MaxFaults

\* "uses one exclusively created salt" (src/test/outcomes.test.ts:66): the digests in
\* the log are made with one salt, also where several calls find a stale lock and an
\* incomplete salt.
OneSalt == \A i, j \in DOMAIN outLog : outLog[i].salt = outLog[j].salt

(***************************************************************************)
(* Unless two calls took over an old lock at once, or a live owner's lock  *)
(* grew old, one call at a time is between open and close; then every      *)
(* digest has the same salt and no line is dropped that had room.          *)
(***************************************************************************)
OneWriter ==
    contested \/ /\ Cardinality(Holders) <= 1
                 /\ OneSalt
                 /\ ~lost

(***************************************************************************)
(* record_advisor_outcome answers "recorded" for one call of an advice at  *)
(* most, and only when its line was written, through failing appends,      *)
(* parallel calls and a session that starts while one is in flight; the    *)
(* outcomes the summary counts are the reports of this session.            *)
(***************************************************************************)
RecordedOnce ==
    /\ \A c \in OutCalls : At(c, "recorded") =>
          /\ c \in written
          /\ \A d \in OutCalls : At(d, "recorded") /\ AdviceOf[d] = AdviceOf[c] => c = d
    /\ \A p \in Processes : advice[p].outcomes = Cardinality(advice[p].reported)
    /\ \A p \in Processes : \A a \in advice[p].reported :
          \E c \in OutCalls : AdviceOf[c] = a /\ At(c, "recorded")

(***************************************************************************)
(* A report ends: the attempts at the lock are bounded, and a lock nobody  *)
(* will release does not hold a call back for ever.                        *)
(***************************************************************************)
ReportsAreOver == \A c \in OutCalls : outCall[c].pc \notin Running
=============================================================================
