--------------------------- MODULE OutcomeLog_proofs ---------------------------
(***************************************************************************)
(* Reports of advice and the log they go to, for any number of calls,      *)
(* processes and faults.                                                   *)
(***************************************************************************)
EXTENDS OutcomeLog, FiniteSetTheorems, TLAPS

Places == Running \cup CallEnded \cup {"idle"}
Report == [pc: Places, tries: Int, seen: OutCalls \cup {NoFile, "left"},
         salt: OutCalls \cup {NoFile, "before"}, big: BOOLEAN, ok: BOOLEAN]
Ledger == [issued: SUBSET Advices, pending: SUBSET Advices, reported: SUBSET Advices,
           outcomes: Nat]

OutTypes ==
    /\ advice \in [Processes -> Ledger]
    /\ outCall \in [OutCalls -> Report]
    /\ lockFile \in OutCalls \cup {NoFile, "left"}
    /\ saltFile \in OutCalls \cup {NoFile, "partial", "before"}
    /\ contested \in BOOLEAN

-----------------------------------------------------------------------------
(* The kinds of steps *)

\* Call c alone goes on.
OneCall(c) == outCall'[c] \in Report /\ outCall' = [outCall EXCEPT ![c] = outCall'[c]]

\* A step of a call that is running and goes on running.
GoesOn(c) ==
    \/ OpenLock(c) \/ Observe(c) \/ Confirm(c) \/ Evict(c)
    \/ ReadSalt(c) \/ DropSalt(c) \/ LinkSalt(c)
    \/ Size(c) \/ Write(c) \/ Chmod(c)
    \/ Close(c) \/ Unlink(c)
    \/ OperationFails(c) \/ LockLeaks(c)

LEMMA MoveOne ==
  ASSUME OutTypes, NEW c \in OutCalls, NEW place \in Places, Move(c, place)
  PROVE  OneCall(c) /\ outCall'[c] = [outCall[c] EXCEPT !.pc = place]
BY DEF OutTypes, Move, OneCall, Report

LEMMA RetryOne ==
  ASSUME OutTypes, NEW c \in OutCalls, RetryLock(c)
  PROVE  OneCall(c) /\ outCall'[c].pc \in {"open", "settle"} /\ outCall'[c].ok = outCall[c].ok
<1>1. PICK r \in Report : r = outCall[c]
  BY DEF OutTypes
<1>2. PICK place \in {"open", "settle"} :
        outCall' = [outCall EXCEPT ![c] = [r EXCEPT !.tries = @ + 1, !.seen = NoFile, !.pc = place]]
  BY <1>1 DEF RetryLock, OutTypes
<1>3. place \in Places /\ r.tries + 1 \in Int
  BY DEF Places, Running, Locking, Report
<1>4. PICK new : new = [r EXCEPT !.tries = @ + 1, !.seen = NoFile, !.pc = place]
  OBVIOUS
<1>5. new \in Report /\ new.pc = place /\ new.ok = r.ok
  BY <1>3, <1>4 DEF Report
<1>6. outCall' = [outCall EXCEPT ![c] = new] /\ outCall'[c] = new
  BY <1>2, <1>4 DEF OutTypes
<1> QED
  BY <1>1, <1>5, <1>6 DEF OneCall

LEMMA GoesOnOne ==
  ASSUME OutTypes, NEW c \in OutCalls, GoesOn(c)
  PROVE  /\ OneCall(c) /\ advice' = advice
         /\ outCall[c].pc \in Running /\ outCall'[c].pc \in Running
         /\ written \subseteq written'
         /\ outCall'[c].ok => outCall[c].ok \/ outCall[c].pc = "chmod"
         /\ outCall'[c].pc = "chmod" => c \in written'
<1> USE DEF At, Running, Locking, Inside, Salting, Leaving, Places, CallEnded
<1>0. outCall[c] \in Report
  BY DEF OutTypes
<1>1. ASSUME NEW place \in Running \ {"chmod"}, Move(c, place), outCall[c].pc \in Running,
             advice' = advice, written' = written
      PROVE  /\ OneCall(c) /\ advice' = advice
             /\ outCall[c].pc \in Running /\ outCall'[c].pc \in Running
             /\ written \subseteq written'
             /\ outCall'[c].ok => outCall[c].ok \/ outCall[c].pc = "chmod"
             /\ outCall'[c].pc = "chmod" => c \in written'
  <2>1. OneCall(c) /\ outCall'[c] = [outCall[c] EXCEPT !.pc = place]
    BY <1>1, MoveOne
  <2>2. outCall'[c].pc = place /\ outCall'[c].ok = outCall[c].ok
    BY <1>0, <2>1 DEF Report
  <2> QED
    BY <1>1, <2>1, <2>2
<1>2. ASSUME RetryLock(c), outCall[c].pc \in Running, advice' = advice, written' = written
      PROVE  /\ OneCall(c) /\ advice' = advice
             /\ outCall[c].pc \in Running /\ outCall'[c].pc \in Running
             /\ written \subseteq written'
             /\ outCall'[c].ok => outCall[c].ok \/ outCall[c].pc = "chmod"
             /\ outCall'[c].pc = "chmod" => c \in written'
  BY <1>2, RetryOne
<1>3. CASE OpenLock(c)
  BY <1>1, <1>3 DEF OpenLock
<1>4. CASE Observe(c)
  <2>1. CASE LooksOld
    <3>1. outCall' = [outCall EXCEPT ![c] = [outCall[c] EXCEPT !.pc = "confirm", !.seen = lockFile]]
          /\ lockFile \in OutCalls \cup {NoFile, "left"}
      BY <1>4, <2>1 DEF Observe, OutTypes
    <3>2. outCall'[c] = [outCall[c] EXCEPT !.pc = "confirm", !.seen = lockFile]
      BY <3>1 DEF OutTypes
    <3>3. outCall'[c] \in Report /\ outCall'[c].pc = "confirm" /\ outCall'[c].ok = outCall[c].ok
      <4>1. PICK r \in Report : r = outCall[c]
        BY <1>0
      <4>2. PICK file \in OutCalls \cup {NoFile, "left"} : file = lockFile
        BY <3>1
      <4>3. "confirm" \in Places
        OBVIOUS
      <4>4. PICK new : new = [r EXCEPT !.pc = "confirm", !.seen = file]
        OBVIOUS
      <4>5. new \in Report /\ new.pc = "confirm" /\ new.ok = r.ok
        BY <4>3, <4>4 DEF Report
      <4> QED
        BY <3>2, <4>1, <4>2, <4>4, <4>5
    <3> QED
      BY <1>4, <3>1, <3>2, <3>3 DEF Observe, OneCall
  <2>2. CASE ~LooksOld
    BY <1>2, <1>4, <2>2 DEF Observe
  <2> QED
    BY <2>1, <2>2
<1>5. CASE Confirm(c)
  BY <1>1, <1>2, <1>5 DEF Confirm
<1>6. CASE Evict(c)
  BY <1>2, <1>6 DEF Evict
<1>7. CASE ReadSalt(c)
  <2> DEFINE place == CASE saltFile = NoFile -> "linkSalt" [] saltFile = "partial" -> "dropSalt"
                        [] OTHER -> "size"
             salt == IF saltFile \in {NoFile, "partial"} THEN NoFile ELSE saltFile
             new == [outCall[c] EXCEPT !.pc = place, !.salt = salt]
  <2>1. place \in {"linkSalt", "dropSalt", "size"}
    BY OutcomeLogAssumption
  <2>2. salt \in OutCalls \cup {NoFile, "before"}
    BY DEF OutTypes
  <2>3. outCall' = [outCall EXCEPT ![c] = new]
    <3>1. outCall' = [outCall EXCEPT ![c].pc = place, ![c].salt = salt]
      BY <1>7 DEF ReadSalt
    <3> HIDE DEF place, salt
    <3> QED
      BY <3>1 DEF OutTypes
  <2>4. outCall'[c] = new
    BY <2>3 DEF OutTypes
  <2>5. new \in Report /\ new.pc = place /\ new.ok = outCall[c].ok
    <3> HIDE DEF place, salt
    <3> QED
      BY <1>0, <2>1, <2>2 DEF Report
  <2> HIDE DEF new, place
  <2> QED
    BY <1>7, <2>1, <2>3, <2>4, <2>5 DEF ReadSalt, OneCall
<1>8. CASE DropSalt(c)
  BY <1>1, <1>8 DEF DropSalt
<1>9. CASE LinkSalt(c)
  <2>1. CASE saltFile = NoFile
    <3>1. outCall' = [outCall EXCEPT ![c] = [outCall[c] EXCEPT !.pc = "size", !.salt = c]]
      BY <1>9, <2>1 DEF LinkSalt, OutTypes
    <3>2. outCall'[c] = [outCall[c] EXCEPT !.pc = "size", !.salt = c]
      BY <3>1 DEF OutTypes
    <3>3. outCall'[c] \in Report /\ outCall'[c].pc = "size" /\ outCall'[c].ok = outCall[c].ok
      BY <1>0, <3>2 DEF Report
    <3> QED
      BY <1>9, <3>1, <3>2, <3>3 DEF LinkSalt, OneCall
  <2>2. CASE saltFile # NoFile
    BY <1>1, <1>9, <2>2 DEF LinkSalt
  <2> QED
    BY <2>1, <2>2
<1>10. CASE Size(c)
  <2> DEFINE big == Len(outLog) + 1 > LogMax
  <2>1. outCall' = [outCall EXCEPT ![c] = [outCall[c] EXCEPT !.pc = "write", !.big = big]]
    BY <1>10 DEF Size, OutTypes
  <2>2. outCall'[c] = [outCall[c] EXCEPT !.pc = "write", !.big = big]
    BY <2>1 DEF OutTypes
  <2>3. big \in BOOLEAN
    OBVIOUS
  <2> HIDE DEF big
  <2>4. outCall'[c] \in Report /\ outCall'[c].pc = "write" /\ outCall'[c].ok = outCall[c].ok
    BY <1>0, <2>2, <2>3 DEF Report
  <2> QED
    BY <1>10, <2>1, <2>2, <2>4 DEF Size, OneCall
<1>11. CASE Write(c)
  <2>1. OneCall(c) /\ outCall'[c] = [outCall[c] EXCEPT !.pc = "chmod"]
    BY <1>11, MoveOne DEF Write
  <2>2. outCall'[c].pc = "chmod" /\ outCall'[c].ok = outCall[c].ok
    BY <1>0, <2>1 DEF Report
  <2> QED
    BY <1>11, <2>1, <2>2 DEF Write
<1>12. CASE Chmod(c)
  <2>1. outCall' = [outCall EXCEPT ![c] = [outCall[c] EXCEPT !.pc = "close", !.ok = TRUE]]
    BY <1>12 DEF Chmod, OutTypes
  <2>2. outCall'[c] = [outCall[c] EXCEPT !.pc = "close", !.ok = TRUE]
    BY <2>1 DEF OutTypes
  <2>3. outCall'[c] \in Report /\ outCall'[c].pc = "close"
    BY <1>0, <2>2 DEF Report
  <2> QED
    BY <1>12, <2>1, <2>2, <2>3 DEF Chmod, OneCall
<1>13. CASE Close(c)
  <2>1. (IF lockFile = c THEN "unlink" ELSE "settle") \in Running \ {"chmod"}
    OBVIOUS
  <2> QED
    BY <1>1, <1>13, <2>1 DEF Close
<1>14. CASE Unlink(c)
  BY <1>1, <1>14 DEF Unlink
<1>15. CASE OperationFails(c)
  BY <1>1, <1>15 DEF OperationFails
<1>16. CASE LockLeaks(c)
  BY <1>1, <1>16 DEF LockLeaks
<1> QED
  BY <1>3, <1>4, <1>5, <1>6, <1>7, <1>8, <1>9, <1>10, <1>11, <1>12, <1>13, <1>14, <1>15, <1>16
     DEF GoesOn

LEMMA SettledCall ==
  ASSUME OutTypes, NEW c \in OutCalls, Settle(c)
  PROVE  /\ OneCall(c) /\ outCall'[c].ok = FALSE
         /\ outCall'[c].pc = IF outCall[c].ok THEN "recorded" ELSE "unrecorded"
<1> DEFINE place == IF outCall[c].ok THEN "recorded" ELSE "unrecorded"
<1>1. outCall' = [outCall EXCEPT ![c] = [FreshCall EXCEPT !.pc = place]]
  BY DEF Settle
<1>2. place \in Places
  BY DEF Places, CallEnded
<1> HIDE DEF place
<1>3. FreshCall \in Report
  BY DEF FreshCall, Report, Places
<1>4. [FreshCall EXCEPT !.pc = place] \in Report /\ [FreshCall EXCEPT !.pc = place].ok = FALSE
      /\ [FreshCall EXCEPT !.pc = place].pc = place
  BY <1>2, <1>3 DEF Report, FreshCall
<1>5. outCall'[c] = [FreshCall EXCEPT !.pc = place]
  BY <1>1 DEF OutTypes
<1>6. place = IF outCall[c].ok THEN "recorded" ELSE "unrecorded"
  BY DEF place
<1> QED
  BY <1>1, <1>4, <1>5, <1>6 DEF OneCall

LEMMA DeadCalls ==
  ASSUME OutTypes, NEW p \in Processes, ProcessDies(p)
  PROVE  /\ outCall' \in [OutCalls -> Report]
         /\ \A c \in OutCalls :
               \/ outCall'[c] = outCall[c] /\ (ProcessOf[c] = p => outCall[c].pc \in CallEnded)
               \/ outCall'[c].pc = "dead" /\ outCall'[c].ok = FALSE /\ outCall[c].pc \notin CallEnded
<1>1. FreshCall \in Report /\ "dead" \in Places
  BY DEF FreshCall, Report, Places, CallEnded
<1>2. PICK dead : dead = [FreshCall EXCEPT !.pc = "dead"]
  OBVIOUS
<1>3. dead \in Report /\ dead.pc = "dead" /\ dead.ok = FALSE
  BY <1>1, <1>2 DEF Report, FreshCall
<1>4. outCall' = [c \in OutCalls |-> IF ProcessOf[c] = p /\ outCall[c].pc \notin CallEnded
                                     THEN dead ELSE outCall[c]]
  BY <1>2 DEF ProcessDies
<1> QED
  BY <1>3, <1>4 DEF OutTypes

-----------------------------------------------------------------------------
(* Reports *)

AdvicesOf(p) == /\ advice[p].pending \cap advice[p].reported = {}
                /\ advice[p].outcomes = Cardinality(advice[p].reported)
                /\ \A a \in advice[p].reported :
                      \E c \in OutCalls : AdviceOf[c] = a /\ outCall[c].pc = "recorded"

\* A call that reports has its advice pending, and one that did has it reported, unless
\* the session that issued it is over.
Reporting(c) ==
    /\ outCall[c].pc \in Running => AdviceOf[c] \in Mine(c).pending \/ AdviceOf[c] \notin Mine(c).issued
    /\ outCall[c].pc = "recorded" => AdviceOf[c] \in Mine(c).reported \/ AdviceOf[c] \notin Mine(c).issued
    /\ outCall[c].ok \/ outCall[c].pc \in {"chmod", "recorded"} => c \in written

Reporters == {c \in OutCalls : outCall[c].pc \in Running \cup {"recorded"}}

LedgerTypes == advice \in [Processes -> Ledger] /\ outCall \in [OutCalls -> Report]

ReportInv ==
    /\ LedgerTypes
    /\ \A p \in Processes : AdvicesOf(p)
    /\ \A c \in OutCalls : Reporting(c)
    /\ \A c, d \in Reporters : AdviceOf[c] = AdviceOf[d] => c = d

\* The calls of an advice are of one process, and finitely many.
LEMMA OfOneProcess ==
  ASSUME NEW c \in OutCalls
  PROVE  /\ ProcessOf[c] \in Processes /\ AdviceOf[c] \in Advices
         /\ \A d \in OutCalls : AdviceOf[d] = AdviceOf[c] => ProcessOf[d] = ProcessOf[c]
BY OutcomeLogAssumption DEF Advices

LEMMA AdvicesFinite == IsFiniteSet(Advices)
<1> DEFINE f == [c \in OutCalls |-> AdviceOf[c]]
<1>1. f \in Surjection(OutCalls, Advices)
  BY DEF Surjection, Advices
<1> QED
  BY <1>1, OutcomeLogAssumption, FS_Surjection

\* Where no call moves into or out of a report, a ledger may only be emptied.
LEMMA LedgersKept ==
  ASSUME ReportInv, LedgerTypes',
         \A c \in OutCalls :
            /\ outCall'[c].pc \in Running => outCall[c].pc \in Running
            /\ outCall'[c].pc = "recorded" <=> outCall[c].pc = "recorded"
            /\ outCall'[c].ok \/ outCall'[c].pc = "chmod" => c \in written',
         \A p \in Processes : advice'[p] = advice[p] \/ advice'[p] = FreshAdvice,
         written \subseteq written'
  PROVE  ReportInv'
<1>1. ASSUME NEW p \in Processes PROVE AdvicesOf(p)'
  <2>1. CASE advice'[p] = advice[p]
    BY <2>1 DEF ReportInv, AdvicesOf
  <2>2. CASE advice'[p] = FreshAdvice
    BY <2>2, FS_EmptySet DEF AdvicesOf, FreshAdvice
  <2> QED
    BY <2>1, <2>2
<1>2. ASSUME NEW c \in OutCalls PROVE Reporting(c)'
  <2>1. ProcessOf[c] \in Processes
    BY OfOneProcess
  <2>2. Mine(c)' = Mine(c) \/ Mine(c)'.issued = {}
    BY <2>1 DEF Mine, FreshAdvice
  <2>3. Reporting(c)
    BY DEF ReportInv
  <2> QED
    BY <2>2, <2>3 DEF Reporting
<1>3. \A c, d \in Reporters' : AdviceOf[c] = AdviceOf[d] => c = d
  BY DEF ReportInv, Reporters
<1> QED
  BY <1>1, <1>2, <1>3 DEF ReportInv

LEMMA LedgerTypesStep ==
  ASSUME OutTypes, [OutNext]_outVars
  PROVE  LedgerTypes'
<1> USE DEF OutTypes, LedgerTypes
<1>0. FreshAdvice \in Ledger
  BY DEF FreshAdvice, Ledger
<1>1. ASSUME NEW p \in Processes, NEW a \in Advices, Issue(p, a)
      PROVE  LedgerTypes'
  BY <1>1 DEF Issue, Ledger
<1>2. ASSUME NEW p \in Processes, OutcomeSessionStart(p)
      PROVE  LedgerTypes'
  BY <1>0, <1>2 DEF OutcomeSessionStart
<1>3. ASSUME NEW p \in Processes, ProcessDies(p)
      PROVE  LedgerTypes'
  BY <1>0, <1>3, DeadCalls DEF ProcessDies
<1>4. ASSUME NEW c \in OutCalls, Record(c)
      PROVE  LedgerTypes'
  <2>1. outCall' \in [OutCalls -> Report]
    BY <1>4, MoveOne DEF Record, OneCall, Places, Running, Locking
  <2> QED
    BY <1>4, <2>1, OfOneProcess DEF Record, Ledger
<1>5. ASSUME NEW c \in OutCalls, RefuseReport(c)
      PROVE  LedgerTypes'
  BY <1>5, MoveOne DEF RefuseReport, OneCall, Places, CallEnded
<1>6. ASSUME NEW c \in OutCalls, GoesOn(c)
      PROVE  LedgerTypes'
  BY <1>6, GoesOnOne DEF OneCall
<1>7. ASSUME NEW c \in OutCalls, Settle(c)
      PROVE  LedgerTypes'
  <2>1. outCall' \in [OutCalls -> Report]
    BY <1>7, SettledCall DEF OneCall
  <2>2. PICK l \in Ledger : l = advice[ProcessOf[c]]
    BY OfOneProcess
  <2>3. AdviceSettled(c) \in Ledger
    <3>1. AdviceOf[c] \in Advices
      BY OfOneProcess
    <3>2. PICK committed \in BOOLEAN :
             AdviceSettled(c) = [l EXCEPT !.pending = @ \ {AdviceOf[c]},
                                          !.reported = IF committed THEN @ \cup {AdviceOf[c]} ELSE @,
                                          !.outcomes = IF committed THEN @ + 1 ELSE @]
      BY <2>2 DEF AdviceSettled, Mine
    <3>3. CASE committed
      <4>1. l.reported \cup {AdviceOf[c]} \in SUBSET Advices /\ l.outcomes + 1 \in Nat
            /\ l.pending \ {AdviceOf[c]} \in SUBSET Advices
        BY <3>1 DEF Ledger
      <4>2. AdviceSettled(c) = [l EXCEPT !.pending = @ \ {AdviceOf[c]},
                                         !.reported = @ \cup {AdviceOf[c]}, !.outcomes = @ + 1]
        BY <3>2, <3>3
      <4> QED
        BY <4>1, <4>2 DEF Ledger
    <3>4. CASE ~committed
      BY <3>1, <3>2, <3>4 DEF Ledger
    <3> QED
      BY <3>3, <3>4
  <2> QED
    BY <1>7, <2>1, <2>3 DEF Settle
<1>8. CASE LockAges \/ UNCHANGED outVars
  BY <1>8 DEF LockAges, outVars
<1> QED
  BY <1>1, <1>2, <1>3, <1>4, <1>5, <1>6, <1>7, <1>8 DEF OutNext, OutStep, GoesOn

LEMMA OutTypesStep ==
  ASSUME OutTypes, [OutNext]_outVars
  PROVE  OutTypes'
<1>0. LedgerTypes'
  BY LedgerTypesStep
<1> SUFFICES /\ lockFile' \in OutCalls \cup {NoFile, "left"}
             /\ saltFile' \in OutCalls \cup {NoFile, "partial", "before"}
             /\ contested' \in BOOLEAN
  BY <1>0 DEF OutTypes, LedgerTypes
<1> USE DEF OutTypes
<1>1. ASSUME NEW p \in Processes, NEW a \in Advices, Issue(p, a)
      PROVE  UNCHANGED <<lockFile, saltFile, contested>>
  BY <1>1 DEF Issue, fileVars
<1>2. ASSUME NEW p \in Processes, OutcomeSessionStart(p) \/ ProcessDies(p)
      PROVE  UNCHANGED <<lockFile, saltFile, contested>>
  BY <1>2 DEF OutcomeSessionStart, ProcessDies, fileVars
<1>3. ASSUME NEW c \in OutCalls, Record(c) \/ RefuseReport(c) \/ Settle(c) \/ Size(c)
                   \/ ReadSalt(c) \/ Write(c) \/ Chmod(c) \/ Close(c) \/ Confirm(c)
                   \/ OperationFails(c)
      PROVE  UNCHANGED <<lockFile, saltFile, contested>>
  BY <1>3 DEF Record, RefuseReport, Settle, Size, ReadSalt, Write, Chmod, Close, Confirm,
              OperationFails, fileVars
<1>4. ASSUME NEW c \in OutCalls, OpenLock(c) \/ Evict(c) \/ Unlink(c) \/ LockLeaks(c)
      PROVE  lockFile' \in {lockFile, c, NoFile, "left"} /\ UNCHANGED <<saltFile, contested>>
  BY <1>4 DEF OpenLock, Evict, Unlink, LockLeaks
<1>5. ASSUME NEW c \in OutCalls, DropSalt(c) \/ LinkSalt(c)
      PROVE  saltFile' \in {saltFile, c, NoFile} /\ UNCHANGED <<lockFile, contested>>
  BY <1>5 DEF DropSalt, LinkSalt
<1>6. ASSUME NEW c \in OutCalls, Observe(c)
      PROVE  contested' \in BOOLEAN /\ UNCHANGED <<lockFile, saltFile>>
  BY <1>6 DEF Observe, fileVars
<1>7. CASE LockAges
  BY <1>7 DEF LockAges
<1>8. CASE UNCHANGED outVars
  BY <1>8 DEF outVars, fileVars
<1> QED
  BY <1>1, <1>2, <1>3, <1>4, <1>5, <1>6, <1>7, <1>8 DEF OutNext, OutStep

\* A report begins: nobody else reports this advice or has.
LEMMA RecordKeeps ==
  ASSUME OutTypes, ReportInv, LedgerTypes', NEW c \in OutCalls, Record(c)
  PROVE  ReportInv'
<1> DEFINE p == ProcessOf[c]
           a == AdviceOf[c]
<1>0. p \in Processes /\ a \in Advices /\ \A d \in OutCalls : AdviceOf[d] = a => ProcessOf[d] = p
  BY OfOneProcess
<1>1. /\ outCall[c].pc = "idle"
      /\ a \in advice[p].issued /\ a \notin advice[p].reported /\ a \notin advice[p].pending
      /\ written' = written
  BY DEF Record, At, Reservable, Mine
<1>2. /\ advice'[p].pending = advice[p].pending \cup {a}
      /\ advice'[p].issued = advice[p].issued
      /\ advice'[p].reported = advice[p].reported /\ advice'[p].outcomes = advice[p].outcomes
      /\ \A q \in Processes \ {p} : advice'[q] = advice[q]
  BY <1>0 DEF Record, OutTypes, Ledger
<1>3. /\ outCall'[c].pc = "open" /\ outCall'[c].ok = outCall[c].ok
      /\ \A d \in OutCalls \ {c} : outCall'[d] = outCall[d]
  <2>1. OneCall(c) /\ outCall'[c] = [outCall[c] EXCEPT !.pc = "open"]
    BY MoveOne DEF Record, Places, Running, Locking
  <2> QED
    BY <2>1 DEF OneCall, OutTypes, Report
<1>4. ASSUME NEW q \in Processes PROVE AdvicesOf(q)'
  <2>1. advice'[q].reported = advice[q].reported /\ advice'[q].outcomes = advice[q].outcomes
        /\ advice'[q].pending \cap advice'[q].reported = {}
    BY <1>1, <1>2 DEF ReportInv, AdvicesOf
  <2>2. \A d \in OutCalls : outCall[d].pc = "recorded" => outCall'[d].pc = "recorded"
    BY <1>1, <1>3
  <2> QED
    BY <2>1, <2>2 DEF ReportInv, AdvicesOf
<1>5. ASSUME NEW d \in OutCalls PROVE Reporting(d)'
  <2>0. ProcessOf[d] \in Processes
    BY OfOneProcess
  <2>1. CASE d = c
    BY <1>1, <1>2, <1>3, <2>1 DEF ReportInv, Reporting, Mine
  <2>2. CASE d # c
    <3>1. advice[ProcessOf[d]].pending \subseteq advice'[ProcessOf[d]].pending
          /\ advice'[ProcessOf[d]].issued = advice[ProcessOf[d]].issued
          /\ advice'[ProcessOf[d]].reported = advice[ProcessOf[d]].reported
      BY <1>2, <2>0
    <3> QED
      BY <1>1, <1>3, <2>2, <3>1 DEF ReportInv, Reporting, Mine
  <2> QED
    BY <2>1, <2>2
<1>6. ASSUME NEW d \in Reporters PROVE AdviceOf[d] # a
  <2>1. CASE AdviceOf[d] = a
    <3>1. d \in OutCalls /\ ProcessOf[d] = p /\ Reporting(d)
      BY <1>0, <2>1 DEF Reporters, ReportInv
    <3> QED
      BY <1>1, <2>1, <3>1 DEF Reporting, Reporters, Mine
  <2> QED
    BY <2>1
<1>7. Reporters' \subseteq Reporters \cup {c}
  BY <1>3 DEF Reporters
<1> QED
  BY <1>4, <1>5, <1>6, <1>7 DEF ReportInv

\* A report ends: its advice is reported, or may be reported by another call.
LEMMA SettleKeeps ==
  ASSUME OutTypes, ReportInv, LedgerTypes', NEW c \in OutCalls, Settle(c)
  PROVE  ReportInv'
<1> DEFINE p == ProcessOf[c]
           a == AdviceOf[c]
<1>0. p \in Processes /\ a \in Advices /\ \A d \in OutCalls : AdviceOf[d] = a => ProcessOf[d] = p
  BY OfOneProcess
<1>1. outCall[c].pc = "settle" /\ written' = written /\ c \in Reporters
  BY DEF Settle, At, Reporters, Running
<1>2. /\ outCall'[c].pc = (IF outCall[c].ok THEN "recorded" ELSE "unrecorded")
      /\ outCall'[c].ok = FALSE
      /\ \A d \in OutCalls \ {c} : outCall'[d] = outCall[d]
  BY SettledCall DEF OneCall, OutTypes
<1>3. PICK committed \in BOOLEAN : committed = (outCall[c].ok /\ a \in advice[p].pending)
  OBVIOUS
<1>4. /\ advice'[p].pending = advice[p].pending \ {a}
      /\ advice'[p].issued = advice[p].issued
      /\ advice'[p].reported = IF committed THEN advice[p].reported \cup {a} ELSE advice[p].reported
      /\ advice'[p].outcomes = IF committed THEN advice[p].outcomes + 1 ELSE advice[p].outcomes
      /\ \A q \in Processes \ {p} : advice'[q] = advice[q]
  <2>1. PICK l \in Ledger : l = advice[p]
    BY <1>0 DEF OutTypes
  <2>2. advice' = [advice EXCEPT ![p] = AdviceSettled(c)]
    BY DEF Settle
  <2>3. AdviceSettled(c) = [l EXCEPT !.pending = @ \ {a},
                                     !.reported = IF committed THEN @ \cup {a} ELSE @,
                                     !.outcomes = IF committed THEN @ + 1 ELSE @]
    BY <1>3, <2>1 DEF AdviceSettled, Mine
  <2>4. advice'[p] = AdviceSettled(c) /\ \A q \in Processes \ {p} : advice'[q] = advice[q]
    BY <1>0, <2>2 DEF OutTypes
  <2> QED
    BY <2>1, <2>3, <2>4 DEF Ledger
<1>5. committed => outCall'[c].pc = "recorded"
  BY <1>2, <1>3
<1>6. AdvicesOf(p)'
  <2>0. AdvicesOf(p) /\ advice[p].reported \subseteq Advices
    BY <1>0 DEF ReportInv, OutTypes, Ledger
  <2>1. \A d \in OutCalls : outCall[d].pc = "recorded" => outCall'[d].pc = "recorded"
    BY <1>1, <1>2
  <2>2. CASE committed
    <3>1. a \notin advice[p].reported
      BY <1>3, <2>0, <2>2 DEF AdvicesOf
    <3>2. IsFiniteSet(advice[p].reported)
      BY <2>0, AdvicesFinite, FS_Subset
    <3>3. Cardinality(advice'[p].reported) = Cardinality(advice[p].reported) + 1
      BY <1>4, <2>2, <3>1, <3>2, FS_AddElement
    <3>4. advice'[p].outcomes = Cardinality(advice'[p].reported)
      BY <1>4, <2>0, <2>2, <3>3 DEF AdvicesOf
    <3> QED
      BY <1>4, <1>5, <2>0, <2>1, <2>2, <3>4 DEF AdvicesOf
  <2>3. CASE ~committed
    BY <1>4, <2>0, <2>1, <2>3 DEF AdvicesOf
  <2> QED
    BY <2>2, <2>3
<1>7. ASSUME NEW q \in Processes PROVE AdvicesOf(q)'
  <2>1. CASE q = p
    BY <1>6, <2>1
  <2>2. CASE q # p
    <3>1. \A d \in OutCalls : outCall[d].pc = "recorded" => outCall'[d].pc = "recorded"
      BY <1>1, <1>2
    <3> QED
      BY <1>4, <2>2, <3>1 DEF ReportInv, AdvicesOf
  <2> QED
    BY <2>1, <2>2
<1>8. ASSUME NEW d \in OutCalls PROVE Reporting(d)'
  <2>1. CASE d = c
    <3>1. Reporting(c)
      BY DEF ReportInv
    <3>2. outCall[c].ok => c \in written'
      BY <1>1, <3>1 DEF Reporting
    <3>3. outCall[c].ok => a \in advice'[p].reported \/ a \notin advice'[p].issued
      BY <1>1, <1>3, <1>4, <3>1 DEF Reporting, Mine, Running
    <3> QED
      BY <1>2, <2>1, <3>2, <3>3 DEF Reporting, Mine, Running, Locking, Inside, Salting, Leaving
  <2>2. CASE d # c /\ ProcessOf[d] = p
    <3>1. Reporting(d) /\ outCall'[d] = outCall[d]
      BY <1>2, <2>2 DEF ReportInv
    <3>2. outCall[d].pc \in Running => AdviceOf[d] # a
      BY <1>1, <2>2 DEF ReportInv, Reporters
    <3> QED
      BY <1>1, <1>4, <2>2, <3>1, <3>2 DEF Reporting, Mine
  <2>3. CASE ProcessOf[d] # p
    <3>1. Reporting(d) /\ outCall'[d] = outCall[d] /\ ProcessOf[d] \in Processes
      BY <1>2, <2>3, OfOneProcess DEF ReportInv
    <3> QED
      BY <1>1, <1>4, <2>3, <3>1 DEF Reporting, Mine
  <2> QED
    BY <2>1, <2>2, <2>3
<1>9. Reporters' \subseteq Reporters
  BY <1>1, <1>2 DEF Reporters
<1> QED
  BY <1>7, <1>8, <1>9 DEF ReportInv

\* Advice is issued while every call about it is idle.
LEMMA IssueKeeps ==
  ASSUME OutTypes, ReportInv, LedgerTypes', NEW p \in Processes, NEW a \in Advices, Issue(p, a)
  PROVE  ReportInv'
<1>1. /\ \A c \in OutCalls : AdviceOf[c] = a => outCall[c].pc = "idle"
      /\ UNCHANGED <<outCall, written>>
  BY DEF Issue, At
<1>2. /\ advice'[p].issued = advice[p].issued \cup {a} /\ advice'[p].pending = advice[p].pending
      /\ advice'[p].reported = advice[p].reported /\ advice'[p].outcomes = advice[p].outcomes
      /\ \A q \in Processes \ {p} : advice'[q] = advice[q]
  BY DEF Issue, OutTypes, Ledger
<1>3. ASSUME NEW q \in Processes PROVE AdvicesOf(q)'
  <2>1. advice'[q].reported = advice[q].reported /\ advice'[q].outcomes = advice[q].outcomes
        /\ advice'[q].pending = advice[q].pending
    BY <1>2
  <2> QED
    BY <1>1, <2>1 DEF ReportInv, AdvicesOf
<1>4. ASSUME NEW c \in OutCalls PROVE Reporting(c)'
  <2>1. CASE AdviceOf[c] = a
    <3>1. outCall'[c].pc = "idle" /\ Reporting(c)
      BY <1>1, <2>1 DEF ReportInv
    <3> QED
      BY <1>1, <3>1 DEF Reporting, Running, Locking, Inside, Salting, Leaving
  <2>2. CASE AdviceOf[c] # a
    <3>1. ProcessOf[c] \in Processes
      BY OfOneProcess
    <3>2. /\ advice'[ProcessOf[c]].pending = advice[ProcessOf[c]].pending
          /\ advice'[ProcessOf[c]].reported = advice[ProcessOf[c]].reported
          /\ advice'[ProcessOf[c]].issued \subseteq advice[ProcessOf[c]].issued \cup {a}
      BY <1>2, <3>1
    <3> QED
      BY <1>1, <2>2, <3>2 DEF ReportInv, Reporting, Mine
  <2> QED
    BY <2>1, <2>2
<1> QED
  BY <1>1, <1>3, <1>4 DEF ReportInv, Reporters

LEMMA ReportInvStep ==
  ASSUME OutTypes, ReportInv, [OutNext]_outVars
  PROVE  ReportInv'
<1>0. LedgerTypes'
  BY LedgerTypesStep
<1>1. ASSUME NEW p \in Processes, OutcomeSessionStart(p)
      PROVE  ReportInv'
  <2>1. UNCHANGED <<outCall, written>>
        /\ \A q \in Processes : advice'[q] = advice[q] \/ advice'[q] = FreshAdvice
    BY <1>1 DEF OutcomeSessionStart, OutTypes
  <2> QED
    BY <1>0, <2>1, LedgersKept DEF ReportInv, Reporting
<1>2. ASSUME NEW p \in Processes, ProcessDies(p)
      PROVE  ReportInv'
  <2>1. written' = written
        /\ \A q \in Processes : advice'[q] = advice[q] \/ advice'[q] = FreshAdvice
    BY <1>2 DEF ProcessDies, OutTypes
  <2>2. \A c \in OutCalls :
            /\ outCall'[c].pc \in Running => outCall[c].pc \in Running
            /\ outCall'[c].pc = "recorded" <=> outCall[c].pc = "recorded"
            /\ outCall'[c].ok \/ outCall'[c].pc = "chmod" => c \in written'
    BY <1>2, <2>1, DeadCalls
       DEF ReportInv, Reporting, Running, Locking, Inside, Salting, Leaving, CallEnded
  <2> QED
    BY <1>0, <2>1, <2>2, LedgersKept
<1>3. ASSUME NEW c \in OutCalls, GoesOn(c)
      PROVE  ReportInv'
  <2>1. /\ OneCall(c) /\ advice' = advice
        /\ outCall[c].pc \in Running /\ outCall'[c].pc \in Running
        /\ written \subseteq written'
        /\ outCall'[c].ok => outCall[c].ok \/ outCall[c].pc = "chmod"
        /\ outCall'[c].pc = "chmod" => c \in written'
    BY <1>3, GoesOnOne
  <2>2. outCall'[c].ok \/ outCall'[c].pc = "chmod" => c \in written'
    BY <2>1 DEF ReportInv, Reporting
  <2>3. \A d \in OutCalls \ {c} : outCall'[d] = outCall[d]
    BY <2>1 DEF OneCall, OutTypes
  <2>4. "recorded" \notin Running
    BY DEF Running, Locking, Inside, Salting, Leaving
  <2>5. \A d \in OutCalls :
            /\ outCall'[d].pc \in Running => outCall[d].pc \in Running
            /\ outCall'[d].pc = "recorded" <=> outCall[d].pc = "recorded"
            /\ outCall'[d].ok \/ outCall'[d].pc = "chmod" => d \in written'
    BY <2>1, <2>2, <2>3, <2>4 DEF ReportInv, Reporting
  <2> QED
    BY <1>0, <2>1, <2>5, LedgersKept
<1>4. ASSUME NEW c \in OutCalls, RefuseReport(c)
      PROVE  ReportInv'
  <2>1. OneCall(c) /\ outCall'[c] = [outCall[c] EXCEPT !.pc = "refused"]
    BY <1>4, MoveOne DEF RefuseReport, Places, CallEnded
  <2>2. outCall[c].pc = "idle" /\ UNCHANGED <<advice, written>>
    BY <1>4 DEF RefuseReport, At
  <2>3. outCall'[c].pc = "refused" /\ outCall'[c].ok = outCall[c].ok
        /\ \A d \in OutCalls \ {c} : outCall'[d] = outCall[d]
    BY <2>1 DEF OneCall, OutTypes, Report
  <2>4. \A d \in OutCalls :
            /\ outCall'[d].pc \in Running => outCall[d].pc \in Running
            /\ outCall'[d].pc = "recorded" <=> outCall[d].pc = "recorded"
            /\ outCall'[d].ok \/ outCall'[d].pc = "chmod" => d \in written'
    BY <2>2, <2>3 DEF ReportInv, Reporting, Running, Locking, Inside, Salting, Leaving
  <2> QED
    BY <1>0, <2>2, <2>4, LedgersKept
<1>5. CASE LockAges \/ UNCHANGED outVars
  <2>1. UNCHANGED <<advice, outCall, written>>
    BY <1>5 DEF LockAges, outVars
  <2> QED
    BY <1>0, <2>1, LedgersKept DEF ReportInv, Reporting
<1> QED
  BY <1>0, <1>1, <1>2, <1>3, <1>4, <1>5, IssueKeeps, RecordKeeps, SettleKeeps
     DEF OutNext, OutStep, GoesOn

LEMMA OutTypesInit == OutInit => OutTypes
<1> SUFFICES ASSUME OutInit PROVE OutTypes
  OBVIOUS
<1>1. FreshCall \in Report /\ FreshAdvice \in Ledger
  BY DEF FreshCall, Report, Places, FreshAdvice, Ledger
<1> QED
  BY <1>1 DEF OutInit, OutTypes

LEMMA ReportInvInit == OutInit => ReportInv
<1> SUFFICES ASSUME OutInit PROVE ReportInv
  OBVIOUS
<1>1. /\ \A c \in OutCalls : outCall[c].pc = "idle" /\ outCall[c].ok = FALSE
      /\ \A p \in Processes : advice[p] = FreshAdvice
  BY DEF OutInit, FreshCall
<1>2. LedgerTypes
  BY OutTypesInit DEF OutTypes, LedgerTypes
<1>3. \A p \in Processes : AdvicesOf(p)
  BY <1>1, FS_EmptySet DEF AdvicesOf, FreshAdvice
<1>4. \A c \in OutCalls : Reporting(c)
  BY <1>1 DEF Reporting, Running, Locking, Inside, Salting, Leaving
<1>5. Reporters = {}
  BY <1>1 DEF Reporters, Running, Locking, Inside, Salting, Leaving
<1> QED
  BY <1>2, <1>3, <1>4, <1>5 DEF ReportInv

LEMMA OutTypesHold == OutSpec => []OutTypes
BY OutTypesInit, OutTypesStep, PTL DEF OutSpec

(***************************************************************************)
(* record_advisor_outcome answers "recorded" to one call of an advice at   *)
(* most and only for a line that was written, through failing file         *)
(* operations, dying processes and sessions that change while a report is  *)
(* in flight; the outcomes a session counts are those it has reported.     *)
(***************************************************************************)
THEOREM RecordedOnceHolds == OutSpec => []RecordedOnce
<1>1. ReportInv => RecordedOnce
  BY DEF ReportInv, LedgerTypes, AdvicesOf, Reporting, Reporters, RecordedOnce, At
<1> QED
  BY <1>1, OutTypesHold, ReportInvInit, ReportInvStep, PTL DEF OutSpec

-----------------------------------------------------------------------------
(* The log and its lock *)

Line == [by: OutCalls, salt: OutCalls \cup {NoFile, "before"}]

\* Who is between open and close has created the lock file there is; an old lock file is
\* nobody's who is, and one call takes it over.
Locks ==
    /\ lockFile = NoFile => ~lockOld
    /\ lockOld => \A c \in OutCalls : outCall[c].pc \notin Inside \cup Leaving
    /\ \A c \in OutCalls : outCall[c].pc \in Inside \cup Leaving => lockFile = c
    /\ \A c \in Takers : lockOld
    /\ \A c, d \in Takers : c = d

\* What a call has read of the salt and of the log is still true when it acts on it.
UpToDate(c) ==
    /\ outCall[c].pc = "dropSalt" => saltFile = "partial"
    /\ outCall[c].pc = "linkSalt" => saltFile = NoFile
    /\ outCall[c].pc \in {"size", "write"} =>
          saltFile \notin {NoFile, "partial"} /\ outCall[c].salt = saltFile
    /\ outCall[c].pc = "write" => (outCall[c].big <=> Len(outLog) + 1 > LogMax)

LogLines ==
    /\ outLog \in Seq(Line)
    /\ outLog # <<>> => saltFile \notin {NoFile, "partial"}
    /\ \A i \in DOMAIN outLog : outLog[i].salt = saltFile

Logs == ~lost /\ LogLines /\ \A c \in OutCalls : UpToDate(c)

WriterInv == contested \/ (Locks /\ Logs)

Alone(c) == \A d \in OutCalls : outCall[d].pc \in Inside \cup Leaving => d = c

LEMMA Moved ==
  ASSUME OutTypes, NEW c \in OutCalls, NEW place \in Places, Move(c, place)
  PROVE  /\ outCall'[c].pc = place
         /\ outCall'[c].salt = outCall[c].salt /\ outCall'[c].big = outCall[c].big
         /\ \A d \in OutCalls \ {c} : outCall'[d] = outCall[d]
<1>1. OneCall(c) /\ outCall'[c] = [outCall[c] EXCEPT !.pc = place]
  BY MoveOne
<1>2. outCall[c] \in Report
  BY DEF OutTypes
<1> QED
  BY <1>1, <1>2 DEF OneCall, OutTypes, Report

LEMMA Retried ==
  ASSUME OutTypes, NEW c \in OutCalls, RetryLock(c)
  PROVE  /\ outCall'[c].pc \in {"open", "settle"}
         /\ \A d \in OutCalls \ {c} : outCall'[d] = outCall[d]
BY RetryOne DEF OneCall, OutTypes

LEMMA LocksKept ==
  ASSUME Locks, lockFile' = lockFile, lockOld' = lockOld,
         \A d \in OutCalls :
            /\ outCall'[d].pc \in Inside \cup Leaving => outCall[d].pc \in Inside \cup Leaving
            /\ outCall'[d].pc \in {"confirm", "evict"} => outCall[d].pc \in {"confirm", "evict"}
  PROVE  Locks'
<1>1. Takers' \subseteq Takers
  BY DEF Takers
<1> QED
  BY <1>1 DEF Locks

LEMMA LogsKept ==
  ASSUME Logs, saltFile' = saltFile, outLog' = outLog, lost' = lost,
         \A d \in OutCalls : outCall'[d].pc \in {"dropSalt", "linkSalt", "size", "write"} =>
            /\ outCall'[d].pc = outCall[d].pc
            /\ outCall'[d].salt = outCall[d].salt /\ outCall'[d].big = outCall[d].big
  PROVE  Logs'
<1>1. LogLines'
  BY DEF Logs, LogLines
<1>2. ASSUME NEW d \in OutCalls PROVE UpToDate(d)'
  <2>1. UpToDate(d)
    BY DEF Logs
  <2> QED
    BY <2>1 DEF UpToDate
<1> QED
  BY <1>1, <1>2 DEF Logs

LEMMA HolderAlone ==
  ASSUME Locks, NEW c \in OutCalls, outCall[c].pc \in Inside \cup Leaving
  PROVE  Alone(c)
BY DEF Locks, Alone

\* Steps that leave the files alone, and move no call to where it holds the lock, takes one
\* over or is about to act on what it has read.
LEMMA Elsewhere ==
  ASSUME OutTypes, [OutNext]_outVars,
         \/ \E p \in Processes, a \in Advices : Issue(p, a)
         \/ \E p \in Processes : OutcomeSessionStart(p) \/ ProcessDies(p)
         \/ \E c \in OutCalls : Record(c) \/ RefuseReport(c) \/ Settle(c)
         \/ UNCHANGED outVars
  PROVE  /\ UNCHANGED <<lockFile, lockOld, saltFile, outLog, lost, contested>>
         /\ \A d \in OutCalls :
               \/ outCall'[d] = outCall[d]
               \/ outCall'[d].pc \in CallEnded \cup {"open"}
<1>1. ASSUME NEW p \in Processes, NEW a \in Advices, Issue(p, a)
      PROVE  UNCHANGED <<lockFile, lockOld, saltFile, outLog, lost, contested, outCall>>
  BY <1>1 DEF Issue, fileVars
<1>2. ASSUME NEW p \in Processes, OutcomeSessionStart(p)
      PROVE  UNCHANGED <<lockFile, lockOld, saltFile, outLog, lost, contested, outCall>>
  BY <1>2 DEF OutcomeSessionStart, fileVars
<1>3. ASSUME NEW p \in Processes, ProcessDies(p)
      PROVE  /\ UNCHANGED <<lockFile, lockOld, saltFile, outLog, lost, contested>>
             /\ \A d \in OutCalls : outCall'[d] = outCall[d] \/ outCall'[d].pc = "dead"
  <2>1. UNCHANGED <<lockFile, lockOld, saltFile, outLog, lost, contested>>
    BY <1>3 DEF ProcessDies, fileVars
  <2> QED
    BY <1>3, <2>1, DeadCalls
<1>4. ASSUME NEW c \in OutCalls, NEW place \in {"open", "refused"}, Move(c, place),
             UNCHANGED <<lockFile, lockOld, saltFile, outLog, lost, contested>>
      PROVE  /\ outCall'[c].pc = place
             /\ \A d \in OutCalls \ {c} : outCall'[d] = outCall[d]
  <2>1. place \in Places
    BY DEF Places, CallEnded, Running, Locking
  <2> QED
    BY <1>4, <2>1, Moved
<1>5. ASSUME NEW c \in OutCalls, Record(c) \/ RefuseReport(c)
      PROVE  /\ UNCHANGED <<lockFile, lockOld, saltFile, outLog, lost, contested>>
             /\ outCall'[c].pc \in {"open", "refused"}
             /\ \A d \in OutCalls \ {c} : outCall'[d] = outCall[d]
  <2>1. UNCHANGED <<lockFile, lockOld, saltFile, outLog, lost, contested>>
    BY <1>5 DEF Record, RefuseReport, fileVars
  <2>2. Move(c, "open") \/ Move(c, "refused")
    BY <1>5 DEF Record, RefuseReport
  <2> QED
    BY <1>4, <2>1, <2>2
<1>6. ASSUME NEW c \in OutCalls, Settle(c)
      PROVE  /\ UNCHANGED <<lockFile, lockOld, saltFile, outLog, lost, contested>>
             /\ outCall'[c].pc \in {"recorded", "unrecorded"}
             /\ \A d \in OutCalls \ {c} : outCall'[d] = outCall[d]
  <2>1. UNCHANGED <<lockFile, lockOld, saltFile, outLog, lost, contested>>
    BY <1>6 DEF Settle, fileVars
  <2>2. OneCall(c) /\ outCall'[c].pc \in {"recorded", "unrecorded"}
    BY <1>6, SettledCall
  <2> QED
    BY <2>1, <2>2 DEF OneCall, OutTypes
<1>7. CASE UNCHANGED outVars
  BY <1>7 DEF outVars, fileVars
<1> QED
  BY <1>1, <1>2, <1>3, <1>5, <1>6, <1>7 DEF CallEnded

\* The call that holds the lock goes on, at a place it keeps it at.
LEMMA HolderKeepsLocks ==
  ASSUME OutTypes, Locks, NEW c \in OutCalls,
         \/ ReadSalt(c) \/ DropSalt(c) \/ LinkSalt(c) \/ Size(c) \/ Write(c) \/ Chmod(c)
         \/ Close(c) \/ OperationFails(c)
  PROVE  Locks'
<1> USE DEF At, Running, Locking, Inside, Salting, Leaving
<1>1. lockFile' = lockFile /\ lockOld' = lockOld
  BY DEF ReadSalt, DropSalt, LinkSalt, Size, Write, Chmod, Close, OperationFails, fileVars
<1>2. outCall[c].pc \in Inside \cup Leaving
  BY DEF ReadSalt, DropSalt, LinkSalt, Size, Write, Chmod, Close, OperationFails
<1>3. OneCall(c)
  BY GoesOnOne DEF GoesOn
<1>4. outCall'[c].pc \notin {"confirm", "evict"}
  <2>1. ASSUME NEW place \in {"linkSalt", "readSalt", "chmod", "unlink", "settle", "close"},
               Move(c, place)
        PROVE  outCall'[c].pc = place
    <3>1. place \in Places
      BY DEF Places
    <3> QED
      BY <2>1, <3>1, Moved
  <2>2. CASE ReadSalt(c)
    <3> DEFINE place == CASE saltFile = NoFile -> "linkSalt" [] saltFile = "partial" -> "dropSalt"
                          [] OTHER -> "size"
               salt == IF saltFile \in {NoFile, "partial"} THEN NoFile ELSE saltFile
    <3>1. outCall' = [outCall EXCEPT ![c].pc = place, ![c].salt = salt]
      BY <2>2 DEF ReadSalt
    <3>2. place \in {"linkSalt", "dropSalt", "size"}
      BY OutcomeLogAssumption
    <3> HIDE DEF place, salt
    <3>3. outCall'[c].pc = place
      <4>1. outCall[c] \in Report
        BY DEF OutTypes
      <4>2. outCall'[c] = [outCall[c] EXCEPT !.pc = place, !.salt = salt]
        BY <3>1 DEF OutTypes
      <4> QED
        BY <4>1, <4>2 DEF Report
    <3> QED
      BY <3>2, <3>3
  <2>3. CASE DropSalt(c)
    BY <2>1, <2>3 DEF DropSalt
  <2>4. CASE LinkSalt(c)
    <3>1. CASE saltFile = NoFile
      <4>1. outCall'[c] = [outCall[c] EXCEPT !.pc = "size", !.salt = c] /\ outCall[c] \in Report
        BY <2>4, <3>1 DEF LinkSalt, OutTypes
      <4> QED
        BY <4>1 DEF Report
    <3>2. CASE saltFile # NoFile
      BY <2>1, <2>4, <3>2 DEF LinkSalt
    <3> QED
      BY <3>1, <3>2
  <2>5. CASE Size(c)
    <3> DEFINE big == Len(outLog) + 1 > LogMax
    <3>1. outCall'[c] = [outCall[c] EXCEPT !.pc = "write", !.big = big] /\ outCall[c] \in Report
      BY <2>5 DEF Size, OutTypes
    <3> HIDE DEF big
    <3> QED
      BY <3>1 DEF Report
  <2>6. CASE Write(c)
    BY <2>1, <2>6 DEF Write
  <2>7. CASE Chmod(c)
    <3>1. outCall'[c] = [outCall[c] EXCEPT !.pc = "close", !.ok = TRUE] /\ outCall[c] \in Report
      BY <2>7 DEF Chmod, OutTypes
    <3> QED
      BY <3>1 DEF Report
  <2>8. CASE Close(c)
    <3>1. Move(c, "unlink") \/ Move(c, "settle")
      BY <2>8 DEF Close
    <3> QED
      BY <2>1, <3>1
  <2>9. CASE OperationFails(c)
    BY <2>1, <2>9 DEF OperationFails
  <2> QED
    BY <2>2, <2>3, <2>4, <2>5, <2>6, <2>7, <2>8, <2>9
<1>5. \A d \in OutCalls \ {c} : outCall'[d] = outCall[d]
  BY <1>3 DEF OneCall, OutTypes
<1> QED
  BY <1>1, <1>2, <1>4, <1>5, LocksKept

LEMMA LocksStep ==
  ASSUME OutTypes, Locks, [OutNext]_outVars, ~contested'
  PROVE  Locks'
<1> USE DEF At, Running, Locking, Inside, Salting, Leaving
<1>0. \A c \in OutCalls : c # NoFile /\ c # "left"
  BY OutcomeLogAssumption
<1>1. ASSUME NEW c \in OutCalls, OpenLock(c)
      PROVE  Locks'
  <2>1. CASE lockFile = NoFile
    <3>1. lockFile' = c /\ lockOld' = FALSE
      BY <1>1, <2>1 DEF OpenLock
    <3>2. outCall'[c].pc = "readSalt" /\ \A d \in OutCalls \ {c} : outCall'[d] = outCall[d]
      BY <1>1, <2>1, Moved DEF OpenLock, Places
    <3>3. \A d \in OutCalls : outCall[d].pc \notin Inside \cup Leaving /\ d \notin Takers
      BY <1>0, <2>1 DEF Locks
    <3>4. Takers' = {}
      BY <3>2, <3>3 DEF Takers
    <3> QED
      BY <1>0, <3>1, <3>2, <3>3, <3>4 DEF Locks
  <2>2. CASE lockFile # NoFile
    <3>1. lockFile' = lockFile /\ lockOld' = lockOld
      BY <1>1, <2>2 DEF OpenLock
    <3>2. outCall'[c].pc = "observe" /\ \A d \in OutCalls \ {c} : outCall'[d] = outCall[d]
      BY <1>1, <2>2, Moved DEF OpenLock, Places
    <3> QED
      BY <3>1, <3>2, LocksKept
  <2> QED
    BY <2>1, <2>2
<1>2. ASSUME NEW c \in OutCalls, Observe(c)
      PROVE  Locks'
  <2>0. lockFile' = lockFile /\ lockOld' = lockOld
    BY <1>2 DEF Observe, fileVars
  <2>1. CASE LooksOld
    <3>1. outCall'[c] = [outCall[c] EXCEPT !.pc = "confirm", !.seen = lockFile]
          /\ outCall[c] \in Report
          /\ \A d \in OutCalls \ {c} : outCall'[d] = outCall[d]
      BY <1>2, <2>1 DEF Observe, OutTypes
    <3>2. outCall'[c].pc = "confirm"
      BY <3>1 DEF Report
    <3>3. lockOld /\ Takers = {}
      BY <1>2, <2>1 DEF Observe, LooksOld
    <3>4. Takers' \subseteq {c}
      BY <3>1, <3>3 DEF Takers
    <3> QED
      BY <2>0, <3>1, <3>2, <3>3, <3>4 DEF Locks
  <2>2. CASE ~LooksOld
    <3>1. RetryLock(c)
      BY <1>2, <2>2 DEF Observe
    <3> QED
      BY <2>0, <3>1, Retried, LocksKept
  <2> QED
    BY <2>1, <2>2
<1>3. ASSUME NEW c \in OutCalls, Confirm(c)
      PROVE  Locks'
  <2>1. lockFile' = lockFile /\ lockOld' = lockOld /\ outCall[c].pc = "confirm"
    BY <1>3 DEF Confirm, fileVars
  <2>2. CASE Move(c, "evict")
    <3>1. outCall'[c].pc = "evict" /\ \A d \in OutCalls \ {c} : outCall'[d] = outCall[d]
      BY <2>2, Moved DEF Places
    <3> QED
      BY <2>1, <3>1, LocksKept
  <2>3. CASE RetryLock(c)
    BY <2>1, <2>3, Retried, LocksKept
  <2> QED
    BY <1>3, <2>2, <2>3 DEF Confirm
<1>4. ASSUME NEW c \in OutCalls, Evict(c) \/ Unlink(c)
      PROVE  Locks'
  <2>1. lockFile' = NoFile /\ lockOld' = FALSE
    BY <1>4 DEF Evict, Unlink
  <2>2. outCall'[c].pc \in {"open", "settle"} /\ \A d \in OutCalls \ {c} : outCall'[d] = outCall[d]
    BY <1>4, Moved, Retried DEF Evict, Unlink, Places
  <2>3. \A d \in OutCalls \ {c} : outCall[d].pc \notin Inside \cup Leaving /\ d \notin Takers
    BY <1>4 DEF Evict, Unlink, Locks, Takers
  <2>4. Takers' = {} /\ \A d \in OutCalls : outCall'[d].pc \notin Inside \cup Leaving
    BY <2>2, <2>3 DEF Takers
  <2> QED
    BY <2>1, <2>4 DEF Locks
<1>5. ASSUME NEW c \in OutCalls, LockLeaks(c)
      PROVE  Locks'
  <2>1. lockFile' = "left" /\ lockOld' = lockOld
    BY <1>5 DEF LockLeaks
  <2>2. outCall'[c].pc = "settle" /\ \A d \in OutCalls \ {c} : outCall'[d] = outCall[d]
    BY <1>5, Moved DEF LockLeaks, Places
  <2>3. \A d \in OutCalls \ {c} : outCall[d].pc \notin Inside \cup Leaving /\ d \notin Takers
    BY <1>0, <1>5 DEF LockLeaks, Locks, Takers
  <2>4. Takers' = {} /\ \A d \in OutCalls : outCall'[d].pc \notin Inside \cup Leaving
    BY <2>2, <2>3 DEF Takers
  <2>5. "left" # NoFile
    BY OutcomeLogAssumption
  <2> QED
    BY <2>1, <2>4, <2>5 DEF Locks
<1>6. CASE LockAges
  <2>1. lockFile' = lockFile /\ outCall' = outCall /\ lockOld' = TRUE /\ lockFile # NoFile
        /\ ~lockOld
    BY <1>6 DEF LockAges
  <2>2. ~\E c \in OutCalls : lockFile = c /\ outCall[c].pc \in Inside \cup Leaving
    BY <1>6 DEF LockAges
  <2>3. \A c \in OutCalls : outCall[c].pc \notin Inside \cup Leaving
    BY <2>2 DEF Locks
  <2>4. Takers' = Takers
    BY <2>1 DEF Takers
  <2> QED
    BY <2>1, <2>3, <2>4 DEF Locks
<1>7. ASSUME \/ \E p \in Processes, a \in Advices : Issue(p, a)
             \/ \E p \in Processes : OutcomeSessionStart(p) \/ ProcessDies(p)
             \/ \E c \in OutCalls : Record(c) \/ RefuseReport(c) \/ Settle(c)
             \/ UNCHANGED outVars
      PROVE  Locks'
  BY <1>7, Elsewhere, LocksKept DEF CallEnded
<1> QED
  BY <1>1, <1>2, <1>3, <1>4, <1>5, <1>6, <1>7, HolderKeepsLocks DEF OutNext, OutStep

LEMMA ReadSaltKeepsLogs ==
  ASSUME OutTypes, Logs, NEW c \in OutCalls, ReadSalt(c)
  PROVE  Logs'
<1> DEFINE place == CASE saltFile = NoFile -> "linkSalt" [] saltFile = "partial" -> "dropSalt"
                      [] OTHER -> "size"
           salt == IF saltFile \in {NoFile, "partial"} THEN NoFile ELSE saltFile
<1>1. saltFile' = saltFile /\ outLog' = outLog /\ lost' = lost
  BY DEF ReadSalt, fileVars
<1>2. outCall' = [outCall EXCEPT ![c].pc = place, ![c].salt = salt]
  BY DEF ReadSalt
<1>3. /\ place = "linkSalt" => saltFile = NoFile
      /\ place = "dropSalt" => saltFile = "partial"
      /\ place = "size" => saltFile \notin {NoFile, "partial"} /\ salt = saltFile
      /\ place \in {"linkSalt", "dropSalt", "size"}
  BY OutcomeLogAssumption
<1> HIDE DEF place, salt
<1>4. outCall'[c].pc = place /\ outCall'[c].salt = salt
      /\ \A d \in OutCalls \ {c} : outCall'[d] = outCall[d]
  <2>1. outCall[c] \in Report
    BY DEF OutTypes
  <2>2. outCall'[c] = [outCall[c] EXCEPT !.pc = place, !.salt = salt]
        /\ \A d \in OutCalls \ {c} : outCall'[d] = outCall[d]
    BY <1>2 DEF OutTypes
  <2> QED
    BY <2>1, <2>2 DEF Report
<1>5. LogLines'
  BY <1>1 DEF Logs, LogLines
<1>6. UpToDate(c)'
  BY <1>1, <1>3, <1>4 DEF UpToDate
<1>7. ASSUME NEW d \in OutCalls \ {c} PROVE UpToDate(d)'
  <2>1. UpToDate(d)
    BY DEF Logs
  <2> QED
    BY <1>1, <1>4, <2>1 DEF UpToDate
<1> QED
  BY <1>1, <1>5, <1>6, <1>7 DEF Logs

\* Nobody else is between open and close when the salt is removed or published, and the log
\* is empty as long as there is none.
LEMMA SaltKeepsLogs ==
  ASSUME OutTypes, Locks, Logs, NEW c \in OutCalls, DropSalt(c) \/ LinkSalt(c)
  PROVE  Logs'
<1> USE DEF At, Running, Locking, Inside, Salting, Leaving
<1>0. c # NoFile /\ c # "partial" /\ "partial" # NoFile
  BY OutcomeLogAssumption
<1>1. outLog' = outLog /\ lost' = lost /\ UpToDate(c) /\ LogLines /\ ~lost
  BY DEF DropSalt, LinkSalt, Logs
<1>2. outCall[c].pc \in Inside
  BY DEF DropSalt, LinkSalt
<1>3. Alone(c)
  BY <1>2, HolderAlone
<1>4. saltFile \in {NoFile, "partial"}
  BY <1>1 DEF DropSalt, LinkSalt, UpToDate
<1>5. outLog = <<>>
  BY <1>1, <1>4 DEF LogLines
<1>6. \A d \in OutCalls \ {c} : outCall'[d] = outCall[d]
  BY GoesOnOne DEF GoesOn, OneCall, OutTypes
<1>7. \A d \in OutCalls \ {c} : UpToDate(d)'
  BY <1>3, <1>6 DEF Alone, UpToDate
<1>8. UpToDate(c)'
  <2>1. CASE DropSalt(c)
    <3>1. saltFile' = NoFile /\ outCall'[c].pc = "linkSalt"
      BY <2>1, Moved DEF DropSalt, Places
    <3> QED
      BY <3>1 DEF UpToDate
  <2>2. CASE LinkSalt(c)
    <3>1. saltFile = NoFile
      BY <1>1, <2>2 DEF LinkSalt, UpToDate
    <3>2. saltFile' = c /\ outCall'[c] = [outCall[c] EXCEPT !.pc = "size", !.salt = c]
          /\ outCall[c] \in Report
      BY <2>2, <3>1 DEF LinkSalt, OutTypes
    <3>3. outCall'[c].pc = "size" /\ outCall'[c].salt = c
      BY <3>2 DEF Report
    <3> QED
      BY <1>0, <3>2, <3>3 DEF UpToDate
  <2> QED
    BY <2>1, <2>2
<1>9. LogLines'
  BY <1>1, <1>5 DEF LogLines
<1> QED
  BY <1>1, <1>7, <1>8, <1>9 DEF Logs

LEMMA SizeKeepsLogs ==
  ASSUME OutTypes, Logs, NEW c \in OutCalls, Size(c)
  PROVE  Logs'
<1>1. saltFile' = saltFile /\ outLog' = outLog /\ lost' = lost
  BY DEF Size, fileVars
<1>2. PICK big \in BOOLEAN : big <=> Len(outLog) + 1 > LogMax
  OBVIOUS
<1>3. PICK r \in Report : r = outCall[c]
  BY DEF OutTypes
<1>4. outCall'[c] = [r EXCEPT !.pc = "write", !.big = Len(outLog) + 1 > LogMax]
      /\ \A d \in OutCalls \ {c} : outCall'[d] = outCall[d]
  BY <1>3 DEF Size, OutTypes
<1>5. outCall'[c].pc = "write" /\ outCall'[c].salt = r.salt
      /\ outCall'[c].big = (Len(outLog) + 1 > LogMax)
  BY <1>3, <1>4 DEF Report
<1>6. LogLines'
  BY <1>1 DEF Logs, LogLines
<1>7. UpToDate(c)'
  <2>1. UpToDate(c) /\ outCall[c].pc = "size"
    BY DEF Logs, Size, At
  <2> QED
    BY <1>1, <1>3, <1>5, <2>1 DEF UpToDate
<1>8. ASSUME NEW d \in OutCalls \ {c} PROVE UpToDate(d)'
  <2>1. UpToDate(d)
    BY DEF Logs
  <2> QED
    BY <1>1, <1>4, <2>1 DEF UpToDate
<1> QED
  BY <1>1, <1>6, <1>7, <1>8 DEF Logs

\* The size that was read is still that of the log, and the salt still that of the file.
LEMMA WriteKeepsLogs ==
  ASSUME OutTypes, Locks, Logs, NEW c \in OutCalls, Write(c)
  PROVE  Logs'
<1> USE DEF At, Running, Locking, Inside, Salting, Leaving
<1>1. outCall[c].pc = "write" /\ UpToDate(c) /\ LogLines /\ ~lost /\ saltFile' = saltFile
  BY DEF Write, Logs
<1>2. Alone(c)
  BY <1>1, HolderAlone
<1>3. outCall'[c].pc = "chmod" /\ \A d \in OutCalls \ {c} : outCall'[d] = outCall[d]
  BY Moved DEF Write, Places
<1>4. PICK line : line = [by |-> c, salt |-> outCall[c].salt]
  OBVIOUS
<1>5. line \in Line /\ line.salt = saltFile
  <2>1. outCall[c].salt \in OutCalls \cup {NoFile, "before"} /\ outCall[c].salt = saltFile
    BY <1>1 DEF OutTypes, Report, UpToDate
  <2> QED
    BY <1>4, <2>1 DEF Line
<1>6. outLog' = <<line>> \/ outLog' = Append(outLog, line)
  BY <1>4 DEF Write
<1>7. LogLines'
  <2>1. outLog \in Seq(Line) /\ saltFile \notin {NoFile, "partial"}
        /\ \A i \in DOMAIN outLog : outLog[i].salt = saltFile
    BY <1>1 DEF LogLines, UpToDate
  <2>2. CASE outLog' = <<line>>
    BY <1>1, <1>5, <2>1, <2>2 DEF LogLines
  <2>3. CASE outLog' = Append(outLog, line)
    <3>1. outLog' \in Seq(Line)
      BY <1>5, <2>1, <2>3
    <3>2. \A i \in DOMAIN outLog' : outLog'[i].salt = saltFile
      BY <1>5, <2>1, <2>3
    <3> QED
      BY <1>1, <2>1, <3>1, <3>2 DEF LogLines
  <2> QED
    BY <1>6, <2>2, <2>3
<1>8. ~lost'
  <2>1. outCall[c].big <=> Len(outLog) + 1 > LogMax
    BY <1>1 DEF UpToDate
  <2>2. Len(outLog) \in Nat /\ LogMax \in Nat
    BY <1>1, OutcomeLogAssumption DEF LogLines
  <2>3. ~(outCall[c].big /\ Len(outLog) + 1 <= LogMax)
    BY <2>1, <2>2
  <2> QED
    BY <1>1, <2>3 DEF Write
<1>9. \A d \in OutCalls \ {c} : UpToDate(d)'
  BY <1>2, <1>3 DEF Alone, UpToDate
<1>10. UpToDate(c)'
  BY <1>3 DEF UpToDate
<1> QED
  BY <1>7, <1>8, <1>9, <1>10 DEF Logs

\* Every other step of a running call leaves the log, the salt and what was read of them.
LEMMA LockingKeepsLogs ==
  ASSUME OutTypes, Logs, NEW c \in OutCalls,
         \/ OpenLock(c) \/ Observe(c) \/ Confirm(c) \/ Evict(c) \/ Chmod(c)
         \/ Close(c) \/ Unlink(c) \/ OperationFails(c) \/ LockLeaks(c)
  PROVE  Logs'
<1>1. saltFile' = saltFile /\ outLog' = outLog /\ lost' = lost
  BY DEF OpenLock, Observe, Confirm, Evict, Chmod, Close, Unlink, OperationFails, LockLeaks,
         fileVars
<1>2. \A d \in OutCalls \ {c} : outCall'[d] = outCall[d]
  BY GoesOnOne DEF GoesOn, OneCall, OutTypes
<1>3. ASSUME NEW place \in {"readSalt", "observe", "evict", "unlink", "settle", "close"},
             Move(c, place)
      PROVE  outCall'[c].pc = place
  <2>1. place \in Places
    BY DEF Places, Running, Locking, Inside, Salting, Leaving
  <2> QED
    BY <1>3, <2>1, Moved
<1>4. outCall'[c].pc \in {"readSalt", "observe", "confirm", "evict", "close", "unlink", "settle",
                          "open"}
  <2>1. CASE Observe(c) /\ LooksOld
    <3>1. outCall'[c] = [outCall[c] EXCEPT !.pc = "confirm", !.seen = lockFile]
          /\ outCall[c] \in Report
      BY <2>1 DEF Observe, OutTypes
    <3> QED
      BY <3>1 DEF Report
  <2>2. CASE Observe(c) /\ ~LooksOld
    BY <2>2, Retried DEF Observe
  <2>3. CASE Chmod(c)
    <3>1. outCall'[c] = [outCall[c] EXCEPT !.pc = "close", !.ok = TRUE] /\ outCall[c] \in Report
      BY <2>3 DEF Chmod, OutTypes
    <3> QED
      BY <3>1 DEF Report
  <2>4. CASE Confirm(c) \/ Evict(c)
    BY <1>3, <2>4, Retried DEF Confirm, Evict
  <2>5. CASE OpenLock(c)
    BY <1>3, <2>5 DEF OpenLock
  <2>6. CASE Close(c)
    <3>1. Move(c, "unlink") \/ Move(c, "settle")
      BY <2>6 DEF Close
    <3> QED
      BY <1>3, <3>1
  <2>7. CASE Unlink(c) \/ OperationFails(c) \/ LockLeaks(c)
    BY <1>3, <2>7 DEF Unlink, OperationFails, LockLeaks
  <2> QED
    BY <2>1, <2>2, <2>3, <2>4, <2>5, <2>6, <2>7
<1> QED
  BY <1>1, <1>2, <1>4, LogsKept

LEMMA LogsStep ==
  ASSUME OutTypes, Locks, Logs, [OutNext]_outVars
  PROVE  Logs'
<1>1. CASE LockAges
  BY <1>1, LogsKept DEF LockAges
<1>2. ASSUME \/ \E p \in Processes, a \in Advices : Issue(p, a)
             \/ \E p \in Processes : OutcomeSessionStart(p) \/ ProcessDies(p)
             \/ \E c \in OutCalls : Record(c) \/ RefuseReport(c) \/ Settle(c)
             \/ UNCHANGED outVars
      PROVE  Logs'
  BY <1>2, Elsewhere, LogsKept DEF CallEnded
<1> QED
  BY <1>1, <1>2, ReadSaltKeepsLogs, SaltKeepsLogs, SizeKeepsLogs, WriteKeepsLogs,
     LockingKeepsLogs DEF OutNext, OutStep

\* What was contested stays contested.
LEMMA ContestedStays ==
  ASSUME [OutNext]_outVars, contested
  PROVE  contested'
BY DEF OutNext, OutStep, outVars, fileVars, Issue, OutcomeSessionStart, ProcessDies, Record,
       RefuseReport, OpenLock, Observe, Confirm, Evict, ReadSalt, DropSalt, LinkSalt, Size, Write,
       Chmod, Close, Unlink, Settle, OperationFails, LockLeaks, LockAges

LEMMA WriterInvInit == OutInit => WriterInv
<1> SUFFICES ASSUME OutInit PROVE Locks /\ Logs
  BY DEF WriterInv
<1>1. \A c \in OutCalls : outCall[c].pc = "idle"
  BY DEF OutInit, FreshCall
<1>2. Locks
  <2>1. lockFile = NoFile => ~lockOld
    BY OutcomeLogAssumption DEF OutInit
  <2> QED
    BY <1>1, <2>1 DEF Locks, Takers, Inside, Salting, Leaving
<1>3. LogLines
  BY DEF OutInit, LogLines
<1>4. \A c \in OutCalls : UpToDate(c)
  BY <1>1 DEF UpToDate
<1> QED
  BY <1>2, <1>3, <1>4 DEF OutInit, Logs

(***************************************************************************)
(* Unless an old lock was taken over twice at once, or the lock of a live  *)
(* owner grew old, one call at a time is between open and close, all the   *)
(* digests of the log have one salt, and no line that had room is dropped. *)
(***************************************************************************)
THEOREM OneWriterHolds == OutSpec => []OneWriter
<1>1. OutTypes /\ WriterInv /\ [OutNext]_outVars => WriterInv'
  BY LocksStep, LogsStep, ContestedStays DEF WriterInv
<1>2. ASSUME Locks, Logs PROVE Cardinality(Holders) <= 1
  <2>1. Holders \subseteq {lockFile}
    BY <1>2 DEF Holders, Locks
  <2>2. IsFiniteSet({lockFile}) /\ Cardinality({lockFile}) = 1
    BY FS_Singleton
  <2>3. Cardinality(Holders) \in Nat /\ Cardinality(Holders) <= Cardinality({lockFile})
    BY <2>1, <2>2, FS_Subset, FS_CardinalityType
  <2> QED
    BY <2>2, <2>3
<1>3. ASSUME Logs
      PROVE  ~lost /\ \A i, j \in DOMAIN outLog : outLog[i].salt = outLog[j].salt
  BY <1>3 DEF Logs, LogLines
<1>4. WriterInv => OneWriter
  BY <1>2, <1>3, Zenon DEF WriterInv, OneWriter, OneSalt
<1> QED
  BY <1>1, <1>4, OutTypesHold, WriterInvInit, PTL DEF OutSpec

-----------------------------------------------------------------------------
(* The types *)

\* A call that may still try has an attempt left.
Attempts(c) ==
    /\ outCall[c].tries \in 0..Tries
    /\ outCall[c].pc \in Locking \cup {"idle"} => outCall[c].tries < Tries

LogTypes ==
    /\ outLog \in Seq(Line) /\ \A i \in DOMAIN outLog : outLog[i].by \in written
    /\ lockOld \in BOOLEAN /\ outFaults \in 0..MaxFaults

\* A call goes on with its attempts, and does not begin to try.
SameAttempts(c) ==
    /\ outCall'[c].tries = outCall[c].tries
    /\ outCall'[c].pc \in Locking \cup {"idle"} => outCall[c].pc \in Locking \cup {"idle"}

LEMMA MovedAttempts ==
  ASSUME OutTypes, NEW c \in OutCalls, NEW place \in Places, Move(c, place),
         place \in Locking => outCall[c].pc \in Locking \cup {"idle"}, place # "idle"
  PROVE  SameAttempts(c) /\ \A d \in OutCalls \ {c} : outCall'[d] = outCall[d]
<1>1. OneCall(c) /\ outCall'[c] = [outCall[c] EXCEPT !.pc = place]
  BY MoveOne
<1>2. outCall[c] \in Report
  BY DEF OutTypes
<1> QED
  BY <1>1, <1>2 DEF OneCall, OutTypes, Report, SameAttempts

LEMMA RetriedAttempts ==
  ASSUME OutTypes, NEW c \in OutCalls, RetryLock(c), Attempts(c), outCall[c].pc \in Locking
  PROVE  Attempts(c)' /\ \A d \in OutCalls \ {c} : outCall'[d] = outCall[d]
<1>1. PICK r \in Report : r = outCall[c]
  BY DEF OutTypes
<1>2. r.tries \in Nat /\ r.tries < Tries /\ Tries \in Nat
  BY <1>1, OutcomeLogAssumption DEF Attempts
<1>3. PICK place : place = IF r.tries + 1 < Tries THEN "open" ELSE "settle"
  OBVIOUS
<1>4. PICK n \in Nat : n = r.tries + 1
  BY <1>2
<1>5. outCall' = [outCall EXCEPT ![c] = [r EXCEPT !.tries = n, !.seen = NoFile, !.pc = place]]
  BY <1>1, <1>3, <1>4 DEF RetryLock, OutTypes
<1>6. PICK new : new = [r EXCEPT !.tries = n, !.seen = NoFile, !.pc = place]
  OBVIOUS
<1>7. new.tries = n /\ new.pc = place
  BY <1>6 DEF Report
<1>8. outCall'[c] = new /\ \A d \in OutCalls \ {c} : outCall'[d] = outCall[d]
  BY <1>5, <1>6 DEF OutTypes
<1>9. n <= Tries /\ (place = "open" => n < Tries) /\ place \in {"open", "settle"}
  BY <1>2, <1>3, <1>4
<1>10. "settle" \notin Locking \cup {"idle"}
  BY DEF Locking
<1> QED
  BY <1>2, <1>4, <1>7, <1>8, <1>9, <1>10 DEF Attempts

\* What reads and writes the files keeps the attempts.
LEMMA FilesAttempts ==
  ASSUME OutTypes, NEW c \in OutCalls, ReadSalt(c) \/ LinkSalt(c) \/ Size(c) \/ Chmod(c)
  PROVE  SameAttempts(c) /\ \A d \in OutCalls \ {c} : outCall'[d] = outCall[d]
<1>1. PICK r \in Report : r = outCall[c]
  BY DEF OutTypes
<1>2. ASSUME NEW new, new.tries = r.tries, new.pc \notin Locking \cup {"idle"},
             outCall' = [outCall EXCEPT ![c] = new]
      PROVE  SameAttempts(c) /\ \A d \in OutCalls \ {c} : outCall'[d] = outCall[d]
  BY <1>1, <1>2 DEF OutTypes, SameAttempts
<1>3. CASE ReadSalt(c)
  <2> DEFINE place == CASE saltFile = NoFile -> "linkSalt" [] saltFile = "partial" -> "dropSalt"
                        [] OTHER -> "size"
             salt == IF saltFile \in {NoFile, "partial"} THEN NoFile ELSE saltFile
  <2>1. outCall' = [outCall EXCEPT ![c].pc = place, ![c].salt = salt]
        /\ place \in {"linkSalt", "dropSalt", "size"}
    BY <1>3 DEF ReadSalt
  <2> HIDE DEF place, salt
  <2>2. PICK new : new = [r EXCEPT !.pc = place, !.salt = salt]
    OBVIOUS
  <2>3. outCall' = [outCall EXCEPT ![c] = new]
    BY <1>1, <2>1, <2>2 DEF OutTypes
  <2>4. new.tries = r.tries /\ new.pc \notin Locking \cup {"idle"}
    BY <2>1, <2>2 DEF Report, Locking
  <2> QED
    BY <1>2, <2>3, <2>4
<1>4. CASE LinkSalt(c) /\ saltFile = NoFile
  <2>1. PICK new : new = [r EXCEPT !.pc = "size", !.salt = c]
    OBVIOUS
  <2>2. outCall' = [outCall EXCEPT ![c] = new]
    BY <1>1, <1>4, <2>1 DEF LinkSalt, OutTypes
  <2>3. new.tries = r.tries /\ new.pc \notin Locking \cup {"idle"}
    BY <2>1 DEF Report, Locking
  <2> QED
    BY <1>2, <2>2, <2>3
<1>5. CASE LinkSalt(c) /\ saltFile # NoFile
  <2>1. Move(c, "readSalt")
    BY <1>5 DEF LinkSalt
  <2> QED
    BY <2>1, MovedAttempts DEF Places, Running, Inside, Salting, Locking
<1>6. CASE Size(c)
  <2>1. PICK new : new = [r EXCEPT !.pc = "write", !.big = Len(outLog) + 1 > LogMax]
    OBVIOUS
  <2>2. outCall' = [outCall EXCEPT ![c] = new]
    BY <1>1, <1>6, <2>1 DEF Size, OutTypes
  <2>3. new.tries = r.tries /\ new.pc \notin Locking \cup {"idle"}
    BY <2>1 DEF Report, Locking
  <2> QED
    BY <1>2, <2>2, <2>3
<1>7. CASE Chmod(c)
  <2>1. PICK new : new = [r EXCEPT !.pc = "close", !.ok = TRUE]
    OBVIOUS
  <2>2. outCall' = [outCall EXCEPT ![c] = new]
    BY <1>1, <1>7, <2>1 DEF Chmod, OutTypes
  <2>3. new.tries = r.tries /\ new.pc \notin Locking \cup {"idle"}
    BY <2>1 DEF Report, Locking
  <2> QED
    BY <1>2, <2>2, <2>3
<1> QED
  BY <1>3, <1>4, <1>5, <1>6, <1>7

LEMMA EndedAttempts ==
  ASSUME OutTypes, NEW c \in OutCalls,
         outCall'[c].pc \in CallEnded, outCall'[c].tries = 0
  PROVE  Attempts(c)'
<1>1. outCall'[c].pc \notin Locking \cup {"idle"}
  BY DEF CallEnded, Locking
<1> QED
  BY <1>1, OutcomeLogAssumption DEF Attempts

LEMMA AttemptsStep ==
  ASSUME OutTypes, \A c \in OutCalls : Attempts(c), [OutNext]_outVars
  PROVE  \A c \in OutCalls : Attempts(c)'
<1>1. ASSUME NEW c \in OutCalls, SameAttempts(c), \A d \in OutCalls \ {c} : outCall'[d] = outCall[d]
      PROVE  \A d \in OutCalls : Attempts(d)'
  <2>1. Attempts(c)'
    BY <1>1 DEF Attempts, SameAttempts
  <2> QED
    BY <1>1, <2>1 DEF Attempts
<1>2. ASSUME NEW c \in OutCalls, RetryLock(c), outCall[c].pc \in Locking
      PROVE  \A d \in OutCalls : Attempts(d)'
  <2>1. Attempts(c)' /\ \A d \in OutCalls \ {c} : outCall'[d] = outCall[d]
    BY <1>2, RetriedAttempts
  <2> QED
    BY <2>1 DEF Attempts
<1>3. ASSUME NEW c \in OutCalls, NEW place \in Places, Move(c, place),
             place \in Locking => outCall[c].pc \in Locking \cup {"idle"}, place # "idle"
      PROVE  \A d \in OutCalls : Attempts(d)'
  BY <1>1, <1>3, MovedAttempts
<1>4. ASSUME UNCHANGED outCall PROVE \A d \in OutCalls : Attempts(d)'
  BY <1>4 DEF Attempts
<1> USE DEF Places, Running, Locking, Salting, Inside, Leaving, CallEnded, At
<1>5. ASSUME NEW c \in OutCalls, OpenLock(c) \/ Observe(c) \/ Confirm(c) \/ Evict(c)
      PROVE  \A d \in OutCalls : Attempts(d)'
  <2>1. CASE OpenLock(c)
    BY <1>3, <2>1 DEF OpenLock
  <2>2. CASE Observe(c) /\ LooksOld
    <3>1. PICK r \in Report : r = outCall[c]
      BY DEF OutTypes
    <3>2. PICK new : new = [r EXCEPT !.pc = "confirm", !.seen = lockFile]
      OBVIOUS
    <3>3. outCall' = [outCall EXCEPT ![c] = new] /\ r.pc = "observe"
      BY <2>2, <3>1, <3>2 DEF Observe, OutTypes
    <3>4. new.tries = r.tries /\ new.pc = "confirm"
      BY <3>2 DEF Report
    <3>5. SameAttempts(c) /\ \A d \in OutCalls \ {c} : outCall'[d] = outCall[d]
      BY <3>1, <3>3, <3>4 DEF OutTypes, SameAttempts
    <3> QED
      BY <1>1, <3>5
  <2>3. CASE Observe(c) /\ ~LooksOld
    BY <1>2, <2>3 DEF Observe
  <2>4. CASE Confirm(c)
    BY <1>2, <1>3, <2>4 DEF Confirm
  <2>5. CASE Evict(c)
    BY <1>2, <2>5 DEF Evict
  <2> QED
    BY <1>5, <2>1, <2>2, <2>3, <2>4, <2>5
<1>6. ASSUME NEW c \in OutCalls, ReadSalt(c) \/ LinkSalt(c) \/ Size(c) \/ Chmod(c)
      PROVE  \A d \in OutCalls : Attempts(d)'
  BY <1>1, <1>6, FilesAttempts
<1>7. ASSUME NEW c \in OutCalls, DropSalt(c) \/ Write(c) \/ Close(c) \/ Unlink(c)
                                 \/ OperationFails(c) \/ LockLeaks(c) \/ RefuseReport(c) \/ Record(c)
      PROVE  \A d \in OutCalls : Attempts(d)'
  BY <1>3, <1>7 DEF DropSalt, Write, Close, Unlink, OperationFails, LockLeaks, RefuseReport, Record
<1>8. ASSUME NEW c \in OutCalls, Settle(c) PROVE \A d \in OutCalls : Attempts(d)'
  <2>1. PICK place \in {"recorded", "unrecorded"} :
          outCall' = [outCall EXCEPT ![c] = [FreshCall EXCEPT !.pc = place]]
    BY <1>8 DEF Settle
  <2>2. PICK new : new = [FreshCall EXCEPT !.pc = place]
    OBVIOUS
  <2>3. new.pc \in CallEnded /\ new.tries = 0
    BY <2>2 DEF FreshCall
  <2>4. outCall'[c] = new /\ \A d \in OutCalls \ {c} : outCall'[d] = outCall[d]
    BY <2>1, <2>2 DEF OutTypes
  <2> QED
    BY <2>3, <2>4, EndedAttempts DEF Attempts
<1>9. ASSUME NEW p \in Processes, ProcessDies(p) PROVE \A d \in OutCalls : Attempts(d)'
  <2>1. PICK new : new = [FreshCall EXCEPT !.pc = "dead"]
    OBVIOUS
  <2>2. new.pc = "dead" /\ new.tries = 0
    BY <2>1 DEF FreshCall
  <2>3. \A d \in OutCalls : outCall'[d] = new \/ outCall'[d] = outCall[d]
    BY <1>9, <2>1 DEF ProcessDies
  <2> QED
    BY <2>2, <2>3, EndedAttempts DEF Attempts
<1>10. CASE \/ UNCHANGED outVars \/ LockAges
            \/ \E p \in Processes : OutcomeSessionStart(p) \/ \E a \in Advices : Issue(p, a)
  BY <1>4, <1>10 DEF outVars, LockAges, OutcomeSessionStart, Issue
<1> QED
  BY <1>5, <1>6, <1>7, <1>8, <1>9, <1>10 DEF OutNext, OutStep

LEMMA LogTypesStep ==
  ASSUME OutTypes, LogTypes, [OutNext]_outVars
  PROVE  LogTypes'
<1>1. outFaults' \in 0..MaxFaults
  <2>1. outFaults' = outFaults \/ Fault
    BY DEF OutNext, OutStep, outVars, Issue, OutcomeSessionStart, ProcessDies, Record,
           RefuseReport, OpenLock, Observe, Confirm, Evict, ReadSalt, DropSalt, LinkSalt, Size,
           Write, Chmod, Close, Unlink, Settle, OperationFails, LockLeaks, LockAges
  <2> QED
    BY <2>1, OutcomeLogAssumption DEF LogTypes, Fault
<1>2. lockOld' \in BOOLEAN
  <2>1. lockOld' = lockOld \/ lockOld' = FALSE \/ lockOld' = TRUE
    BY DEF OutNext, OutStep, outVars, fileVars, Issue, OutcomeSessionStart, ProcessDies, Record,
           RefuseReport, OpenLock, Observe, Confirm, Evict, ReadSalt, DropSalt, LinkSalt, Size,
           Write, Chmod, Close, Unlink, Settle, OperationFails, LockLeaks, LockAges
  <2> QED
    BY <2>1, Zenon DEF LogTypes
<1>3. outLog' \in Seq(Line) /\ \A i \in DOMAIN outLog' : outLog'[i].by \in written'
  <2>1. ASSUME NEW c \in OutCalls, Write(c)
        PROVE  outLog' \in Seq(Line) /\ \A i \in DOMAIN outLog' : outLog'[i].by \in written'
    <3>1. PICK line : line = [by |-> c, salt |-> outCall[c].salt]
      OBVIOUS
    <3>2. line \in Line /\ line.by = c
      BY <3>1 DEF Line, OutTypes, Report
    <3>3. written' = written \cup {c} /\ (outLog' = <<line>> \/ outLog' = Append(outLog, line))
      BY <2>1, <3>1 DEF Write
    <3>4. \A i \in DOMAIN outLog : outLog[i].by \in written'
      BY <3>3 DEF LogTypes
    <3>5. outLog \in Seq(Line) /\ line.by \in written'
      BY <3>2, <3>3 DEF LogTypes
    <3>6. CASE outLog' = <<line>>
      BY <3>2, <3>5, <3>6
    <3>7. CASE outLog' = Append(outLog, line)
      <4>1. outLog' \in Seq(Line)
        BY <3>2, <3>5, <3>7
      <4>2. \A i \in DOMAIN outLog' : outLog'[i].by \in written'
        BY <3>2, <3>4, <3>5, <3>7
      <4> QED
        BY <4>1, <4>2
    <3> QED
      BY <3>3, <3>6, <3>7
  <2>2. (\E c \in OutCalls : Write(c)) \/ UNCHANGED <<outLog, written>>
    BY DEF OutNext, OutStep, outVars, fileVars, Issue, OutcomeSessionStart, ProcessDies, Record,
           RefuseReport, OpenLock, Observe, Confirm, Evict, ReadSalt, DropSalt, LinkSalt, Size,
           Chmod, Close, Unlink, Settle, OperationFails, LockLeaks, LockAges
  <2> QED
    BY <2>1, <2>2 DEF LogTypes
<1> QED
  BY <1>1, <1>2, <1>3 DEF LogTypes

\* The types of the reports (OutTypeOK): attempts at the lock never exceed their bound, and
\* only calls that wrote have a line in the log.
THEOREM OutTypesCorrect == OutSpec => []OutTypeOK
<1>1. OutInit => LogTypes /\ \A c \in OutCalls : Attempts(c)
  <2> SUFFICES ASSUME OutInit PROVE LogTypes /\ \A c \in OutCalls : Attempts(c)
    OBVIOUS
  <2>1. lockOld \in BOOLEAN
    BY Zenon DEF OutInit
  <2>2. LogTypes
    BY <2>1, OutcomeLogAssumption DEF OutInit, LogTypes
  <2>3. \A c \in OutCalls : Attempts(c)
    BY OutcomeLogAssumption DEF OutInit, FreshCall, Attempts
  <2> QED
    BY <2>2, <2>3
<1>2. OutTypes /\ LogTypes /\ (\A c \in OutCalls : Attempts(c)) /\ [OutNext]_outVars
        => (LogTypes /\ \A c \in OutCalls : Attempts(c))'
  BY LogTypesStep, AttemptsStep
<1>3. ASSUME OutTypes, RecordedOnce, LogTypes, \A c \in OutCalls : Attempts(c)
      PROVE  OutTypeOK
  <2>1. ASSUME NEW p \in Processes
        PROVE  advice[p] \in [issued: SUBSET Advices, pending: SUBSET Advices,
                              reported: SUBSET Advices, outcomes: 0..Cardinality(Advices)]
    <3>1. advice[p] \in Ledger /\ advice[p].outcomes = Cardinality(advice[p].reported)
      BY <1>3 DEF OutTypes, RecordedOnce
    <3>2. advice[p].reported \subseteq Advices
      BY <3>1 DEF Ledger
    <3>3. Cardinality(advice[p].reported) <= Cardinality(Advices) /\ Cardinality(Advices) \in Nat
          /\ Cardinality(advice[p].reported) \in Nat
      BY <3>2, AdvicesFinite, FS_Subset, FS_CardinalityType
    <3>4. advice[p].outcomes \in 0..Cardinality(Advices)
      BY <3>1, <3>3
    <3> QED
      BY <3>1, <3>4 DEF Ledger
  <2>2. advice \in [Processes -> [issued: SUBSET Advices, pending: SUBSET Advices,
                                  reported: SUBSET Advices, outcomes: 0..Cardinality(Advices)]]
    BY <1>3, <2>1 DEF OutTypes
  <2>3. ASSUME NEW c \in OutCalls
        PROVE  /\ outCall[c].pc \in Running \cup CallEnded \cup {"idle"}
               /\ outCall[c].tries \in 0..Tries
               /\ outCall[c].seen \in OutCalls \cup {NoFile, "left"}
               /\ outCall[c].salt \in OutCalls \cup {NoFile, "before"}
    <3>1. outCall[c] \in Report /\ Attempts(c)
      BY <1>3 DEF OutTypes
    <3> QED
      BY <3>1 DEF Report, Places, Attempts
  <2> QED
    BY <1>3, <2>2, <2>3 DEF OutTypeOK, OutTypes, LogTypes
<1> QED
  BY <1>1, <1>2, <1>3, OutTypesHold, RecordedOnceHolds, PTL DEF OutSpec
=============================================================================
