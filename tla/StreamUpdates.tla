---------------------------- MODULE StreamUpdates ----------------------------
(***************************************************************************)
(* The partial answers of ask_advisor reach the interface through          *)
(* createCoalescedUpdate (src/model-stream.ts): at most one per interval,  *)
(* the first at once, the last before the tool ends, none after it.  The   *)
(* clock is Date.now: it ticks, and timers fire late.  The values are      *)
(* numbered in the order the stream produces them.                         *)
(***************************************************************************)
EXTENDS Integers

CONSTANTS
    Interval,     \* ADVISOR_STREAM_UPDATE_INTERVAL_MS, in ticks
    MaxChunks,    \* chunks of the answer
    MaxTime,      \* ticks of the clock
    Unset         \* no pending value, no timer, nothing published

ASSUME StreamUpdatesAssumption ==
    Interval \in Nat \ {0} /\ MaxChunks \in Nat /\ MaxTime \in Nat /\ Unset \notin Nat

VARIABLES
    clock, chunks,       \* the time, and how many chunks came
    closed, failed,      \* closed, publishFailed
    pending,             \* the value that waits, or Unset
    lastPublishedAt,
    due,                 \* when the timer fires, or Unset
    tool,                \* "streaming", "flushed", "failed" or "ended"
    \* History variables.  No action's guard reads them.
    shown,               \* the newest value that was published
    gaps,                \* the shortest time between two updates of the interface
    stale                \* a value was published after the end, or an older one after a newer

updVars == <<clock, chunks, closed, failed, pending, lastPublishedAt, due, tool,
             shown, gaps, stale>>

\* publishPending, with a sink that takes the value or throws.
Publish(value, end) ==
    /\ pending' = Unset /\ due' = Unset
    /\ lastPublishedAt' = clock
    /\ \/ /\ shown' = value
          /\ closed' = end
          /\ UNCHANGED failed
       \/ failed' = TRUE /\ closed' = TRUE /\ UNCHANGED shown
    /\ gaps' = IF lastPublishedAt = Unset \/ end THEN gaps
               ELSE IF gaps = Unset \/ clock - lastPublishedAt < gaps THEN clock - lastPublishedAt
               ELSE gaps
    /\ stale' = (stale \/ closed \/ (shown # Unset /\ value <= shown))

\* Mutant: only a running timer holds an update back.
MutantDelay == 0

\* schedule: what is left of the interval.
Delay ==
    IF lastPublishedAt = Unset \/ clock - lastPublishedAt >= Interval THEN 0
    ELSE Interval - (clock - lastPublishedAt)

\* update.  A failing sink makes it throw, and the stream ends in the catch of the tool;
\* once closed it does nothing.
Update ==
    /\ tool = "streaming" /\ chunks < MaxChunks
    /\ chunks' = chunks + 1
    /\ \/ closed /\ UNCHANGED <<closed, failed, pending, lastPublishedAt, due, tool, shown, gaps, stale>>
       \/ /\ ~closed
          /\ IF due = Unset /\ Delay = 0
             THEN /\ Publish(chunks + 1, FALSE)
                  /\ tool' = IF failed' THEN "failed" ELSE tool
             ELSE /\ pending' = chunks + 1
                  /\ due' = IF due = Unset THEN clock + Delay ELSE due
                  /\ UNCHANGED <<closed, failed, lastPublishedAt, tool, shown, gaps, stale>>
    /\ UNCHANGED clock

\* The timer.  It publishes only what is pending.
TimerPublishes ==
    /\ due # Unset /\ clock >= due
    /\ IF pending = Unset
       THEN due' = Unset /\ UNCHANGED <<closed, failed, pending, lastPublishedAt, shown, gaps, stale>>
       ELSE Publish(pending, FALSE)
    /\ UNCHANGED <<clock, chunks, tool>>

\* Mutant: flush closes and leaves what waits for its timer.
MutantFlush(next) ==
    /\ closed' = TRUE /\ due' = Unset
    /\ UNCHANGED <<failed, pending, lastPublishedAt, shown, gaps, stale>>
    /\ tool' = IF failed' THEN "failed" ELSE next

\* flush: closes, and publishes what is pending.
Flush(next) ==
    /\ IF closed \/ pending = Unset
       THEN /\ closed' = TRUE
            /\ due' = IF closed THEN due ELSE Unset
            /\ UNCHANGED <<failed, pending, lastPublishedAt, shown, gaps, stale>>
       ELSE Publish(pending, TRUE)
    /\ tool' = IF failed' THEN "failed" ELSE next

\* The answer is complete: flushUpdate, which throws if a publication ever failed.
StreamAnswered == tool = "streaming" /\ Flush("flushed") /\ UNCHANGED <<clock, chunks>>

\* The provider fails: the catch publishes the last state, the sink's failures aside.
ProviderFails ==
    /\ tool = "streaming"
    /\ Flush("failed")
    /\ UNCHANGED <<clock, chunks>>

Cancel == closed' = TRUE /\ due' = Unset /\ pending' = Unset

\* The finally of the tool.
StreamEnds ==
    /\ tool \in {"flushed", "failed"}
    /\ tool' = "ended"
    /\ Cancel
    /\ UNCHANGED <<clock, chunks, failed, lastPublishedAt, shown, gaps, stale>>

Tick == clock < MaxTime /\ clock' = clock + 1
        /\ UNCHANGED <<chunks, closed, failed, pending, lastPublishedAt, due, tool, shown, gaps, stale>>

UpdInit ==
    /\ clock = 0 /\ chunks = 0 /\ closed = FALSE /\ failed = FALSE
    /\ pending = Unset /\ lastPublishedAt = Unset /\ due = Unset
    /\ tool = "streaming"
    /\ shown = Unset /\ gaps = Unset /\ stale = FALSE

UpdNext == Update \/ TimerPublishes \/ StreamAnswered \/ ProviderFails \/ StreamEnds \/ Tick

UpdSpec == UpdInit /\ [][UpdNext]_updVars

-----------------------------------------------------------------------------
(* Properties *)

UpdTypeOK ==
    /\ clock \in 0..MaxTime /\ chunks \in 0..MaxChunks
    /\ closed \in BOOLEAN /\ failed \in BOOLEAN /\ stale \in BOOLEAN
    /\ pending \in 1..MaxChunks \cup {Unset} /\ shown \in 1..MaxChunks \cup {Unset}
    /\ lastPublishedAt \in 0..MaxTime \cup {Unset} /\ gaps \in 0..MaxTime \cup {Unset}
    /\ due \in 0..(MaxTime + Interval) \cup {Unset}
    /\ tool \in {"streaming", "flushed", "failed", "ended"}

(***************************************************************************)
(* The interface is updated once per interval at most, never with an older *)
(* answer after a newer one and never after the tool ended; and where no   *)
(* publication failed, it has the last chunk before the tool's result.     *)
(***************************************************************************)
UpdatesAreCoalesced ==
    /\ gaps = Unset \/ gaps >= Interval
    /\ ~stale
    /\ tool \in {"flushed", "ended"} /\ ~failed /\ chunks > 0 => shown = chunks
=============================================================================
