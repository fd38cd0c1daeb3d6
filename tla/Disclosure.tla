----------------------------- MODULE Disclosure -----------------------------
(***************************************************************************)
(* How much of a session the Pi extension sends to the Advisor, and which  *)
(* parts of it: a tool result keeps its first and last lines               *)
(* (src/tool-result-cap.ts), a branch its newest entries                   *)
(* (src/conversation.ts), attached files share a limit                     *)
(* (src/attachments.ts), and the repository's changes and the conversation *)
(* share another (src/tools/consult-context.ts).                           *)
(*                                                                         *)
(* A line, an entry and a file are their lengths.  A consultation's        *)
(* material is the state; it grows line by line, entry by entry.           *)
(***************************************************************************)
EXTENDS Integers, SequencesExt, Totals

CONSTANTS
    LineLengths, MaxLinesOf,   \* lines of a tool result, and how many it has at most
    TextLengths,               \* user messages and summaries
    MaxItems,                  \* entries of the branch, and files
    FileLengths,
    ResultCaps,                \* advisorToolResultMaxLines, advisorToolResultMaxBytes
    ContextLimits,             \* contextMaxChars
    GitLimits,                 \* advisorGitContextMaxChars
    Changes,                   \* lengths of the changes and of the note about them, and their markup
    Markups,                   \* how many & and how many < and > may be in a text
    Marker, Zero,              \* lengths of OMITTED_MARKER and of the text for a limit of zero
    Older, Newest, Label,      \* of omissionMarker, newestTruncated, an entry's first words
    Notice,                    \* of TRUNCATION_NOTICE
    FileMax, FilesTotal        \* ADVISOR_FILE_MAX_BYTES, ADVISOR_FILES_TOTAL_MAX_BYTES

ASSUME DisclosureAssumption ==
    /\ \A n \in LineLengths \cup TextLengths \cup FileLengths \cup ContextLimits \cup GitLimits : n \in Nat
    /\ ResultCaps \subseteq [lines: Nat, bytes: Nat]
    /\ Markups \subseteq [ands: Nat, angles: Nat]
    /\ Changes \subseteq [text: Nat, note: Nat, markup: [ands: Nat, angles: Nat]]
    /\ {MaxLinesOf, MaxItems, Marker, Zero, Older, Newest, Label, Notice, FileMax, FilesTotal} \subseteq Nat
    /\ Marker > 0

VARIABLES
    resultLines,    \* the lines of the last tool result
    items,          \* the branch: messages and results that become entries, by their texts
    files,          \* the files that were asked for, untracked ones first
    changes         \* of the repository

disVars == <<resultLines, items, files, changes>>

FirstOf(s, n) == SubSeq(s, 1, n)
LastOf(s, n) == SubSeq(s, Len(s) - n + 1, Len(s))
AtMost(a, b) == IF a < b THEN a ELSE b
AtLeast0(a) == IF a < 0 THEN 0 ELSE a

\* The length of parts with a separator of n between them.
JoinedBy(s, n) == TotalOf(DOMAIN s, s) + (IF s = <<>> THEN 0 ELSE (Len(s) - 1) * n)

\* The largest of 0..n for which P holds and has held all the way.
LongestRun(n, P(_)) ==
    CHOOSE k \in 0..n : (\A j \in 1..k : P(j)) /\ (k < n => ~P(k + 1))

-----------------------------------------------------------------------------
(* capToolResult *)

\* collect: as many of the first lines as fit.
Collect(s, count, bytes) ==
    LongestRun(AtMost(AtLeast0(count), Len(s)), LAMBDA k : JoinedBy(FirstOf(s, k), 1) <= bytes)

\* Its cases, as what is kept: all, nothing but a text of some length, or head lines from
\* the start and tail lines that begin after the first from.
Whole(s) == [kept |-> "all", head |-> Len(s), from |-> Len(s), tail |-> 0, bytes |-> JoinedBy(s, 1)]
Replaced(n) == [kept |-> "none", head |-> 0, from |-> 0, tail |-> 0, bytes |-> n]

\* Mutant: the tail may begin among the lines of the head.
MutantTailFrom(s, head, tailCount) == AtLeast0(Len(s) - tailCount)

TailFrom(s, head, tailCount) ==
    IF Len(s) - tailCount > head THEN Len(s) - tailCount ELSE head

\* The first head lines, the marker, and tail lines after the first from.
Ends(s, head, from, tail) ==
    LET headBytes == JoinedBy(FirstOf(s, head), 1) IN
    [kept |-> "ends", head |-> head, from |-> from, tail |-> tail,
     bytes |-> headBytes + (IF head = 0 THEN 0 ELSE 1) + Marker
               + (IF tail = 0 THEN 0 ELSE 1) + JoinedBy(SubSeq(s, from + 1, from + tail), 1)]

HeadCount(caps) == (caps.lines - 1) \div 2
TailCount(caps) == caps.lines - 1 - HeadCount(caps)

\* Mutant: a result that keeps one of its limits is kept whole.
MutantCapWith(s, caps, cut) ==
    IF (caps.lines = 0 \/ caps.bytes = 0) /\ JoinedBy(s, 1) > 0 THEN Replaced(Zero)
    ELSE IF Len(s) <= caps.lines \/ JoinedBy(s, 1) <= caps.bytes THEN Whole(s)
    ELSE IF caps.bytes < Marker \/ caps.lines = 1 THEN Replaced(AtMost(Marker, caps.bytes))
    ELSE cut

\* What of a result the limits leave, where not its ends.
CapWith(s, caps, cut) ==
    IF (caps.lines = 0 \/ caps.bytes = 0) /\ JoinedBy(s, 1) > 0 THEN Replaced(Zero)
    ELSE IF Len(s) <= caps.lines /\ JoinedBy(s, 1) <= caps.bytes THEN Whole(s)
    ELSE IF caps.bytes < Marker \/ caps.lines = 1 THEN Replaced(AtMost(Marker, caps.bytes))
    ELSE cut

\* The Pi extension takes the tail from its first line on.
CapResult(s, caps) ==
    LET available == caps.bytes - Marker - 2
        head == Collect(s, HeadCount(caps), available \div 2)
        from == TailFrom(s, head, TailCount(caps))
        tail == Collect(LastOf(s, Len(s) - from), TailCount(caps),
                        available - JoinedBy(FirstOf(s, head), 1))
    IN  CapWith(s, caps, Ends(s, head, from, tail))

\* The plugin takes it from the last line back.
PluginCapResult(s, caps) ==
    LET available == AtLeast0(caps.bytes - Marker - 2)
        head == Collect(s, HeadCount(caps), available \div 2)
        last == Reverse(LastOf(s, Len(s) - TailFrom(s, head, TailCount(caps))))
        tail == Collect(last, TailCount(caps), available - JoinedBy(FirstOf(s, head), 1))
    IN  CapWith(s, caps, Ends(s, head, Len(s) - tail, tail))

-----------------------------------------------------------------------------
(* conversationEntry and selectRecentEntries *)

\* What an entry of the branch becomes.  A tool policy of summary or exclude puts a notice
\* in place of a result or a call's arguments.
EntryLength(e, caps) ==
    Label + (IF e.role = "user" \/ e.policy = "full"
             THEN (IF e.role = "result" THEN CapResult(e.lines, caps).bytes ELSE JoinedBy(e.lines, 1))
             ELSE Notice)

Entries(caps) == [i \in DOMAIN items |-> EntryLength(items[i], caps)]

\* One entry is "entry", others are "entries".
OmissionMarker(n) == Older + (IF n = 1 THEN 0 ELSE 2)
Between == 2

\* Mutant: the marker is left out of the count.
MutantRecent(e, max) ==
    LongestRun(Len(e), LAMBDA k : JoinedBy(LastOf(e, k), Between) <= max)

\* How many of the newest entries are selected.
Recent(e, max) ==
    LongestRun(Len(e), LAMBDA k :
        OmissionMarker(Len(e) - k) + Between + JoinedBy(LastOf(e, k), Between) <= max)

\* The text that is selected: its length and how many entries are in it whole.
SelectRecent(e, max) ==
    IF max = 0 THEN [length |-> 0, whole |-> 0, marked |-> 0]
    ELSE IF JoinedBy(e, Between) <= max
    THEN [length |-> JoinedBy(e, Between), whole |-> Len(e), marked |-> 0]
    ELSE LET k == IF Len(e) = 1 THEN 0 ELSE Recent(e, max)
             omitted == Len(e) - (IF k = 0 THEN 1 ELSE k)
             mark == IF Len(e) = 1 THEN 0 ELSE OmissionMarker(omitted) + Between
             prefix == mark + Newest + Between
         IN [length |-> IF k > 0 THEN mark + JoinedBy(LastOf(e, k), Between)
                        ELSE AtMost(max, prefix + AtMost(e[Len(e)], AtLeast0(max - prefix))),
             whole |-> k, marked |-> omitted]

-----------------------------------------------------------------------------
(* readFiles, for the untracked and then for the tracked files *)

\* Mutant: a file may fill its own limit whatever the others took.
MutantTaken(f, total) == AtMost(f.size, FileMax)

\* What is read of a file when total was read before it.  A file that is refused or asked
\* for twice counts for nothing.
Taken(f, total) == AtMost(f.size, AtMost(FileMax, AtLeast0(FilesTotal - total)))

Attached ==
    LET total[n \in 0..Len(files)] ==
        IF n = 0 THEN 0
        ELSE total[n - 1] + (IF files[n].allowed THEN Taken(files[n], total[n - 1]) ELSE 0)
    IN total

-----------------------------------------------------------------------------
(* escapeRepositoryText *)

\* A & is sent as five characters, < and > as four.
EscapesAdd(markup) == 4 * markup.ands + 3 * markup.angles
Escaped(n, markup) == n + EscapesAdd(markup)

\* What markup a text of length n may hold.
MarkupIn(n) == {m \in Markups : m.ands + m.angles <= n}

-----------------------------------------------------------------------------
(* assembleConsultationContext *)

\* advisorGitContextBudget.
GitBudget(context, git) == AtMost(git, context \div 2)

\* capRepositoryContext, with changes of length n.
\* The notice that it was cut is within the limit, cut itself where it must be.
CapRepository(n, max) == AtMost(n, max)

WithNote(payload) == changes.note + payload + (IF changes.note > 0 /\ payload > 0 THEN Between ELSE 0)

\* Mutant: the changes are cut before they are escaped.
MutantChangeText(max) == WithNote(Escaped(CapRepository(changes.text, max), changes.markup))

\* advisorRepositoryContext: the note, where there is something to explain, and the changes,
\* which are escaped before they are cut.
ChangeText(max) == WithNote(CapRepository(Escaped(changes.text, changes.markup), max))

\* Mutant: the changes come on top of the conversation.
MutantConversationBudget(context, git) == context

ConversationBudget(context, git) == AtLeast0(context - ChangeText(GitBudget(context, git)))

\* What is sent of a context: the conversation is escaped after it was cut.
Sent(selected, git, markup) ==
    [conversation |-> Escaped(selected.length, markup), changes |-> ChangeText(git)]

\* advisorMessageText.
PiContext(e, context, git, markup) ==
    Sent(SelectRecent(e, ConversationBudget(context, git)), GitBudget(context, git), markup)

\* assembleAdvisorContext of the plugin: the changes come on top of the conversation.
PluginContext(e, context, git, markup) ==
    Sent(SelectRecent(e, context), GitBudget(context, git), markup)

-----------------------------------------------------------------------------

AddLine(n) ==
    /\ Len(resultLines) < MaxLinesOf /\ items = <<>> /\ files = <<>>
    /\ resultLines' = Append(resultLines, n)
    /\ UNCHANGED <<items, files, changes>>

\* A message without text becomes no entry.
AddMessage(n) ==
    /\ Len(items) < MaxItems /\ resultLines = <<>> /\ files = <<>>
    /\ items' = IF n = 0 THEN items
                ELSE Append(items, [role |-> "user", policy |-> "full", lines |-> <<n>>])
    /\ UNCHANGED <<resultLines, files, changes>>

\* The result is entered in the branch.
AddResult(policy) ==
    /\ Len(items) < MaxItems /\ resultLines # <<>> /\ files = <<>>
    /\ items' = Append(items, [role |-> "result", policy |-> policy, lines |-> resultLines])
    /\ resultLines' = <<>>
    /\ UNCHANGED <<files, changes>>

AskFor(f) ==
    /\ Len(files) < MaxItems /\ items = <<>> /\ resultLines = <<>>
    /\ files' = Append(files, f)
    /\ UNCHANGED <<resultLines, items, changes>>

DisInit == resultLines = <<>> /\ items = <<>> /\ files = <<>> /\ changes \in Changes

DisNext ==
    \/ \E n \in LineLengths : AddLine(n)
    \/ \E n \in TextLengths : AddMessage(n)
    \/ \E policy \in {"full", "summary", "exclude"} : AddResult(policy)
    \/ \E n \in FileLengths, ok \in BOOLEAN : AskFor([size |-> n, allowed |-> ok])

DisSpec == DisInit /\ [][DisNext]_disVars

-----------------------------------------------------------------------------
(* Properties *)

\* A result keeps its limits, whether it is kept whole, by its ends or replaced, and is
\* cut for a reason; its head and tail do not overlap.  Where a limit is zero, what stands
\* for the result is longer: the text that says so, or the one line of the marker.
ResultIsCapped(r, caps) ==
    LET shownLines == CASE r.kept = "all"  -> Len(resultLines)
                        [] r.kept = "none" -> 1
                        [] r.kept = "ends" -> r.head + 1 + r.tail
    IN /\ \/ r.bytes <= caps.bytes
          \/ r = Replaced(Zero) /\ (caps.lines = 0 \/ caps.bytes = 0)
       /\ \/ shownLines <= caps.lines
          \/ caps.lines = 0 /\ shownLines = 1 /\ r.head + r.tail = 0
       /\ r.head <= r.from /\ r.from + r.tail <= Len(resultLines)
       /\ r.kept # "all" => Len(resultLines) > caps.lines \/ JoinedBy(resultLines, 1) > caps.bytes

\* The branch keeps its limit; it never claims to have omitted nothing.
BranchIsCapped(e, max) ==
    LET s == SelectRecent(e, max)
    IN /\ s.length <= max
       /\ e # <<>> /\ max > 0 /\ s.whole < Len(e) =>
             /\ s.whole > 0 => s.marked = Len(e) - s.whole
             /\ JoinedBy(e, Between) > max

\* The changes have at most half of the limit, exactly, but for the note.  With the
\* conversation they have no more than it, but for what escaping adds.
ContextIsShared(e, max, git) ==
    LET budget == ConversationBudget(max, git)
        text == ChangeText(GitBudget(max, git))
    IN /\ BranchIsCapped(e, budget)
       /\ text <= changes.note + Between + max \div 2
       /\ \A m \in MarkupIn(SelectRecent(e, budget).length) :
             LET sent == PiContext(e, max, git, m)
             IN sent.changes + sent.conversation
                    <= (IF text > max THEN text ELSE max) + EscapesAdd(m)

\* In the plugin the conversation alone has the limit, but for what escaping adds.
PluginContextIsCapped(e, max, git) ==
    \A m \in MarkupIn(SelectRecent(e, max).length) :
       LET sent == PluginContext(e, max, git, m)
       IN /\ sent.conversation <= max + EscapesAdd(m) /\ sent.conversation <= 5 * max
          /\ sent.changes <= changes.note + Between + max \div 2

(***************************************************************************)
(* What is selected of a session keeps every limit, at every edge of the   *)
(* limits: lines and bytes of a result, characters of a branch, bytes of   *)
(* the files in whatever order and number they are asked for, and the      *)
(* limit the conversation shares with the changes, which in the plugin are *)
(* two; nothing is kept twice, cut without need or said to be left out     *)
(* that is not.  Three things come on top of the limits, and no others:    *)
(* what escaping adds to the conversation, which is at most its length     *)
(* four times, the note about the changes, and the text in place of a      *)
(* result whose limit is zero.  The changes, escaped before they are cut,  *)
(* keep theirs exactly, as src/tools/prompts.ts:28 says.  (A plugin's      *)
(* limit within a byte of the marker's length is passed by lines that are  *)
(* empty.  Files are limited as they are read, before they are escaped.)   *)
(***************************************************************************)
LimitsAreKept ==
    /\ Attached[Len(files)] <= FilesTotal
    /\ \A caps \in ResultCaps :
          /\ resultLines # <<>> =>
                /\ ResultIsCapped(CapResult(resultLines, caps), caps)
                /\ caps.bytes - Marker \notin {0, 1} =>
                       ResultIsCapped(PluginCapResult(resultLines, caps), caps)
          /\ items # <<>> => LET e == Entries(caps) IN
                \A max \in ContextLimits, git \in GitLimits :
                   ContextIsShared(e, max, git) /\ PluginContextIsCapped(e, max, git)
=============================================================================
