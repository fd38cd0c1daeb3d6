----------------------------- MODULE ScoutContext -----------------------------
(***************************************************************************)
(* What Scout is offered and what becomes of its answer: the entries of a  *)
(* branch are indexed and grouped (src/scout-protocol.ts,                  *)
(* src/scout-groups.ts), the groups fitted to the limits of the manifest   *)
(* (src/scout-context.ts), the selection completed (src/scout.ts) and the  *)
(* conversation put together again (src/scout-reconstruct.ts).             *)
(*                                                                         *)
(* The branch grows as a session's does.  A content is its length; what a  *)
(* tool policy or the caps of a result leave of it is in Disclosure.       *)
(***************************************************************************)
EXTENDS Integers, Sequences, FiniteSets, Totals

CONSTANTS
    Alphabet,       \* the entries a branch may have
    MaxEntries,     \* entries of a branch
    Invocations,    \* currentInvocationId: a call of the branch, or NoId
    ScoutCaps,      \* limits of the manifest
    SelectionMax,   \* SCOUT_SELECTION_MAX_IDS
    Wrapper,        \* bytes groupWireBytes adds to a content
    NoId            \* a missing identifier

\* role, whether there is text, the calls of an assistant, the call and tool of a result.
Entry == [role: {"user", "assistant", "result", "compaction"}, size: Nat,
          calls: Seq([id: STRING \cup {NoId}, name: STRING]), of: [id: STRING \cup {NoId}, name: STRING]]

ASSUME ScoutContextAssumption ==
    /\ MaxEntries \in Nat /\ SelectionMax \in Nat \ {0, 1} /\ Wrapper \in Nat
    /\ \A c \in ScoutCaps : c \in [group: Nat, groups: Nat, bytes: Nat, chars: Nat]
    /\ \A e \in Alphabet : e.size \in Nat

VARIABLES
    branch,       \* the entries
    invocation    \* the call Scout runs for

ctxVars == <<branch, invocation>>

Sep == 2          \* the blank line between two parts

-----------------------------------------------------------------------------
(* indexToolCalls: who made a call, where its results are *)

Idx == DOMAIN branch
IsCaller(i) == branch[i].role = "assistant" /\ branch[i].calls # <<>>
CallIds(i) == {branch[i].calls[n].id : n \in DOMAIN branch[i].calls}
Owners(k) == {i \in Idx : branch[i].role = "assistant" /\ k \in CallIds(i)}
Results(k) == {i \in Idx : branch[i].role = "result" /\ branch[i].of.id = k}
Owned(k) == Owners(k) # {}

\* The last user message with text.
LatestUser ==
    LET users == {i \in Idx : branch[i].role = "user" /\ branch[i].size > 0} IN
    IF users = {} THEN 0 ELSE CHOOSE i \in users : \A j \in users : j <= i

\* A call without an identifier or with one that was used, a result without one, two
\* results of a call.
BadIndex ==
    \/ \E i \in Idx : IsCaller(i) /\
          \/ NoId \in CallIds(i)
          \/ Cardinality(CallIds(i)) < Len(branch[i].calls)
          \/ \E k \in CallIds(i) : Owners(k) # {i}
    \/ \E i \in Idx : branch[i].role = "result" /\ branch[i].of.id = NoId
    \/ \E i \in Idx : branch[i].role = "result" /\ Results(branch[i].of.id) # {i}

\* buildGroups refuses: a result before its call or of another tool, a result of no call
\* where one of the calls just made is due.
BadGroups ==
    \/ \E i \in Idx : IsCaller(i) /\
          \E n \in DOMAIN branch[i].calls : \E r \in Results(branch[i].calls[n].id) :
              r <= i \/ branch[r].of.name # branch[i].calls[n].name
    \/ \E i \in Idx : /\ IsCaller(i) /\ i + 1 \in Idx /\ branch[i + 1].role = "result"
                      /\ ~Owned(branch[i + 1].of.id)

InvalidProtocol == BadIndex \/ BadGroups

-----------------------------------------------------------------------------
(* buildGroups *)

\* conversationEntry has something to show.
Disclosed(i) == branch[i].size > 0 \/ IsCaller(i) \/ branch[i].role \in {"result", "compaction"}

Missing(i) == {k \in CallIds(i) : Results(k) = {}}

\* The one call without a result is the call Scout runs for.
IsPending(i) == IsCaller(i) /\ Missing(i) = {invocation}

\* Mutant: an exchange that lacks results is offered like a complete one.
MutantOffers(i) == Disclosed(i) /\ branch[i].role # "result"

\* A group begins at entry i.  Calls that lack results are left out, as are results
\* without their calls.
Offers(i) ==
    /\ Disclosed(i)
    /\ branch[i].role # "result"
    /\ IsCaller(i) => Missing(i) = {} \/ IsPending(i)

\* The entries of the group that begins at i: a message, or calls and their results.
Members(i) == {i} \cup (IF IsCaller(i) THEN UNION {Results(k) : k \in CallIds(i)} ELSE {})

\* What protocolOmittedCount counts: exchanges that lack results, results without calls.
OmittedByProtocol ==
    {i \in Idx : Disclosed(i) /\ ~Offers(i)
                 /\ (branch[i].role = "result" => ~Owned(branch[i].of.id))}

Chars(S) == LET n == Cardinality(S) IN
            TotalOf(S, [i \in Idx |-> branch[i].size]) + (IF n = 0 THEN 0 ELSE (n - 1) * Sep)
Bytes(i) == Chars(Members(i))
Required(i) == i = LatestUser \/ IsPending(i)

Groups == {i \in Idx : Offers(i)}
RequiredGroups == {i \in Groups : Required(i)}

-----------------------------------------------------------------------------
(* fitToBudget *)

WireBytes(S) == TotalOf(S, [i \in Idx |-> Bytes(i) + Wrapper])
ContentChars(S) == TotalOf(S, [i \in Idx |-> Bytes(i)])
                   + (IF S = {} THEN 0 ELSE (Cardinality(S) - 1) * Sep)

Fits(S, caps) == /\ Cardinality(S) <= caps.groups
                 /\ WireBytes(S) <= caps.bytes
                 /\ ContentChars(S) <= caps.chars

\* requiredOverflow, where there is room for a manifest at all.
Overflow(caps) ==
    caps.bytes > 0 /\ ( \/ \E i \in RequiredGroups : Bytes(i) > caps.group
                        \/ ~Fits(RequiredGroups, caps) )

Candidates(caps) == {i \in Groups : Required(i) \/ Bytes(i) <= caps.group}
Optional(S) == {i \in S : ~Required(i)}

\* Mutant: the newest optional groups are dropped first.
MutantWithout(S, n) ==
    S \ {i \in Optional(S) : Cardinality({j \in Optional(S) : j > i}) < n}

\* S without its n oldest optional groups.
Without(S, n) == S \ {i \in Optional(S) : Cardinality({j \in Optional(S) : j < i}) < n}

\* The loop drops the oldest optional group until the rest fits.
Manifest(caps) ==
    IF caps.bytes = 0 THEN {}
    ELSE LET S == Candidates(caps)
             fitting == {n \in 0..Cardinality(Optional(S)) : Fits(Without(S, n), caps)}
         IN Without(S, CHOOSE n \in fitting : \A m \in fitting : n <= m)

OmittedCount(caps) == Cardinality(Groups \ Manifest(caps)) + Cardinality(OmittedByProtocol)

-----------------------------------------------------------------------------
(* parseScoutSelection and reconstructScoutConversation *)

\* An answer names groups of the manifest and of nowhere (0), none twice.
AnswersFor(M) == {s \in UNION {[1..n -> M \cup {0}] : n \in 0..2} :
                     \A a, b \in DOMAIN s : s[a] = s[b] => a = b}

\* The optional groups of answer s, in its order, as many as there is room for.
Wanted(M, s) == {n \in DOMAIN s : s[n] \in M /\ ~Required(s[n])}
Chosen(M, s) ==
    LET room == SelectionMax - Cardinality({i \in M : Required(i)})
    IN {s[n] : n \in {m \in Wanted(M, s) : Cardinality({l \in Wanted(M, s) : l < m}) < room}}

\* Mutant: only what the answer names is kept.
MutantSelection(M, s) == {s[n] : n \in DOMAIN s} \cap M

Selection(M, s) == {i \in M : Required(i)} \cup Chosen(M, s)

KeepsSynthesis(M, s) == \E n \in DOMAIN s : s[n] \in M

\* The length of the conversation, with a synthesis of length y: evidence first, cut to
\* the limit, then what fits of the synthesis.
ConversationChars(sel, y, limit) ==
    LET evidence == ContentChars(sel)
        sep == IF evidence = 0 THEN 0 ELSE Sep
    IN IF evidence >= limit THEN limit
       ELSE IF y = 0 \/ evidence + sep >= limit THEN evidence
       ELSE IF evidence + sep + y < limit THEN evidence + sep + y ELSE limit

-----------------------------------------------------------------------------

CtxInit == branch = <<>> /\ invocation \in Invocations

\* A branch that was refused stays refused.
AppendEntry(e) ==
    /\ Len(branch) < MaxEntries /\ ~InvalidProtocol
    /\ branch' = Append(branch, e)
    /\ UNCHANGED invocation

CtxNext == \E e \in Alphabet : AppendEntry(e)

CtxSpec == CtxInit /\ [][CtxNext]_ctxVars

-----------------------------------------------------------------------------
(* Properties *)

(***************************************************************************)
(* Unless the manifest is refused, the last request of the user and the    *)
(* pending Advisor call are in it, in every selection and in the           *)
(* conversation, whatever the answer names; the manifest is within its     *)
(* limits and is short of newer groups only when it has no older optional  *)
(* ones; the selection within SCOUT_SELECTION_MAX_IDS and the conversation *)
(* within the budget.                                                      *)
(***************************************************************************)
RequiredIsKept ==
    ~InvalidProtocol => \A caps \in ScoutCaps :
        caps.bytes > 0 /\ ~Overflow(caps) =>
            LET M == Manifest(caps) IN
            /\ RequiredGroups \subseteq M /\ Fits(M, caps)
            /\ \A i \in Optional(M), j \in Optional(Candidates(caps)) : j > i => j \in M
            /\ \A s \in AnswersFor(M) :
                  LET sel == Selection(M, s) IN
                  /\ RequiredGroups \subseteq sel /\ Cardinality(sel) <= SelectionMax
                  /\ \A y \in {0, 5} : ConversationChars(sel, y, caps.chars)
                                           \in ContentChars(sel)..caps.chars

(***************************************************************************)
(* A tool call and its results stay together: every entry that has         *)
(* something to show is in exactly one group or is counted as omitted, and *)
(* a call is never offered without all its results but the pending one.    *)
(***************************************************************************)
ExchangesAreWhole ==
    ~InvalidProtocol =>
        /\ \A i, j \in Groups : i # j => Members(i) \cap Members(j) = {}
        /\ \A i \in Groups : IsCaller(i) =>
              \A k \in CallIds(i) \ {invocation} : Results(k) \cap Members(i) # {}
        /\ \A i \in Idx : Disclosed(i) =>
              \/ \E g \in Groups : i \in Members(g)
              \/ i \in OmittedByProtocol
              \/ \E j \in OmittedByProtocol : IsCaller(j) /\ i \in Members(j)

\* No part of what Scout is shown is torn from what it belongs to.
ContextIsWhole == RequiredIsKept /\ ExchangesAreWhole
=============================================================================
