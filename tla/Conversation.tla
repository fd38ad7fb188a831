---------------------------- MODULE Conversation ----------------------------
(***************************************************************************)
(* Conversations: what opendle.harness accepts as one, how it splits one   *)
(* into exchanges, and how it reduces one to its context limits.           *)
(*                                                                         *)
(* A message keeps what the code tells apart: its role, the IDs of its     *)
(* tool calls (an assistant message) or of its tool results (a user        *)
(* message), and a body.  The body stands for every other part; it has a   *)
(* size and nothing else.                                                  *)
(***************************************************************************)
EXTENDS Integers, Sequences, FiniteSets, SequencesExt

CONSTANTS
    CallIds,    \* IDs a model can give to its tool calls
    Bodies,     \* message payloads
    BodyBytes   \* the encoded JSON size of a message with a given payload

ASSUME BodyBytesAssumption == BodyBytes \in [Bodies -> Nat]

Message == [ role    : {"system", "user", "assistant"},
             results : Seq(CallIds),
             calls   : Seq(CallIds),
             body    : Bodies ]

System(b)        == [role |-> "system", results |-> <<>>, calls |-> <<>>, body |-> b]
User(b)          == [role |-> "user", results |-> <<>>, calls |-> <<>>, body |-> b]
Results(ids, b)  == [role |-> "user", results |-> ids, calls |-> <<>>, body |-> b]
Assistant(ids, b) == [role |-> "assistant", results |-> <<>>, calls |-> ids, body |-> b]

\* A valid answer names every tool call once: AssistantMessage rejects others.
\* Its parts are text and tool calls, so that it holds no results.
IsAnswer(m) ==
    /\ m.role = "assistant"
    /\ m.results = <<>>
    /\ \A i, j \in DOMAIN m.calls : m.calls[i] = m.calls[j] => i = j

IsCall(m)   == m.role = "assistant" /\ m.calls # <<>>
IsResult(m) == m.role = "user" /\ m.results # <<>>

-----------------------------------------------------------------------------
\* The leading system messages.

PrefixLength(ms) ==
    CHOOSE n \in 0 .. Len(ms) :
        /\ \A i \in 1 .. n : ms[i].role = "system"
        /\ n < Len(ms) => ms[n + 1].role # "system"

SystemPrefix(ms) == SubSeq(ms, 1, PrefixLength(ms))

-----------------------------------------------------------------------------
\* The order of messages that a conversation can have.

\* System messages come first, and calls and results come in adjacent pairs.
IsPaired(ms) ==
    /\ \A i \in DOMAIN ms : ms[i].role = "system" => i <= PrefixLength(ms)
    /\ \A i \in DOMAIN ms : IsCall(ms[i]) =>
          /\ i < Len(ms)
          /\ ms[i + 1].role = "user"
          /\ ms[i + 1].results = ms[i].calls
    /\ \A i \in DOMAIN ms : IsResult(ms[i]) => i > 1 /\ IsCall(ms[i - 1])

CallPositions(ms) ==
    UNION { {i} \X DOMAIN ms[i].calls : i \in {k \in DOMAIN ms : ms[k].role = "assistant"} }

\* Fault: the IDs seen are forgotten with each message.
CallIdsUniqueInMessage(ms) ==
    \A p, q \in CallPositions(ms) :
        p[1] = q[1] /\ ms[p[1]].calls[p[2]] = ms[q[1]].calls[q[2]] => p = q

\* No tool call ID occurs twice, in one message or in two.
CallIdsUnique(ms) ==
    \A p, q \in CallPositions(ms) :
        ms[p[1]].calls[p[2]] = ms[q[1]].calls[q[2]] => p = q

\* _conversation_groups accepts the messages.
IsConversation(ms) == IsPaired(ms) /\ CallIdsUnique(ms)

-----------------------------------------------------------------------------
\* Exchanges: one message, or a tool-call message with its result message.

ExchangeStarts(ms) ==
    {i \in PrefixLength(ms) + 1 .. Len(ms) : i = 1 \/ ~IsCall(ms[i - 1])}

\* The position where each group starts: the system prefix is the first one.
GroupStarts(ms) ==
    ExchangeStarts(ms) \cup (IF PrefixLength(ms) > 0 THEN {1} ELSE {})

LastGroup(ms) ==
    LET start == CHOOSE i \in GroupStarts(ms) : \A j \in GroupStarts(ms) : j <= i
    IN  SubSeq(ms, start, Len(ms))

-----------------------------------------------------------------------------
\* Context limits.

\* Compact JSON: two brackets and a comma between messages.
MessageBytes(ms) ==
    IF ms = <<>> THEN 2
    ELSE FoldLeft(LAMBDA total, m : total + BodyBytes[m.body] + 1, 1, ms)

WithinLimits(ms, limits) ==
    /\ Len(ms) <= limits.messages
    /\ MessageBytes(ms) <= limits.bytes

-----------------------------------------------------------------------------
\* Deterministic pruning.

\* The system prefix and the exchanges from position start on.
KeepFrom(ms, start) == SystemPrefix(ms) \o SubSeq(ms, start, Len(ms))

\* The code adds exchanges from the newest to the oldest and stops at the first
\* that does not fit: it keeps a run of exchanges that ends at the newest.
KeptStarts(ms, limits) ==
    {s \in ExchangeStarts(ms) :
        \A t \in ExchangeStarts(ms) : t >= s => WithinLimits(KeepFrom(ms, t), limits)}

\* prune_messages returns and raises no InvalidConversationError.
CanPrune(ms, limits) ==
    /\ IsConversation(ms)
    /\ WithinLimits(SystemPrefix(ms), limits)
    /\ ExchangeStarts(ms) # {} => KeptStarts(ms, limits) # {}

Pruned(ms, limits) ==
    IF ExchangeStarts(ms) = {} THEN SystemPrefix(ms)
    ELSE LET oldest == CHOOSE s \in KeptStarts(ms, limits) :
                           \A t \in KeptStarts(ms, limits) : s <= t
         IN  KeepFrom(ms, oldest)

-----------------------------------------------------------------------------
\* _validate_compaction accepts a compactor's result for the original messages.

\* Fault: the system prefix of the result is not compared.
CompactionMayChangePrefix(original, compacted, limits) ==
    /\ IsConversation(original)
    /\ IsConversation(compacted)
    /\ compacted # <<>>
    /\ WithinLimits(compacted, limits)
    /\ LastGroup(compacted) = LastGroup(original)

\* Fault: the newest exchange of the result is not compared.
CompactionMayDropNewest(original, compacted, limits) ==
    /\ IsConversation(original)
    /\ IsConversation(compacted)
    /\ compacted # <<>>
    /\ WithinLimits(compacted, limits)
    /\ SystemPrefix(compacted) = SystemPrefix(original)

CompactionAccepted(original, compacted, limits) ==
    /\ IsConversation(original)
    /\ IsConversation(compacted)
    /\ compacted # <<>>
    /\ WithinLimits(compacted, limits)
    /\ SystemPrefix(compacted) = SystemPrefix(original)
    /\ LastGroup(compacted) = LastGroup(original)
=============================================================================
