-------------------------- MODULE ConversationScan --------------------------
(***************************************************************************)
(* The two loops behind module Conversation, step by step: the scan of     *)
(* _conversation_groups, which either splits a sequence of messages into   *)
(* groups or raises InvalidConversationError, and the newest-first loop of *)
(* prune_messages over those groups.  The properties compare what the      *)
(* loops compute with the definitions of Conversation, which describe the  *)
(* same results without a loop.                                            *)
(***************************************************************************)
EXTENDS Conversation

CONSTANTS
    Inputs,     \* the sequences of messages to scan
    LimitsSet   \* the context limits to prune them to

ASSUME ScanAssumption ==
    /\ Inputs \subseteq Seq(Message)
    /\ LimitsSet \subseteq [messages : Nat, bytes : Nat]

VARIABLES
    given,     \* the messages, never changed
    allowed,   \* the limits, never changed
    index,     \* the next message to scan
    groups,    \* the groups found so far
    seen,      \* seen_calls: the tool call IDs found so far
    retained,  \* kept: the messages pruning keeps so far
    position,  \* the number of groups pruning has looked at, newest first
    place      \* "prefix", "scan", "prune", or how the function ended

loops == <<given, allowed, index, groups, seen, retained, position, place>>

ScanInit ==
    /\ given \in Inputs
    /\ allowed \in LimitsSet
    /\ index = 1
    /\ groups = <<>>
    /\ seen = {}
    /\ retained = <<>>
    /\ position = 0
    /\ place = "prefix"

Reject ==
    /\ place' = "invalid"
    /\ UNCHANGED <<given, allowed, index, groups, seen, retained, position>>

-----------------------------------------------------------------------------
\* The scan of _conversation_groups.

ScanPrefix ==
    /\ place = "prefix"
    /\ index <= Len(given) /\ given[index].role = "system"
    /\ index' = index + 1
    /\ UNCHANGED <<given, allowed, groups, seen, retained, position, place>>

LaterSystemMessage == \E i \in index .. Len(given) : given[i].role = "system"

EndPrefix ==
    /\ place = "prefix"
    /\ ~(index <= Len(given) /\ given[index].role = "system")
    /\ ~LaterSystemMessage
    /\ groups' = IF index > 1 THEN <<SubSeq(given, 1, index - 1)>> ELSE <<>>
    /\ place' = "scan"
    /\ UNCHANGED <<given, allowed, index, seen, retained, position>>

RejectSystemMessage ==
    /\ place = "prefix"
    /\ ~(index <= Len(given) /\ given[index].role = "system")
    /\ LaterSystemMessage
    /\ Reject

Scanning(role) == place = "scan" /\ index <= Len(given) /\ given[index].role = role

AddGroup(width) ==
    /\ groups' = Append(groups, SubSeq(given, index, index + width - 1))
    /\ index' = index + width
    /\ UNCHANGED <<given, allowed, retained, position, place>>

ScanUser ==
    /\ Scanning("user")
    /\ given[index].results = <<>>
    /\ AddGroup(1)
    /\ UNCHANGED seen

RejectOrphanResult == Scanning("user") /\ given[index].results # <<>> /\ Reject

\* The IDs are checked one by one, against earlier messages and this one.
FreshCallIds ==
    \A i \in DOMAIN given[index].calls :
        /\ given[index].calls[i] \notin seen
        /\ \A j \in 1 .. i - 1 : given[index].calls[j] # given[index].calls[i]

ScanText ==
    /\ Scanning("assistant")
    /\ given[index].calls = <<>>
    /\ AddGroup(1)
    /\ UNCHANGED seen

RejectReusedCallId == Scanning("assistant") /\ ~FreshCallIds /\ Reject

HasResult == index < Len(given) /\ given[index + 1].role = "user"

\* Fault: the IDs of a batch are not remembered.
ScanCallForgetsIds ==
    /\ Scanning("assistant")
    /\ given[index].calls # <<>>
    /\ FreshCallIds
    /\ HasResult
    /\ given[index + 1].results = given[index].calls
    /\ AddGroup(2)
    /\ UNCHANGED seen

ScanCall ==
    /\ Scanning("assistant")
    /\ given[index].calls # <<>>
    /\ FreshCallIds
    /\ HasResult
    /\ given[index + 1].results = given[index].calls
    /\ AddGroup(2)
    /\ seen' = seen \cup ToSet(given[index].calls)

RejectResults ==
    /\ Scanning("assistant")
    /\ given[index].calls # <<>>
    /\ FreshCallIds
    /\ HasResult => given[index + 1].results # given[index].calls
    /\ Reject

-----------------------------------------------------------------------------
\* The loop of prune_messages.

HasPrefix(gs)  == gs # <<>> /\ \A i \in DOMAIN gs[1] : gs[1][i].role = "system"
Prefix         == IF HasPrefix(groups) THEN groups[1] ELSE <<>>
Candidates     == IF HasPrefix(groups) THEN Tail(groups) ELSE groups

StartPrune ==
    /\ place = "scan" /\ index > Len(given)
    /\ place' = IF WithinLimits(Prefix, allowed) THEN "prune" ELSE "prefix too large"
    /\ retained' = Prefix
    /\ UNCHANGED <<given, allowed, index, groups, seen, position>>

Candidate == Candidates[Len(Candidates) - position]

Proposed == Prefix \o Candidate \o SubSeq(retained, Len(Prefix) + 1, Len(retained))

KeepCandidate ==
    /\ place = "prune" /\ position < Len(Candidates)
    /\ WithinLimits(Proposed, allowed)
    /\ retained' = Proposed
    /\ position' = position + 1
    /\ UNCHANGED <<given, allowed, index, groups, seen, place>>

\* Fault: any exchange that does not fit is an error, not only the newest one.
EndPruneInError ==
    /\ place = "prune"
    /\ position < Len(Candidates) => ~WithinLimits(Proposed, allowed)
    /\ place' = IF position < Len(Candidates) THEN "newest too large" ELSE "pruned"
    /\ UNCHANGED <<given, allowed, index, groups, seen, retained, position>>

\* Fault: the loop stops after its first exchange.
EndPruneAfterNewest ==
    /\ place = "prune"
    /\ position = 1 \/ position = Len(Candidates)
    /\ place' = "pruned"
    /\ UNCHANGED <<given, allowed, index, groups, seen, retained, position>>

EndPrune ==
    /\ place = "prune"
    /\ position < Len(Candidates) => ~WithinLimits(Proposed, allowed)
    /\ place' = IF position < Len(Candidates) /\ position = 0
             THEN "newest too large" ELSE "pruned"
    /\ UNCHANGED <<given, allowed, index, groups, seen, retained, position>>

-----------------------------------------------------------------------------
Scan ==
    \/ ScanPrefix \/ EndPrefix \/ RejectSystemMessage
    \/ ScanUser \/ RejectOrphanResult
    \/ ScanText \/ RejectReusedCallId \/ ScanCall \/ RejectResults

Prune == StartPrune \/ KeepCandidate \/ EndPrune

ScanNext == Scan \/ Prune

ScanSpec == ScanInit /\ [][ScanNext]_loops

-----------------------------------------------------------------------------
\* The scan rejects exactly the sequences that break the order of messages or
\* reuse a tool call ID, wherever in the sequence the fault is: an earlier
\* message that the scan has consumed cannot hide a later one.
ScanDecides ==
    /\ place = "invalid" => ~IsConversation(given)
    /\ place \in {"prune", "prefix too large"} => IsConversation(given)

\* The newest-first loop ends with what module Conversation says pruning
\* returns, and raises exactly when that module says it cannot prune.
PruneDecides ==
    /\ place = "pruned" => CanPrune(given, allowed) /\ retained = Pruned(given, allowed)
    /\ place \in {"invalid", "prefix too large", "newest too large"} =>
          ~CanPrune(given, allowed)

\* Pruning keeps as much as fits: no longer run of exchanges that ends at the
\* newest one is within the limits, and pruning the result changes nothing.
PruneIsMaximal ==
    place = "pruned" =>
        /\ \A s \in ExchangeStarts(given) :
              WithinLimits(KeepFrom(given, s), allowed) =>
                  Len(KeepFrom(given, s)) <= Len(retained)
        /\ retained = Pruned(retained, allowed)
=============================================================================
