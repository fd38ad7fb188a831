----------------------------- MODULE StoredRuns -----------------------------
(***************************************************************************)
(* run_stored over InMemoryConversationStore: concurrent tasks load a      *)
(* conversation, run the harness on it, and save the result, while the     *)
(* application saves and deletes conversations of its own.                 *)
(*                                                                         *)
(* The harness is one step with any outcome: module Harness says what it   *)
(* does with the state it is given.  Here a state is the sequence of the   *)
(* tasks whose runs made it, and a size.  A store operation is one step:   *)
(* load, delete and the second check of save hold the store's lock, and    *)
(* the first check of save reads nothing that can change.                  *)
(***************************************************************************)
EXTENDS Integers, Sequences, FiniteSets, SequencesExt

CONSTANTS
    Tasks,             \* invocations of run_stored
    Keys,              \* conversation keys
    KeyOf,             \* the key of each task
    NoState,           \* what load returns for an unknown key
    Sizes,             \* sizes a state can have
    SizeLimit,         \* the store's limit for one state
    MaxConversations   \* the store's capacity

ASSUME StoreAssumption ==
    /\ IsFiniteSet(Keys)
    /\ KeyOf \in [Tasks -> Keys]
    /\ Sizes \subseteq Nat
    /\ SizeLimit \in Nat
    /\ MaxConversations \in Nat \ {0}
    /\ NoState \notin [runs : Seq(Tasks), size : Sizes]

VARIABLES
    states,    \* the store: a state or NoState for every key
    pc,        \* where each task is
    loaded,    \* the state each task has loaded
    updated,   \* the state each task's run has returned
    outcome,   \* how each task ended
    discarded, \* history: tasks whose result the application deleted or replaced
    deleted,   \* history: tasks whose conversation it deleted while they ran
    overtaken  \* history: pairs of a task in flight and one that saved meanwhile

vars == <<states, pc, loaded, updated, outcome, discarded, deleted, overtaken>>
history == <<discarded, deleted, overtaken>>

Init ==
    /\ states = [k \in Keys |-> NoState]
    /\ pc = [t \in Tasks |-> "load"]
    /\ loaded = [t \in Tasks |-> NoState]
    /\ updated = [t \in Tasks |-> NoState]
    /\ outcome = [t \in Tasks |-> "none"]
    /\ discarded = {}
    /\ deleted = {}
    /\ overtaken = {}

StoredKeys == {k \in Keys : states[k] # NoState}

\* Fault: a full store refuses the new state of a stored conversation too.
HasRoomForNewKey(k) == Cardinality(StoredKeys) < MaxConversations

\* save refuses a new key when the store is at its capacity; it evicts nothing.
HasRoom(k) == k \in StoredKeys \/ Cardinality(StoredKeys) < MaxConversations

Runs(state) == IF state = NoState THEN {} ELSE ToSet(state.runs)

\* The tasks of a key that have loaded and not saved.
InFlight(k) == {u \in Tasks : KeyOf[u] = k /\ pc[u] \in {"run", "save"}}

Finish(t, result) ==
    /\ pc' = [pc EXCEPT ![t] = "done"]
    /\ outcome' = [outcome EXCEPT ![t] = result]

-----------------------------------------------------------------------------
\* The application.

\* It saves a new state of its own: it starts a conversation or starts one over.
Create(k, size) ==
    /\ size <= SizeLimit
    /\ HasRoom(k)
    /\ states' = [states EXCEPT ![k] = [runs |-> <<>>, size |-> size]]
    /\ discarded' = discarded \cup Runs(states[k])
    /\ UNCHANGED <<pc, loaded, updated, outcome, deleted, overtaken>>

Delete(k) ==
    /\ k \in StoredKeys
    /\ states' = [states EXCEPT ![k] = NoState]
    /\ discarded' = discarded \cup Runs(states[k])
    /\ deleted' = deleted \cup InFlight(k)
    /\ UNCHANGED <<pc, loaded, updated, outcome, overtaken>>

-----------------------------------------------------------------------------
\* run_stored.

Load(t) ==
    /\ pc[t] = "load"
    /\ loaded' = [loaded EXCEPT ![t] = states[KeyOf[t]]]
    /\ \/ /\ KeyOf[t] \in StoredKeys
          /\ pc' = [pc EXCEPT ![t] = "run"]
          /\ UNCHANGED outcome
       \/ /\ KeyOf[t] \notin StoredKeys
          /\ Finish(t, "not found")
    /\ UNCHANGED <<states, updated, history>>

\* harness.run returns: its own messages added, older ones perhaps reduced away.
RunReturns(t, size) ==
    /\ pc[t] = "run"
    /\ updated' = [updated EXCEPT ![t] =
                      [runs |-> Append(loaded[t].runs, t), size |-> size]]
    /\ pc' = [pc EXCEPT ![t] = "save"]
    /\ UNCHANGED <<states, loaded, outcome, history>>

\* harness.run raises or is cancelled.
RunFails(t) ==
    /\ pc[t] = "run"
    /\ Finish(t, "run failed")
    /\ UNCHANGED <<states, loaded, updated, history>>

\* Fault: save adds the run to what is stored instead of replacing it.
SaveMerges(t) ==
    /\ pc[t] = "save"
    /\ updated[t].size <= SizeLimit
    /\ KeyOf[t] \in StoredKeys
    /\ states' = [states EXCEPT ![KeyOf[t]].runs = Append(@, t)]
    /\ Finish(t, "ok")
    /\ overtaken' = overtaken \cup ((InFlight(KeyOf[t]) \ {t}) \X {t})
    /\ UNCHANGED <<loaded, updated, discarded, deleted>>

\* Fault: save keeps a state that is already there.
SaveKeepsStored(t) ==
    /\ pc[t] = "save"
    /\ updated[t].size <= SizeLimit
    /\ HasRoom(KeyOf[t])
    /\ states' = IF KeyOf[t] \in StoredKeys THEN states
                 ELSE [states EXCEPT ![KeyOf[t]] = updated[t]]
    /\ Finish(t, "ok")
    /\ overtaken' = overtaken \cup ((InFlight(KeyOf[t]) \ {t}) \X {t})
    /\ UNCHANGED <<loaded, updated, discarded, deleted>>

Save(t) ==
    /\ pc[t] = "save"
    /\ updated[t].size <= SizeLimit
    /\ HasRoom(KeyOf[t])
    /\ states' = [states EXCEPT ![KeyOf[t]] = updated[t]]
    /\ Finish(t, "ok")
    /\ overtaken' = overtaken \cup ((InFlight(KeyOf[t]) \ {t}) \X {t})
    /\ UNCHANGED <<loaded, updated, discarded, deleted>>

SaveTooLarge(t) ==
    /\ pc[t] = "save"
    /\ updated[t].size > SizeLimit
    /\ Finish(t, "too large")
    /\ UNCHANGED <<states, loaded, updated, history>>

SaveFull(t) ==
    /\ pc[t] = "save"
    /\ updated[t].size <= SizeLimit
    /\ ~HasRoom(KeyOf[t])
    /\ Finish(t, "full")
    /\ UNCHANGED <<states, loaded, updated, history>>

-----------------------------------------------------------------------------
TaskStep(t) ==
    \/ Load(t)
    \/ \E size \in Sizes : RunReturns(t, size)
    \/ RunFails(t)
    \/ Save(t) \/ SaveTooLarge(t) \/ SaveFull(t)

Next ==
    \/ \E t \in Tasks : TaskStep(t)
    \/ \E k \in Keys, size \in Sizes : Create(k, size)
    \/ \E k \in Keys : Delete(k)

Spec == Init /\ [][Next]_vars

-----------------------------------------------------------------------------
\* A task loses its finished run to the capacity limit only if the application has
\* deleted the conversation since the task loaded it: nothing else, however many
\* conversations come and go meanwhile, costs a loaded conversation its place.
FullOnlyAfterDelete == \A t \in Tasks : outcome[t] = "full" => t \in deleted

\* A stored conversation is a line of successful runs of its own key, each run on
\* exactly the state the one before it saved: concurrent saves replace one another
\* and are never mixed, and a failed run leaves nothing behind.
StoredIsLineage ==
    \A k \in StoredKeys :
        LET runs == states[k].runs IN
        \A i \in DOMAIN runs :
            /\ KeyOf[runs[i]] = k
            /\ outcome[runs[i]] = "ok"
            /\ loaded[runs[i]].runs = SubSeq(runs, 1, i - 1)

\* run_stored does not detect a lost update, and this is when one can happen: a
\* saved run is missing from the store only if the application dropped it, or if a
\* run that had loaded the conversation before it was saved replaced it.
LostOnlyToOverlap ==
    \A t \in Tasks :
        outcome[t] = "ok" =>
            \/ t \in Runs(states[KeyOf[t]])
            \/ t \in discarded
            \/ \E u \in Tasks : outcome[u] = "ok" /\ <<u, t>> \in overtaken
=============================================================================
