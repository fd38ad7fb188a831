------------------------- MODULE StoredRuns_proofs -------------------------
(***************************************************************************)
(* Theorems about StoredRuns, for any tasks, any finite set of keys, any   *)
(* sizes and any capacity.                                                 *)
(*                                                                         *)
(* The argument.  What a task has loaded was stored, so it is a line of    *)
(* runs that have saved, and they stay it: a task loads before it saves    *)
(* and never loads again.  And whoever has saved on the key of a task in   *)
(* flight is in what this task has loaded, was overtaken by it, or is lost *)
(* already: this decides what a save of the task can lose.  A conversation *)
(* in a task's hands keeps its place in the store until it is deleted.     *)
(***************************************************************************)
EXTENDS StoredRuns, FiniteSetTheorems, SequenceTheorems, TLAPS

State == [runs : Seq(Tasks), size : Sizes]

\* Types of the store and of the tasks.
TypeOK ==
    /\ states \in [Keys -> State \cup {NoState}]
    /\ pc \in [Tasks -> {"load", "run", "save", "done"}]
    /\ loaded \in [Tasks -> State \cup {NoState}]
    /\ updated \in [Tasks -> State \cup {NoState}]
    /\ outcome \in [Tasks -> {"none", "not found", "run failed", "ok", "too large", "full"}]
    /\ discarded \subseteq Tasks
    /\ deleted \subseteq Tasks
    /\ overtaken \subseteq Tasks \X Tasks

Busy(t) == pc[t] \in {"run", "save"}

PcInv ==
    \A t \in Tasks :
        /\ outcome[t] = "none" <=> pc[t] # "done"
        /\ Busy(t) => loaded[t] # NoState
        /\ pc[t] = "save" => updated[t] # NoState
                             /\ updated[t].runs = Append(loaded[t].runs, t)

\* What StoredIsLineage says of one conversation, given how each task ended and what
\* it had loaded.
Lineage(runs, k, ends, loads) ==
    \A i \in DOMAIN runs :
        /\ KeyOf[runs[i]] = k
        /\ ends[runs[i]] = "ok"
        /\ loads[runs[i]].runs = SubSeq(runs, 1, i - 1)

LineageInv ==
    /\ \A k \in StoredKeys : Lineage(states[k].runs, k, outcome, loaded)
    /\ \A t \in Tasks : Busy(t) => Lineage(loaded[t].runs, KeyOf[t], outcome, loaded)

\* A saved run that may be missing from the store.
Lost(t) ==
    \/ t \in discarded
    \/ \E u \in Tasks : outcome[u] = "ok" /\ <<u, t>> \in overtaken

LossInv ==
    \A t, u \in Tasks :
        outcome[t] = "ok" /\ Busy(u) /\ KeyOf[u] = KeyOf[t] =>
            t \in Runs(loaded[u]) \/ <<u, t>> \in overtaken \/ Lost(t)

\* A conversation that a task has loaded keeps its place in the store until it is
\* deleted under the task.
PlaceInv ==
    \A t \in Tasks : Busy(t) /\ t \notin deleted => KeyOf[t] \in StoredKeys

Inv ==
    /\ TypeOK /\ PcInv /\ LineageInv /\ LossInv
    /\ LostOnlyToOverlap
    /\ PlaceInv /\ FullOnlyAfterDelete
    /\ Cardinality(StoredKeys) <= MaxConversations

-----------------------------------------------------------------------------
LEMMA StoredKeysFinite ==
    /\ StoredKeys \subseteq Keys /\ IsFiniteSet(StoredKeys)
    /\ Cardinality(StoredKeys) \in Nat
<1>1. StoredKeys \subseteq Keys
  BY DEF StoredKeys
<1> QED
  BY <1>1, FS_Subset, FS_CardinalityType, StoreAssumption

\* A store with room for a key is within its capacity when that key is stored.
LEMMA RoomSuffices ==
    ASSUME NEW k \in Keys, HasRoom(k), NEW S, S \subseteq StoredKeys \cup {k},
           Cardinality(StoredKeys) <= MaxConversations
    PROVE  Cardinality(S) <= MaxConversations
<1>1. IsFiniteSet(StoredKeys \cup {k}) /\ Cardinality(StoredKeys \cup {k}) <= MaxConversations
  <2>1. CASE k \in StoredKeys
    <3>1. StoredKeys \cup {k} = StoredKeys
      BY <2>1
    <3> QED
      BY <3>1, StoredKeysFinite
  <2>2. CASE k \notin StoredKeys
    <3>1. Cardinality(StoredKeys) < MaxConversations
      BY <2>2 DEF HasRoom
    <3>2. Cardinality(StoredKeys \cup {k}) = Cardinality(StoredKeys) + 1
      BY <2>2, StoredKeysFinite, FS_AddElement
    <3> QED
      BY <3>1, <3>2, StoredKeysFinite, FS_AddElement, StoreAssumption
  <2> QED
    BY <2>1, <2>2
<1>2. Cardinality(S) <= Cardinality(StoredKeys \cup {k}) /\ IsFiniteSet(S)
  BY <1>1, FS_Subset
<1>3. Cardinality(S) \in Nat /\ Cardinality(StoredKeys \cup {k}) \in Nat
  BY <1>1, <1>2, FS_CardinalityType
<1> QED
  BY <1>1, <1>2, <1>3, StoreAssumption

LEMMA NoStateIsNoState == NoState \notin State
BY StoreAssumption DEF State

LEMMA RunsProperty ==
    ASSUME NEW s \in State
    PROVE  /\ Runs(s) \subseteq Tasks
           /\ \A i \in DOMAIN s.runs : s.runs[i] \in Runs(s)
           /\ \A t \in Runs(s) : \E i \in DOMAIN s.runs : t = s.runs[i]
BY NoStateIsNoState DEF State, Runs, ToSet

\* Loads that came later, and the ends of others, do not change a line of runs.
LEMMA LineageKept ==
    ASSUME NEW runs \in Seq(Tasks), NEW k, NEW ends, NEW loads, NEW ends2, NEW loads2,
           Lineage(runs, k, ends, loads),
           \A t \in Tasks : ends[t] = "ok" => ends2[t] = "ok" /\ loads2[t] = loads[t]
    PROVE  Lineage(runs, k, ends2, loads2)
<1> SUFFICES ASSUME NEW i \in DOMAIN runs
             PROVE  /\ KeyOf[runs[i]] = k /\ ends2[runs[i]] = "ok"
                    /\ loads2[runs[i]].runs = SubSeq(runs, 1, i - 1)
  BY DEF Lineage
<1>1. runs[i] \in Tasks
  OBVIOUS
<1> QED
  BY <1>1 DEF Lineage

LEMMA RunsOfState ==
    ASSUME TypeOK
    PROVE  /\ \A k \in StoredKeys : states[k] \in State /\ states[k].runs \in Seq(Tasks)
           /\ \A t \in Tasks : loaded[t] # NoState => loaded[t].runs \in Seq(Tasks)
BY DEF TypeOK, StoredKeys, State

LEMMA InitInv == Init => Inv
<1> SUFFICES ASSUME Init PROVE Inv
  OBVIOUS
<1>1. StoredKeys = {}
  BY DEF Init, StoredKeys
<1>2. Cardinality(StoredKeys) <= MaxConversations
  BY <1>1, FS_EmptySet, StoreAssumption
<1>3. TypeOK
  BY DEF Init, TypeOK
<1>4. PcInv /\ LineageInv /\ LossInv /\ LostOnlyToOverlap /\ PlaceInv /\ FullOnlyAfterDelete
  BY <1>1 DEF Init, PcInv, LineageInv, LossInv, LostOnlyToOverlap, Busy, PlaceInv,
              FullOnlyAfterDelete
<1> QED
  BY <1>2, <1>3, <1>4 DEF Inv

\* The lines of runs that are known stay lines in a step that keeps saved runs.
LEMMA LinesKept ==
    ASSUME Inv,
           \A t \in Tasks : outcome[t] = "ok" => outcome'[t] = "ok" /\ loaded'[t] = loaded[t]
    PROVE  /\ \A k \in StoredKeys : Lineage(states[k].runs, k, outcome', loaded')
           /\ \A t \in Tasks :
                 Busy(t) => Lineage(loaded[t].runs, KeyOf[t], outcome', loaded')
<1>1. ASSUME NEW k \in StoredKeys
      PROVE  Lineage(states[k].runs, k, outcome', loaded')
  BY LineageKept, RunsOfState DEF Inv, LineageInv
<1>2. ASSUME NEW t \in Tasks, Busy(t)
      PROVE  Lineage(loaded[t].runs, KeyOf[t], outcome', loaded')
  BY <1>2, LineageKept, RunsOfState DEF Inv, LineageInv, PcInv
<1> QED
  BY <1>1, <1>2

-----------------------------------------------------------------------------
\* The application replaces or deletes a conversation: its runs are discarded.
LEMMA ReplaceInv ==
    ASSUME Inv, NEW k \in Keys, NEW s \in State \cup {NoState},
           s # NoState => s.runs = <<>>,
           s # NoState => HasRoom(k),
           states' = [states EXCEPT ![k] = s],
           discarded' = discarded \cup Runs(states[k]),
           deleted' = IF s = NoState THEN deleted \cup InFlight(k) ELSE deleted,
           UNCHANGED <<pc, loaded, updated, outcome, overtaken>>
    PROVE  Inv'
<1> USE DEF Inv
<1>1. TypeOK'
  <2>1. Runs(states[k]) \subseteq Tasks
    BY RunsProperty DEF TypeOK, Runs
  <2> QED
    BY <2>1 DEF TypeOK, InFlight
<1>2. PcInv'
  BY DEF PcInv, Busy
<1>8. PlaceInv' /\ FullOnlyAfterDelete'
  <2>1. deleted \subseteq deleted'
    OBVIOUS
  <2>2. ASSUME NEW t \in Tasks, Busy(t), t \notin deleted'
        PROVE  KeyOf[t] \in StoredKeys'
    <3>1. KeyOf[t] \in StoredKeys /\ KeyOf[t] \in Keys
      BY <2>1, <2>2, StoreAssumption DEF PlaceInv
    <3>2. KeyOf[t] = k => s # NoState
      BY <2>2 DEF InFlight, Busy
    <3> QED
      BY <3>1, <3>2 DEF StoredKeys, TypeOK
  <2> QED
    BY <2>1, <2>2 DEF PlaceInv, FullOnlyAfterDelete, Busy
<1>3. StoredKeys' \subseteq StoredKeys \cup {k} /\ (s = NoState => StoredKeys' \subseteq StoredKeys)
  BY DEF StoredKeys, TypeOK
<1>4. LineageInv'
  <2>1. ASSUME NEW c \in StoredKeys'
        PROVE  Lineage(states'[c].runs, c, outcome, loaded)
    <3>1. CASE c = k
      <4>1. states'[c] = s /\ s # NoState
        BY <3>1 DEF TypeOK, StoredKeys
      <4> QED
        BY <4>1 DEF Lineage
    <3>2. CASE c # k
      BY <3>2 DEF TypeOK, StoredKeys, LineageInv
    <3> QED
      BY <3>1, <3>2
  <2> QED
    BY <2>1 DEF LineageInv, Busy
<1>5. LossInv'
  BY DEF LossInv, Lost, Busy
<1>6. LostOnlyToOverlap'
  <2>1. ASSUME NEW t \in Tasks, t \in Runs(states[KeyOf[t]])
        PROVE  t \in Runs(states'[KeyOf[t]]) \/ t \in discarded'
    BY <2>1, StoreAssumption DEF TypeOK
  <2> QED
    BY <2>1 DEF LostOnlyToOverlap
<1>7. Cardinality(StoredKeys)' <= MaxConversations
  <2>1. CASE s = NoState
    BY <2>1, <1>3, StoredKeysFinite, FS_Subset, FS_CardinalityType, StoreAssumption
  <2>2. CASE s # NoState
    BY <2>2, <1>3, RoomSuffices
  <2> QED
    BY <2>1, <2>2
<1> QED
  BY <1>1, <1>2, <1>4, <1>5, <1>6, <1>7, <1>8

\* A task loads what is stored.
LEMMA LoadInv ==
    ASSUME Inv, NEW t \in Tasks, Load(t), KeyOf[t] \in StoredKeys
    PROVE  Inv'
<1> USE DEF Inv, Load, history
<1>1. /\ KeyOf[t] \in Keys /\ states[KeyOf[t]] \in State /\ states[KeyOf[t]] # NoState
      /\ pc' = [pc EXCEPT ![t] = "run"] /\ UNCHANGED outcome
  BY StoreAssumption DEF StoredKeys, TypeOK
<1>2. TypeOK'
  BY <1>1 DEF TypeOK
<1>3. PcInv'
  BY <1>1 DEF PcInv, TypeOK, Busy
<1>4. outcome[t] = "none"
  BY DEF PcInv
<1>5. LineageInv'
  <2>1. \A u \in Tasks : outcome[u] = "ok" => outcome'[u] = "ok" /\ loaded'[u] = loaded[u]
    BY <1>1, <1>4 DEF TypeOK
  <2>2. /\ \A k \in StoredKeys : Lineage(states[k].runs, k, outcome', loaded')
        /\ \A u \in Tasks : Busy(u) => Lineage(loaded[u].runs, KeyOf[u], outcome', loaded')
    BY <2>1, LinesKept
  <2>3. ASSUME NEW u \in Tasks, Busy(u)'
        PROVE  Lineage(loaded'[u].runs, KeyOf[u], outcome', loaded')
    <3>1. CASE u = t
      BY <2>2, <3>1 DEF TypeOK
    <3>2. CASE u # t
      <4>1. Busy(u) /\ loaded'[u] = loaded[u] /\ loaded[u] # NoState
        BY <2>3, <3>2, <1>1 DEF Busy, TypeOK, PcInv
      <4> QED
        BY <4>1, <2>2
    <3> QED
      BY <3>1, <3>2
  <2> QED
    BY <2>2, <2>3 DEF LineageInv, StoredKeys
<1>6. LossInv'
  <2> SUFFICES ASSUME NEW v \in Tasks, NEW u \in Tasks,
                      outcome[v] = "ok", Busy(u)', KeyOf[u] = KeyOf[v]
               PROVE  v \in Runs(loaded'[u]) \/ <<u, v>> \in overtaken \/ Lost(v)
    BY <1>1 DEF LossInv, Lost, Runs
  <2>1. CASE u = t
    BY <2>1, <1>1 DEF LostOnlyToOverlap, Lost, TypeOK
  <2>2. CASE u # t
    BY <2>2, <1>1 DEF LossInv, Busy, TypeOK
  <2> QED
    BY <2>1, <2>2
<1>7. LostOnlyToOverlap' /\ Cardinality(StoredKeys)' <= MaxConversations
  BY <1>1 DEF LostOnlyToOverlap, StoredKeys, Runs
<1>8. PlaceInv' /\ FullOnlyAfterDelete'
  BY <1>1 DEF PlaceInv, FullOnlyAfterDelete, Busy, TypeOK, StoredKeys
<1> QED
  BY <1>2, <1>3, <1>5, <1>6, <1>7, <1>8

\* The run of a task returns.
LEMMA RunReturnsInv ==
    ASSUME Inv, NEW t \in Tasks, NEW size \in Sizes, RunReturns(t, size)
    PROVE  Inv'
<1> USE DEF Inv, RunReturns, history
<1>1. [runs |-> Append(loaded[t].runs, t), size |-> size] \in State
  <2>1. loaded[t].runs \in Seq(Tasks)
    BY RunsOfState DEF PcInv, Busy
  <2> QED
    BY <2>1 DEF State
<1>2. TypeOK'
  BY <1>1 DEF TypeOK
<1>3. \A u \in Tasks : Busy(u)' <=> Busy(u)
  BY DEF Busy, TypeOK
<1>4. PcInv'
  BY <1>1, <1>3, NoStateIsNoState DEF PcInv, TypeOK, Busy
<1>5. LineageInv' /\ LossInv'
  BY <1>3 DEF LineageInv, LossInv, Lost, StoredKeys
<1>6. LostOnlyToOverlap' /\ Cardinality(StoredKeys)' <= MaxConversations
  BY DEF LostOnlyToOverlap, StoredKeys
<1>7. PlaceInv' /\ FullOnlyAfterDelete'
  BY <1>3 DEF PlaceInv, FullOnlyAfterDelete, StoredKeys
<1> QED
  BY <1>2, <1>4, <1>5, <1>6, <1>7

\* A task ends without a save.
LEMMA FinishInv ==
    ASSUME Inv, NEW t \in Tasks, pc[t] # "done",
           NEW result \in {"not found", "run failed", "too large", "full"},
           Finish(t, result), result = "full" => t \in deleted,
           NEW load \in {loaded[t], NoState}, loaded' = [loaded EXCEPT ![t] = load],
           UNCHANGED <<states, updated, history>>
    PROVE  Inv'
<1> USE DEF Inv, Finish, history
<1>1. TypeOK'
  BY DEF TypeOK
<1>2. PcInv'
  BY DEF PcInv, Busy, TypeOK
<1>3. /\ \A u \in Tasks : Busy(u)' => Busy(u) /\ loaded'[u] = loaded[u]
      /\ \A u \in Tasks : outcome[u] = "ok" => outcome'[u] = "ok" /\ loaded'[u] = loaded[u]
      /\ \A u \in Tasks : outcome'[u] = "ok" => outcome[u] = "ok"
  BY DEF Busy, TypeOK, PcInv
<1>4. LineageInv'
  BY <1>3, LinesKept DEF LineageInv, StoredKeys
<1>5. LossInv'
  BY <1>3 DEF LossInv, Lost
<1>6. LostOnlyToOverlap' /\ Cardinality(StoredKeys)' <= MaxConversations
  BY <1>3 DEF LostOnlyToOverlap, StoredKeys
<1>7. PlaceInv' /\ FullOnlyAfterDelete'
  BY <1>3 DEF PlaceInv, FullOnlyAfterDelete, StoredKeys, TypeOK
<1> QED
  BY <1>1, <1>2, <1>4, <1>5, <1>6, <1>7

\* A line of runs goes on with the task that has loaded it.
LEMMA LineageGrows ==
    ASSUME NEW runs \in Seq(Tasks), NEW t \in Tasks, NEW ends, NEW loads,
           Lineage(runs, KeyOf[t], ends, loads), ends[t] = "ok", loads[t].runs = runs
    PROVE  Lineage(Append(runs, t), KeyOf[t], ends, loads)
<1> SUFFICES ASSUME NEW i \in DOMAIN Append(runs, t)
             PROVE  /\ KeyOf[Append(runs, t)[i]] = KeyOf[t]
                    /\ ends[Append(runs, t)[i]] = "ok"
                    /\ loads[Append(runs, t)[i]].runs = SubSeq(Append(runs, t), 1, i - 1)
  BY DEF Lineage
<1>1. CASE i \in DOMAIN runs
  <2>1. Append(runs, t)[i] = runs[i]
    BY <1>1
  <2>2. SubSeq(Append(runs, t), 1, i - 1) = SubSeq(runs, 1, i - 1)
    BY <1>1
  <2> QED
    BY <1>1, <2>1, <2>2 DEF Lineage
<1>2. CASE i = Len(runs) + 1
  <2>1. Append(runs, t)[i] = t
    BY <1>2
  <2>2. SubSeq(Append(runs, t), 1, i - 1) = runs
    BY <1>2
  <2> QED
    BY <2>1, <2>2
<1> QED
  BY <1>1, <1>2

LEMMA SaveInv ==
    ASSUME Inv, NEW t \in Tasks, Save(t)
    PROVE  Inv'
<1> USE DEF Inv, Save
<1> DEFINE k == KeyOf[t]
<1>1. /\ k \in Keys /\ updated[t] \in State /\ updated[t] # NoState
      /\ loaded[t].runs \in Seq(Tasks)
      /\ updated[t].runs = Append(loaded[t].runs, t)
      /\ outcome[t] = "none" /\ Busy(t) /\ t \in InFlight(k)
  BY StoreAssumption, RunsOfState DEF TypeOK, PcInv, Busy, InFlight
<1>2. /\ pc' = [pc EXCEPT ![t] = "done"] /\ outcome' = [outcome EXCEPT ![t] = "ok"]
      /\ InFlight(k) \subseteq Tasks
  BY DEF Finish, InFlight
<1>3. TypeOK'
  BY <1>1, <1>2 DEF TypeOK
<1>4. PcInv'
  BY <1>2 DEF PcInv, Busy, TypeOK
<1>5. /\ \A u \in Tasks : Busy(u)' => Busy(u) /\ u # t
      /\ \A u \in Tasks : outcome[u] = "ok" => outcome'[u] = "ok"
      /\ outcome'[t] = "ok"
  BY <1>2 DEF Busy, TypeOK
<1>6. Lineage(loaded[t].runs, k, outcome', loaded)
  BY <1>1, <1>5, LineageKept DEF LineageInv
<1>7. LineageInv'
  <2>1. ASSUME NEW c \in StoredKeys'
        PROVE  Lineage(states'[c].runs, c, outcome', loaded)
    <3>1. CASE c = k
      BY <1>1, <1>5, <1>6, <3>1, LineageGrows DEF TypeOK
    <3>2. CASE c # k
      <4>1. c \in StoredKeys /\ states'[c] = states[c]
        BY <3>2 DEF StoredKeys, TypeOK
      <4> QED
        BY <1>5, <4>1, LineageKept, RunsOfState DEF LineageInv
    <3> QED
      BY <3>1, <3>2
  <2>2. ASSUME NEW u \in Tasks, Busy(u)'
        PROVE  Lineage(loaded[u].runs, KeyOf[u], outcome', loaded)
    BY <1>5, <2>2, LineageKept, RunsOfState DEF LineageInv, PcInv
  <2> QED
    BY <2>1, <2>2 DEF LineageInv
<1>8. \A v \in Tasks : Lost(v) => Lost(v)'
  BY <1>5 DEF Lost
<1>9. LossInv'
  <2> SUFFICES ASSUME NEW v \in Tasks, NEW u \in Tasks,
                      outcome'[v] = "ok", Busy(u)', KeyOf[u] = KeyOf[v]
               PROVE  v \in Runs(loaded[u]) \/ <<u, v>> \in overtaken' \/ Lost(v)'
    BY DEF LossInv, Runs
  <2>1. CASE v = t
    BY <1>5, <2>1 DEF InFlight, Busy
  <2>2. CASE v # t
    <3>1. outcome[v] = "ok"
      BY <1>2, <2>2 DEF TypeOK
    <3> QED
      BY <1>5, <1>8, <3>1 DEF LossInv
  <2> QED
    BY <2>1, <2>2
<1>10. LostOnlyToOverlap'
  <2> SUFFICES ASSUME NEW v \in Tasks, outcome'[v] = "ok"
               PROVE  v \in Runs(states'[KeyOf[v]]) \/ Lost(v)'
    BY DEF LostOnlyToOverlap, Lost
  <2>1. Runs(updated[t]) = Runs(loaded[t]) \cup {t}
    <3>1. Runs(updated[t]) = ToSet(Append(loaded[t].runs, t))
      BY <1>1 DEF Runs
    <3>2. Runs(loaded[t]) = ToSet(loaded[t].runs)
      BY <1>1 DEF Runs, PcInv
    <3>3. \A runs \in Seq(Tasks) : ToSet(Append(runs, t)) = ToSet(runs) \cup {t}
      <4> SUFFICES ASSUME NEW runs \in Seq(Tasks)
                   PROVE  ToSet(Append(runs, t)) = ToSet(runs) \cup {t}
        OBVIOUS
      <4>1. /\ DOMAIN Append(runs, t) = 1 .. Len(runs) + 1 /\ DOMAIN runs = 1 .. Len(runs)
            /\ \A i \in 1 .. Len(runs) : Append(runs, t)[i] = runs[i]
            /\ Append(runs, t)[Len(runs) + 1] = t /\ Len(runs) \in Nat
        OBVIOUS
      <4> QED
        BY <4>1 DEF ToSet
    <3> QED
      BY <1>1, <3>1, <3>2, <3>3
  <2>2. CASE v = t
    BY <1>1, <2>1, <2>2 DEF TypeOK
  <2>3. CASE v # t /\ KeyOf[v] = k
    <3>1. v \in Runs(loaded[t]) \/ <<t, v>> \in overtaken \/ Lost(v)
      BY <1>1, <1>2, <2>3 DEF LossInv, TypeOK
    <3>2. v \in Runs(loaded[t]) => v \in Runs(states'[KeyOf[v]])
      BY <1>1, <2>1, <2>3 DEF TypeOK
    <3>3. <<t, v>> \in overtaken => Lost(v)'
      BY <1>5 DEF Lost
    <3> QED
      BY <1>8, <3>1, <3>2, <3>3
  <2>4. CASE KeyOf[v] # k
    <3>1. outcome[v] = "ok" /\ states'[KeyOf[v]] = states[KeyOf[v]]
      BY <1>2, <2>4, StoreAssumption DEF TypeOK
    <3> QED
      BY <1>8, <3>1 DEF LostOnlyToOverlap, Lost
  <2> QED
    BY <2>2, <2>3, <2>4
<1>11. Cardinality(StoredKeys)' <= MaxConversations
  <2>1. StoredKeys' \subseteq StoredKeys \cup {k}
    BY DEF StoredKeys, TypeOK
  <2> QED
    BY <1>1, <2>1, RoomSuffices
<1>12. PlaceInv' /\ FullOnlyAfterDelete'
  <2>1. StoredKeys \subseteq StoredKeys'
    BY <1>1 DEF StoredKeys, TypeOK
  <2> QED
    BY <1>2, <1>5, <2>1 DEF PlaceInv, FullOnlyAfterDelete, TypeOK
<1> QED
  BY <1>3, <1>4, <1>7, <1>9, <1>10, <1>11, <1>12

-----------------------------------------------------------------------------
LEMMA NextPreservesInv == Inv /\ [Next]_vars => Inv'
<1> SUFFICES ASSUME Inv, [Next]_vars PROVE Inv'
  OBVIOUS
<1>1. ASSUME NEW t \in Tasks, TaskStep(t)
      PROVE  Inv'
  <2>1. pc[t] # "done" => loaded[t] \in {loaded[t], NoState} /\ loaded = [loaded EXCEPT ![t] = loaded[t]]
    BY DEF Inv, TypeOK
  <2>2. CASE Load(t)
    <3>1. CASE KeyOf[t] \in StoredKeys
      BY <2>2, <3>1, LoadInv
    <3>2. CASE KeyOf[t] \notin StoredKeys
      <4>1. states[KeyOf[t]] = NoState
        BY <3>2, StoreAssumption DEF StoredKeys
      <4> QED
        BY <2>2, <3>2, <4>1, FinishInv DEF Load
    <3> QED
      BY <3>1, <3>2
  <2>3. CASE \E size \in Sizes : RunReturns(t, size)
    BY <2>3, RunReturnsInv
  <2>4. CASE RunFails(t)
    BY <2>1, <2>4, FinishInv DEF RunFails
  <2>5. CASE Save(t)
    BY <2>5, SaveInv
  <2>6. CASE SaveTooLarge(t)
    BY <2>1, <2>6, FinishInv DEF SaveTooLarge
  <2>7. CASE SaveFull(t)
    <3>1. KeyOf[t] \notin StoredKeys /\ Busy(t)
      BY <2>7 DEF SaveFull, HasRoom, Busy
    <3>2. t \in deleted
      BY <3>1 DEF Inv, PlaceInv
    <3> QED
      BY <2>1, <2>7, <3>2, FinishInv DEF SaveFull
  <2> QED
    BY <1>1, <2>2, <2>3, <2>4, <2>5, <2>6, <2>7 DEF TaskStep
<1>2. ASSUME NEW k \in Keys, NEW size \in Sizes, Create(k, size)
      PROVE  Inv'
  <2>1. /\ [runs |-> <<>>, size |-> size] \in State
        /\ [runs |-> <<>>, size |-> size] # NoState
    <3>1. [runs |-> <<>>, size |-> size] \in State
      BY DEF State
    <3> QED
      BY <3>1, NoStateIsNoState
  <2> QED
    BY <1>2, <2>1, ReplaceInv DEF Create
<1>3. ASSUME NEW k \in Keys, Delete(k)
      PROVE  Inv'
  BY <1>3, ReplaceInv DEF Delete
<1>4. CASE UNCHANGED vars
  BY <1>4 DEF vars, Inv, TypeOK, PcInv, LineageInv, LossInv, Lost, Busy, Runs,
              LostOnlyToOverlap, StoredKeys, PlaceInv, FullOnlyAfterDelete
<1> QED
  BY <1>1, <1>2, <1>3, <1>4 DEF Next

LEMMA InvHolds == Spec => []Inv
BY InitInv, NextPreservesInv, PTL DEF Spec

-----------------------------------------------------------------------------
\* The store and the tasks stay in their types.
THEOREM TypeCorrect == Spec => []TypeOK
<1>1. Inv => TypeOK
  BY DEF Inv
<1> QED
  BY <1>1, InvHolds, PTL

\* InMemoryConversationStore.save replaces and never mixes: a stored conversation is
\* a line of successful runs, each on exactly the state that the one before it saved.
THEOREM StoredConversationsAreLineages == Spec => []StoredIsLineage
<1>1. Inv => StoredIsLineage
  BY DEF Inv, LineageInv, Lineage, StoredIsLineage
<1> QED
  BY <1>1, InvHolds, PTL

\* run_stored loses a saved run only to the application or to a run that overlapped.
THEOREM OnlyOverlapLoses == Spec => []LostOnlyToOverlap
<1>1. Inv => LostOnlyToOverlap
  BY DEF Inv
<1> QED
  BY <1>1, InvHolds, PTL

\* save refuses a finished run for want of room only if its conversation was
\* deleted after the run had loaded it.
THEOREM FullStoresTakeTheirOwn == Spec => []FullOnlyAfterDelete
<1>1. Inv => FullOnlyAfterDelete
  BY DEF Inv
<1> QED
  BY <1>1, InvHolds, PTL
=============================================================================
