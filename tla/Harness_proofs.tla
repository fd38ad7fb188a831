---------------------------- MODULE Harness_proofs ----------------------------
(***************************************************************************)
(* Proofs about modules Harness and ConversationScan.  Harness, for every  *)
(* set of routes, questions, answers and compactions, every limit and both *)
(* reduction methods: what a run keeps, and that its routes implement      *)
(* RouteContract.  ConversationScan, at the end, for any number of         *)
(* messages: its loops compute what module Conversation defines.           *)
(*                                                                         *)
(* One inductive invariant carries the run.  SentContextIsPaired alone     *)
(* is not inductive: a context is paired when it is sent because it was    *)
(* paired before the reduction, which holds because the batch that was     *)
(* open before had exactly its results appended.                           *)
(***************************************************************************)
EXTENDS Harness, ConversationScan, FiniteSetTheorems, SequenceTheorems, TLAPS

-----------------------------------------------------------------------------
(***************************************************************************)
(* A nonempty set of naturals has a least element.  Every minimum that     *)
(* Conversation takes with CHOOSE exists by this lemma, and an induction   *)
(* is the absence of a least counterexample.                               *)
(***************************************************************************)
LEMMA LeastNatural ==
    ASSUME NEW S \in SUBSET Nat, S # {}
    PROVE  \E least \in S : \A n \in S : least <= n
<1> DEFINE Intervals == {0 .. n : n \in S}
<1>1. Intervals \subseteq FiniteSubsetsOf(Nat)
  <2> SUFFICES ASSUME NEW n \in S PROVE 0 .. n \in FiniteSubsetsOf(Nat)
    OBVIOUS
  <2>1. IsFiniteSet(0 .. n)
    BY FS_Interval
  <2>2. 0 .. n \subseteq Nat
    OBVIOUS
  <2> QED
    BY <2>1, <2>2 DEF FiniteSubsetsOf
<1>2. PICK I \in Intervals : \A J \in Intervals : ~(<<J, I>> \in StrictSubsetOrdering(Nat))
  <2>1. Intervals # {}
    OBVIOUS
  <2> HIDE DEF Intervals
  <2> QED
    BY <1>1, <2>1, FS_StrictSubsetOrderingWellFounded, WFMin
<1>3. PICK least \in S : I = 0 .. least
  BY <1>2
<1>4. ASSUME NEW n \in S, n < least
      PROVE  FALSE
  <2>1. 0 .. n \in Intervals
    OBVIOUS
  <2>2. 0 .. n \subseteq 0 .. least /\ 0 .. n # 0 .. least
    BY <1>4
  <2>3. <<0 .. n, 0 .. least>> \in StrictSubsetOrdering(Nat)
    BY <2>2 DEF StrictSubsetOrdering
  <2> QED
    BY <2>1, <2>3, <1>2, <1>3
<1> QED
  BY <1>4

\* A nonempty set of positions has a greatest element.
LEMMA GreatestPosition ==
    ASSUME NEW n \in Nat, NEW S \in SUBSET (1 .. n), S # {}
    PROVE  \E greatest \in S : \A i \in S : i <= greatest
<1> DEFINE Mirror == {n - i : i \in S}
<1>1. Mirror \in SUBSET Nat /\ Mirror # {}
  <2>1. \A i \in S : n - i \in Nat
    OBVIOUS
  <2> QED
    BY <2>1
<1> HIDE DEF Mirror
<1>2. PICK least \in Mirror : \A m \in Mirror : least <= m
  BY <1>1, LeastNatural
<1>3. PICK g \in S : least = n - g
  BY DEF Mirror
<1>4. ASSUME NEW i \in S
      PROVE  i <= g
  <2>1. n - i \in Mirror
    BY DEF Mirror
  <2>2. n - g <= n - i
    BY <1>2, <1>3, <2>1
  <2> QED
    BY <2>2
<1> QED
  BY <1>4

-----------------------------------------------------------------------------
(***************************************************************************)
(* FlattenSeq, by induction on the length of what it flattens.             *)
(***************************************************************************)

\* The steps of flattening the first n members of a sequence of sequences.
Flattens(f, seqs, n) ==
    \A i \in 1 .. n : f[i] = IF i = 1 THEN seqs[i] ELSE f[i - 1] \o seqs[i]

\* They can be taken for every n, by induction: the least n for which they
\* could not would have a predecessor for which they can.
LEMMA FlatteningExists ==
    ASSUME NEW S, NEW seqs \in Seq(Seq(S)), NEW n \in 1 .. Len(seqs)
    PROVE  \E f \in [1 .. n -> Seq(S)] : Flattens(f, seqs, n)
<1> DEFINE Good(k) == \E f \in [1 .. k -> Seq(S)] : Flattens(f, seqs, k)
           Bad == {k \in 1 .. Len(seqs) : ~Good(k)}
<1> SUFFICES ASSUME Bad # {} PROVE FALSE
  OBVIOUS
<1>1. Bad \in SUBSET Nat
  OBVIOUS
<1>2. PICK least \in Bad : \A k \in Bad : least <= k
  <2> HIDE DEF Bad
  <2> QED
    BY <1>1, LeastNatural
<1>3. least \in 1 .. Len(seqs) /\ ~Good(least)
  OBVIOUS
<1>4. CASE least = 1
  <2> DEFINE f == [i \in 1 .. 1 |-> seqs[1]]
  <2>1. f \in [1 .. 1 -> Seq(S)] /\ Flattens(f, seqs, 1)
    BY <1>3 DEF Flattens
  <2> QED
    BY <1>3, <1>4, <2>1
<1>5. CASE least # 1
  <2> DEFINE k == least - 1
  <2>1. k \in 1 .. Len(seqs) /\ k + 1 = least /\ ~(least <= k)
    BY <1>3, <1>5
  <2> HIDE DEF k
  <2>2. Good(k)
    BY <1>2, <2>1
  <2>3. PICK f \in [1 .. k -> Seq(S)] : Flattens(f, seqs, k)
    BY <2>2
  <2> DEFINE g == [i \in 1 .. k + 1 |-> IF i = k + 1 THEN f[k] \o seqs[k + 1] ELSE f[i]]
  <2>4. f[k] \o seqs[k + 1] \in Seq(S)
    <3>1. f[k] \in Seq(S)
      BY <2>1
    <3>2. seqs[k + 1] \in Seq(S)
      BY <1>3, <2>1
    <3> QED
      BY <3>1, <3>2, ConcatProperties
  <2>5. g \in [1 .. k + 1 -> Seq(S)]
    <3>1. ASSUME NEW i \in 1 .. k + 1, i # k + 1
          PROVE  f[i] \in Seq(S)
      <4>1. i \in 1 .. k
        BY <2>1, <3>1
      <4> QED
        BY <4>1
    <3> QED
      BY <2>4, <3>1
  <2>6. Flattens(g, seqs, k + 1)
    <3> SUFFICES ASSUME NEW i \in 1 .. k + 1
                 PROVE  g[i] = IF i = 1 THEN seqs[i] ELSE g[i - 1] \o seqs[i]
      BY DEF Flattens
    <3>1. CASE i = k + 1
      <4>1. i # 1 /\ i - 1 = k /\ k \in 1 .. k + 1 /\ k # k + 1
        BY <2>1, <3>1
      <4>2. g[k] = f[k]
        BY <4>1
      <4> QED
        BY <3>1, <4>1, <4>2
    <3>2. CASE i # k + 1
      <4>1. i \in 1 .. k
        BY <2>1, <3>2
      <4>2. g[i] = f[i]
        BY <3>2
      <4>3. CASE i = 1
        BY <2>3, <4>1, <4>2, <4>3 DEF Flattens
      <4>4. CASE i # 1
        <5>1. i - 1 \in 1 .. k + 1 /\ i - 1 # k + 1
          BY <2>1, <4>1, <4>4
        <5>2. g[i - 1] = f[i - 1]
          BY <5>1
        <5>3. f[i] = f[i - 1] \o seqs[i]
          BY <2>3, <4>1, <4>4 DEF Flattens
        <5> QED
          BY <4>2, <4>4, <5>2, <5>3
      <4> QED
        BY <4>3, <4>4
    <3> QED
      BY <3>1, <3>2
  <2> HIDE DEF g
  <2>7. Good(k + 1)
    BY <2>5, <2>6
  <2> QED
    BY <1>3, <2>1, <2>7
<1> QED
  BY <1>4, <1>5

\* Two of them agree as far as what they flatten agrees.
LEMMA FlatteningUnique ==
    ASSUME NEW f, NEW g, NEW n \in Nat, NEW seqs, NEW tall,
           Flattens(f, seqs, n), Flattens(g, tall, n),
           \A i \in 1 .. n : seqs[i] = tall[i]
    PROVE  \A i \in 1 .. n : f[i] = g[i]
<1> DEFINE Bad == {i \in 1 .. n : f[i] # g[i]}
<1> SUFFICES ASSUME Bad # {} PROVE FALSE
  OBVIOUS
<1>1. Bad \in SUBSET Nat
  OBVIOUS
<1>2. PICK least \in Bad : \A i \in Bad : least <= i
  <2> HIDE DEF Bad
  <2> QED
    BY <1>1, LeastNatural
<1>3. /\ least \in 1 .. n /\ f[least] # g[least]
      /\ seqs[least] = tall[least]
  OBVIOUS
<1>4. /\ f[least] = IF least = 1 THEN seqs[least] ELSE f[least - 1] \o seqs[least]
      /\ g[least] = IF least = 1 THEN tall[least] ELSE g[least - 1] \o tall[least]
  BY <1>3 DEF Flattens
<1>5. least # 1 /\ f[least - 1] # g[least - 1]
  BY <1>3, <1>4
<1>6. least - 1 \in Bad
  BY <1>3, <1>5
<1> QED
  BY <1>2, <1>3, <1>6

\* FlattenSeq is what these steps end with.
LEMMA FlattenSeqProperty ==
    ASSUME NEW S, NEW seqs \in Seq(Seq(S)), seqs # <<>>
    PROVE  \E f \in [1 .. Len(seqs) -> Seq(S)] :
              /\ Flattens(f, seqs, Len(seqs))
              /\ FlattenSeq(seqs) = f[Len(seqs)]
<1> DEFINE n == Len(seqs)
           IsFlatten(f) == f = [i \in 1 .. n |-> IF i = 1 THEN seqs[i] ELSE f[i - 1] \o seqs[i]]
           chosen == CHOOSE f : IsFlatten(f)
<1>1. n \in 1 .. n /\ n \in Nat
  OBVIOUS
<1>2. PICK f \in [1 .. n -> Seq(S)] : Flattens(f, seqs, n)
  BY <1>1, FlatteningExists
<1>3. IsFlatten(f)
  BY <1>2 DEF Flattens
<1>4. IsFlatten(chosen)
  BY <1>3
<1>5. FlattenSeq(seqs) = chosen[n]
  BY <1>1 DEF FlattenSeq
<1> HIDE DEF chosen
<1>6. Flattens(chosen, seqs, n)
  BY <1>4 DEF Flattens
<1>7. \A i \in 1 .. n : chosen[i] = f[i]
  BY <1>1, <1>2, <1>6, FlatteningUnique
<1> QED
  BY <1>1, <1>2, <1>5, <1>7

LEMMA FlattenAppend ==
    ASSUME NEW S, NEW seqs \in Seq(Seq(S)), NEW s \in Seq(S)
    PROVE  /\ FlattenSeq(seqs) \in Seq(S)
           /\ FlattenSeq(Append(seqs, s)) = FlattenSeq(seqs) \o s
<1> DEFINE n == Len(seqs)
           tall == Append(seqs, s)
<1>1. /\ tall \in Seq(Seq(S)) /\ tall # <<>> /\ Len(tall) = n + 1 /\ n \in Nat
      /\ \A i \in 1 .. n : tall[i] = seqs[i]
      /\ tall[n + 1] = s
  BY AppendProperties
<1> HIDE DEF tall
<1>2. PICK g \in [1 .. n + 1 -> Seq(S)] :
         Flattens(g, tall, n + 1) /\ FlattenSeq(tall) = g[n + 1]
  BY <1>1, FlattenSeqProperty
<1>3. g[n + 1] = IF n + 1 = 1 THEN s ELSE g[n] \o s
  <2>1. n + 1 \in 1 .. n + 1 /\ (n + 1) - 1 = n
    BY <1>1
  <2>2. g[n + 1] = IF n + 1 = 1 THEN tall[n + 1] ELSE g[(n + 1) - 1] \o tall[n + 1]
    BY <1>2, <2>1 DEF Flattens
  <2> QED
    BY <1>1, <2>1, <2>2
<1>4. CASE seqs = <<>>
  <2>1. n = 0 /\ FlattenSeq(seqs) = seqs
    BY <1>4 DEF FlattenSeq
  <2>2. <<>> \in Seq(S) /\ <<>> \o s = s
    BY ConcatEmptySeq, EmptySeq
  <2>3. g[n + 1] = s
    BY <1>3, <2>1
  <2>4. FlattenSeq(seqs) = <<>>
    BY <1>4, <2>1
  <2> QED
    BY <1>2, <2>2, <2>3, <2>4 DEF tall
<1>5. CASE seqs # <<>>
  <2>1. n # 0
    BY <1>5
  <2>2. PICK f \in [1 .. n -> Seq(S)] : Flattens(f, seqs, n) /\ FlattenSeq(seqs) = f[n]
    BY <1>5, FlattenSeqProperty
  <2>3. Flattens(g, tall, n)
    <3>1. \A i \in 1 .. n : i \in 1 .. n + 1
      BY <1>1
    <3> HIDE DEF n
    <3> QED
      BY <1>2, <3>1 DEF Flattens
  <2>4. \A i \in 1 .. n : f[i] = g[i]
    BY <1>1, <2>2, <2>3, FlatteningUnique
  <2>5. n \in 1 .. n /\ n + 1 # 1
    BY <1>1, <2>1
  <2>6. g[n] = f[n] /\ f[n] \in Seq(S)
    BY <2>2, <2>4, <2>5
  <2>7. g[n + 1] = f[n] \o s
    BY <1>3, <2>5, <2>6
  <2> QED
    BY <1>2, <2>2, <2>6, <2>7 DEF tall
<1> QED
  BY <1>4, <1>5

-----------------------------------------------------------------------------
(***************************************************************************)
(* The operators of Conversation, for every sequence of messages.          *)
(***************************************************************************)

(***************************************************************************)
(* The system prefix: PrefixLength counts the leading system messages.     *)
(***************************************************************************)
LEMMA PrefixLengthProperty ==
    ASSUME NEW ms \in Seq(Message)
    PROVE  /\ PrefixLength(ms) \in 0 .. Len(ms)
           /\ \A i \in 1 .. PrefixLength(ms) : ms[i].role = "system"
           /\ PrefixLength(ms) < Len(ms) => ms[PrefixLength(ms) + 1].role # "system"
<1> DEFINE Others == {i \in 1 .. Len(ms) : ms[i].role # "system"}
           Counts(n) == /\ \A i \in 1 .. n : ms[i].role = "system"
                        /\ n < Len(ms) => ms[n + 1].role # "system"
<1>1. \E n \in 0 .. Len(ms) : Counts(n)
  <2>1. CASE Others = {}
    <3>1. Counts(Len(ms)) /\ Len(ms) \in 0 .. Len(ms)
      BY <2>1
    <3> QED
      BY <3>1
  <2>2. CASE Others # {}
    <3>1. Others \in SUBSET Nat
      OBVIOUS
    <3>2. PICK least \in Others : \A i \in Others : least <= i
      <4> HIDE DEF Others
      <4> QED
        BY <2>2, <3>1, LeastNatural
    <3>3. Counts(least - 1) /\ least - 1 \in 0 .. Len(ms)
      BY <3>2
    <3> QED
      BY <3>3
  <2> QED
    BY <2>1, <2>2
<1> QED
  BY <1>1 DEF PrefixLength

\* There is only one such count.
LEMMA PrefixLengthUnique ==
    ASSUME NEW ms \in Seq(Message), NEW n \in 0 .. Len(ms),
           \A i \in 1 .. n : ms[i].role = "system",
           n < Len(ms) => ms[n + 1].role # "system"
    PROVE  PrefixLength(ms) = n
<1> DEFINE p == PrefixLength(ms)
<1>1. /\ p \in 0 .. Len(ms)
      /\ \A i \in 1 .. p : ms[i].role = "system"
      /\ p < Len(ms) => ms[p + 1].role # "system"
  BY PrefixLengthProperty
<1> HIDE DEF p
<1>2. ~(p < n)
  BY <1>1
<1>3. ~(n < p)
  BY <1>1
<1>4. p = n
  BY <1>1, <1>2, <1>3
<1> QED
  BY <1>4 DEF p

\* A message that is not a system message leaves the prefix as it is.
LEMMA AppendKeepsPrefix ==
    ASSUME NEW ms \in Seq(Message), NEW m \in Message, m.role # "system"
    PROVE  /\ PrefixLength(Append(ms, m)) = PrefixLength(ms)
           /\ SystemPrefix(Append(ms, m)) = SystemPrefix(ms)
<1> DEFINE p == PrefixLength(ms)
           longer == Append(ms, m)
<1>1. /\ p \in 0 .. Len(ms)
      /\ \A i \in 1 .. p : ms[i].role = "system"
      /\ p < Len(ms) => ms[p + 1].role # "system"
  BY PrefixLengthProperty
<1> HIDE DEF p
<1>2. /\ longer \in Seq(Message)
      /\ Len(longer) = Len(ms) + 1
      /\ \A i \in 1 .. Len(ms) : longer[i] = ms[i]
      /\ longer[Len(ms) + 1] = m
  OBVIOUS
<1> HIDE DEF longer
<1>3. PrefixLength(longer) = p
  <2>1. p \in 0 .. Len(longer)
    BY <1>1, <1>2
  <2>2. \A i \in 1 .. p : longer[i].role = "system"
    BY <1>1, <1>2
  <2>3. p < Len(longer) => longer[p + 1].role # "system"
    BY <1>1, <1>2
  <2> QED
    BY <1>2, <2>1, <2>2, <2>3, PrefixLengthUnique
<1>4. SubSeq(longer, 1, p) = SubSeq(ms, 1, p)
  BY <1>1, <1>2
<1> QED
  BY <1>3, <1>4 DEF SystemPrefix, p, longer

\* A tool call message and the message with exactly its results go together at
\* the end of a conversation.
LEMMA ExchangeIsPaired ==
    ASSUME NEW ms \in Seq(Message), IsPaired(ms),
           NEW call \in Message, IsCall(call),
           NEW answer \in Message, answer.role = "user", answer.results = call.calls
    PROVE  IsPaired(Append(Append(ms, call), answer))
<1> DEFINE p == PrefixLength(ms)
           longer == Append(Append(ms, call), answer)
<1>1. /\ call.role = "assistant" /\ call.calls # <<>>
      /\ ~IsCall(answer) /\ ~IsResult(call)
  BY DEF IsCall, IsResult
<1>2. PrefixLength(longer) = p
  <2>1. Append(ms, call) \in Seq(Message)
    OBVIOUS
  <2> QED
    BY <1>1, <2>1, AppendKeepsPrefix
<1>3. p \in 0 .. Len(ms)
  BY PrefixLengthProperty
<1>4. /\ \A i \in DOMAIN ms : ms[i].role = "system" => i <= p
      /\ \A i \in DOMAIN ms : IsCall(ms[i]) =>
            i < Len(ms) /\ ms[i + 1].role = "user" /\ ms[i + 1].results = ms[i].calls
      /\ \A i \in DOMAIN ms : IsResult(ms[i]) => i > 1 /\ IsCall(ms[i - 1])
  BY DEF IsPaired
<1> HIDE DEF p
<1>5. /\ DOMAIN ms = 1 .. Len(ms) /\ Len(ms) \in Nat
      /\ DOMAIN longer = 1 .. Len(ms) + 2
      /\ Len(longer) = Len(ms) + 2
      /\ \A i \in 1 .. Len(ms) : longer[i] = ms[i]
      /\ longer[Len(ms) + 1] = call
      /\ longer[Len(ms) + 2] = answer
  OBVIOUS
<1> HIDE DEF longer
<1>6. ASSUME NEW i \in DOMAIN longer, longer[i].role = "system"
      PROVE  i <= p
  <2>1. i \in DOMAIN ms
    BY <1>1, <1>5, <1>6
  <2> QED
    BY <1>4, <1>5, <1>6, <2>1
<1>7. ASSUME NEW i \in DOMAIN longer, IsCall(longer[i])
      PROVE  /\ i < Len(longer)
             /\ longer[i + 1].role = "user"
             /\ longer[i + 1].results = longer[i].calls
  <2>1. i \in DOMAIN ms \/ i = Len(ms) + 1
    BY <1>1, <1>5, <1>7
  <2>2. CASE i \in DOMAIN ms
    <3>1. i < Len(ms) /\ ms[i + 1].role = "user" /\ ms[i + 1].results = ms[i].calls
      BY <1>4, <1>5, <1>7, <2>2
    <3>2. PICK k \in 1 .. Len(ms) : k = i + 1
      BY <1>5, <2>2, <3>1
    <3> QED
      BY <1>5, <2>2, <3>1, <3>2
  <2>3. CASE i = Len(ms) + 1
    BY <1>5, <2>3
  <2> QED
    BY <2>1, <2>2, <2>3
<1>8. ASSUME NEW i \in DOMAIN longer, IsResult(longer[i])
      PROVE  i > 1 /\ IsCall(longer[i - 1])
  <2>1. i \in DOMAIN ms \/ i = Len(ms) + 2
    BY <1>1, <1>5, <1>8
  <2>2. CASE i \in DOMAIN ms
    <3>1. i > 1 /\ IsCall(ms[i - 1])
      BY <1>4, <1>5, <1>8, <2>2
    <3>2. PICK k \in 1 .. Len(ms) : k = i - 1
      BY <1>5, <2>2, <3>1
    <3> QED
      BY <1>5, <3>1, <3>2
  <2>3. CASE i = Len(ms) + 2
    <3>1. i - 1 = Len(ms) + 1 /\ i > 1
      BY <1>5, <2>3
    <3> QED
      BY <1>5, <3>1
  <2> QED
    BY <2>1, <2>2, <2>3
<1> QED
  BY <1>2, <1>6, <1>7, <1>8 DEF IsPaired, longer

(***************************************************************************)
(* KeepFrom: the prefix, and the exchanges from some start on.             *)
(***************************************************************************)
LEMMA KeepFromProperty ==
    ASSUME NEW ms \in Seq(Message), NEW start \in ExchangeStarts(ms)
    PROVE  LET p == PrefixLength(ms)
               kept == KeepFrom(ms, start)
           IN  /\ start \in p + 1 .. Len(ms)
               /\ kept \in Seq(Message)
               /\ Len(kept) = p + Len(ms) - start + 1
               /\ \A i \in 1 .. p : kept[i] = ms[i]
               /\ \A i \in p + 1 .. Len(kept) : kept[i] = ms[i - p + start - 1]
<1> DEFINE p == PrefixLength(ms)
<1>1. p \in 0 .. Len(ms)
  BY PrefixLengthProperty
<1>2. start \in p + 1 .. Len(ms)
  BY DEF ExchangeStarts
<1> HIDE DEF p
<1> DEFINE front == SubSeq(ms, 1, p)
           back == SubSeq(ms, start, Len(ms))
<1>3. /\ front \in Seq(Message)
      /\ Len(front) = p
      /\ \A i \in 1 .. p : front[i] = ms[i]
  BY <1>1
<1>4. /\ back \in Seq(Message)
      /\ Len(back) = Len(ms) - start + 1
      /\ \A i \in 1 .. Len(ms) - start + 1 : back[i] = ms[start + i - 1]
  BY <1>1, <1>2
<1>5. KeepFrom(ms, start) = front \o back
  BY DEF KeepFrom, SystemPrefix, p
<1> HIDE DEF front, back
<1>6. /\ front \o back \in Seq(Message)
      /\ Len(front \o back) = p + Len(ms) - start + 1
      /\ \A i \in 1 .. p : (front \o back)[i] = ms[i]
      /\ \A i \in p + 1 .. p + Len(ms) - start + 1 :
            (front \o back)[i] = ms[i - p + start - 1]
  <2>1. front \o back \in Seq(Message) /\ Len(front \o back) = p + Len(ms) - start + 1
    <3>1. /\ front \o back \in Seq(Message)
          /\ Len(front \o back) = Len(front) + Len(back)
      BY <1>3, <1>4, ConcatProperties
    <3>2. p + (Len(ms) - start + 1) = p + Len(ms) - start + 1
      BY <1>1, <1>2
    <3> QED
      BY <1>3, <1>4, <3>1, <3>2
  <2>2. ASSUME NEW i \in 1 .. p
        PROVE  (front \o back)[i] = ms[i]
    BY <1>1, <1>3, <1>4
  <2>3. ASSUME NEW i \in p + 1 .. p + Len(ms) - start + 1
        PROVE  (front \o back)[i] = ms[i - p + start - 1]
    <3>1. (front \o back)[i] = back[i - p]
      BY <1>1, <1>2, <1>3, <1>4
    <3>2. i - p \in 1 .. Len(ms) - start + 1
      BY <1>1, <1>2
    <3>3. back[i - p] = ms[start + (i - p) - 1]
      BY <1>4, <3>2
    <3>4. start + (i - p) - 1 = i - p + start - 1
      BY <1>1, <1>2
    <3> QED
      BY <3>1, <3>3, <3>4
  <2> QED
    BY <2>1, <2>2, <2>3
<1> QED
  BY <1>2, <1>5, <1>6 DEF p

\* The prefix of what is kept is the prefix.
LEMMA KeepFromPrefix ==
    ASSUME NEW ms \in Seq(Message), NEW start \in ExchangeStarts(ms), IsPaired(ms)
    PROVE  /\ PrefixLength(KeepFrom(ms, start)) = PrefixLength(ms)
           /\ SystemPrefix(KeepFrom(ms, start)) = SystemPrefix(ms)
<1> DEFINE p == PrefixLength(ms)
           kept == KeepFrom(ms, start)
<1>1. /\ p \in 0 .. Len(ms)
      /\ \A i \in 1 .. p : ms[i].role = "system"
  BY PrefixLengthProperty
<1>2. \A i \in DOMAIN ms : ms[i].role = "system" => i <= p
  BY DEF IsPaired
<1>3. /\ start \in p + 1 .. Len(ms)
      /\ kept \in Seq(Message)
      /\ Len(kept) = p + Len(ms) - start + 1
      /\ \A i \in 1 .. p : kept[i] = ms[i]
      /\ \A i \in p + 1 .. Len(kept) : kept[i] = ms[i - p + start - 1]
  BY KeepFromProperty
<1> HIDE DEF p, kept
<1>4. kept[p + 1] = ms[start] /\ p + 1 <= Len(kept)
  <2>1. p + 1 \in p + 1 .. Len(kept)
    BY <1>1, <1>3
  <2>2. PICK i \in p + 1 .. Len(kept) : i = p + 1
    BY <2>1
  <2>3. kept[i] = ms[i - p + start - 1]
    BY <1>3
  <2>4. i - p + start - 1 = start
    BY <1>1, <1>3, <2>2
  <2> QED
    BY <2>1, <2>2, <2>3, <2>4
<1>5. kept[p + 1].role # "system"
  BY <1>1, <1>2, <1>3, <1>4
<1>6. PrefixLength(kept) = p
  <2>1. p \in 0 .. Len(kept)
    BY <1>1, <1>4
  <2>2. \A i \in 1 .. p : kept[i].role = "system"
    BY <1>1, <1>3
  <2> QED
    BY <1>3, <1>5, <2>1, <2>2, PrefixLengthUnique
<1>7. SubSeq(kept, 1, p) = SubSeq(ms, 1, p)
  <2>1. p \in Nat /\ p <= Len(kept) /\ p <= Len(ms)
    BY <1>1, <1>4, <1>3
  <2>2. \A i \in 1 .. p : SubSeq(kept, 1, p)[i] = SubSeq(ms, 1, p)[i]
    BY <1>3, <2>1
  <2>3. /\ SubSeq(kept, 1, p) \in Seq(Message) /\ Len(SubSeq(kept, 1, p)) = p
        /\ SubSeq(ms, 1, p) \in Seq(Message) /\ Len(SubSeq(ms, 1, p)) = p
    BY <1>3, <2>1
  <2> QED
    BY <2>2, <2>3, SeqEqual
<1> QED
  BY <1>6, <1>7 DEF SystemPrefix, p, kept

\* What is kept still has every call next to its results: an exchange starts at
\* start, so no result message can be cut off from its call.
LEMMA KeepFromIsPaired ==
    ASSUME NEW ms \in Seq(Message), NEW start \in ExchangeStarts(ms), IsPaired(ms)
    PROVE  IsPaired(KeepFrom(ms, start))
<1> DEFINE p == PrefixLength(ms)
           kept == KeepFrom(ms, start)
<1>1. /\ p \in 0 .. Len(ms)
      /\ \A i \in 1 .. p : ms[i].role = "system"
  BY PrefixLengthProperty
<1>2. /\ start \in p + 1 .. Len(ms)
      /\ kept \in Seq(Message)
      /\ Len(kept) = p + Len(ms) - start + 1
      /\ \A i \in 1 .. p : kept[i] = ms[i]
      /\ \A i \in p + 1 .. Len(kept) : kept[i] = ms[i - p + start - 1]
  BY KeepFromProperty
<1>3. PrefixLength(kept) = p
  BY KeepFromPrefix
<1>4. start = 1 \/ ~IsCall(ms[start - 1])
  BY DEF ExchangeStarts
<1>5. /\ \A i \in DOMAIN ms : ms[i].role = "system" => i <= p
      /\ \A i \in DOMAIN ms : IsCall(ms[i]) =>
            i < Len(ms) /\ ms[i + 1].role = "user" /\ ms[i + 1].results = ms[i].calls
      /\ \A i \in DOMAIN ms : IsResult(ms[i]) => i > 1 /\ IsCall(ms[i - 1])
  BY DEF IsPaired
<1> HIDE DEF p, kept
<1>6. ASSUME NEW i \in DOMAIN kept
      PROVE  \/ i \in 1 .. p /\ kept[i].role = "system"
             \/ /\ i \in p + 1 .. Len(kept)
                /\ i - p + start - 1 \in start .. Len(ms)
                /\ kept[i] = ms[i - p + start - 1]
  <2>1. i \in 1 .. Len(kept)
    BY <1>2
  <2>2. CASE i <= p
    BY <1>1, <1>2, <2>1, <2>2
  <2>3. CASE i > p
    <3>1. i \in p + 1 .. Len(kept) /\ i - p + start - 1 \in start .. Len(ms)
      BY <1>1, <1>2, <2>1, <2>3
    <3> QED
      BY <1>2, <3>1
  <2> QED
    BY <1>1, <2>1, <2>2, <2>3
<1>7. ASSUME NEW i \in DOMAIN kept, kept[i].role = "system"
      PROVE  i <= p
  <2>1. ASSUME i \in p + 1 .. Len(kept), i - p + start - 1 \in start .. Len(ms),
               kept[i] = ms[i - p + start - 1]
        PROVE  FALSE
    <3> DEFINE j == i - p + start - 1
    <3>1. j \in DOMAIN ms /\ j > p
      BY <1>1, <1>2, <2>1
    <3>2. ms[j].role = "system"
      BY <1>7, <2>1
    <3> HIDE DEF j
    <3> QED
      BY <1>1, <1>5, <3>1, <3>2
  <2> QED
    BY <1>1, <1>6, <2>1
<1>8. ASSUME NEW i \in DOMAIN kept, IsCall(kept[i])
      PROVE  /\ i < Len(kept)
             /\ kept[i + 1].role = "user"
             /\ kept[i + 1].results = kept[i].calls
  <2> DEFINE j == i - p + start - 1
  <2>1. i \in p + 1 .. Len(kept) /\ j \in start .. Len(ms) /\ kept[i] = ms[j]
    BY <1>6, <1>8 DEF IsCall
  <2>2. j \in DOMAIN ms
    BY <1>1, <1>2, <2>1
  <2>3. j < Len(ms) /\ ms[j + 1].role = "user" /\ ms[j + 1].results = ms[j].calls
    BY <1>5, <1>8, <2>1, <2>2
  <2>4. i < Len(kept)
    BY <1>1, <1>2, <2>1, <2>3
  <2>5. kept[i + 1] = ms[j + 1]
    <3>1. PICK k \in p + 1 .. Len(kept) : k = i + 1
      BY <1>1, <2>1, <2>4
    <3>2. kept[k] = ms[k - p + start - 1]
      BY <1>2
    <3>3. k - p + start - 1 = j + 1
      <4>1. i \in Int /\ p \in Int /\ start \in Int
        BY <1>1, <1>2, <2>1
      <4>2. (i + 1) - p + start - 1 = (i - p + start - 1) + 1
        BY <4>1
      <4> QED
        BY <3>1, <4>2
    <3> QED
      BY <3>1, <3>2, <3>3
  <2> QED
    BY <2>1, <2>3, <2>4, <2>5
<1>9. ASSUME NEW i \in DOMAIN kept, IsResult(kept[i])
      PROVE  i > 1 /\ IsCall(kept[i - 1])
  <2> DEFINE j == i - p + start - 1
  <2>1. i \in p + 1 .. Len(kept) /\ j \in start .. Len(ms) /\ kept[i] = ms[j]
    BY <1>6, <1>9 DEF IsResult
  <2>2. j > 1 /\ IsCall(ms[j - 1])
    <3>1. j \in DOMAIN ms /\ IsResult(ms[j])
      BY <1>1, <1>2, <1>9, <2>1
    <3> HIDE DEF j
    <3> QED
      BY <1>5, <3>1
  <2>3. i # p + 1
    <3>1. ASSUME i = p + 1 PROVE FALSE
      <4>1. j = start
        BY <1>1, <1>2, <3>1
      <4> QED
        BY <1>4, <2>2, <4>1
    <3> QED
      BY <3>1
  <2>4. PICK k \in p + 1 .. Len(kept) : k = i - 1
    <3>1. p \in Int /\ Len(kept) \in Int /\ i \in Int
      BY <1>1, <1>2, <2>1
    <3>2. i - 1 \in p + 1 .. Len(kept)
      BY <2>1, <2>3, <3>1
    <3> QED
      BY <3>2
  <2>5. kept[k] = ms[k - p + start - 1]
    BY <1>2
  <2>6. k - p + start - 1 = j - 1
    <3>1. i \in Int /\ p \in Int /\ start \in Int
      BY <1>1, <1>2, <2>1
    <3>2. (i - 1) - p + start - 1 = (i - p + start - 1) - 1
      BY <3>1
    <3> QED
      BY <2>4, <3>2
  <2> QED
    BY <1>1, <2>1, <2>2, <2>3, <2>4, <2>5, <2>6
<1> QED
  BY <1>3, <1>7, <1>8, <1>9 DEF IsPaired, kept, p

(***************************************************************************)
(* Pruning with exchanges keeps them from one on, and within the limits.   *)
(***************************************************************************)
LEMMA PrunedFromStart ==
    ASSUME NEW ms \in Seq(Message), NEW limits, CanPrune(ms, limits),
           ExchangeStarts(ms) # {}
    PROVE  \E start \in ExchangeStarts(ms) :
              /\ Pruned(ms, limits) = KeepFrom(ms, start)
              /\ WithinLimits(KeepFrom(ms, start), limits)
<1> DEFINE IsOldest(s) == \A t \in KeptStarts(ms, limits) : s <= t
           oldest == CHOOSE s \in KeptStarts(ms, limits) : IsOldest(s)
<1>1. KeptStarts(ms, limits) # {}
  BY DEF CanPrune
<1>2. KeptStarts(ms, limits) \in SUBSET Nat
  <2>1. PrefixLength(ms) \in 0 .. Len(ms)
    BY PrefixLengthProperty
  <2> QED
    BY <2>1 DEF KeptStarts, ExchangeStarts
<1>3. \E s \in KeptStarts(ms, limits) : IsOldest(s)
  BY <1>1, <1>2, LeastNatural
<1>4. oldest \in KeptStarts(ms, limits)
  BY <1>3
<1>5. Pruned(ms, limits) = KeepFrom(ms, oldest)
  BY DEF Pruned
<1> HIDE DEF oldest
<1>6. oldest \in ExchangeStarts(ms)
  BY <1>4 DEF KeptStarts
<1>7. oldest \in Nat
  BY <1>2, <1>4
<1>8. WithinLimits(KeepFrom(ms, oldest), limits)
  BY <1>4, <1>6, <1>7 DEF KeptStarts
<1> QED
  BY <1>5, <1>6, <1>8

(***************************************************************************)
(* Pruning, when it raises nothing: the result is a sequence of messages   *)
(* within the limits, with every call next to its results and with the     *)
(* system prefix of the original.                                          *)
(***************************************************************************)
LEMMA PrunedProperty ==
    ASSUME NEW ms \in Seq(Message), NEW limits, CanPrune(ms, limits)
    PROVE  /\ Pruned(ms, limits) \in Seq(Message)
           /\ WithinLimits(Pruned(ms, limits), limits)
           /\ IsPaired(Pruned(ms, limits))
           /\ SystemPrefix(Pruned(ms, limits)) = SystemPrefix(ms)
<1>1. IsPaired(ms)
  BY DEF CanPrune, IsConversation
<1>2. /\ PrefixLength(ms) \in 0 .. Len(ms)
      /\ \A i \in 1 .. PrefixLength(ms) : ms[i].role = "system"
  BY PrefixLengthProperty
<1>3. CASE ExchangeStarts(ms) = {}
  <2> DEFINE prefix == SystemPrefix(ms)
  <2>1. Pruned(ms, limits) = prefix
    BY <1>3 DEF Pruned
  <2>2. WithinLimits(prefix, limits)
    BY DEF CanPrune
  <2>3. /\ prefix \in Seq(Message)
        /\ Len(prefix) = PrefixLength(ms)
        /\ \A i \in 1 .. Len(prefix) : prefix[i].role = "system"
    BY <1>2 DEF SystemPrefix
  <2> HIDE DEF prefix
  <2>4. PrefixLength(prefix) = Len(prefix)
    BY <2>3, PrefixLengthUnique
  <2>5. SystemPrefix(prefix) = prefix
    BY <2>3, <2>4 DEF SystemPrefix
  <2>6. IsPaired(prefix)
    BY <2>3, <2>4 DEF IsPaired, IsCall, IsResult
  <2> QED
    BY <2>1, <2>2, <2>3, <2>5, <2>6 DEF prefix
<1>4. CASE ExchangeStarts(ms) # {}
  <2>1. PICK start \in ExchangeStarts(ms) :
              /\ Pruned(ms, limits) = KeepFrom(ms, start)
              /\ WithinLimits(KeepFrom(ms, start), limits)
    BY <1>4, PrunedFromStart
  <2> QED
    BY <1>1, <2>1, KeepFromProperty, KeepFromPrefix, KeepFromIsPaired
<1> QED
  BY <1>3, <1>4

\* The last group of messages is a nonempty tail, from the greatest group start.
LEMMA LastGroupProperty ==
    ASSUME NEW ms \in Seq(Message), ms # <<>>
    PROVE  \E g \in GroupStarts(ms) :
              /\ g \in 1 .. Len(ms)
              /\ \A i \in GroupStarts(ms) : i <= g
              /\ LastGroup(ms) = SubSeq(ms, g, Len(ms))
<1> DEFINE p == PrefixLength(ms)
           Starts == GroupStarts(ms)
           IsLast(g) == \A i \in Starts : i <= g
           start == CHOOSE g \in Starts : IsLast(g)
<1>1. /\ p \in 0 .. Len(ms) /\ Len(ms) \in Nat \ {0}
      /\ \A i \in 1 .. p : ms[i].role = "system"
  BY PrefixLengthProperty
<1>2. Starts \in SUBSET (1 .. Len(ms))
  BY <1>1 DEF GroupStarts, ExchangeStarts
<1>3. Starts # {}
  <2>1. CASE p > 0
    BY <2>1 DEF GroupStarts
  <2>2. CASE p = 0
    <3>1. 1 \in ExchangeStarts(ms)
      BY <1>1, <2>2 DEF ExchangeStarts
    <3> QED
      BY <3>1 DEF GroupStarts
  <2> QED
    BY <1>1, <2>1, <2>2
<1>4. \E g \in Starts : IsLast(g)
  <2> HIDE DEF Starts
  <2>1. Len(ms) \in Nat
    OBVIOUS
  <2> QED
    BY <1>2, <1>3, <2>1, GreatestPosition
<1>5. start \in Starts /\ IsLast(start)
  BY <1>4
<1>6. LastGroup(ms) = SubSeq(ms, start, Len(ms))
  BY DEF LastGroup
<1> HIDE DEF start
<1> QED
  BY <1>2, <1>5, <1>6

\* Messages with the same last group end with the same message.
LEMMA SameGroupSameMessage ==
    ASSUME NEW ms \in Seq(Message), ms # <<>>, NEW ns \in Seq(Message), ns # <<>>,
           LastGroup(ms) = LastGroup(ns)
    PROVE  ms[Len(ms)] = ns[Len(ns)]
<1>1. PICK g \in 1 .. Len(ms) : LastGroup(ms) = SubSeq(ms, g, Len(ms))
  BY LastGroupProperty
<1>2. PICK h \in 1 .. Len(ns) : LastGroup(ns) = SubSeq(ns, h, Len(ns))
  BY LastGroupProperty
<1>3. /\ Len(SubSeq(ms, g, Len(ms))) = Len(ms) - g + 1
      /\ SubSeq(ms, g, Len(ms))[Len(ms) - g + 1] = ms[Len(ms)]
  OBVIOUS
<1>4. /\ Len(SubSeq(ns, h, Len(ns))) = Len(ns) - h + 1
      /\ SubSeq(ns, h, Len(ns))[Len(ns) - h + 1] = ns[Len(ns)]
  OBVIOUS
<1> QED
  BY <1>1, <1>2, <1>3, <1>4

\* What is kept from an exchange on ends with the same group.
LEMMA KeepFromKeepsLastGroup ==
    ASSUME NEW ms \in Seq(Message), NEW start \in ExchangeStarts(ms), IsPaired(ms)
    PROVE  LastGroup(KeepFrom(ms, start)) = LastGroup(ms)
<1> DEFINE p == PrefixLength(ms)
           kept == KeepFrom(ms, start)
           Place(i) == i - p + start - 1
<1>1. /\ p \in 0 .. Len(ms)
      /\ \A i \in 1 .. p : ms[i].role = "system"
  BY PrefixLengthProperty
<1>2. /\ start \in p + 1 .. Len(ms)
      /\ kept \in Seq(Message)
      /\ Len(kept) = p + Len(ms) - start + 1
      /\ \A i \in 1 .. p : kept[i] = ms[i]
      /\ \A i \in p + 1 .. Len(kept) : kept[i] = ms[i - p + start - 1]
  BY KeepFromProperty
<1>3. PrefixLength(kept) = p
  BY KeepFromPrefix
<1>4. start = 1 \/ ~IsCall(ms[start - 1])
  BY DEF ExchangeStarts
<1>5. /\ \A i : i \in ExchangeStarts(ms) <=>
                  i \in p + 1 .. Len(ms) /\ (i = 1 \/ ~IsCall(ms[i - 1]))
      /\ \A i : i \in ExchangeStarts(kept) <=>
                  i \in p + 1 .. Len(kept) /\ (i = 1 \/ ~IsCall(kept[i - 1]))
  BY <1>3 DEF ExchangeStarts
<1>0. ms # <<>> /\ kept # <<>>
  BY <1>1, <1>2
<1>6. PICK g \in GroupStarts(ms) :
              /\ g \in 1 .. Len(ms)
              /\ \A i \in GroupStarts(ms) : i <= g
              /\ LastGroup(ms) = SubSeq(ms, g, Len(ms))
  BY <1>0, LastGroupProperty
<1>7. PICK h \in GroupStarts(kept) :
              /\ h \in 1 .. Len(kept)
              /\ \A i \in GroupStarts(kept) : i <= h
              /\ LastGroup(kept) = SubSeq(kept, h, Len(kept))
  BY <1>0, <1>2, LastGroupProperty
<1>8. start \in GroupStarts(ms)
  BY DEF GroupStarts
<1>9. /\ g \in ExchangeStarts(ms)
      /\ g >= start
  BY <1>1, <1>2, <1>6, <1>8 DEF GroupStarts
<1> HIDE DEF p, kept
\* The positions of the exchanges that are kept move together.
<1>10. ASSUME NEW i \in p + 1 .. Len(kept)
       PROVE  i \in ExchangeStarts(kept) <=> Place(i) \in ExchangeStarts(ms)
  <2>1. Place(i) \in start .. Len(ms) /\ i \in Int /\ p \in Int
    BY <1>1, <1>2
  <2>2. CASE i = p + 1
    <3>1. Place(i) = start
      BY <1>1, <1>2, <2>2
    <3>2. i = 1 \/ ~IsCall(kept[i - 1])
      <4>1. CASE p = 0
        BY <2>2, <4>1
      <4>2. CASE p > 0
        <5>1. p \in 1 .. p /\ i - 1 = p
          BY <1>1, <2>2, <4>2
        <5>2. kept[p] = ms[p] /\ ms[p].role = "system"
          BY <1>1, <1>2, <5>1
        <5> QED
          BY <5>1, <5>2 DEF IsCall
      <4> QED
        BY <1>1, <4>1, <4>2
    <3> QED
      BY <1>5, <3>1, <3>2
  <2>3. CASE i # p + 1
    <3>1. PICK k \in p + 1 .. Len(kept) : k = i - 1
      BY <1>1, <1>2, <2>3
    <3>2. kept[i - 1] = ms[Place(i) - 1]
      <4>1. kept[k] = ms[k - p + start - 1]
        BY <1>2
      <4>2. k - p + start - 1 = Place(i) - 1
        BY <1>1, <1>2, <2>1, <3>1
      <4> QED
        BY <3>1, <4>1, <4>2
    <3>3. i # 1 /\ Place(i) # 1
      BY <1>1, <1>2, <2>1, <3>1
    <3>4. Place(i) \in p + 1 .. Len(ms)
      BY <1>1, <1>2, <2>1
    <3> HIDE DEF Place
    <3> QED
      BY <1>5, <3>2, <3>3, <3>4
  <2> QED
    BY <2>2, <2>3
<1>11. Place(h) = g
  <2>1. p + 1 \in ExchangeStarts(kept)
    <3>1. p + 1 \in p + 1 .. Len(kept)
      BY <1>1, <1>2
    <3>2. Place(p + 1) = start
      BY <1>1, <1>2
    <3> QED
      BY <1>10, <3>1, <3>2
  <2>2. p + 1 <= h
    BY <1>7, <2>1 DEF GroupStarts
  <2>3. h \in p + 1 .. Len(kept) /\ h \in ExchangeStarts(kept)
    <3>1. h \in p + 1 .. Len(kept)
      BY <1>1, <1>7, <2>2
    <3>2. h \in ExchangeStarts(kept) \/ (h = 1 /\ p > 0)
      <4>1. h \in GroupStarts(kept)
        BY <1>7
      <4> QED
        BY <1>3, <4>1 DEF GroupStarts
    <3> QED
      BY <1>1, <2>2, <3>1, <3>2
  <2>4. Place(h) <= g
    <3>1. Place(h) \in ExchangeStarts(ms)
      BY <1>10, <2>3
    <3> QED
      BY <1>6, <3>1 DEF GroupStarts
  <2> DEFINE k == g - start + p + 1
  <2>5. k \in p + 1 .. Len(kept) /\ Place(k) = g
    BY <1>1, <1>2, <1>6, <1>9
  <2>6. k <= h
    <3>1. k \in ExchangeStarts(kept)
      BY <1>9, <1>10, <2>5
    <3> QED
      BY <1>7, <3>1 DEF GroupStarts
  <2> QED
    BY <1>1, <1>2, <1>6, <1>7, <2>3, <2>4, <2>6
<1>12. h \in p + 1 .. Len(kept) /\ Len(kept) - h = Len(ms) - g
  <2>1. /\ h \in Nat /\ g \in Nat /\ p \in Nat /\ start \in Nat /\ Len(ms) \in Nat
        /\ Len(kept) \in Nat /\ h <= Len(kept)
    BY <1>1, <1>2, <1>6, <1>7
  <2>2. h = g + p + 1 - start /\ g >= start
    BY <1>9, <1>11, <2>1
  <2>3. Len(kept) = p + Len(ms) - start + 1
    BY <1>2
  <2> HIDE DEF Place
  <2>4. h >= p + 1
    BY <2>1, <2>2
  <2> QED
    BY <2>1, <2>2, <2>3, <2>4
<1> DEFINE a == SubSeq(kept, h, Len(kept))
           b == SubSeq(ms, g, Len(ms))
           n == Len(ms) - g + 1
<1>13. /\ a \in Seq(Message) /\ Len(a) = n /\ n \in Nat
       /\ \A j \in 1 .. n : a[j] = kept[h + j - 1]
  BY <1>2, <1>7, <1>12
<1>14. /\ b \in Seq(Message) /\ Len(b) = n
       /\ \A j \in 1 .. n : b[j] = ms[g + j - 1]
  BY <1>6
<1>15. ASSUME NEW j \in 1 .. n
       PROVE  a[j] = b[j]
  <2> DEFINE k == h + j - 1
  <2>1. k \in p + 1 .. Len(kept)
    BY <1>1, <1>2, <1>6, <1>7, <1>12
  <2>2. k - p + start - 1 = g + j - 1
    BY <1>1, <1>2, <1>6, <1>7, <1>11
  <2>3. kept[k] = ms[k - p + start - 1]
    BY <1>2, <2>1
  <2> HIDE DEF k
  <2>4. kept[k] = ms[g + j - 1]
    BY <2>2, <2>3
  <2> QED
    BY <1>13, <1>14, <2>4 DEF k
<1> HIDE DEF a, b, n
<1>16. a = b
  BY <1>13, <1>14, <1>15, SeqEqual
<1> QED
  BY <1>6, <1>7, <1>16 DEF a, b, kept

\* Pruning keeps the last group.
LEMMA PrunedKeepsLastGroup ==
    ASSUME NEW ms \in Seq(Message), ms # <<>>, NEW limits, CanPrune(ms, limits)
    PROVE  /\ Pruned(ms, limits) # <<>>
           /\ LastGroup(Pruned(ms, limits)) = LastGroup(ms)
<1> DEFINE p == PrefixLength(ms)
<1>1. IsPaired(ms)
  BY DEF CanPrune, IsConversation
<1>2. /\ p \in 0 .. Len(ms) /\ Len(ms) \in Nat \ {0}
      /\ \A i \in 1 .. p : ms[i].role = "system"
  BY PrefixLengthProperty
<1>3. CASE ExchangeStarts(ms) = {}
  <2>1. p = Len(ms)
    <3> SUFFICES ASSUME p # Len(ms) PROVE p + 1 \in ExchangeStarts(ms)
      BY <1>3
    <3>1. p + 1 \in p + 1 .. Len(ms)
      BY <1>2
    <3>2. p + 1 = 1 \/ ~IsCall(ms[p])
      BY <1>2 DEF IsCall
    <3> QED
      BY <1>2, <3>1, <3>2 DEF ExchangeStarts
  <2>2. SystemPrefix(ms) = ms
    BY <2>1 DEF SystemPrefix
  <2> QED
    BY <1>3, <2>2 DEF Pruned
<1>4. CASE ExchangeStarts(ms) # {}
  <2>1. PICK start \in ExchangeStarts(ms) : Pruned(ms, limits) = KeepFrom(ms, start)
    BY <1>4, PrunedFromStart
  <2>2. /\ Len(KeepFrom(ms, start)) = p + Len(ms) - start + 1
        /\ start \in p + 1 .. Len(ms)
        /\ KeepFrom(ms, start) \in Seq(Message)
    BY KeepFromProperty
  <2>3. KeepFrom(ms, start) # <<>>
    BY <1>2, <2>2
  <2> QED
    BY <1>1, <2>1, <2>3, KeepFromKeepsLastGroup
<1> QED
  BY <1>3, <1>4

-----------------------------------------------------------------------------
Inv == TypeOK /\ HeldIsState /\ RunInvariant

-----------------------------------------------------------------------------
(***************************************************************************)
(* Steps that several actions share.                                       *)
(***************************************************************************)

\* A failed run: nothing is read from its variables again.
LEMMA FailPreservesInv ==
    ASSUME Inv, NEW error \in Errors, Fail(error)
    PROVE  Inv'
<1>1. TypeOK'
  BY DEF Inv, TypeOK, Fail, context, history
<1>2. HeldIsState'
  BY DEF Inv, HeldIsState, IsState, Fail
<1>3. RunInvariant'
  BY DEF RunInvariant, PrefixOfRun, PairedContext, FittedContext, OpenBatch, RoutesOfTurn,
         Fail
<1> QED
  BY <1>1, <1>2, <1>3 DEF Inv

\* A context that the run reduces, or leaves as it is, is what its call sends.
LEMMA FittedPreservesInv ==
    ASSUME Inv, pc \in {"fit", "compact"}, NEW ms \in Seq(Message), Fitted(ms),
           IsPaired(ms), WithinLimits(ms, Limits),
           SystemPrefix(ms) = SystemPrefix(messages),
           reduced' \in BOOLEAN
    PROVE  Inv'
<1>1. TypeOK'
  BY DEF Inv, TypeOK, Fitted
<1>2. HeldIsState'
  BY DEF Inv, HeldIsState, IsState, Fitted
<1>3. PrefixOfRun'
  BY DEF Inv, RunInvariant, PrefixOfRun, Fitted
<1>4. PairedContext' /\ FittedContext' /\ OpenBatch'
  BY DEF PairedContext, FittedContext, OpenBatch, Fitted
<1>5. RoutesOfTurn'
  BY DEF Inv, RunInvariant, RoutesOfTurn, Fitted
<1> QED
  BY <1>1, <1>2, <1>3, <1>4, <1>5 DEF Inv, RunInvariant

\* Deterministic pruning, as the method or as the answer to a failed compaction.
LEMMA PruningPreservesInv ==
    ASSUME Inv, pc \in {"fit", "compact"}, ReduceByPruning
    PROVE  Inv'
<1>1. CASE CanPrune(messages, Limits) /\ Fitted(Pruned(messages, Limits)) /\ reduced' = TRUE
  <2>1. messages \in Seq(Message)
    BY DEF Inv, TypeOK
  <2>2. /\ Pruned(messages, Limits) \in Seq(Message)
        /\ WithinLimits(Pruned(messages, Limits), Limits)
        /\ IsPaired(Pruned(messages, Limits))
        /\ SystemPrefix(Pruned(messages, Limits)) = SystemPrefix(messages)
    BY <1>1, <2>1, PrunedProperty
  <2>3. reduced' \in BOOLEAN
    BY <1>1
  <2> QED
    BY <1>1, <2>2, <2>3, FittedPreservesInv
<1>2. CASE Fail("InvalidConversationError")
  BY <1>2, FailPreservesInv DEF Errors
<1> QED
  BY <1>1, <1>2 DEF ReduceByPruning

\* Any failure of the compaction.
LEMMA CompactionFailurePreservesInv ==
    ASSUME Inv, pc \in {"fit", "compact"}, CompactionFails
    PROVE  Inv'
<1>1. CASE ReduceByPruning
  BY <1>1, PruningPreservesInv
<1>2. CASE Fail("CompactionError")
  BY <1>2, FailPreservesInv DEF Errors
<1> QED
  BY <1>1, <1>2 DEF CompactionFails

-----------------------------------------------------------------------------
(***************************************************************************)
(* The invariant, action by action.                                        *)
(***************************************************************************)

\* A conversation state before its first run.
LEMMA InitInv == Init => Inv
<1> SUFFICES ASSUME Init PROVE Inv
  OBVIOUS
<1>1. held.messages \in FirstStates
  BY DEF Init
<1>2. TypeOK
  <2>1. held \in [messages : Seq(Message), route : Routes \cup {NoRoute}]
    BY HarnessAssumption DEF Init
  <2>2. turn \in 0 .. MaxModelTurns
    BY HarnessAssumption DEF Init
  <2>3. /\ policy \in Policies
        /\ pc = "idle" /\ messages = <<>> /\ sticky = NoRoute /\ excluded = NoRoute
        /\ results = <<>> /\ outcome = "none" /\ effects = <<>> /\ reduced = FALSE
    BY DEF Init
  <2>4. messages \in Seq(Message) /\ results \in Seq(CallIds) /\ effects \in Seq(CallIds)
    BY <2>3
  <2>5. reduced \in BOOLEAN /\ outcome \in {"none", "ok"} \cup Errors
    BY <2>3
  <2> QED
    BY <2>1, <2>2, <2>3, <2>4, <2>5 DEF TypeOK
<1>3. HeldIsState
  BY <1>1, HarnessAssumption DEF HeldIsState, IsState
<1>4. RunInvariant
  BY DEF Init, RunInvariant, PrefixOfRun, PairedContext, FittedContext, OpenBatch,
         RoutesOfTurn
<1> QED
  BY <1>2, <1>3, <1>4 DEF Inv

\* The caller adds a question to the state it holds.
LEMMA AskPreservesInv ==
    ASSUME Inv, NEW question \in Questions, Ask(question)
    PROVE  Inv'
<1>1. question \in Message
  BY HarnessAssumption
<1>2. /\ held' = [messages |-> Append(held.messages, question), route |-> held.route]
      /\ IsState(Append(held.messages, question))
      /\ pc = "idle" /\ pc' = "idle"
      /\ UNCHANGED <<policy, messages, sticky, excluded, turn, results, outcome, effects,
                     reduced>>
  BY DEF Ask, Inv, TypeOK, context, history
<1>3. TypeOK'
  <2>1. Append(held.messages, question) \in Seq(Message)
    BY <1>1 DEF Inv, TypeOK
  <2> QED
    BY <1>2, <2>1 DEF Inv, TypeOK
<1>4. HeldIsState'
  BY <1>2 DEF HeldIsState, IsState
<1>5. RunInvariant'
  BY <1>2 DEF RunInvariant, PrefixOfRun, PairedContext, FittedContext, OpenBatch,
              RoutesOfTurn
<1> QED
  BY <1>3, <1>4, <1>5 DEF Inv

\* A run starts from the state the caller holds.
LEMMA StartPreservesInv ==
    ASSUME Inv, StartRun
    PROVE  Inv'
<1>1. TypeOK'
  BY HarnessAssumption DEF StartRun, Inv, TypeOK
<1>2. HeldIsState'
  BY DEF StartRun, Inv, HeldIsState, IsState
<1>3. PairedContext'
  BY DEF StartRun, Inv, HeldIsState, IsState, IsConversation, PairedContext
<1>4. PrefixOfRun' /\ FittedContext' /\ OpenBatch' /\ RoutesOfTurn'
  BY DEF StartRun, PrefixOfRun, FittedContext, OpenBatch, RoutesOfTurn
<1> QED
  BY <1>1, <1>2, <1>3, <1>4 DEF Inv, RunInvariant

\* _fit_context up to the compactor.
LEMMA FitPreservesInv ==
    ASSUME Inv, ContextFits \/ PruneContext \/ CompactContext
    PROVE  Inv'
<1>1. CASE ContextFits
  <2>1. messages \in Seq(Message) /\ IsPaired(messages)
    BY <1>1 DEF ContextFits, Inv, TypeOK, RunInvariant, PairedContext
  <2>2. reduced' \in BOOLEAN
    BY <1>1 DEF ContextFits, Inv, TypeOK
  <2> QED
    BY <1>1, <2>1, <2>2, FittedPreservesInv DEF ContextFits
<1>2. CASE PruneContext
  BY <1>2, PruningPreservesInv DEF PruneContext, OverLimits
<1>3. CASE CompactContext
  <2>1. CASE CompactionFails
    BY <1>3, <2>1, CompactionFailurePreservesInv DEF CompactContext, OverLimits
  <2>2. CASE IsCompactable /\ pc' = "compact" /\ UNCHANGED <<held, context, outcome,
  history>>
    <3>1. pc = "fit"
      BY <1>3 DEF CompactContext, OverLimits
    <3>2. TypeOK'
      BY <2>2 DEF Inv, TypeOK, context, history
    <3>3. HeldIsState'
      BY <2>2 DEF Inv, HeldIsState, IsState
    <3>4. RunInvariant'
      BY <2>2, <3>1 DEF Inv, context, RunInvariant, PrefixOfRun, PairedContext,
                        FittedContext, OpenBatch, RoutesOfTurn
    <3> QED
      BY <3>2, <3>3, <3>4 DEF Inv
  <2> QED
    BY <1>3, <2>1, <2>2 DEF CompactContext
<1> QED
  BY <1>1, <1>2, <1>3

\* The compactor returns or raises.
LEMMA CompactorPreservesInv ==
    ASSUME Inv, CompactorRaises \/ \E c \in Compactions : CompactorReturns(c)
    PROVE  Inv'
<1>1. CASE CompactorRaises
  BY <1>1, CompactionFailurePreservesInv DEF CompactorRaises
<1>2. ASSUME NEW c \in Compactions, CompactorReturns(c)
      PROVE  Inv'
  <2>1. CASE CompactionFails
    BY <1>2, <2>1, CompactionFailurePreservesInv DEF CompactorReturns
  <2>2. CASE CompactionAccepted(messages, c, Limits) /\ Fitted(c) /\ reduced' = TRUE
    <3>1. c \in Seq(Message)
      BY HarnessAssumption
    <3>2. /\ IsPaired(c)
          /\ WithinLimits(c, Limits)
          /\ SystemPrefix(c) = SystemPrefix(messages)
      BY <2>2 DEF CompactionAccepted, IsConversation
    <3>3. pc \in {"fit", "compact"} /\ reduced' \in BOOLEAN
      BY <1>2, <2>2 DEF CompactorReturns
    <3> QED
      BY <2>2, <3>1, <3>2, <3>3, FittedPreservesInv
  <2> QED
    BY <1>2, <2>1, <2>2 DEF CompactorReturns
<1> QED
  BY <1>1, <1>2

\* _call_model up to the answer.
LEMMA CallPreservesInv ==
    ASSUME Inv,
           \/ CallExact \/ CallAssignment \/ AssignmentFails \/ ModelCallerRaises
           \/ \E phase \in Phases : ExactFails(phase)
    PROVE  Inv'
<1>1. CASE \E error \in Errors : Fail(error)
  BY <1>1, FailPreservesInv
<1>2. CASE CallExact /\ ~\E error \in Errors : Fail(error)
  <2>1. /\ pc = "call" /\ pc' = "exact" /\ sticky # NoRoute
        /\ UNCHANGED <<held, context, outcome, history>>
    BY <1>2 DEF CallExact, Errors
  <2>2. TypeOK'
    BY <2>1 DEF Inv, TypeOK, context, history
  <2>3. HeldIsState'
    BY <2>1 DEF Inv, HeldIsState, IsState
  <2>4. RunInvariant'
    BY <2>1 DEF Inv, context, RunInvariant, PrefixOfRun, PairedContext,
                FittedContext, OpenBatch, RoutesOfTurn
  <2> QED
    BY <2>2, <2>3, <2>4 DEF Inv
<1>3. CASE CallAssignment /\ ~\E error \in Errors : Fail(error)
  <2>1. /\ pc = "call" /\ pc' = "assignment" /\ sticky = NoRoute
        /\ UNCHANGED <<held, context, outcome, history>>
    BY <1>3 DEF CallAssignment, Errors
  <2>2. TypeOK'
    BY <2>1 DEF Inv, TypeOK, context, history
  <2>3. HeldIsState'
    BY <2>1 DEF Inv, HeldIsState, IsState
  <2>4. RunInvariant'
    BY <2>1 DEF Inv, context, RunInvariant, PrefixOfRun, PairedContext,
                FittedContext, OpenBatch, RoutesOfTurn
  <2> QED
    BY <2>2, <2>3, <2>4 DEF Inv
<1>4. ASSUME NEW phase \in Phases, ExactFails(phase), ~\E error \in Errors : Fail(error)
      PROVE  Inv'
  <2>1. /\ pc = "exact" /\ pc' = "assignment" /\ excluded' = sticky
        /\ UNCHANGED <<policy, held, messages, sticky, turn, results, outcome, history>>
    BY <1>4 DEF ExactFails, Errors
  <2>2. TypeOK'
    BY <2>1 DEF Inv, TypeOK, history
  <2>3. HeldIsState'
    BY <2>1 DEF Inv, HeldIsState, IsState
  <2>4. RunInvariant'
    BY <2>1 DEF Inv, RunInvariant, PrefixOfRun, PairedContext,
                FittedContext, OpenBatch, RoutesOfTurn
  <2> QED
    BY <2>2, <2>3, <2>4 DEF Inv
<1>5. CASE AssignmentFails \/ ModelCallerRaises
  BY <1>1, <1>5 DEF AssignmentFails, ModelCallerRaises, Errors
<1> QED
  BY <1>1, <1>2, <1>3, <1>4, <1>5

\* A valid answer: a tool batch opens, or the run ends and its state is the
\* caller's.
LEMMA AnswerPreservesInv ==
    ASSUME Inv, NEW route \in Routes, NEW answer \in Answers, ModelAnswers(route, answer)
    PROVE  Inv'
<1> DEFINE longer == Append(messages, answer)
<1>1. /\ messages \in Seq(Message)
      /\ answer \in Message /\ answer.role = "assistant"
      /\ IsPaired(messages)
      /\ SystemPrefix(messages) = SystemPrefix(held.messages)
  BY HarnessAssumption DEF ModelAnswers, IsAnswer, Inv, TypeOK, RunInvariant,
                           PairedContext, PrefixOfRun
<1>2. /\ longer \in Seq(Message)
      /\ longer # <<>>
      /\ longer[Len(longer)] = answer
      /\ SubSeq(longer, 1, Len(longer) - 1) = messages
      /\ SystemPrefix(longer) = SystemPrefix(messages)
  <2>1. /\ longer \in Seq(Message) /\ longer # <<>> /\ Len(longer) = Len(messages) + 1
        /\ longer[Len(longer)] = answer
    BY <1>1
  <2>2. SubSeq(longer, 1, Len(longer) - 1) = messages
    BY <1>1, <2>1
  <2> QED
    BY <1>1, <2>1, <2>2, AppendKeepsPrefix
<1> HIDE DEF longer
<1>3. CASE \E error \in Errors : Fail(error)
  BY <1>3, FailPreservesInv
<1>4. CASE /\ IsCall(answer) /\ pc' = "tools" /\ messages' = longer /\ sticky' = route
           /\ excluded' = NoRoute /\ results' = <<>>
           /\ UNCHANGED <<policy, held, turn, outcome, history>>
  <2>1. TypeOK'
    BY <1>2, <1>4 DEF Inv, TypeOK, history
  <2>2. HeldIsState'
    BY <1>4 DEF Inv, HeldIsState, IsState
  <2>3. PrefixOfRun'
    BY <1>1, <1>2, <1>4 DEF PrefixOfRun
  <2>4. OpenBatch'
    <3>1. Batch' = answer.calls /\ answer.calls \in Seq(CallIds)
      BY <1>1, <1>2, <1>4 DEF Batch, Message
    <3>2. results' = SubSeq(Batch', 1, Len(results'))
      BY <1>4, <3>1
    <3> QED
      BY <1>1, <1>2, <1>4, <3>2 DEF OpenBatch
  <2>5. PairedContext' /\ FittedContext' /\ RoutesOfTurn'
    BY <1>4 DEF PairedContext, FittedContext, RoutesOfTurn
  <2> QED
    BY <2>1, <2>2, <2>3, <2>4, <2>5 DEF Inv, RunInvariant
<1>5. CASE /\ IsState(longer) /\ pc' = "idle" /\ messages' = longer /\ sticky' = route
           /\ excluded' = NoRoute /\ held' = [messages |-> messages', route |-> route]
           /\ outcome' = "ok"
           /\ UNCHANGED <<policy, turn, results, history>>
  <2>1. TypeOK'
    BY <1>2, <1>5 DEF Inv, TypeOK, history
  <2>2. HeldIsState'
    BY <1>5 DEF HeldIsState, IsState
  <2>3. RunInvariant'
    BY <1>5 DEF RunInvariant, PrefixOfRun, PairedContext, FittedContext, OpenBatch,
                RoutesOfTurn
  <2> QED
    BY <2>1, <2>2, <2>3 DEF Inv
<1> QED
  BY <1>3, <1>4, <1>5 DEF ModelAnswers, Errors, longer

\* The tool executor: its results follow the batch.
LEMMA ToolsPreserveInv ==
    ASSUME Inv,
           \/ HandlerReturns \/ HandlerReturnsInvalid \/ ExecutorRaises
           \/ \E error \in {"PortError", "ToolProtocolError"} : HandlerRaises(error)
           \/ \E ids \in ExecutorResults : ExecutorReturns(ids)
    PROVE  Inv'
<1>1. /\ pc = "tools"
      /\ Len(results) < Len(Batch)
  BY DEF HandlerReturns, HandlerReturnsInvalid, HandlerRaises, ExecutorReturns,
         ExecutorRaises, Executing
<1>2. /\ messages \in Seq(Message)
      /\ results \in Seq(CallIds)
      /\ effects \in Seq(CallIds)
  BY DEF Inv, TypeOK
<1>3. /\ messages # <<>>
      /\ results = SubSeq(Batch, 1, Len(results))
  BY <1>1 DEF Inv, RunInvariant, OpenBatch
<1>4. Batch \in Seq(CallIds)
  <2>1. messages[Len(messages)] \in Message
    BY <1>2, <1>3
  <2> QED
    BY <2>1 DEF Batch, Message
<1>5. NextCall \in CallIds
  BY <1>1, <1>2, <1>4 DEF NextCall
<1>6. ASSUME pc' = "tools", results' \in Seq(CallIds), effects' \in Seq(CallIds),
             results' = SubSeq(Batch, 1, Len(results')),
             UNCHANGED <<policy, held, pc, messages, sticky, excluded, turn, outcome, reduced>>
      PROVE  Inv'
  <2>1. TypeOK'
    BY <1>6 DEF Inv, TypeOK
  <2>2. HeldIsState'
    BY <1>6 DEF Inv, HeldIsState, IsState
  <2>3. OpenBatch'
    <3>1. Batch' = Batch
      BY <1>6 DEF Batch
    <3> QED
      BY <1>1, <1>6, <3>1 DEF Inv, RunInvariant, OpenBatch
  <2>4. PrefixOfRun' /\ PairedContext' /\ FittedContext' /\ RoutesOfTurn'
    BY <1>1, <1>6 DEF Inv, RunInvariant, PrefixOfRun, PairedContext, FittedContext,
                      RoutesOfTurn
  <2> QED
    BY <2>1, <2>2, <2>3, <2>4 DEF Inv, RunInvariant
<1>7. ASSUME NEW error \in Errors, pc' = "idle", outcome' = error,
effects' \in Seq(CallIds),
             UNCHANGED <<held, context, reduced>>
      PROVE  Inv'
  <2>1. TypeOK'
    BY <1>7 DEF Inv, TypeOK, context
  <2>2. HeldIsState'
    BY <1>7 DEF Inv, HeldIsState, IsState
  <2>3. RunInvariant'
    BY <1>7 DEF RunInvariant, PrefixOfRun, PairedContext, FittedContext, OpenBatch,
                RoutesOfTurn
  <2> QED
    BY <2>1, <2>2, <2>3 DEF Inv
<1>8. CASE HandlerReturns
  <2>1. /\ Append(results, NextCall) \in Seq(CallIds)
        /\ Append(effects, NextCall) \in Seq(CallIds)
    BY <1>2, <1>5
  <2>2. Append(results, NextCall) = SubSeq(Batch, 1, Len(results) + 1)
    <3> DEFINE n == Len(results)
    <3>1. n \in Nat /\ n < Len(Batch)
      BY <1>1, <1>2
    <3>2. SubSeq(Batch, 1, n + 1) = Append(SubSeq(Batch, 1, n), Batch[n + 1])
      BY <1>4, <3>1
    <3> QED
      BY <1>3, <3>2 DEF NextCall
  <2>3. Len(Append(results, NextCall)) = Len(results) + 1
    BY <1>2
  <2> QED
    BY <1>1, <1>6, <1>8, <2>1, <2>2, <2>3 DEF HandlerReturns
<1>9. CASE HandlerReturnsInvalid
  <2>1. Append(effects, NextCall) \in Seq(CallIds)
    BY <1>2, <1>5
  <2> QED
    BY <1>7, <1>9, <2>1 DEF HandlerReturnsInvalid, Errors
<1>10. ASSUME NEW error \in {"PortError", "ToolProtocolError"}, HandlerRaises(error)
       PROVE  Inv'
  BY <1>10, FailPreservesInv DEF HandlerRaises, Errors
<1>11. CASE ExecutorRaises
  BY <1>11, FailPreservesInv DEF ExecutorRaises, Errors
<1>12. ASSUME NEW ids \in ExecutorResults, ExecutorReturns(ids)
       PROVE  Inv'
  <2>1. ids \in Seq(CallIds) /\ effects \o ids \in Seq(CallIds)
    BY <1>2, HarnessAssumption
  <2>2. CASE ids = Batch
    <3>1. ids = SubSeq(Batch, 1, Len(ids))
      BY <1>4, <2>2
    <3> QED
      BY <1>1, <1>6, <1>12, <2>1, <2>2, <3>1 DEF ExecutorReturns
  <2>3. CASE ids # Batch
    BY <1>7, <1>12, <2>1, <2>3 DEF ExecutorReturns, Errors
  <2> QED
    BY <2>2, <2>3
<1> QED
  BY <1>8, <1>9, <1>10, <1>11, <1>12

\* The result message closes the batch.
LEMMA EndTurnPreservesInv ==
    ASSUME Inv, NEW body \in ResultBodies, EndTurn(body)
    PROVE  Inv'
<1>1. CASE Fail("TurnLimitError")
  BY <1>1, FailPreservesInv DEF Errors
<1>2. CASE /\ turn < MaxModelTurns /\ pc' = "fit"
           /\ messages' = Append(messages, Results(results, body))
           /\ turn' = turn + 1
           /\ UNCHANGED <<policy, held, sticky, excluded, results, outcome, history>>
  <2> DEFINE front == SubSeq(messages, 1, Len(messages) - 1)
             call == messages[Len(messages)]
             answer == Results(results, body)
  <2>1. /\ pc = "tools" /\ Len(results) = Len(Batch)
        /\ messages \in Seq(Message) /\ results \in Seq(CallIds)
        /\ messages # <<>>
        /\ IsCall(call) /\ IsPaired(front)
        /\ results = SubSeq(Batch, 1, Len(results))
    BY DEF EndTurn, Inv, TypeOK, RunInvariant, OpenBatch
  <2>2. /\ call \in Message
        /\ front \in Seq(Message)
        /\ messages = Append(front, call)
    BY <2>1
  <2>3. call.calls \in Seq(CallIds) /\ call.calls = Batch
    BY <2>2 DEF Message, Batch
  <2>4. results = call.calls
    BY <2>1, <2>3
  <2>5. /\ answer \in Message /\ answer.role = "user" /\ answer.results = results
    BY <2>1, HarnessAssumption DEF Results, Message
  <2> HIDE DEF front, call, answer
  <2>6. IsPaired(messages')
    BY <1>2, <2>1, <2>2, <2>4, <2>5, ExchangeIsPaired DEF answer
  <2>7. SystemPrefix(messages') = SystemPrefix(messages)
    BY <1>2, <2>1, <2>5, AppendKeepsPrefix DEF answer
  <2>8. TypeOK'
    <3>1. messages' \in Seq(Message)
      BY <1>2, <2>1, <2>5 DEF answer
    <3>2. turn' \in 0 .. MaxModelTurns
      BY <1>2, HarnessAssumption DEF Inv, TypeOK
    <3> QED
      BY <1>2, <3>1, <3>2 DEF Inv, TypeOK, history
  <2>9. HeldIsState'
    BY <1>2 DEF Inv, HeldIsState, IsState
  <2>10. RunInvariant'
    BY <1>2, <2>1, <2>6, <2>7 DEF Inv, RunInvariant, PrefixOfRun, PairedContext,
                                  FittedContext, OpenBatch, RoutesOfTurn
  <2> QED
    BY <2>8, <2>9, <2>10 DEF Inv
<1> QED
  BY <1>1, <1>2 DEF EndTurn

\* Every step.
LEMMA NextPreservesInv == Inv /\ [Next]_vars => Inv'
<1> SUFFICES ASSUME Inv, [Next]_vars PROVE Inv'
  OBVIOUS
<1>1. CASE \E q \in Questions : Ask(q)
  BY <1>1, AskPreservesInv
<1>2. CASE StartRun
  BY <1>2, StartPreservesInv
<1>3. CASE RunStep
  <2>1. CASE Cancel
    BY <2>1, FailPreservesInv DEF Cancel, Errors
  <2> QED
    BY <1>3, <2>1, FitPreservesInv, CompactorPreservesInv, CallPreservesInv,
       AnswerPreservesInv, ToolsPreserveInv, EndTurnPreservesInv DEF RunStep
<1>4. CASE UNCHANGED vars
  <2>1. TypeOK'
    BY <1>4 DEF Inv, TypeOK, vars
  <2>2. HeldIsState'
    BY <1>4 DEF Inv, HeldIsState, IsState, vars
  <2>3. Batch' = Batch
    BY <1>4 DEF Batch, vars
  <2>4. RunInvariant'
    BY <1>4, <2>3 DEF Inv, vars, RunInvariant, PrefixOfRun, PairedContext, FittedContext,
                      OpenBatch, RoutesOfTurn
  <2> QED
    BY <2>1, <2>2, <2>4 DEF Inv
<1> QED
  BY <1>1, <1>2, <1>3, <1>4 DEF Next

-----------------------------------------------------------------------------
(***************************************************************************)
(* The theorems.                                                           *)
(***************************************************************************)

\* Every behavior keeps the inductive invariant.
THEOREM InvariantHolds == Spec => []Inv
BY InitInv, NextPreservesInv, PTL DEF Spec

\* The variables of a run have their types.
THEOREM TypeCorrect == Spec => []TypeOK
<1>1. Inv => TypeOK
  BY DEF Inv
<1> QED
  BY <1>1, InvariantHolds, PTL

\* Every model call carries a context within the limits in which each tool call
\* is next to its results, after any number of turns and reductions.
THEOREM SentContextsArePaired == Spec => []SentContextIsPaired
<1>1. Inv => SentContextIsPaired
  BY DEF Inv, RunInvariant, PairedContext, FittedContext, SentContextIsPaired
<1> QED
  BY <1>1, InvariantHolds, PTL

\* The strengthening itself, as the runs check it.
THEOREM RunInvariantHolds == Spec => []RunInvariant
<1>1. Inv => RunInvariant
  BY DEF Inv
<1> QED
  BY <1>1, InvariantHolds, PTL

-----------------------------------------------------------------------------
(***************************************************************************)
(* What a step can do to the state that the caller holds.                  *)
(***************************************************************************)

\* The caller's state changes when the caller adds a question, and when a run
\* ends with the answer of an accepted route.
LEMMA HeldChanges ==
    ASSUME Next
    PROVE  \/ held' = held
           \/ \E q \in Questions : Ask(q)
           \/ /\ pc \in {"exact", "assignment"}
              /\ \E m \in Answers : held'.messages = Append(messages, m)
<1>1. CASE \E error \in Errors : Fail(error)
  BY <1>1 DEF Fail
<1>2. ASSUME NEW ms, Fitted(ms)
      PROVE  held' = held
  BY <1>2 DEF Fitted
<1>3. CASE ReduceByPruning \/ CompactionFails
  BY <1>2, <1>3 DEF ReduceByPruning, CompactionFails, Fail
<1>4. CASE ContextFits \/ PruneContext \/ CompactContext
  BY <1>2, <1>3, <1>4 DEF ContextFits, PruneContext, CompactContext
<1>5. CASE CompactorRaises \/ \E c \in Compactions : CompactorReturns(c)
  BY <1>2, <1>3, <1>5 DEF CompactorRaises, CompactorReturns
<1>6. CASE \/ CallExact \/ CallAssignment \/ AssignmentFails \/ ModelCallerRaises
           \/ \E phase \in Phases : ExactFails(phase)
  BY <1>6 DEF CallExact, CallAssignment, AssignmentFails, ModelCallerRaises, ExactFails,
              Fail
<1>7. ASSUME NEW r \in Routes, NEW m \in Answers, ModelAnswers(r, m)
      PROVE  \/ held' = held
             \/ pc \in {"exact", "assignment"} /\ held'.messages = Append(messages, m)
  BY <1>7 DEF ModelAnswers, Fail
<1>8. CASE \/ HandlerReturns \/ HandlerReturnsInvalid \/ ExecutorRaises
           \/ \E error \in {"PortError", "ToolProtocolError"} : HandlerRaises(error)
           \/ \E ids \in ExecutorResults : ExecutorReturns(ids)
  BY <1>8 DEF HandlerReturns, HandlerReturnsInvalid, ExecutorRaises, HandlerRaises,
              ExecutorReturns, Fail
<1>9. CASE Cancel \/ \E body \in ResultBodies : EndTurn(body)
  BY <1>9 DEF Cancel, EndTurn, Fail
<1>10. CASE StartRun
  BY <1>10 DEF StartRun
<1> QED
  BY <1>4, <1>5, <1>6, <1>7, <1>8, <1>9, <1>10 DEF Next, RunStep

\* The system prefix of the caller's conversation is the one it started with,
\* however many messages the runs append, prune or compact.
THEOREM PrefixesAreKept == Spec => PrefixIsKept
<1>1. ASSUME Inv, [Next]_vars
      PROVE  [SystemPrefix(held'.messages) = SystemPrefix(held.messages)]_vars
  <2> SUFFICES ASSUME Next
               PROVE  SystemPrefix(held'.messages) = SystemPrefix(held.messages)
    BY <1>1
  <2>1. ASSUME NEW q \in Questions, Ask(q)
        PROVE  SystemPrefix(held'.messages) = SystemPrefix(held.messages)
    <3>1. held'.messages = Append(held.messages, q)
      BY <1>1, <2>1 DEF Ask, Inv, TypeOK
    <3>2. q \in Message /\ q.role # "system"
      BY HarnessAssumption
    <3>3. held.messages \in Seq(Message)
      BY <1>1 DEF Inv, TypeOK
    <3> QED
      BY <3>1, <3>2, <3>3, AppendKeepsPrefix
  <2>2. ASSUME pc \in {"exact", "assignment"},
               NEW m \in Answers, held'.messages = Append(messages, m)
        PROVE  SystemPrefix(held'.messages) = SystemPrefix(held.messages)
    <3>1. m \in Message /\ m.role # "system"
      BY HarnessAssumption DEF IsAnswer
    <3>2. messages \in Seq(Message) /\ SystemPrefix(messages) = SystemPrefix(held.messages)
      BY <1>1, <2>2 DEF Inv, TypeOK, RunInvariant, PrefixOfRun
    <3> QED
      BY <2>2, <3>1, <3>2, AppendKeepsPrefix
  <2> QED
    BY <2>1, <2>2, HeldChanges
<1> QED
  BY <1>1, InvariantHolds, PTL DEF Spec, PrefixIsKept

-----------------------------------------------------------------------------
(***************************************************************************)
(* What a run has in hand: the newest exchange, and the executions of its  *)
(* tools.                                                                  *)
(*                                                                         *)
(* NewestExchangeIsSent looks at the moment of a call, and at the end of a *)
(* run EffectsAreRecorded compares two conversations.  In between, each    *)
(* stage hands the newest group on, and the results that the messages hold *)
(* with those of the open batch are always the executions so far.          *)
(***************************************************************************)

\* A run goes on from some message, and has no outcome before it ends.
RunIsOpen == pc # "idle" => outcome = "none" /\ turn >= 1 /\ messages # <<>>

NewestIsKept ==
    pc \in {"fit", "compact", "call", "exact", "assignment"} =>
        IF turn = 1 THEN LastGroup(messages) = LastGroup(held.messages)
        ELSE messages[Len(messages)].results = results

\* A custom executor returns its results at once.
NothingOrBatch == pc = "tools" /\ Executor = "custom" => results \in {<<>>, Batch}

OpenResults == IF pc = "tools" THEN results ELSE <<>>

EffectsSoFar ==
    pc # "idle" /\ ~reduced =>
        /\ IsPrefix(held.messages, messages)
        /\ ResultIds(messages) \o OpenResults = ResultIds(held.messages) \o effects

Progress == RunIsOpen /\ NewestIsKept /\ NothingOrBatch /\ EffectsSoFar

\* The results of longer messages are those of the shorter with the new ones.
LEMMA ResultIdsAppend ==
    ASSUME NEW ms \in Seq(Message), NEW m \in Message
    PROVE  /\ ResultIds(ms) \in Seq(CallIds)
           /\ ResultIds(Append(ms, m)) = ResultIds(ms) \o ResultsOf(m)
<1> DEFINE all(s) == [i \in DOMAIN s |-> ResultsOf(s[i])]
           longer == Append(ms, m)
<1>1. /\ longer \in Seq(Message) /\ Len(longer) = Len(ms) + 1
      /\ \A i \in 1 .. Len(ms) : longer[i] = ms[i]
      /\ longer[Len(ms) + 1] = m
  BY AppendProperties
<1>2. \A k \in Message : ResultsOf(k) \in Seq(CallIds)
  BY DEF Message, ResultsOf
<1>3. all(ms) \in Seq(Seq(CallIds)) /\ Len(all(ms)) = Len(ms)
  <2>1. \A i \in 1 .. Len(ms) : ResultsOf(ms[i]) \in Seq(CallIds)
    BY <1>2
  <2>2. DOMAIN ms = 1 .. Len(ms) /\ Len(ms) \in Nat
    OBVIOUS
  <2> QED
    BY <2>1, <2>2
<1>4. all(longer) = Append(all(ms), ResultsOf(m))
  <2>1. DOMAIN longer = 1 .. Len(ms) + 1 /\ DOMAIN ms = 1 .. Len(ms) /\ Len(ms) \in Nat
    BY <1>1
  <2>2. /\ Append(all(ms), ResultsOf(m)) \in Seq(Seq(CallIds))
        /\ Len(Append(all(ms), ResultsOf(m))) = Len(ms) + 1
        /\ \A i \in 1 .. Len(ms) : Append(all(ms), ResultsOf(m))[i] = ResultsOf(ms[i])
        /\ Append(all(ms), ResultsOf(m))[Len(ms) + 1] = ResultsOf(m)
    BY <1>2, <1>3, <2>1, AppendProperties
  <2> DEFINE a == all(longer)
             b == Append(all(ms), ResultsOf(m))
  <2>3. a = [i \in 1 .. Len(ms) + 1 |-> ResultsOf(longer[i])]
    BY <2>1
  <2>4. a \in Seq(Seq(CallIds)) /\ Len(a) = Len(ms) + 1
    <3>1. \A i \in 1 .. Len(ms) + 1 : ResultsOf(longer[i]) \in Seq(CallIds)
      BY <1>1, <1>2
    <3> QED
      BY <2>1, <2>3, <3>1
  <2>5. \A i \in 1 .. Len(ms) + 1 : a[i] = b[i]
    <3> SUFFICES ASSUME NEW i \in 1 .. Len(ms) + 1 PROVE a[i] = b[i]
      OBVIOUS
    <3>1. i \in 1 .. Len(ms) \/ i = Len(ms) + 1
      BY <2>1
    <3> QED
      BY <1>1, <2>2, <2>3, <3>1
  <2> HIDE DEF a, b
  <2>6. a = b
    BY <2>2, <2>4, <2>5, SeqEqual DEF b
  <2> QED
    BY <2>6 DEF a, b
<1> QED
  BY <1>2, <1>3, <1>4, FlattenAppend DEF ResultIds

\* Concatenation is associative, named because the provers do not instantiate it.
Regroups(a, b, c) == (a \o b) \o c = a \o (b \o c)

LEMMA Associative ==
    ASSUME NEW S, NEW a \in Seq(S), NEW b \in Seq(S), NEW c \in Seq(S)
    PROVE  Regroups(a, b, c)
BY DEF Regroups

\* A prefix of the messages is one of longer messages.
LEMMA PrefixOfLonger ==
    ASSUME NEW ms \in Seq(Message), NEW ns \in Seq(Message), IsPrefix(ms, ns),
           NEW m \in Message
    PROVE  IsPrefix(ms, Append(ns, m))
<1>1. /\ Len(ms) <= Len(ns) /\ Len(ms) \in Nat
      /\ SubSeq(ms, 1, Len(ms)) = SubSeq(ns, 1, Len(ms))
  BY DEF IsPrefix
<1>2. SubSeq(Append(ns, m), 1, Len(ms)) = SubSeq(ns, 1, Len(ms))
  BY <1>1
<1> QED
  BY <1>1, <1>2 DEF IsPrefix

\* Outside a run there is nothing to keep.
LEMMA IdleHasProgress == ASSUME pc' = "idle" PROVE Progress'
BY DEF Progress, RunIsOpen, NewestIsKept, NothingOrBatch, EffectsSoFar

\* Nor does a run lose anything between two ports.
LEMMA StageKeepsProgress ==
    ASSUME Progress, pc \in {"fit", "call", "exact"}, pc' \in {"compact", "exact", "assignment"},
           UNCHANGED <<held, messages, turn, results, outcome, effects, reduced>>
    PROVE  Progress'
BY DEF Progress, RunIsOpen, NewestIsKept, NothingOrBatch, EffectsSoFar, OpenResults

\* Reduced messages end with the group they ended with.
LEMMA FittedKeepsProgress ==
    ASSUME Inv, Progress, pc \in {"fit", "compact"}, NEW ms \in Seq(Message), Fitted(ms),
           \/ ms = messages /\ reduced' = reduced
           \/ ms # <<>> /\ LastGroup(ms) = LastGroup(messages) /\ reduced' = TRUE
    PROVE  Progress'
<1>1. /\ pc' = "call" /\ messages' = ms
      /\ UNCHANGED <<held, turn, results, outcome, effects>>
  BY DEF Fitted
<1>2. messages \in Seq(Message) /\ messages # <<>> /\ ms # <<>>
  BY DEF Inv, TypeOK, Progress, RunIsOpen
<1>3. RunIsOpen' /\ NothingOrBatch'
  BY <1>1, <1>2 DEF Progress, RunIsOpen, NothingOrBatch
<1>4. LastGroup(ms) = LastGroup(messages) /\ ms[Len(ms)] = messages[Len(messages)]
  BY <1>2, SameGroupSameMessage
<1>5. NewestIsKept'
  BY <1>1, <1>4 DEF Progress, NewestIsKept
<1>6. EffectsSoFar'
  BY <1>1 DEF Progress, EffectsSoFar, OpenResults
<1> QED
  BY <1>3, <1>5, <1>6 DEF Progress

LEMMA PruningKeepsProgress ==
    ASSUME Inv, Progress, pc \in {"fit", "compact"}, ReduceByPruning
    PROVE  Progress'
<1>1. CASE CanPrune(messages, Limits) /\ Fitted(Pruned(messages, Limits)) /\ reduced' = TRUE
  <2>1. messages \in Seq(Message) /\ messages # <<>>
    BY DEF Inv, TypeOK, Progress, RunIsOpen
  <2>2. /\ Pruned(messages, Limits) \in Seq(Message)
        /\ Pruned(messages, Limits) # <<>>
        /\ LastGroup(Pruned(messages, Limits)) = LastGroup(messages)
    BY <1>1, <2>1, PrunedProperty, PrunedKeepsLastGroup
  <2> QED
    BY <1>1, <2>2, FittedKeepsProgress
<1>2. CASE Fail("InvalidConversationError")
  BY <1>2, IdleHasProgress DEF Fail
<1> QED
  BY <1>1, <1>2 DEF ReduceByPruning

LEMMA CompactionFailureKeepsProgress ==
    ASSUME Inv, Progress, pc \in {"fit", "compact"}, CompactionFails
    PROVE  Progress'
<1>1. CASE ReduceByPruning
  BY <1>1, PruningKeepsProgress
<1>2. CASE Fail("CompactionError")
  BY <1>2, IdleHasProgress DEF Fail
<1> QED
  BY <1>1, <1>2 DEF CompactionFails

\* A run starts with the caller's newest group and without executions.
LEMMA StartHasProgress ==
    ASSUME Inv, StartRun
    PROVE  Progress'
<1>1. /\ pc' = "fit" /\ messages' = held.messages /\ held' = held /\ turn' = 1
      /\ results' = <<>> /\ outcome' = "none" /\ effects' = <<>>
  BY DEF StartRun
<1>2. held.messages # <<>>
  BY DEF Inv, HeldIsState, IsState
<1>3. held.messages \in Seq(Message)
  BY DEF Inv, TypeOK
<1>4. RunIsOpen' /\ NewestIsKept' /\ NothingOrBatch'
  BY <1>1, <1>2 DEF RunIsOpen, NewestIsKept, NothingOrBatch
<1>5. EffectsSoFar'
  <2>1. IsPrefix(held.messages, held.messages)
    BY <1>3 DEF IsPrefix
  <2> QED
    BY <1>1, <2>1 DEF EffectsSoFar, OpenResults
<1> QED
  BY <1>4, <1>5 DEF Progress

LEMMA FitKeepsProgress ==
    ASSUME Inv, Progress, ContextFits \/ PruneContext \/ CompactContext
    PROVE  Progress'
<1>1. CASE ContextFits
  <2>1. messages \in Seq(Message)
    BY DEF Inv, TypeOK
  <2> QED
    BY <1>1, <2>1, FittedKeepsProgress DEF ContextFits
<1>2. CASE PruneContext
  BY <1>2, PruningKeepsProgress DEF PruneContext, OverLimits
<1>3. CASE CompactContext /\ CompactionFails
  BY <1>3, CompactionFailureKeepsProgress DEF CompactContext, OverLimits
<1>4. CASE CompactContext /\ ~CompactionFails
  <2>1. pc = "fit" /\ pc' = "compact" /\ UNCHANGED <<held, context, outcome, history>>
    BY <1>4 DEF CompactContext, OverLimits
  <2> QED
    BY <2>1, StageKeepsProgress DEF context, history
<1> QED
  BY <1>1, <1>2, <1>3, <1>4

LEMMA CompactorKeepsProgress ==
    ASSUME Inv, Progress, CompactorRaises \/ \E c \in Compactions : CompactorReturns(c)
    PROVE  Progress'
<1>1. CASE CompactionFails
  BY <1>1, CompactionFailureKeepsProgress DEF CompactorRaises, CompactorReturns
<1>2. ASSUME NEW c \in Compactions, CompactorReturns(c), ~CompactionFails
      PROVE  Progress'
  <2>1. /\ CompactionAccepted(messages, c, Limits) /\ Fitted(c) /\ reduced' = TRUE
        /\ pc \in {"fit", "compact"}
    BY <1>2 DEF CompactorReturns
  <2>2. c \in Seq(Message) /\ c # <<>> /\ LastGroup(c) = LastGroup(messages)
    BY <2>1, HarnessAssumption DEF CompactionAccepted
  <2> QED
    BY <2>1, <2>2, FittedKeepsProgress
<1> QED
  BY <1>1, <1>2 DEF CompactorRaises

LEMMA CallKeepsProgress ==
    ASSUME Progress,
           \/ CallExact \/ CallAssignment \/ AssignmentFails \/ ModelCallerRaises
           \/ \E phase \in Phases : ExactFails(phase)
    PROVE  Progress'
<1>1. CASE pc' = "idle"
  BY <1>1, IdleHasProgress
<1>2. CASE pc' # "idle"
  <2>1. /\ pc \in {"call", "exact"} /\ pc' \in {"exact", "assignment"}
        /\ UNCHANGED <<held, messages, turn, results, outcome, effects, reduced>>
    BY <1>2 DEF CallExact, CallAssignment, AssignmentFails, ModelCallerRaises, ExactFails,
                Fail, context, history
  <2> QED
    BY <2>1, StageKeepsProgress
<1> QED
  BY <1>1, <1>2

\* An answer holds no results: a batch opens with none of its own.
LEMMA AnswerKeepsProgress ==
    ASSUME Inv, Progress, NEW route \in Routes, NEW answer \in Answers,
           ModelAnswers(route, answer)
    PROVE  Progress'
<1>1. CASE pc' = "idle"
  BY <1>1, IdleHasProgress
<1>2. CASE pc' # "idle"
  <2>1. /\ pc \in {"exact", "assignment"} /\ pc' = "tools" /\ results' = <<>>
        /\ messages' = Append(messages, answer)
        /\ UNCHANGED <<held, turn, outcome, effects, reduced>>
    BY <1>2 DEF ModelAnswers, Fail, history
  <2>2. /\ messages \in Seq(Message) /\ held.messages \in Seq(Message)
        /\ answer \in Message /\ answer.results = <<>>
    BY HarnessAssumption DEF Inv, TypeOK, IsAnswer
  <2>3. messages' # <<>>
    BY <2>1, <2>2
  <2>4. RunIsOpen' /\ NewestIsKept' /\ NothingOrBatch'
    BY <2>1, <2>3 DEF Progress, RunIsOpen, NewestIsKept, NothingOrBatch
  <2>5. EffectsSoFar'
    <3> SUFFICES ASSUME ~reduced
                 PROVE  /\ IsPrefix(held.messages, Append(messages, answer))
                        /\ ResultIds(Append(messages, answer)) \o <<>>
                             = ResultIds(held.messages) \o effects
      BY <2>1 DEF EffectsSoFar, OpenResults
    <3>1. /\ IsPrefix(held.messages, messages)
          /\ ResultIds(messages) \o <<>> = ResultIds(held.messages) \o effects
      BY <2>1 DEF Progress, EffectsSoFar, OpenResults
    <3>2. ResultIds(messages) \in Seq(CallIds)
      BY <2>2, ResultIdsAppend
    <3>3. ResultIds(Append(messages, answer)) = ResultIds(messages)
      BY <2>2, <3>2, ResultIdsAppend, ConcatEmptySeq DEF ResultsOf
    <3> QED
      BY <2>2, <3>1, <3>3, PrefixOfLonger
  <2> QED
    BY <2>4, <2>5 DEF Progress
<1> QED
  BY <1>1, <1>2

\* Each execution adds its ID to the results and to the history.
LEMMA ToolsKeepProgress ==
    ASSUME Inv, Progress,
           \/ HandlerReturns \/ HandlerReturnsInvalid \/ ExecutorRaises
           \/ \E error \in {"PortError", "ToolProtocolError"} : HandlerRaises(error)
           \/ \E ids \in ExecutorResults : ExecutorReturns(ids)
    PROVE  Progress'
<1>1. CASE pc' = "idle"
  BY <1>1, IdleHasProgress
<1>2. CASE pc' # "idle"
  <2>1. /\ pc = "tools" /\ pc' = "tools"
        /\ UNCHANGED <<held, messages, turn, outcome, reduced>>
        /\ Len(results) < Len(Batch)
    BY <1>2 DEF HandlerReturns, HandlerReturnsInvalid, ExecutorRaises, HandlerRaises,
                ExecutorReturns, Executing, Fail
  <2>2. /\ messages \in Seq(Message) /\ messages # <<>> /\ held.messages \in Seq(Message)
        /\ results \in Seq(CallIds) /\ effects \in Seq(CallIds)
    BY <2>1 DEF Inv, TypeOK, Progress, RunIsOpen
  <2>3. Batch \in Seq(CallIds)
    <3>1. messages[Len(messages)] \in Message
      BY <2>2
    <3> QED
      BY <3>1 DEF Batch, Message
  <2>4. PICK more \in Seq(CallIds) :
          /\ results' = results \o more
          /\ effects' = effects \o more
          /\ Executor = "custom" => results' = Batch
    <3>1. CASE HandlerReturns
      <4>1. NextCall \in CallIds
        BY <2>1, <2>2, <2>3 DEF NextCall
      <4>2. /\ results' = Append(results, NextCall)
            /\ effects' = Append(effects, NextCall)
            /\ Executor # "custom"
        BY <3>1 DEF HandlerReturns, Executing
      <4>3. <<NextCall>> \in Seq(CallIds)
        BY <4>1
      <4> QED
        BY <2>2, <4>1, <4>2, <4>3, AppendIsConcat
    <3>2. ASSUME NEW ids \in ExecutorResults, ExecutorReturns(ids)
          PROVE  /\ ids \in Seq(CallIds)
                 /\ results' = results \o ids /\ effects' = effects \o ids
                 /\ Executor = "custom" => results' = Batch
      <4>1. ids \in Seq(CallIds)
        BY HarnessAssumption
      <4>2. /\ ids = Batch /\ results' = ids /\ effects' = effects \o ids
            /\ Executor = "custom"
        BY <1>2, <3>2 DEF ExecutorReturns, Executing
      <4>3. results = <<>>
        BY <2>1, <2>2, <4>2 DEF Progress, NothingOrBatch
      <4>4. <<>> \o ids = ids
        BY <4>1, ConcatEmptySeq
      <4> QED
        BY <4>1, <4>2, <4>3, <4>4
    <3>3. ~(HandlerReturnsInvalid \/ ExecutorRaises)
          /\ ~\E error \in {"PortError", "ToolProtocolError"} : HandlerRaises(error)
      BY <1>2 DEF HandlerReturnsInvalid, ExecutorRaises, HandlerRaises, Fail
    <3> QED
      BY <3>1, <3>2, <3>3
  <2>5. RunIsOpen' /\ NewestIsKept'
    BY <2>1 DEF Progress, RunIsOpen, NewestIsKept
  <2>6. NothingOrBatch'
    BY <2>1, <2>4 DEF NothingOrBatch, Batch
  <2>7. EffectsSoFar'
    <3> DEFINE kept == ResultIds(messages)
               first == ResultIds(held.messages)
    <3> SUFFICES ASSUME ~reduced
                 PROVE  /\ IsPrefix(held.messages, messages)
                        /\ kept \o (results \o more) = first \o (effects \o more)
      BY <2>1, <2>4 DEF EffectsSoFar, OpenResults
    <3>1. IsPrefix(held.messages, messages) /\ kept \o results = first \o effects
      BY <2>1 DEF Progress, EffectsSoFar, OpenResults
    <3>2. kept \in Seq(CallIds) /\ first \in Seq(CallIds)
      <4>1. messages[Len(messages)] \in Message
        BY <2>2
      <4> QED
        BY <2>2, <4>1, ResultIdsAppend
    <3> HIDE DEF kept, first
    <3>3. Regroups(kept, results, more) /\ Regroups(first, effects, more)
      BY <2>2, <3>2, Associative
    <3> QED
      BY <3>1, <3>3 DEF Regroups
  <2> QED
    BY <2>5, <2>6, <2>7 DEF Progress
<1> QED
  BY <1>1, <1>2

\* The result message takes the results of the batch into the conversation.
LEMMA EndTurnKeepsProgress ==
    ASSUME Inv, Progress, NEW body \in ResultBodies, EndTurn(body)
    PROVE  Progress'
<1>1. CASE pc' = "idle"
  BY <1>1, IdleHasProgress
<1>2. CASE pc' # "idle"
  <2> DEFINE answer == Results(results, body)
  <2>1. /\ pc = "tools" /\ pc' = "fit" /\ turn' = turn + 1
        /\ messages' = Append(messages, answer)
        /\ UNCHANGED <<held, results, outcome, effects, reduced>>
    BY <1>2 DEF EndTurn, Fail, history
  <2>2. /\ messages \in Seq(Message) /\ held.messages \in Seq(Message)
        /\ results \in Seq(CallIds) /\ turn \in Nat /\ turn >= 1
    BY <2>1, HarnessAssumption DEF Inv, TypeOK, Progress, RunIsOpen
  <2>3. answer \in Message /\ answer.results = results /\ ResultsOf(answer) = results
    BY <2>2, HarnessAssumption DEF Results, Message, ResultsOf
  <2> HIDE DEF answer
  <2>4. messages' # <<>> /\ messages'[Len(messages')] = answer
    BY <2>1, <2>2, <2>3
  <2>5. RunIsOpen' /\ NewestIsKept' /\ NothingOrBatch'
    BY <2>1, <2>2, <2>3, <2>4 DEF Progress, RunIsOpen, NewestIsKept, NothingOrBatch
  <2>6. EffectsSoFar'
    <3> SUFFICES ASSUME ~reduced
                 PROVE  /\ IsPrefix(held.messages, Append(messages, answer))
                        /\ ResultIds(Append(messages, answer)) \o <<>>
                             = ResultIds(held.messages) \o effects
      BY <2>1 DEF EffectsSoFar, OpenResults
    <3>1. /\ IsPrefix(held.messages, messages)
          /\ ResultIds(messages) \o results = ResultIds(held.messages) \o effects
      BY <2>1 DEF Progress, EffectsSoFar, OpenResults
    <3>2. /\ ResultIds(messages) \o results \in Seq(CallIds)
          /\ ResultIds(Append(messages, answer)) = ResultIds(messages) \o results
      BY <2>2, <2>3, ResultIdsAppend, ConcatProperties
    <3> QED
      BY <2>2, <2>3, <3>1, <3>2, PrefixOfLonger, ConcatEmptySeq
  <2> QED
    BY <2>5, <2>6 DEF Progress
<1> QED
  BY <1>1, <1>2

\* Only a final answer ends a run well.
LEMMA SuccessReturnsMessages ==
    ASSUME Next, pc # "idle", outcome = "none", outcome' = "ok"
    PROVE  /\ pc \in {"exact", "assignment"}
           /\ \E m \in Answers : held'.messages = Append(messages, m)
<1>1. ~\E error \in Errors : Fail(error)
  BY DEF Fail, Errors
<1>2. ~\E ms : Fitted(ms)
  BY DEF Fitted
<1>3. ~ReduceByPruning /\ ~CompactionFails
  BY <1>1, <1>2 DEF ReduceByPruning, CompactionFails, Errors
<1>4. /\ ~ContextFits /\ ~PruneContext /\ ~CompactContext /\ ~CompactorRaises
      /\ ~\E c \in Compactions : CompactorReturns(c)
  BY <1>2, <1>3 DEF ContextFits, PruneContext, CompactContext, CompactorRaises,
                    CompactorReturns
<1>5. /\ ~CallExact /\ ~CallAssignment /\ ~AssignmentFails /\ ~ModelCallerRaises
      /\ ~\E phase \in Phases : ExactFails(phase)
  BY <1>1 DEF CallExact, CallAssignment, AssignmentFails, ModelCallerRaises, ExactFails,
              Errors
<1>6. /\ ~HandlerReturns /\ ~HandlerReturnsInvalid /\ ~ExecutorRaises
      /\ ~\E error \in {"PortError", "ToolProtocolError"} : HandlerRaises(error)
      /\ ~\E ids \in ExecutorResults : ExecutorReturns(ids)
  BY <1>1 DEF HandlerReturns, HandlerReturnsInvalid, ExecutorRaises, HandlerRaises,
              ExecutorReturns, Errors
<1>7. ~Cancel /\ ~\E body \in ResultBodies : EndTurn(body)
  BY <1>1 DEF Cancel, EndTurn, Errors
<1>8. ~StartRun /\ ~\E q \in Questions : Ask(q)
  BY DEF StartRun, Ask
<1>9. ASSUME NEW r \in Routes, NEW m \in Answers, ModelAnswers(r, m)
      PROVE  pc \in {"exact", "assignment"} /\ held'.messages = Append(messages, m)
  BY <1>9 DEF ModelAnswers, Fail
<1> QED
  BY <1>4, <1>5, <1>6, <1>7, <1>8, <1>9 DEF Next, RunStep

LEMMA NextKeepsProgress == Inv /\ Progress /\ [Next]_vars => Progress'
<1> SUFFICES ASSUME Inv, Progress, [Next]_vars PROVE Progress'
  OBVIOUS
<1>1. CASE \E q \in Questions : Ask(q)
  BY <1>1, IdleHasProgress DEF Ask
<1>2. CASE StartRun
  BY <1>2, StartHasProgress
<1>3. CASE RunStep
  <2>1. CASE Cancel
    BY <2>1, IdleHasProgress DEF Cancel, Fail
  <2> QED
    BY <1>3, <2>1, FitKeepsProgress, CompactorKeepsProgress, CallKeepsProgress,
       AnswerKeepsProgress, ToolsKeepProgress, EndTurnKeepsProgress DEF RunStep
<1>4. CASE UNCHANGED vars
  BY <1>4 DEF vars, Progress, RunIsOpen, NewestIsKept, NothingOrBatch, Batch, EffectsSoFar,
              OpenResults
<1> QED
  BY <1>1, <1>2, <1>3, <1>4 DEF Next

THEOREM ProgressHolds == Spec => []Progress
<1>1. Init => Progress
  BY DEF Init, Progress, RunIsOpen, NewestIsKept, NothingOrBatch, EffectsSoFar
<1> QED
  BY <1>1, InvariantHolds, NextKeepsProgress, PTL DEF Spec

\* Every model call carries the newest exchange: in the first turn the caller's,
\* later the one with the results of the last batch, after any reduction.
THEOREM NewestExchangesAreSent == Spec => []NewestExchangeIsSent
<1>1. Progress => NewestExchangeIsSent
  BY DEF Progress, NewestIsKept, NewestExchangeIsSent
<1> QED
  BY <1>1, ProgressHolds, PTL

\* A successful run in a conversation that was never reduced returns the caller's
\* messages with its own added, among them every tool execution, in order, once.
THEOREM ExecutionsAreRecorded == Spec => EffectsAreRecorded
<1> DEFINE Recorded ==
       pc # "idle" /\ outcome' = "ok" /\ ~reduced =>
          /\ IsPrefix(held.messages, held'.messages)
          /\ ResultIds(held'.messages) = ResultIds(held.messages) \o effects
<1>1. ASSUME Inv, Progress, [Next]_vars
      PROVE  [Recorded]_vars
  <2> SUFFICES ASSUME Next, pc # "idle", outcome' = "ok", ~reduced
               PROVE  /\ IsPrefix(held.messages, held'.messages)
                      /\ ResultIds(held'.messages) = ResultIds(held.messages) \o effects
    BY <1>1
  <2>1. PICK answer \in Answers :
           /\ pc \in {"exact", "assignment"}
           /\ held'.messages = Append(messages, answer)
    BY <1>1, SuccessReturnsMessages DEF Progress, RunIsOpen
  <2>2. /\ messages \in Seq(Message) /\ held.messages \in Seq(Message)
        /\ answer \in Message /\ answer.results = <<>>
    BY <1>1, HarnessAssumption DEF Inv, TypeOK, IsAnswer
  <2>3. /\ IsPrefix(held.messages, messages)
        /\ ResultIds(messages) \o <<>> = ResultIds(held.messages) \o effects
    BY <1>1, <2>1 DEF Progress, EffectsSoFar, OpenResults
  <2>4. ResultIds(Append(messages, answer)) = ResultIds(messages) \o <<>>
    BY <2>2, ResultIdsAppend DEF ResultsOf
  <2> QED
    BY <2>1, <2>2, <2>3, <2>4, PrefixOfLonger
<1> QED
  BY <1>1, InvariantHolds, ProgressHolds, PTL DEF Spec, EffectsAreRecorded

-----------------------------------------------------------------------------
(***************************************************************************)
(* Reused tool call IDs.                                                   *)
(*                                                                         *)
(* ReuseIsFoundAtEnd looks at the end of a run.  Before it, each ID that   *)
(* the messages name twice is of a call that the run has executed, or of   *)
(* the open batch.  What the caller holds, what a compactor returns and    *)
(* what can be pruned names none twice.                                    *)
(***************************************************************************)

OpenCalls == IF pc = "tools" THEN {Batch[i] : i \in DOMAIN Batch} ELSE {}

\* The IDs the run has executed.
Executed == {effects[i] : i \in DOMAIN effects}

ReusesAreExecuted ==
    pc # "idle" =>
        /\ pc = "tools" => {results[i] : i \in DOMAIN results} \subseteq Executed
        /\ \A id \in CallIds : IsReused(id, messages) => id \in Executed \cup OpenCalls

\* A position of a call is an assistant message and one of its calls.
LEMMA CallPositionsProperty ==
    ASSUME NEW ms \in Seq(Message)
    PROVE  /\ \A q \in CallPositions(ms) :
                 /\ q[1] \in DOMAIN ms /\ ms[q[1]].role = "assistant"
                 /\ q[2] \in DOMAIN ms[q[1]].calls /\ q = <<q[1], q[2]>>
           /\ \A i \in DOMAIN ms : \A k \in DOMAIN ms[i].calls :
                 ms[i].role = "assistant" => <<i, k>> \in CallPositions(ms)
<1> DEFINE Assistants == {k \in DOMAIN ms : ms[k].role = "assistant"}
           At(i) == {i} \X DOMAIN ms[i].calls
<1>1. CallPositions(ms) = UNION {At(i) : i \in Assistants}
  BY DEF CallPositions
<1>2. ASSUME NEW q \in CallPositions(ms)
      PROVE  /\ q[1] \in DOMAIN ms /\ ms[q[1]].role = "assistant"
             /\ q[2] \in DOMAIN ms[q[1]].calls /\ q = <<q[1], q[2]>>
  <2>1. PICK i \in Assistants : q \in At(i)
    BY <1>1
  <2>2. q \in {i} \X DOMAIN ms[i].calls
    BY <2>1
  <2>3. q[1] = i /\ q[2] \in DOMAIN ms[i].calls /\ q = <<q[1], q[2]>>
    BY <2>2
  <2> QED
    BY <2>3
<1>3. ASSUME NEW i \in DOMAIN ms, NEW k \in DOMAIN ms[i].calls, ms[i].role = "assistant"
      PROVE  <<i, k>> \in CallPositions(ms)
  <2>1. i \in Assistants /\ <<i, k>> \in At(i)
    BY <1>3
  <2> HIDE DEF At, Assistants
  <2> QED
    BY <1>1, <2>1
<1> QED
  BY <1>2, <1>3

LEMMA UniqueIsNotReused ==
    ASSUME NEW ms, CallIdsUnique(ms), NEW id
    PROVE  ~IsReused(id, ms)
BY DEF CallIdsUnique, IsReused

\* A new message adds its own calls to what can be reused, if it has calls at all.
LEMMA ReusedWithNext ==
    ASSUME NEW ms \in Seq(Message), NEW m \in Message, NEW id,
           IsReused(id, Append(ms, m))
    PROVE  \/ IsReused(id, ms)
           \/ m.role = "assistant" /\ \E k \in DOMAIN m.calls : m.calls[k] = id
<1> DEFINE longer == Append(ms, m)
<1>1. /\ longer \in Seq(Message) /\ Len(longer) = Len(ms) + 1 /\ Len(ms) \in Nat
      /\ \A i \in 1 .. Len(ms) : longer[i] = ms[i]
      /\ longer[Len(ms) + 1] = m
      /\ DOMAIN longer = 1 .. Len(ms) + 1 /\ DOMAIN ms = 1 .. Len(ms)
  BY AppendProperties
<1>2. PICK p \in CallPositions(longer), q \in CallPositions(longer) :
         p # q /\ longer[p[1]].calls[p[2]] = id /\ longer[q[1]].calls[q[2]] = id
  BY DEF IsReused
<1> HIDE DEF longer
<1>3. SUFFICES ASSUME ~(m.role = "assistant" /\ \E k \in DOMAIN m.calls : m.calls[k] = id)
               PROVE  IsReused(id, ms)
  OBVIOUS
<1>4. ASSUME NEW r \in CallPositions(longer), longer[r[1]].calls[r[2]] = id
      PROVE  r \in CallPositions(ms) /\ ms[r[1]].calls[r[2]] = id
  <2>1. /\ r[1] \in DOMAIN longer /\ longer[r[1]].role = "assistant"
        /\ r[2] \in DOMAIN longer[r[1]].calls /\ r = <<r[1], r[2]>>
    BY <1>1, CallPositionsProperty
  <2>2. r[1] # Len(ms) + 1
    BY <1>1, <1>3, <1>4, <2>1
  <2>3. r[1] \in 1 .. Len(ms) /\ longer[r[1]] = ms[r[1]]
    BY <1>1, <2>1, <2>2
  <2>4. <<r[1], r[2]>> \in CallPositions(ms)
    BY <1>1, <2>1, <2>3, CallPositionsProperty
  <2> QED
    BY <1>4, <2>1, <2>3, <2>4
<1> QED
  BY <1>2, <1>4 DEF IsReused

\* A part of a conversation names no ID twice: what is kept of it has its calls.
LEMMA UniqueWhereMoved ==
    ASSUME NEW ms \in Seq(Message), CallIdsUnique(ms),
           NEW part \in Seq(Message),
           NEW spot \in [DOMAIN part -> DOMAIN ms], IsInjective(spot),
           \A i \in DOMAIN part : ms[spot[i]] = part[i]
    PROVE  CallIdsUnique(part)
<1> SUFFICES ASSUME NEW p \in CallPositions(part), NEW q \in CallPositions(part),
                    part[p[1]].calls[p[2]] = part[q[1]].calls[q[2]]
             PROVE  p = q
  BY DEF CallIdsUnique
<1>1. ASSUME NEW r \in CallPositions(part)
      PROVE  /\ r[1] \in DOMAIN part /\ r = <<r[1], r[2]>>
             /\ <<spot[r[1]], r[2]>> \in CallPositions(ms)
  <2>1. /\ r[1] \in DOMAIN part /\ part[r[1]].role = "assistant"
        /\ r[2] \in DOMAIN part[r[1]].calls /\ r = <<r[1], r[2]>>
    BY CallPositionsProperty
  <2>2. spot[r[1]] \in DOMAIN ms /\ ms[spot[r[1]]] = part[r[1]]
    BY <2>1
  <2> QED
    BY <2>1, <2>2, CallPositionsProperty
<1>2. ms[spot[p[1]]].calls[p[2]] = ms[spot[q[1]]].calls[q[2]]
  BY <1>1
<1>3. <<spot[p[1]], p[2]>> = <<spot[q[1]], q[2]>>
  <2>1. PICK u \in CallPositions(ms), v \in CallPositions(ms) :
           u = <<spot[p[1]], p[2]>> /\ v = <<spot[q[1]], q[2]>>
    BY <1>1
  <2>2. ms[u[1]].calls[u[2]] = ms[v[1]].calls[v[2]]
    BY <1>2, <2>1
  <2> QED
    BY <2>1, <2>2 DEF CallIdsUnique
<1>4. p[1] = q[1] /\ p[2] = q[2]
  BY <1>1, <1>3 DEF IsInjective
<1> QED
  BY <1>1, <1>4

LEMMA PrunedIsUnique ==
    ASSUME NEW ms \in Seq(Message), NEW limits, CanPrune(ms, limits)
    PROVE  CallIdsUnique(Pruned(ms, limits))
<1>1. CallIdsUnique(ms)
  BY DEF CanPrune, IsConversation
<1>2. PrefixLength(ms) \in 0 .. Len(ms) /\ Len(ms) \in Nat /\ DOMAIN ms = 1 .. Len(ms)
  BY PrefixLengthProperty
<1>3. CASE ExchangeStarts(ms) = {}
  <2> DEFINE part == Pruned(ms, limits)
             spot == [i \in DOMAIN part |-> i]
  <2>1. part = SubSeq(ms, 1, PrefixLength(ms))
    BY <1>3 DEF Pruned, SystemPrefix
  <2>2. /\ part \in Seq(Message) /\ DOMAIN part = 1 .. PrefixLength(ms)
        /\ \A i \in DOMAIN part : part[i] = ms[i]
    BY <1>2, <2>1
  <2> HIDE DEF part
  <2>3. /\ spot \in [DOMAIN part -> DOMAIN ms] /\ IsInjective(spot)
        /\ \A i \in DOMAIN part : ms[spot[i]] = part[i]
    BY <1>2, <2>2 DEF IsInjective
  <2> HIDE DEF spot
  <2> QED
    BY <1>1, <2>2, <2>3, UniqueWhereMoved DEF part
<1>4. CASE ExchangeStarts(ms) # {}
  <2>1. PICK start \in ExchangeStarts(ms) : Pruned(ms, limits) = KeepFrom(ms, start)
    BY <1>4, PrunedFromStart
  <2> DEFINE p == PrefixLength(ms)
             part == KeepFrom(ms, start)
             Place(i) == IF i <= p THEN i ELSE i - p + start - 1
  <2>2. /\ start \in p + 1 .. Len(ms)
        /\ part \in Seq(Message)
        /\ Len(part) = p + Len(ms) - start + 1
        /\ \A i \in 1 .. p : part[i] = ms[i]
        /\ \A i \in p + 1 .. Len(part) : part[i] = ms[i - p + start - 1]
        /\ DOMAIN part = 1 .. Len(part)
    BY KeepFromProperty
  <2> HIDE DEF part, p
  <2>3. p \in 0 .. Len(ms)
    BY <1>2 DEF p
  <2>4. ASSUME NEW i \in DOMAIN part
        PROVE  Place(i) \in DOMAIN ms /\ ms[Place(i)] = part[i]
    <3>1. CASE i <= p
      <4>1. i \in 1 .. p /\ Place(i) = i
        BY <2>2, <2>3, <3>1
      <4> QED
        BY <1>2, <2>2, <2>3, <4>1
    <3>2. CASE ~(i <= p)
      <4>1. i \in p + 1 .. Len(part) /\ Place(i) = i - p + start - 1
        BY <2>2, <2>3, <3>2
      <4>2. i - p + start - 1 \in 1 .. Len(ms)
        BY <1>2, <2>2, <2>3, <4>1
      <4> QED
        BY <1>2, <2>2, <4>1, <4>2
    <3> QED
      BY <3>1, <3>2
  <2>5. ASSUME NEW i \in DOMAIN part, NEW j \in DOMAIN part, Place(i) = Place(j)
        PROVE  i = j
    BY <1>2, <2>2, <2>3, <2>5
  <2> DEFINE spot == [i \in DOMAIN part |-> Place(i)]
  <2> HIDE DEF Place
  <2>6. /\ spot \in [DOMAIN part -> DOMAIN ms] /\ IsInjective(spot)
        /\ \A i \in DOMAIN part : ms[spot[i]] = part[i]
    BY <2>4, <2>5 DEF IsInjective
  <2> HIDE DEF spot
  <2> QED
    BY <1>1, <2>1, <2>2, <2>6, UniqueWhereMoved DEF part
<1> QED
  BY <1>3, <1>4

\* Outside a run nothing is said, and a run between two ports only goes on.
LEMMA IdleKeepsReuses == ASSUME pc' = "idle" PROVE ReusesAreExecuted'
BY DEF ReusesAreExecuted

LEMMA StageKeepsReuses ==
    ASSUME ReusesAreExecuted, pc \notin {"idle", "tools"}, pc' # "tools",
           UNCHANGED <<messages, effects>>
    PROVE  ReusesAreExecuted'
BY DEF ReusesAreExecuted, OpenCalls, Executed

\* Reduced messages name no ID twice.
LEMMA FittedKeepsReuses ==
    ASSUME ReusesAreExecuted, pc \in {"fit", "compact"}, NEW ms, Fitted(ms),
           ms = messages \/ CallIdsUnique(ms)
    PROVE  ReusesAreExecuted'
<1>1. pc' = "call" /\ messages' = ms /\ effects' = effects
  BY DEF Fitted
<1>2. CASE ms = messages
  BY <1>1, <1>2, StageKeepsReuses
<1>3. CASE CallIdsUnique(ms)
  <2>1. \A id \in CallIds : ~IsReused(id, ms)
    BY <1>3, UniqueIsNotReused
  <2> QED
    BY <1>1, <2>1 DEF ReusesAreExecuted
<1> QED
  BY <1>2, <1>3

LEMMA CompactionFailureKeepsReuses ==
    ASSUME Inv, ReusesAreExecuted, pc \in {"fit", "compact"},
           CompactionFails \/ ReduceByPruning
    PROVE  ReusesAreExecuted'
<1>1. CASE ReduceByPruning /\ pc' # "idle"
  <2>1. CanPrune(messages, Limits) /\ Fitted(Pruned(messages, Limits))
    BY <1>1 DEF ReduceByPruning, Fail
  <2>2. CallIdsUnique(Pruned(messages, Limits))
    BY <2>1, PrunedIsUnique DEF Inv, TypeOK
  <2> QED
    BY <2>1, <2>2, FittedKeepsReuses
<1>2. CASE pc' = "idle"
  BY <1>2, IdleKeepsReuses
<1>3. CASE Fail("CompactionError")
  BY <1>3, IdleKeepsReuses DEF Fail
<1> QED
  BY <1>1, <1>2, <1>3 DEF CompactionFails

LEMMA ReduceKeepsReuses ==
    ASSUME Inv, ReusesAreExecuted,
           \/ ContextFits \/ PruneContext \/ CompactContext \/ CompactorRaises
           \/ \E c \in Compactions : CompactorReturns(c)
    PROVE  ReusesAreExecuted'
<1>1. CASE ContextFits
  BY <1>1, FittedKeepsReuses DEF ContextFits
<1>2. CASE pc \in {"fit", "compact"} /\ (CompactionFails \/ ReduceByPruning)
  BY <1>2, CompactionFailureKeepsReuses
<1>3. CASE CompactContext /\ ~CompactionFails
  BY <1>3, StageKeepsReuses DEF CompactContext, OverLimits, context, history
<1>4. ASSUME NEW c \in Compactions, CompactorReturns(c), ~CompactionFails
      PROVE  ReusesAreExecuted'
  BY <1>4, FittedKeepsReuses DEF CompactorReturns, CompactionAccepted, IsConversation
<1> QED
  BY <1>1, <1>2, <1>3, <1>4 DEF PruneContext, CompactContext, CompactorRaises,
                               CompactorReturns, OverLimits

LEMMA CallKeepsReuses ==
    ASSUME ReusesAreExecuted,
           \/ CallExact \/ CallAssignment \/ AssignmentFails \/ ModelCallerRaises
           \/ \E phase \in Phases : ExactFails(phase)
    PROVE  ReusesAreExecuted'
<1>1. CASE pc' = "idle"
  BY <1>1, IdleKeepsReuses
<1>2. CASE pc' # "idle"
  <2>1. /\ pc \in {"call", "exact"} /\ pc' \in {"exact", "assignment"}
        /\ UNCHANGED <<messages, effects>>
    BY <1>2 DEF CallExact, CallAssignment, AssignmentFails, ModelCallerRaises, ExactFails,
                Fail, context, history
  <2> QED
    BY <2>1, StageKeepsReuses
<1> QED
  BY <1>1, <1>2

\* The calls of an answer are the open batch.
LEMMA AnswerKeepsReuses ==
    ASSUME Inv, ReusesAreExecuted, NEW route \in Routes, NEW answer \in Answers,
           ModelAnswers(route, answer)
    PROVE  ReusesAreExecuted'
<1>1. CASE pc' = "idle"
  BY <1>1, IdleKeepsReuses
<1>2. CASE pc' # "idle"
  <2>1. /\ pc \in {"exact", "assignment"} /\ pc' = "tools" /\ results' = <<>>
        /\ messages' = Append(messages, answer) /\ effects' = effects
    BY <1>2 DEF ModelAnswers, Fail, history
  <2>2. messages \in Seq(Message) /\ answer \in Message
    BY HarnessAssumption DEF Inv, TypeOK
  <2>3. Batch' = answer.calls
    BY <2>1, <2>2 DEF Batch
  <2>4. ASSUME NEW id \in CallIds, IsReused(id, messages')
        PROVE  id \in (Executed \cup OpenCalls)'
    <3>1. IsReused(id, messages) \/ \E k \in DOMAIN answer.calls : answer.calls[k] = id
      BY <2>1, <2>2, <2>4, ReusedWithNext
    <3>2. IsReused(id, messages) => id \in Executed'
      BY <2>1 DEF ReusesAreExecuted, OpenCalls, Executed
    <3>3. OpenCalls' = {answer.calls[k] : k \in DOMAIN answer.calls}
      BY <2>1, <2>3 DEF OpenCalls
    <3> QED
      BY <3>1, <3>2, <3>3
  <2> QED
    BY <2>1, <2>4 DEF ReusesAreExecuted
<1> QED
  BY <1>1, <1>2

\* What is added to the results is added to the executions.
LEMMA ToolsKeepReuses ==
    ASSUME Inv, ReusesAreExecuted,
           \/ HandlerReturns \/ HandlerReturnsInvalid \/ ExecutorRaises
           \/ \E error \in {"PortError", "ToolProtocolError"} : HandlerRaises(error)
           \/ \E ids \in ExecutorResults : ExecutorReturns(ids)
    PROVE  ReusesAreExecuted'
<1>1. CASE pc' = "idle"
  BY <1>1, IdleKeepsReuses
<1>2. CASE pc' # "idle"
  <2>1. pc = "tools" /\ pc' = "tools" /\ messages' = messages
    BY <1>2 DEF HandlerReturns, HandlerReturnsInvalid, ExecutorRaises, HandlerRaises,
                ExecutorReturns, Executing, Fail
  <2>2. results \in Seq(CallIds) /\ effects \in Seq(CallIds)
    BY DEF Inv, TypeOK
  <2>3. PICK more : /\ effects' = effects \o more /\ more \in Seq(CallIds)
                    /\ results' = results \o more \/ results' = more
    <3>1. CASE HandlerReturns
      <4>1. NextCall \in CallIds
        <5>1. /\ messages \in Seq(Message) /\ messages # <<>>
              /\ Len(results) < Len(Batch)
          BY <2>1, <3>1 DEF Inv, TypeOK, RunInvariant, OpenBatch, HandlerReturns, Executing
        <5>2. messages[Len(messages)] \in Message
          BY <5>1
        <5>3. Batch \in Seq(CallIds)
          BY <5>2 DEF Batch, Message
        <5> QED
          BY <2>2, <5>1, <5>3 DEF NextCall
      <4>2. <<NextCall>> \in Seq(CallIds)
        BY <4>1
      <4>3. results' = results \o <<NextCall>> /\ effects' = effects \o <<NextCall>>
        BY <2>2, <3>1, <4>1, AppendIsConcat DEF HandlerReturns
      <4> QED
        BY <4>2, <4>3
    <3>2. ASSUME NEW ids \in ExecutorResults, ExecutorReturns(ids)
          PROVE  effects' = effects \o ids /\ ids \in Seq(CallIds) /\ results' = ids
      BY <1>2, <3>2, HarnessAssumption DEF ExecutorReturns
    <3>3. ~(HandlerReturnsInvalid \/ ExecutorRaises)
          /\ ~\E error \in {"PortError", "ToolProtocolError"} : HandlerRaises(error)
      BY <1>2 DEF HandlerReturnsInvalid, ExecutorRaises, HandlerRaises, Fail
    <3> QED
      BY <3>1, <3>2, <3>3
  <2>4. /\ \A i \in DOMAIN effects : i \in DOMAIN effects' /\ effects'[i] = effects[i]
        /\ \A i \in DOMAIN more :
              i + Len(effects) \in DOMAIN effects' /\ effects'[i + Len(effects)] = more[i]
    BY <2>2, <2>3
  <2>5. Executed \subseteq Executed' /\ {more[i] : i \in DOMAIN more} \subseteq Executed'
    BY <2>4 DEF Executed
  <2>6. \A i \in DOMAIN results' : results'[i] \in Executed'
    <3> SUFFICES ASSUME NEW i \in DOMAIN results' PROVE results'[i] \in Executed'
      OBVIOUS
    <3>1. \A k \in DOMAIN results : results[k] \in Executed
      BY <2>1 DEF ReusesAreExecuted
    <3>2. \/ i \in DOMAIN results /\ results'[i] = results[i]
          \/ \E k \in DOMAIN more : results'[i] = more[k]
      <4>1. CASE results' = more
        BY <4>1
      <4>2. CASE results' = results \o more
        <5>1. i \in 1 .. Len(results) + Len(more)
          BY <2>2, <2>3, <4>2
        <5>2. CASE i <= Len(results)
          BY <2>2, <2>3, <4>2, <5>1, <5>2
        <5>3. CASE i > Len(results)
          <6>1. i - Len(results) \in DOMAIN more /\ results'[i] = more[i - Len(results)]
            BY <2>2, <2>3, <4>2, <5>1, <5>3
          <6> QED
            BY <6>1
        <5> QED
          BY <2>2, <5>1, <5>2, <5>3
      <4> QED
        BY <2>3, <4>1, <4>2
    <3> QED
      BY <2>5, <3>1, <3>2
  <2>7. OpenCalls' = OpenCalls
    BY <2>1 DEF OpenCalls, Batch
  <2> QED
    BY <2>1, <2>5, <2>6, <2>7 DEF ReusesAreExecuted
<1> QED
  BY <1>1, <1>2

\* The calls of the batch have been executed when its turn ends.
LEMMA EndTurnKeepsReuses ==
    ASSUME Inv, ReusesAreExecuted, NEW body \in ResultBodies, EndTurn(body)
    PROVE  ReusesAreExecuted'
<1>1. CASE pc' = "idle"
  BY <1>1, IdleKeepsReuses
<1>2. CASE pc' # "idle"
  <2> DEFINE answer == Results(results, body)
  <2>1. /\ pc = "tools" /\ pc' = "fit" /\ effects' = effects
        /\ messages' = Append(messages, answer) /\ Len(results) = Len(Batch)
    BY <1>2 DEF EndTurn, Fail, history
  <2>2. messages \in Seq(Message) /\ results \in Seq(CallIds) /\ messages # <<>>
    BY <2>1 DEF Inv, TypeOK, RunInvariant, OpenBatch
  <2>3. answer \in Message /\ answer.role # "assistant"
    BY <2>2, HarnessAssumption DEF Results, Message
  <2> HIDE DEF answer
  <2>4. results = Batch
    <3>1. results = SubSeq(Batch, 1, Len(results))
      BY <2>1 DEF Inv, RunInvariant, OpenBatch
    <3>2. Batch \in Seq(CallIds)
      <4>1. messages[Len(messages)] \in Message
        BY <2>2
      <4> QED
        BY <4>1 DEF Batch, Message
    <3> QED
      BY <2>1, <3>1, <3>2
  <2>5. OpenCalls \subseteq Executed
    BY <2>1, <2>4 DEF ReusesAreExecuted, OpenCalls
  <2>6. ASSUME NEW id \in CallIds, IsReused(id, messages')
        PROVE  id \in Executed'
    <3>1. IsReused(id, messages)
      BY <2>1, <2>2, <2>3, <2>6, ReusedWithNext
    <3> QED
      BY <2>1, <2>5, <3>1 DEF ReusesAreExecuted, Executed
  <2> QED
    BY <2>1, <2>6 DEF ReusesAreExecuted
<1> QED
  BY <1>1, <1>2

LEMMA NextKeepsReuses == Inv /\ ReusesAreExecuted /\ [Next]_vars => ReusesAreExecuted'
<1> SUFFICES ASSUME Inv, ReusesAreExecuted, [Next]_vars PROVE ReusesAreExecuted'
  OBVIOUS
<1>1. CASE \E q \in Questions : Ask(q)
  BY <1>1, IdleKeepsReuses DEF Ask
<1>2. CASE StartRun
  <2>1. CallIdsUnique(held.messages)
    BY DEF Inv, HeldIsState, IsState, IsConversation
  <2> QED
    BY <1>2, <2>1, UniqueIsNotReused DEF StartRun, ReusesAreExecuted
<1>3. CASE RunStep
  <2>1. CASE Cancel
    BY <2>1, IdleKeepsReuses DEF Cancel, Fail
  <2> QED
    BY <1>3, <2>1, ReduceKeepsReuses, CallKeepsReuses, AnswerKeepsReuses, ToolsKeepReuses,
       EndTurnKeepsReuses DEF RunStep
<1>4. CASE UNCHANGED vars
  BY <1>4 DEF vars, ReusesAreExecuted, OpenCalls, Executed, Batch
<1> QED
  BY <1>1, <1>2, <1>3, <1>4 DEF Next

\* Flattening sequences that share no member and repeat none repeats none.
Apart(seqs) ==
    \A i, k \in DOMAIN seqs : \A j \in DOMAIN seqs[i], l \in DOMAIN seqs[k] :
        seqs[i][j] = seqs[k][l] => i = k /\ j = l

LEMMA FlattenOfApart ==
    ASSUME NEW S, NEW seqs \in Seq(Seq(S)), Apart(seqs)
    PROVE  IsInjective(FlattenSeq(seqs))
<1>1. CASE seqs = <<>>
  BY <1>1 DEF FlattenSeq, IsInjective
<1>2. CASE seqs # <<>>
  <2>1. PICK f \in [1 .. Len(seqs) -> Seq(S)] :
           Flattens(f, seqs, Len(seqs)) /\ FlattenSeq(seqs) = f[Len(seqs)]
    BY <1>2, FlattenSeqProperty
  <2> DEFINE Known(n) ==
         /\ IsInjective(f[n])
         /\ \A j \in DOMAIN f[n] : \E k \in 1 .. n : \E l \in DOMAIN seqs[k] :
               f[n][j] = seqs[k][l]
             Bad == {n \in 1 .. Len(seqs) : ~Known(n)}
  <2>2. Len(seqs) \in 1 .. Len(seqs) /\ DOMAIN seqs = 1 .. Len(seqs)
    BY <1>2
  <2>3. Bad = {}
    <3> SUFFICES ASSUME Bad # {} PROVE FALSE
      OBVIOUS
    <3>1. Bad \in SUBSET Nat
      OBVIOUS
    <3>2. PICK n \in Bad : \A k \in Bad : n <= k
      <4> HIDE DEF Bad
      <4> QED
        BY <3>1, LeastNatural
    <3>3. n \in 1 .. Len(seqs) /\ ~Known(n) /\ seqs[n] \in Seq(S)
      OBVIOUS
    <3>4. f[n] = IF n = 1 THEN seqs[n] ELSE f[n - 1] \o seqs[n]
      BY <2>1, <3>3 DEF Flattens
    <3>5. CASE n = 1
      <4>1. f[n] = seqs[n]
        BY <3>4, <3>5
      <4>2. IsInjective(f[n])
        BY <2>2, <3>3, <4>1 DEF Apart, IsInjective
      <4> QED
        BY <3>3, <3>5, <4>1, <4>2
    <3>6. CASE n # 1
      <4>1. n - 1 \in 1 .. Len(seqs) /\ ~(n <= n - 1)
        BY <3>3, <3>6
      <4>2. Known(n - 1) /\ f[n - 1] \in Seq(S) /\ f[n] = f[n - 1] \o seqs[n]
        BY <2>1, <3>2, <3>4, <3>6, <4>1
      <4>3. PICK short \in Seq(S), next \in Seq(S) :
               short = f[n - 1] /\ next = seqs[n] /\ f[n] = short \o next
        BY <3>3, <4>2
      <4>4. ASSUME NEW j \in DOMAIN (short \o next)
            PROVE  \/ j \in DOMAIN short /\ (short \o next)[j] = short[j]
                   \/ /\ j \notin DOMAIN short /\ j - Len(short) \in DOMAIN next
                      /\ (short \o next)[j] = next[j - Len(short)]
        <5>1. /\ j \in 1 .. Len(short) + Len(next)
              /\ DOMAIN short = 1 .. Len(short) /\ DOMAIN next = 1 .. Len(next)
              /\ Len(short) \in Nat /\ Len(next) \in Nat
          BY <4>4
        <5>2. CASE j <= Len(short)
          BY <5>1, <5>2
        <5>3. CASE j > Len(short)
          <6>1. j \notin DOMAIN short /\ j - Len(short) \in DOMAIN next
            BY <5>1, <5>3
          <6>2. (short \o next)[j] = next[j - Len(short)]
            BY <5>1, <5>3
          <6> QED
            BY <6>1, <6>2
        <5> QED
          BY <5>1, <5>2, <5>3
      <4>5. ASSUME NEW j \in DOMAIN short
            PROVE  \E k \in 1 .. n - 1 : \E l \in DOMAIN seqs[k] : short[j] = seqs[k][l]
        BY <4>2, <4>3
      <4>6. ASSUME NEW j \in DOMAIN short, NEW l \in DOMAIN next
            PROVE  short[j] # next[l]
        <5>1. PICK k \in 1 .. n - 1 : \E m \in DOMAIN seqs[k] : short[j] = seqs[k][m]
          BY <4>5
        <5>2. k \in DOMAIN seqs /\ n \in DOMAIN seqs /\ k # n
          BY <2>2, <3>3, <5>1
        <5> QED
          BY <4>3, <5>1, <5>2 DEF Apart
      <4>7. IsInjective(short \o next)
        <5> SUFFICES ASSUME NEW i \in DOMAIN (short \o next), NEW j \in DOMAIN (short \o next),
                            (short \o next)[i] = (short \o next)[j]
                     PROVE  i = j
          BY DEF IsInjective
        <5>1. CASE i \in DOMAIN short /\ j \in DOMAIN short
          BY <4>2, <4>3, <4>4, <5>1 DEF IsInjective
        <5>2. CASE i \notin DOMAIN short /\ j \notin DOMAIN short
          <6>1. next[i - Len(short)] = next[j - Len(short)]
            BY <4>4, <5>2
          <6>2. PICK a \in DOMAIN seqs[n], b \in DOMAIN seqs[n] :
                   a = i - Len(short) /\ b = j - Len(short) /\ seqs[n][a] = seqs[n][b]
            BY <4>3, <4>4, <5>2, <6>1
          <6>3. a = b
            <7>1. PICK spot \in DOMAIN seqs : spot = n
              BY <2>2, <3>3
            <7>2. \A c \in DOMAIN seqs[spot], d \in DOMAIN seqs[spot] :
                     seqs[spot][c] = seqs[spot][d] => c = d
              BY DEF Apart
            <7> QED
              BY <6>2, <7>1, <7>2
          <6>4. i \in Int /\ j \in Int /\ Len(short) \in Int
            BY <4>3
          <6> QED
            BY <6>2, <6>3, <6>4
        <5>3. CASE i \in DOMAIN short /\ j \notin DOMAIN short
          BY <4>4, <4>6, <5>3
        <5>4. CASE i \notin DOMAIN short /\ j \in DOMAIN short
          BY <4>4, <4>6, <5>4
        <5> QED
          BY <5>1, <5>2, <5>3, <5>4
      <4>8. ASSUME NEW j \in DOMAIN (short \o next)
            PROVE  \E k \in 1 .. n : \E l \in DOMAIN seqs[k] : (short \o next)[j] = seqs[k][l]
        <5>1. CASE j \in DOMAIN short
          <6>1. PICK k \in 1 .. n - 1 : \E l \in DOMAIN seqs[k] : short[j] = seqs[k][l]
            BY <4>5, <5>1
          <6>2. k \in 1 .. n
            BY <3>3
          <6> QED
            BY <4>4, <5>1, <6>1, <6>2
        <5>2. CASE j \notin DOMAIN short
          <6>1. n \in 1 .. n
            BY <3>3
          <6> QED
            BY <4>3, <4>4, <5>2, <6>1
        <5> QED
          BY <5>1, <5>2
      <4>9. Known(n)
        <5>1. IsInjective(f[n])
          BY <4>3, <4>7
        <5>2. \A j \in DOMAIN f[n] : \E k \in 1 .. n : \E l \in DOMAIN seqs[k] :
                 f[n][j] = seqs[k][l]
          <6> SUFFICES ASSUME NEW j \in DOMAIN f[n]
                       PROVE  \E k \in 1 .. n : \E l \in DOMAIN seqs[k] :
                                 f[n][j] = seqs[k][l]
            OBVIOUS
          <6>1. j \in DOMAIN (short \o next) /\ f[n][j] = (short \o next)[j]
            BY <4>3
          <6>2. PICK k \in 1 .. n : \E l \in DOMAIN seqs[k] : (short \o next)[j] = seqs[k][l]
            BY <4>8, <6>1
          <6> QED
            BY <6>1, <6>2
        <5> QED
          BY <5>1, <5>2
      <4> QED
        BY <3>3, <4>9
    <3> QED
      BY <3>5, <3>6
  <2> QED
    BY <2>1, <2>2, <2>3
<1> QED
  BY <1>1, <1>2

\* In a conversation each result has the ID of another call.
LEMMA ResultsOfConversation ==
    ASSUME NEW ms \in Seq(Message), IsConversation(ms)
    PROVE  IsInjective(ResultIds(ms))
<1> DEFINE all == [i \in DOMAIN ms |-> ResultsOf(ms[i])]
<1>1. /\ all \in Seq(Seq(CallIds)) /\ DOMAIN all = DOMAIN ms
      /\ \A i \in DOMAIN ms : all[i] = ResultsOf(ms[i])
  <2>1. ASSUME NEW i \in 1 .. Len(ms)
        PROVE  ResultsOf(ms[i]) \in Seq(CallIds)
    <3>1. ms[i] \in Message
      OBVIOUS
    <3> QED
      BY <3>1 DEF Message, ResultsOf
  <2>2. DOMAIN ms = 1 .. Len(ms) /\ Len(ms) \in Nat
    OBVIOUS
  <2> QED
    BY <2>1, <2>2
<1> HIDE DEF all
<1>2. ASSUME NEW i \in DOMAIN ms, NEW j \in DOMAIN ResultsOf(ms[i])
      PROVE  /\ <<i - 1, j>> \in CallPositions(ms)
             /\ ms[i - 1].calls[j] = ResultsOf(ms[i])[j] /\ i \in Nat
  <2>1. ResultsOf(ms[i]) = ms[i].results /\ IsResult(ms[i])
    BY <1>2 DEF ResultsOf, IsResult
  <2>2. i > 1 /\ IsCall(ms[i - 1]) /\ i \in 1 .. Len(ms)
    BY <2>1 DEF IsConversation, IsPaired
  <2>3. PICK c \in DOMAIN ms : c = i - 1
    BY <2>2
  <2>4. ms[c + 1].results = ms[c].calls /\ c + 1 = i
    BY <2>2, <2>3 DEF IsConversation, IsPaired
  <2> QED
    BY <1>2, <2>1, <2>2, <2>3, <2>4, CallPositionsProperty DEF IsCall
<1>3. Apart(all)
  <2> SUFFICES ASSUME NEW i \in DOMAIN ms, NEW k \in DOMAIN ms,
                      NEW j \in DOMAIN ResultsOf(ms[i]), NEW l \in DOMAIN ResultsOf(ms[k]),
                      ResultsOf(ms[i])[j] = ResultsOf(ms[k])[l]
               PROVE  i = k /\ j = l
    BY <1>1 DEF Apart
  <2>1. PICK p \in CallPositions(ms), q \in CallPositions(ms) :
           p = <<i - 1, j>> /\ q = <<k - 1, l>>
    BY <1>2
  <2>2. ms[p[1]].calls[p[2]] = ms[q[1]].calls[q[2]]
    BY <1>2, <2>1
  <2>3. <<i - 1, j>> = <<k - 1, l>>
    BY <2>1, <2>2 DEF IsConversation, CallIdsUnique
  <2> QED
    BY <1>2, <2>3
<1>4. ResultIds(ms) = FlattenSeq(all)
  BY DEF ResultIds, all
<1> QED
  BY <1>1, <1>3, <1>4, FlattenOfApart

\* A message without calls can end a conversation.
LEMMA AnswerIsPaired ==
    ASSUME NEW ms \in Seq(Message), IsPaired(ms),
           NEW m \in Message, m.role = "assistant", m.calls = <<>>
    PROVE  IsPaired(Append(ms, m))
<1> DEFINE longer == Append(ms, m)
<1>1. /\ longer \in Seq(Message) /\ Len(longer) = Len(ms) + 1 /\ Len(ms) \in Nat
      /\ \A i \in 1 .. Len(ms) : longer[i] = ms[i]
      /\ longer[Len(ms) + 1] = m
      /\ DOMAIN longer = 1 .. Len(ms) + 1 /\ DOMAIN ms = 1 .. Len(ms)
  BY AppendProperties
<1>2. PrefixLength(longer) = PrefixLength(ms)
  BY AppendKeepsPrefix
<1>3. ~IsCall(m) /\ ~IsResult(m) /\ m.role # "system"
  BY DEF IsCall, IsResult
<1> HIDE DEF longer
<1>4. ASSUME NEW i \in DOMAIN longer, i # Len(ms) + 1
      PROVE  i \in DOMAIN ms /\ longer[i] = ms[i]
  BY <1>1, <1>4
<1>5. ASSUME NEW i \in DOMAIN longer, longer[i].role = "system"
      PROVE  i <= PrefixLength(longer)
  BY <1>1, <1>2, <1>3, <1>4, <1>5 DEF IsPaired
<1>6. ASSUME NEW i \in DOMAIN longer, IsCall(longer[i])
      PROVE  /\ i < Len(longer) /\ longer[i + 1].role = "user"
             /\ longer[i + 1].results = longer[i].calls
  <2>1. i \in DOMAIN ms /\ IsCall(ms[i]) /\ longer[i] = ms[i]
    BY <1>1, <1>3, <1>4, <1>6
  <2>2. i < Len(ms) /\ ms[i + 1].role = "user" /\ ms[i + 1].results = ms[i].calls
    BY <2>1 DEF IsPaired
  <2>3. longer[i + 1] = ms[i + 1]
    BY <1>1, <2>1, <2>2
  <2> QED
    BY <1>1, <2>1, <2>2, <2>3
<1>7. ASSUME NEW i \in DOMAIN longer, IsResult(longer[i])
      PROVE  i > 1 /\ IsCall(longer[i - 1])
  <2>1. i \in DOMAIN ms /\ IsResult(ms[i])
    BY <1>1, <1>3, <1>4, <1>7
  <2>2. i > 1 /\ IsCall(ms[i - 1])
    BY <2>1 DEF IsPaired
  <2>3. longer[i - 1] = ms[i - 1]
    BY <1>1, <2>1, <2>2
  <2> QED
    BY <2>2, <2>3
<1> QED
  BY <1>5, <1>6, <1>7 DEF IsPaired, longer

\* Where IDs are not unique, one is reused.
LEMMA SharedIsReused ==
    ASSUME NEW ms \in Seq(Message), ~CallIdsUnique(ms)
    PROVE  \E id \in CallIds : IsReused(id, ms)
<1>1. PICK p \in CallPositions(ms), q \in CallPositions(ms) :
         ms[p[1]].calls[p[2]] = ms[q[1]].calls[q[2]] /\ p # q
  BY DEF CallIdsUnique
<1>2. ms[p[1]].calls[p[2]] \in CallIds
  <2>1. p[1] \in DOMAIN ms /\ p[2] \in DOMAIN ms[p[1]].calls
    BY CallPositionsProperty
  <2>2. ms[p[1]].calls \in Seq(CallIds)
    <3>1. ms[p[1]] \in Message
      BY <2>1
    <3> QED
      BY <3>1 DEF Message
  <2> QED
    BY <2>1, <2>2
<1> QED
  BY <1>1, <1>2 DEF IsReused

\* A run that is refused at its end is too long or has executed a call whose ID
\* the messages name twice, and a run that ends well, with nothing reduced away,
\* has executed no call under an ID the conversation already had.
THEOREM ReusesAreFoundAtEnd == Spec => ReuseIsFoundAtEnd
<1> DEFINE FoundOut ==
       /\ pc \in {"exact", "assignment"} /\ outcome' = "InvalidConversationError" =>
             \/ Len(messages) >= MaxMessages
             \/ \E i \in DOMAIN effects : IsReused(effects[i], messages)
       /\ pc # "idle" /\ outcome' = "ok" /\ ~reduced =>
             IsInjective(ResultIds(held.messages) \o effects)
<1>1. Init => ReusesAreExecuted
  BY DEF Init, ReusesAreExecuted
<1>2. ASSUME Inv, Progress, ReusesAreExecuted, Inv', [Next]_vars
      PROVE  [FoundOut]_vars
  <2> SUFFICES ASSUME Next PROVE FoundOut
    BY <1>2
  <2>1. ASSUME pc # "idle", outcome' = "ok", ~reduced
        PROVE  IsInjective(ResultIds(held.messages) \o effects)
    <3>1. PICK answer \in Answers :
             /\ pc \in {"exact", "assignment"}
             /\ held'.messages = Append(messages, answer)
      BY <1>2, <2>1, SuccessReturnsMessages DEF Progress, RunIsOpen
    <3>2. /\ messages \in Seq(Message) /\ held.messages \in Seq(Message)
          /\ held'.messages \in Seq(Message)
          /\ answer \in Message /\ ResultsOf(answer) = <<>>
      BY <1>2, HarnessAssumption DEF Inv, TypeOK, IsAnswer, ResultsOf
    <3>3. ResultIds(messages) \o <<>> = ResultIds(held.messages) \o effects
      BY <1>2, <2>1, <3>1 DEF Progress, EffectsSoFar, OpenResults
    <3>4. ResultIds(held'.messages) = ResultIds(messages) \o <<>>
      BY <3>1, <3>2, ResultIdsAppend
    <3>5. IsConversation(held'.messages)
      BY <1>2 DEF Inv, HeldIsState, IsState
    <3>6. IsInjective(ResultIds(held'.messages))
      BY <3>2, <3>5, ResultsOfConversation
    <3> QED
      BY <3>3, <3>4, <3>6
  <2>2. ASSUME pc \in {"exact", "assignment"}, outcome' = "InvalidConversationError"
        PROVE  \/ Len(messages) >= MaxMessages
               \/ \E i \in DOMAIN effects : IsReused(effects[i], messages)
    <3>1. \E r \in Routes, m \in Answers : ModelAnswers(r, m)
      BY <1>2, <2>2 DEF Next, RunStep, Ask, StartRun, ContextFits, PruneContext,
         CompactContext, OverLimits, CompactorReturns, CompactorRaises, CallExact,
         CallAssignment, ExactFails, AssignmentFails, ModelCallerRaises, HandlerReturns,
         HandlerReturnsInvalid, HandlerRaises, ExecutorReturns, ExecutorRaises, Executing,
         EndTurn, Cancel, Fail, Progress, RunIsOpen
    <3>2. PICK answer \in Answers : ~IsCall(answer) /\ ~IsState(Append(messages, answer))
      BY <2>2, <3>1, <1>2 DEF ModelAnswers, Fail, history, Progress, RunIsOpen
    <3>3. /\ messages \in Seq(Message) /\ answer \in Message /\ answer.role = "assistant"
          /\ answer.results = <<>> /\ answer.calls = <<>>
      BY <1>2, <3>2, HarnessAssumption DEF Inv, TypeOK, IsAnswer, IsCall
    <3>4. IsPaired(Append(messages, answer))
      <4>1. IsPaired(messages)
        BY <1>2, <2>2 DEF Inv, RunInvariant, PairedContext
      <4> QED
        BY <3>3, <4>1, AnswerIsPaired
    <3>5. SUFFICES ASSUME Len(messages) < MaxMessages
                   PROVE  \E i \in DOMAIN effects : IsReused(effects[i], messages)
      BY <3>3, HarnessAssumption
    <3>6. ~CallIdsUnique(Append(messages, answer))
      BY <3>2, <3>3, <3>4, <3>5, HarnessAssumption DEF IsState, IsConversation
    <3>7. PICK id \in CallIds : IsReused(id, Append(messages, answer))
      <4>1. Append(messages, answer) \in Seq(Message)
        BY <3>3
      <4> QED
        BY <3>6, <4>1, SharedIsReused
    <3>8. IsReused(id, messages)
      BY <3>3, <3>7, ReusedWithNext
    <3>9. id \in Executed
      BY <1>2, <2>2, <3>8 DEF ReusesAreExecuted, OpenCalls
    <3> QED
      BY <3>8, <3>9 DEF Executed
  <2> QED
    BY <2>1, <2>2
<1> QED
  BY <1>1, <1>2, InvariantHolds, ProgressHolds, NextKeepsReuses, PTL
     DEF Spec, ReuseIsFoundAtEnd

-----------------------------------------------------------------------------
(***************************************************************************)
(* The routes of a run implement RouteContract.                            *)
(***************************************************************************)

\* Steps that keep the route variables and the run going are stutters of the
\* contract; a failure is its Abort.
LEMMA RouteStutter ==
    ASSUME UNCHANGED <<held, sticky, excluded>>, pc # "idle", pc' # "idle"
    PROVE  UNCHANGED RC!routeVars
BY DEF RC!routeVars

\* A failed run, whatever it has executed, gives its route to nobody.
LEMMA RouteAbort ==
    ASSUME UNCHANGED <<held, sticky, excluded>>, pc # "idle", pc' = "idle"
    PROVE  RC!Next
BY DEF RC!Next, RC!Abort

\* Each step of the harness is a step of the contract or a stutter.
LEMMA StepImplementsRouteStep ==
    ASSUME Inv, Next
    PROVE  [RC!Next]_(RC!routeVars)
<1> DEFINE Goal == [RC!Next]_(RC!routeVars)
<1>0. /\ held.route \in Routes \cup {NoRoute}
      /\ sticky \in Routes \cup {NoRoute}
      /\ excluded \in Routes \cup {NoRoute}
      /\ NoRoute \notin Routes
  BY HarnessAssumption DEF Inv, TypeOK
<1>1. ASSUME pc # "idle", NEW error \in Errors, Fail(error)
      PROVE  Goal
  BY <1>1, RouteAbort DEF Fail, context
<1>2. ASSUME pc # "idle", NEW ms, Fitted(ms)
      PROVE  Goal
  BY <1>2, RouteStutter DEF Fitted
<1>3. ASSUME pc # "idle", ReduceByPruning \/ CompactionFails
      PROVE  Goal
  <2>1. Fail("InvalidConversationError") \/ Fail("CompactionError")
          \/ Fitted(Pruned(messages, Limits))
    BY <1>3 DEF ReduceByPruning, CompactionFails
  <2> QED
    BY <1>1, <1>2, <1>3, <2>1 DEF Errors
<1>4. CASE ContextFits \/ PruneContext
  BY <1>2, <1>3, <1>4 DEF ContextFits, PruneContext, OverLimits
<1>5. CASE CompactContext
  <2>1. CASE CompactionFails
    BY <1>3, <1>5, <2>1 DEF CompactContext, OverLimits
  <2>2. CASE pc' = "compact" /\ UNCHANGED <<held, context, outcome, history>>
    BY <1>5, <2>2, RouteStutter DEF CompactContext, OverLimits, context
  <2> QED
    BY <1>5, <2>1, <2>2 DEF CompactContext
<1>6. CASE CompactorRaises \/ \E c \in Compactions : CompactorReturns(c)
  BY <1>2, <1>3, <1>6 DEF CompactorRaises, CompactorReturns
<1>7. CASE CallExact \/ CallAssignment
  <2>1. pc = "call"
    BY <1>7 DEF CallExact, CallAssignment
  <2>2. CASE Fail("RouterContractError")
    BY <1>1, <2>1, <2>2 DEF Errors
  <2>3. CASE pc' \in {"exact", "assignment"} /\ UNCHANGED <<held, context, outcome,
  history>>
    BY <2>1, <2>3, RouteStutter DEF context
  <2> QED
    BY <1>7, <2>2, <2>3 DEF CallExact, CallAssignment
<1>8. ASSUME NEW phase \in Phases, ExactFails(phase)
      PROVE  Goal
  <2>1. pc = "exact" /\ sticky # NoRoute /\ excluded = NoRoute
    BY <1>8 DEF ExactFails, Inv, RunInvariant, RoutesOfTurn
  <2>2. CASE Fail("RouterContractError") \/ Fail("ModelCallError")
    BY <1>1, <2>1, <2>2 DEF Errors
  <2>3. CASE /\ pc' = "assignment" /\ excluded' = sticky
             /\ UNCHANGED <<policy, held, messages, sticky, turn, results, outcome, history>>
    BY <2>1, <2>3 DEF RC!Next, RC!FailOver
  <2> QED
    BY <1>8, <2>2, <2>3 DEF ExactFails
<1>9. CASE AssignmentFails \/ ModelCallerRaises
  BY <1>1, <1>9 DEF AssignmentFails, ModelCallerRaises, Errors
<1>10. ASSUME NEW r \in Routes, NEW m \in Answers, ModelAnswers(r, m)
       PROVE  Goal
  <2>1. pc # "idle"
    BY <1>10 DEF ModelAnswers
  <2>2. CASE \E error \in Errors : Fail(error)
    BY <1>1, <2>1, <2>2
  <2>3. CASE RouteAccepted(r) /\ ~\E error \in Errors : Fail(error)
    <3>1. RC!MayAnswer(r)
      BY <1>0, <1>10, <2>3 DEF RC!MayAnswer, RouteAccepted, ModelAnswers, Inv,
                               RunInvariant, RoutesOfTurn
    <3>2. /\ sticky' = r /\ excluded' = NoRoute
          /\ \/ pc' = "tools" /\ held' = held
             \/ pc' = "idle" /\ held'.route = r
      BY <1>10, <2>3 DEF ModelAnswers, Errors
    <3>3. RC!Answer(r)
      BY <2>1, <3>1, <3>2 DEF RC!Answer
    <3> QED
      BY <3>3 DEF RC!Next
  <2> QED
    BY <1>10, <2>2, <2>3 DEF ModelAnswers, Errors
<1>11. CASE HandlerReturns \/ \E ids \in ExecutorResults : ExecutorReturns(ids)
  BY <1>11, RouteStutter, RouteAbort DEF HandlerReturns, ExecutorReturns, Executing, context
<1>12. CASE HandlerReturnsInvalid
  BY <1>12, RouteAbort DEF HandlerReturnsInvalid, Executing, context
<1>13. CASE \/ ExecutorRaises
            \/ \E error \in {"PortError", "ToolProtocolError"} : HandlerRaises(error)
            \/ Cancel
  BY <1>1, <1>13 DEF ExecutorRaises, HandlerRaises, Cancel, Awaiting, Executing, Errors
<1>14. ASSUME NEW body \in ResultBodies, EndTurn(body)
       PROVE  Goal
  <2>1. pc = "tools"
    BY <1>14 DEF EndTurn
  <2>2. CASE Fail("TurnLimitError")
    BY <1>1, <2>1, <2>2 DEF Errors
  <2>3. CASE pc' = "fit" /\ UNCHANGED <<policy, held, sticky, excluded, results, outcome, history>>
    BY <2>1, <2>3, RouteStutter
  <2> QED
    BY <1>14, <2>2, <2>3 DEF EndTurn
<1>15. CASE StartRun
  BY <1>15 DEF StartRun, RC!Next, RC!Begin
<1>16. ASSUME NEW q \in Questions, Ask(q)
       PROVE  Goal
  <2>1. held'.route = held.route
    BY <1>16 DEF Ask, Inv, TypeOK
  <2>2. pc' = pc /\ sticky' = sticky /\ excluded' = excluded
    BY <1>16 DEF Ask, context
  <2> QED
    BY <2>1, <2>2 DEF RC!routeVars
<1> QED
  BY <1>4, <1>5, <1>6, <1>7, <1>8, <1>9, <1>10, <1>11, <1>12, <1>13, <1>14, <1>15, <1>16
     DEF Next, RunStep

\* Whatever a run does with messages, tools and context, its routes keep to the
\* contract: only a failure before visible output lets another route answer,
\* the failed one never does, and a failed run leaves the caller's route alone.
THEOREM RoutesImplementContract == Spec => KeepsRouteContract
<1>1. Init => RC!Init
  BY HarnessAssumption DEF Init, RC!Init, RC!MaybeRoute
<1>2. ASSUME Inv, [Next]_vars
      PROVE  [RC!Next]_(RC!routeVars)
  <2>1. CASE UNCHANGED vars
    BY <2>1 DEF vars, RC!routeVars
  <2> QED
    BY <1>2, <2>1, StepImplementsRouteStep
<1> QED
  BY <1>1, <1>2, InvariantHolds, PTL DEF Spec, KeepsRouteContract, RC!RouteSpec
-----------------------------------------------------------------------------
(***************************************************************************)
(* The loops of ConversationScan: what they know in front of the next      *)
(* message is what Conversation says of the messages before it.            *)
(***************************************************************************)

ScanType ==
    /\ given \in Seq(Message) /\ allowed \in LimitsSet
    /\ index \in 1 .. Len(given) + 1
    /\ groups \in Seq(Seq(Message)) /\ seen \subseteq CallIds
    /\ retained \in Seq(Message) /\ position \in Nat
    /\ place \in {"prefix", "scan", "invalid", "prune", "prefix too large",
                  "newest too large", "pruned"}

\* The messages before the i-th: their calls have their results among them, and
\* their IDs are these.
PairedBefore(i) ==
    /\ \A j \in 1 .. i - 1 : IsCall(given[j]) =>
          /\ j + 1 < i
          /\ given[j + 1].role = "user" /\ given[j + 1].results = given[j].calls
    /\ \A j \in 1 .. i - 1 : IsResult(given[j]) => j > 1 /\ IsCall(given[j - 1])

PositionsBefore(i) == {q \in CallPositions(given) : q[1] < i}

IdAt(q) == given[q[1]].calls[q[2]]

InPrefix ==
    place = "prefix" =>
        /\ \A j \in 1 .. index - 1 : given[j].role = "system"
        /\ groups = <<>> /\ seen = {} /\ position = 0

Accepted == place \notin {"prefix", "invalid"}

\* The exchanges before the next message are in order, and no ID is in them twice.
ExchangesScanned ==
    Accepted =>
        /\ index > PrefixLength(given)
        /\ \A j \in DOMAIN given : given[j].role = "system" => j <= PrefixLength(given)
        /\ PairedBefore(index)
        /\ seen = {IdAt(q) : q \in PositionsBefore(index)}
        /\ \A q, r \in PositionsBefore(index) : IdAt(q) = IdAt(r) => q = r

\* starts are the positions of the groups found so far, and of the next one.
Marks(starts) ==
    /\ starts \in [1 .. Len(groups) + 1 -> 1 .. Len(given) + 1]
    /\ starts[1] = 1 /\ starts[Len(groups) + 1] = index
    /\ \A j, k \in 1 .. Len(groups) + 1 : j < k => starts[j] < starts[k]
    /\ \A k \in 1 .. Len(groups) : groups[k] = SubSeq(given, starts[k], starts[k + 1] - 1)
    /\ {starts[k] : k \in 1 .. Len(groups)} = GroupStarts(given) \cap (1 .. index - 1)
    /\ PrefixLength(given) > 0 => groups # <<>> /\ starts[2] = PrefixLength(given) + 1

\* Pruning has kept the exchanges from the oldest on that it has looked at, and all of
\* these fit.
Keeps(starts) ==
    LET oldest == starts[Len(groups) + 1 - position] IN
    /\ retained = KeepFrom(given, oldest)
    /\ position <= Len(Candidates)
    /\ \A t \in ExchangeStarts(given) :
          t >= oldest => WithinLimits(KeepFrom(given, t), allowed)

GroupsMarked ==
    Accepted => \E starts : Marks(starts) /\ (place = "prune" => Keeps(starts))

ScanEnds ==
    /\ place = "invalid" => ~IsConversation(given)
    /\ place = "scan" => position = 0
    /\ Accepted /\ place # "scan" => index = Len(given) + 1
    /\ place = "prune" => WithinLimits(SystemPrefix(given), allowed)

ScanInv ==
    /\ ScanType /\ InPrefix /\ ExchangesScanned /\ GroupsMarked /\ ScanEnds
    /\ ScanDecides /\ PruneDecides


-----------------------------------------------------------------------------
\* What is before a message is before the next one too, and only that message's own
\* calls come with it.
LEMMA PositionsBeforeNext ==
    ASSUME given \in Seq(Message), NEW i \in DOMAIN given, NEW q
    PROVE  q \in PositionsBefore(i + 1) <=>
              \/ q \in PositionsBefore(i)
              \/ \E k \in DOMAIN given[i].calls : q = <<i, k>> /\ given[i].role = "assistant"
<1>1. i \in Nat /\ DOMAIN given \subseteq Nat
  OBVIOUS
<1>2. /\ \A r \in CallPositions(given) :
            /\ r[1] \in DOMAIN given /\ given[r[1]].role = "assistant"
            /\ r[2] \in DOMAIN given[r[1]].calls /\ r = <<r[1], r[2]>>
      /\ \A j \in DOMAIN given : \A k \in DOMAIN given[j].calls :
            given[j].role = "assistant" => <<j, k>> \in CallPositions(given)
  BY CallPositionsProperty
<1>3. ASSUME q \in PositionsBefore(i + 1), q \notin PositionsBefore(i)
      PROVE  \E k \in DOMAIN given[i].calls : q = <<i, k>> /\ given[i].role = "assistant"
  <2>1. q \in CallPositions(given) /\ q[1] < i + 1 /\ ~(q[1] < i)
    BY <1>3 DEF PositionsBefore
  <2>2. q[1] = i
    BY <1>1, <1>2, <2>1
  <2> QED
    BY <1>2, <2>1, <2>2
<1>4. ASSUME q \in PositionsBefore(i)
      PROVE  q \in PositionsBefore(i + 1)
  BY <1>1, <1>2, <1>4 DEF PositionsBefore
<1>5. ASSUME NEW k \in DOMAIN given[i].calls, q = <<i, k>>, given[i].role = "assistant"
      PROVE  q \in PositionsBefore(i + 1)
  BY <1>1, <1>2, <1>5 DEF PositionsBefore
<1> QED
  BY <1>3, <1>4, <1>5

\* A user message has no calls that count.
LEMMA NoCallsNext ==
    ASSUME given \in Seq(Message), NEW i \in DOMAIN given,
           given[i].role # "assistant" \/ given[i].calls = <<>>
    PROVE  PositionsBefore(i + 1) = PositionsBefore(i)
<1>1. \A k \in DOMAIN given[i].calls : given[i].role # "assistant"
  OBVIOUS
<1> QED
  BY <1>1, PositionsBeforeNext

\* Groups start at messages.
LEMMA StartsAreMessages ==
    ASSUME NEW ms \in Seq(Message)
    PROVE  /\ ExchangeStarts(ms) \subseteq PrefixLength(ms) + 1 .. Len(ms)
           /\ ExchangeStarts(ms) \subseteq 1 .. Len(ms)
           /\ GroupStarts(ms) \subseteq 1 .. Len(ms)
<1>1. PrefixLength(ms) \in 0 .. Len(ms)
  BY PrefixLengthProperty
<1> QED
  BY <1>1 DEF ExchangeStarts, GroupStarts

-----------------------------------------------------------------------------
LEMMA ScanInitInv == ScanInit => ScanInv
<1> SUFFICES ASSUME ScanInit PROVE ScanInv
  OBVIOUS
<1> USE DEF ScanInit
<1>1. given \in Seq(Message)
  BY ScanAssumption DEF ScanAssumption
<1>2. ScanType
  BY <1>1 DEF ScanType
<1> QED
  BY <1>2 DEF ScanInv, InPrefix, ExchangesScanned, GroupsMarked, ScanEnds, ScanDecides,
              PruneDecides, Accepted

LEMMA RejectPreservesScanInv ==
    ASSUME ScanInv, Reject, ~IsConversation(given)
    PROVE  ScanInv'
<1> USE DEF Reject, ScanInv
<1>1. ScanType'
  BY DEF ScanType
<1>2. ~CanPrune(given, allowed)'
  BY DEF CanPrune
<1> QED
  BY <1>1, <1>2 DEF InPrefix, ExchangesScanned, GroupsMarked, ScanEnds, ScanDecides,
                    PruneDecides, Accepted

LEMMA ScanPrefixPreservesScanInv ==
    ASSUME ScanInv, ScanPrefix
    PROVE  ScanInv'
<1> USE DEF ScanPrefix, ScanInv
<1>1. ScanType'
  BY DEF ScanType
<1>2. InPrefix'
  BY DEF InPrefix, ScanType
<1> QED
  BY <1>1, <1>2 DEF ExchangesScanned, GroupsMarked, ScanEnds, ScanDecides,
                    PruneDecides, Accepted

\* Where the prefix ends.
LEMMA PrefixEnds ==
    ASSUME ScanInv, place = "prefix",
           ~(index <= Len(given) /\ given[index].role = "system")
    PROVE  PrefixLength(given) = index - 1
<1>1. index \in 1 .. Len(given) + 1 /\ given \in Seq(Message) /\ Len(given) \in Nat
  BY DEF ScanInv, ScanType
<1>2. \A j \in 1 .. index - 1 : given[j].role = "system"
  BY DEF ScanInv, InPrefix
<1>3. index - 1 \in 0 .. Len(given)
  BY <1>1
<1>4. index - 1 < Len(given) => given[(index - 1) + 1].role # "system"
  BY <1>1
<1> QED
  BY <1>1, <1>2, <1>3, <1>4, PrefixLengthUnique

LEMMA RejectSystemPreservesScanInv ==
    ASSUME ScanInv, RejectSystemMessage
    PROVE  ScanInv'
<1> USE DEF RejectSystemMessage
<1>1. PrefixLength(given) = index - 1
  BY PrefixEnds
<1>2. index \in 1 .. Len(given) + 1 /\ given \in Seq(Message)
  BY DEF ScanInv, ScanType
<1>3. PICK i \in index .. Len(given) : given[i].role = "system"
  BY DEF LaterSystemMessage
<1>4. i \in DOMAIN given /\ ~(i <= PrefixLength(given))
  BY <1>1, <1>2
<1>5. ~IsConversation(given)
  BY <1>3, <1>4 DEF IsConversation, IsPaired
<1> QED
  BY <1>5, RejectPreservesScanInv

LEMMA EndPrefixPreservesScanInv ==
    ASSUME ScanInv, EndPrefix
    PROVE  ScanInv'
<1> USE DEF EndPrefix
<1> DEFINE p == PrefixLength(given)
<1>1. p = index - 1
  BY PrefixEnds
<1>2. /\ index \in 1 .. Len(given) + 1 /\ given \in Seq(Message) /\ Len(given) \in Nat
      /\ given' = given /\ index' = index /\ seen' = {} /\ seen = {} /\ position = 0
      /\ groups = <<>> /\ position' = position
  BY DEF ScanInv, ScanType, InPrefix
<1>3. /\ \A j \in 1 .. p : given[j].role = "system"
      /\ \A j \in DOMAIN given : given[j].role = "system" => j <= p
  <2>1. ASSUME NEW j \in DOMAIN given, given[j].role = "system", ~(j <= p)
        PROVE  FALSE
    <3>1. j \in index .. Len(given)
      BY <1>1, <1>2, <2>1
    <3> QED
      BY <2>1, <3>1 DEF LaterSystemMessage
  <2> QED
    BY <1>1, <2>1 DEF ScanInv, InPrefix
<1>4. PairedBefore(index)
  BY <1>1, <1>2, <1>3 DEF PairedBefore, IsCall, IsResult
<1>5. PositionsBefore(index) = {}
  <2> SUFFICES ASSUME NEW q \in CallPositions(given), q[1] < index
               PROVE  FALSE
    BY DEF PositionsBefore
  <2>1. q[1] \in DOMAIN given /\ given[q[1]].role = "assistant"
    BY <1>2, CallPositionsProperty
  <2>2. q[1] \in 1 .. p
    BY <1>1, <1>2, <2>1
  <2> QED
    BY <1>3, <2>1, <2>2
<1>6. ExchangesScanned'
  <2>1. PairedBefore(index)' /\ PositionsBefore(index)' = {}
    BY <1>2, <1>4, <1>5 DEF PairedBefore, PositionsBefore
  <2>2. index' > PrefixLength(given)'
    BY <1>1, <1>2
  <2>3. \A j \in DOMAIN given' : given'[j].role = "system" => j <= PrefixLength(given)'
    BY <1>2, <1>3
  <2> QED
    BY <1>2, <2>1, <2>2, <2>3 DEF ExchangesScanned
<1>7. \E starts : Marks(starts)'
  <2>1. CASE index = 1
    <3> DEFINE starts == [k \in 1 .. 1 |-> 1]
    <3>1. groups' = <<>> /\ p = 0
      BY <1>1, <2>1
    <3>2. Marks(starts)'
      BY <1>2, <2>1, <3>1 DEF Marks
    <3> QED
      BY <3>2
  <2>2. CASE index > 1
    <3>0. PICK starts : starts = [k \in 1 .. 2 |-> IF k = 1 THEN 1 ELSE index]
      OBVIOUS
    <3>1. groups' = <<SubSeq(given, 1, index - 1)>> /\ Len(groups') = 1 /\ p > 0
      BY <1>1, <1>2, <2>2
    <3>2. starts \in [1 .. 2 -> 1 .. Len(given) + 1] /\ starts[1] = 1 /\ starts[2] = index
      BY <1>2, <3>0
    <3>3. {starts[k] : k \in 1 .. 1} = {1}
      BY <3>2
    <3>4. GroupStarts(given) \cap (1 .. index - 1) = {1}
      <4>1. \A i \in ExchangeStarts(given) : i \notin 1 .. index - 1
        BY <1>1, <1>2, StartsAreMessages
      <4> QED
        BY <1>2, <2>2, <3>1, <4>1 DEF GroupStarts
    <3>5. Marks(starts)'
      <4>1. \A j, k \in 1 .. 2 : j < k => j = 1 /\ k = 2
        OBVIOUS
      <4>2. \A j, k \in 1 .. 2 : j < k => starts[j] < starts[k]
        BY <2>2, <3>2, <4>1
      <4>3. \A k \in 1 .. 1 : groups'[k] = SubSeq(given, starts[k], starts[k + 1] - 1)
        BY <3>1, <3>2
      <4>4. starts[2] = PrefixLength(given) + 1 /\ groups' # <<>>
        BY <1>1, <1>2, <3>1, <3>2
      <4>5. Len(groups') + 1 = 2
        BY <3>1
      <4>6. GroupStarts(given') \cap (1 .. index' - 1) = {starts[k] : k \in 1 .. Len(groups')}
        BY <1>2, <3>1, <3>3, <3>4
      <4> HIDE DEF p
      <4> QED
        BY <1>2, <3>1, <3>2, <4>2, <4>3, <4>4, <4>5, <4>6 DEF Marks
    <3> QED
      BY <3>5
  <2> QED
    BY <1>2, <2>1, <2>2
<1>8. GroupsMarked'
  BY <1>7 DEF GroupsMarked
<1>9. ScanType'
  <2>1. groups' \in Seq(Seq(Message))
    BY <1>2
  <2> QED
    BY <2>1 DEF ScanInv, ScanType
<1> QED
  BY <1>2, <1>6, <1>8, <1>9 DEF ScanInv, InPrefix, ScanEnds, ScanDecides, PruneDecides


\* The next message to scan is no system message, and no call is open in front of it.
LEMMA NextStartsExchange ==
    ASSUME ScanInv, place = "scan", index <= Len(given)
    PROVE  /\ index \in DOMAIN given /\ index \in 1 .. Len(given)
           /\ given \in Seq(Message) /\ Len(given) \in Nat
           /\ PrefixLength(given) \in 0 .. Len(given) /\ index > PrefixLength(given)
           /\ given[index].role \in {"user", "assistant"}
           /\ given[index].calls \in Seq(CallIds)
           /\ index > 1 => ~IsCall(given[index - 1])
           /\ index \in ExchangeStarts(given)
<1>1. given \in Seq(Message) /\ Len(given) \in Nat /\ index \in 1 .. Len(given)
  BY DEF ScanInv, ScanType
<1>2. PrefixLength(given) \in 0 .. Len(given)
  BY <1>1, PrefixLengthProperty
<1>3. /\ index > PrefixLength(given) /\ PairedBefore(index)
      /\ \A j \in DOMAIN given : given[j].role = "system" => j <= PrefixLength(given)
  BY DEF ScanInv, ExchangesScanned, Accepted
<1>4. index \in DOMAIN given /\ given[index] \in Message
  BY <1>1
<1>5. given[index].role \in {"user", "assistant"} /\ given[index].calls \in Seq(CallIds)
  <2>1. given[index].role # "system"
    BY <1>1, <1>2, <1>3, <1>4
  <2> QED
    BY <1>4, <2>1 DEF Message
<1>6. ASSUME index > 1
      PROVE  ~IsCall(given[index - 1])
  <2>1. index - 1 \in 1 .. index - 1 /\ ~((index - 1) + 1 < index)
    BY <1>1, <1>6
  <2> QED
    BY <1>3, <2>1 DEF PairedBefore
<1>7. index \in ExchangeStarts(given)
  BY <1>1, <1>2, <1>3, <1>6 DEF ExchangeStarts
<1> QED
  BY <1>1, <1>2, <1>3, <1>4, <1>5, <1>6, <1>7

\* A group of one message, or of a call and its results, goes behind the others.
LEMMA AddGroupKeepsMarks ==
    ASSUME ScanInv, place = "scan", index <= Len(given), NEW width \in {1, 2},
           AddGroup(width), index + width - 1 <= Len(given),
           width = 2 => IsCall(given[index])
    PROVE  GroupsMarked' /\ groups' \in Seq(Seq(Message))
<1> DEFINE n == Len(groups)
           group == SubSeq(given, index, index + width - 1)
<1>1. PICK starts : Marks(starts)
  BY DEF ScanInv, GroupsMarked, Accepted
<1>2. /\ index \in 1 .. Len(given) /\ given \in Seq(Message) /\ Len(given) \in Nat
      /\ PrefixLength(given) \in 0 .. Len(given) /\ index > PrefixLength(given)
      /\ index \in ExchangeStarts(given)
  BY NextStartsExchange
<1>3. groups \in Seq(Seq(Message)) /\ n \in Nat
  BY DEF ScanInv, ScanType
<1>4. PICK next : next = [k \in 1 .. n + 2 |-> IF k = n + 2 THEN index + width ELSE starts[k]]
  OBVIOUS
<1>5. group \in Seq(Message)
  BY <1>2
<1> HIDE DEF group
<1>6. /\ groups' \in Seq(Seq(Message)) /\ Len(groups') = n + 1
      /\ \A k \in 1 .. n : groups'[k] = groups[k]
      /\ groups'[n + 1] = group
  <2>1. groups' = Append(groups, group)
    BY DEF AddGroup, group
  <2>2. PICK g : g = group
    OBVIOUS
  <2>3. /\ Append(groups, g) \in Seq(Seq(Message)) /\ Len(Append(groups, g)) = Len(groups) + 1
        /\ \A k \in 1 .. Len(groups) : Append(groups, g)[k] = groups[k]
        /\ Append(groups, g)[Len(groups) + 1] = g
    BY <1>3, <1>5, <2>2, AppendProperties
  <2> QED
    BY <2>1, <2>2, <2>3
<1> HIDE DEF n
<1>7. /\ starts \in [1 .. n + 1 -> 1 .. Len(given) + 1]
      /\ starts[1] = 1 /\ starts[n + 1] = index
      /\ \A j, k \in 1 .. n + 1 : j < k => starts[j] < starts[k]
      /\ \A k \in 1 .. n : groups[k] = SubSeq(given, starts[k], starts[k + 1] - 1)
      /\ {starts[k] : k \in 1 .. n} = GroupStarts(given) \cap (1 .. index - 1)
      /\ PrefixLength(given) > 0 => groups # <<>> /\ starts[2] = PrefixLength(given) + 1
  BY <1>1 DEF Marks, n
<1>8. /\ \A k \in 1 .. n + 1 : next[k] = starts[k]
      /\ next[n + 2] = index + width
  BY <1>3, <1>4
<1>9. next \in [1 .. n + 2 -> 1 .. Len(given) + 1]
  <2>1. index + width \in 1 .. Len(given) + 1
    BY <1>2
  <2>2. \A k \in 1 .. n + 2 : k # n + 2 => k \in 1 .. n + 1
    BY <1>3
  <2>3. \A k \in 1 .. n + 1 : starts[k] \in 1 .. Len(given) + 1
    BY <1>7
  <2> QED
    BY <1>4, <2>1, <2>2, <2>3
<1>10. ASSUME NEW j \in 1 .. n + 2, NEW k \in 1 .. n + 2, j < k
       PROVE  next[j] < next[k]
  <2>1. j \in 1 .. n + 1
    BY <1>3, <1>10
  <2>2. CASE k \in 1 .. n + 1
    BY <1>7, <1>8, <1>10, <2>1, <2>2
  <2>3. CASE k \notin 1 .. n + 1
    <3>1. k = n + 2 /\ next[k] = index + width /\ next[j] = starts[j]
      BY <1>3, <1>8, <2>1, <2>3
    <3>2. starts[j] <= index
      <4>1. n + 1 \in 1 .. n + 1 /\ (j = n + 1 \/ j < n + 1)
        BY <1>3, <2>1
      <4>2. starts[j] \in Nat /\ index \in Nat
        BY <1>2, <1>7, <2>1
      <4> QED
        BY <1>7, <2>1, <4>1, <4>2
    <3>3. starts[j] \in Nat /\ index \in Nat
      BY <1>2, <1>7, <2>1
    <3> QED
      BY <3>1, <3>2, <3>3
  <2> QED
    BY <2>2, <2>3
<1>11. ASSUME NEW k \in 1 .. n + 1
       PROVE  groups'[k] = SubSeq(given, next[k], next[k + 1] - 1)
  <2>1. CASE k \in 1 .. n
    <3>1. k + 1 \in 1 .. n + 1 /\ k \in 1 .. n + 1
      BY <1>3, <2>1
    <3> QED
      BY <1>6, <1>7, <1>8, <2>1, <3>1
  <2>2. CASE k \notin 1 .. n
    <3>1. k = n + 1 /\ k + 1 = n + 2
      BY <1>3, <2>2
    <3>2. next[k] = index /\ next[k + 1] = index + width
      BY <1>7, <1>8, <3>1
    <3>3. groups'[k] = group
      BY <1>6, <3>1
    <3> QED
      <4>1. next[k + 1] - 1 = index + width - 1
        BY <1>2, <3>2
      <4> QED
        BY <3>2, <3>3, <4>1, Zenon DEF group
  <2> QED
    BY <2>1, <2>2
<1>12. {next[k] : k \in 1 .. n + 1} = GroupStarts(given) \cap (1 .. index + width - 1)
  <2>1. {next[k] : k \in 1 .. n + 1} = {starts[k] : k \in 1 .. n} \cup {index}
    <3>1. 1 .. n + 1 = (1 .. n) \cup {n + 1}
      BY <1>3
    <3>2. n + 1 \in 1 .. n + 1 /\ next[n + 1] = index
      BY <1>3, <1>7, <1>8
    <3>3. \A k \in 1 .. n : k \in 1 .. n + 1 /\ next[k] = starts[k]
      BY <1>8, <3>1
    <3>4. {next[k] : k \in 1 .. n + 1} = {next[k] : k \in 1 .. n} \cup {next[n + 1]}
      BY <3>1, Zenon
    <3>5. {next[k] : k \in 1 .. n} = {starts[k] : k \in 1 .. n}
      BY <3>3, Zenon
    <3> QED
      BY <3>2, <3>4, <3>5
  <2>2. index \in GroupStarts(given)
    BY <1>2 DEF GroupStarts
  <2>3. width = 2 => index + 1 \notin GroupStarts(given)
    <3>1. ASSUME width = 2 PROVE index + 1 \notin ExchangeStarts(given)
      BY <1>2, <3>1 DEF ExchangeStarts
    <3>2. index + 1 # 1
      BY <1>2
    <3> QED
      BY <3>1, <3>2 DEF GroupStarts
  <2>4. \A i \in 1 .. index + width - 1 :
           i \in 1 .. index - 1 \/ i = index \/ (width = 2 /\ i = index + 1)
    BY <1>2
  <2>5. 1 .. index - 1 \subseteq 1 .. index + width - 1 /\ index \in 1 .. index + width - 1
    BY <1>2
  <2> QED
    BY <1>7, <2>1, <2>2, <2>3, <2>4, <2>5
<1>13. PrefixLength(given) > 0 => groups' # <<>> /\ next[2] = PrefixLength(given) + 1
  <2> SUFFICES ASSUME PrefixLength(given) > 0
               PROVE  groups' # <<>> /\ next[2] = PrefixLength(given) + 1
    OBVIOUS
  <2>1. n >= 1
    BY <1>3, <1>7 DEF n
  <2>2. 2 \in 1 .. n + 1
    BY <1>3, <2>1
  <2>3. next[2] = starts[2] /\ starts[2] = PrefixLength(given) + 1
    BY <1>7, <1>8, <2>2
  <2>4. groups' # <<>>
    BY <1>3, <1>6, EmptySeq
  <2> QED
    BY <2>3, <2>4
<1>14. Marks(next)'
  <2>1. Len(groups') + 1 = n + 2
    BY <1>3, <1>6
  <2>2. next[1] = 1
    <3>1. 1 \in 1 .. n + 1
      BY <1>3
    <3>2. next[1] = starts[1]
      BY <1>8, <3>1
    <3> QED
      BY <1>7, <3>2
  <2>3. given' = given /\ index' = index + width
    BY DEF AddGroup
  <2>4. next \in [1 .. Len(groups') + 1 -> 1 .. Len(given') + 1]
    BY <1>9, <2>1, <2>3
  <2>5. next[Len(groups') + 1] = index'
    BY <1>8, <2>1, <2>3
  <2>6. \A j, k \in 1 .. Len(groups') + 1 : j < k => next[j] < next[k]
    BY <1>10, <2>1
  <2>7. \A k \in 1 .. Len(groups') :
           groups'[k] = SubSeq(given', next[k], next[k + 1] - 1)
    BY <1>6, <1>11, <2>3
  <2>8. {next[k] : k \in 1 .. Len(groups')} = GroupStarts(given') \cap (1 .. index' - 1)
    <3>1. 1 .. Len(groups') = 1 .. n + 1
      BY <1>6
    <3>2. 1 .. index' - 1 = 1 .. index + width - 1
      BY <1>2, <2>3
    <3> QED
      BY <1>12, <2>3, <3>1, <3>2, Zenon
  <2> QED
    BY <1>13, <2>2, <2>3, <2>4, <2>5, <2>6, <2>7, <2>8 DEF Marks
<1>15. place' = "scan"
  BY DEF AddGroup
<1> QED
  BY <1>6, <1>14, <1>15 DEF GroupsMarked

\* What is left when a group was added.
LEMMA AddGroupPreservesScanInv ==
    ASSUME ScanInv, place = "scan", index <= Len(given), NEW width \in {1, 2},
           AddGroup(width), index + width - 1 <= Len(given),
           width = 2 => IsCall(given[index]),
           PairedBefore(index + width), seen' \subseteq CallIds,
           seen' = {IdAt(q) : q \in PositionsBefore(index + width)},
           \A q, r \in PositionsBefore(index + width) : IdAt(q) = IdAt(r) => q = r
    PROVE  ScanInv'
<1> USE DEF AddGroup
<1>1. GroupsMarked' /\ groups' \in Seq(Seq(Message))
  BY AddGroupKeepsMarks
<1>2. /\ index \in 1 .. Len(given) /\ Len(given) \in Nat
      /\ PrefixLength(given) \in 0 .. Len(given) /\ index > PrefixLength(given)
  BY NextStartsExchange
<1>3. ScanType'
  BY <1>1, <1>2 DEF ScanInv, ScanType
<1>4. ExchangesScanned'
  <2>1. index' > PrefixLength(given)'
    BY <1>2
  <2>2. PairedBefore(index)' /\ PositionsBefore(index)' = PositionsBefore(index + width)
    BY DEF PairedBefore, PositionsBefore
  <2>3. \A q : IdAt(q)' = IdAt(q)
    BY DEF IdAt
  <2>4. \A j \in DOMAIN given : given[j].role = "system" => j <= PrefixLength(given)
    BY DEF ScanInv, ExchangesScanned, Accepted
  <2> QED
    BY <2>1, <2>2, <2>3, <2>4 DEF ExchangesScanned
<1> QED
  BY <1>1, <1>3, <1>4 DEF ScanInv, InPrefix, ScanEnds, ScanDecides, PruneDecides

\* One message that is neither a call nor a result.
LEMMA SinglePreservesScanInv ==
    ASSUME ScanInv, place = "scan", index <= Len(given), AddGroup(1), UNCHANGED seen,
           given[index].role = "assistant" => given[index].calls = <<>>,
           given[index].role = "user" => given[index].results = <<>>
    PROVE  ScanInv'
<1>1. index \in 1 .. Len(given) /\ index \in DOMAIN given /\ given \in Seq(Message)
  BY NextStartsExchange
<1>2. ~IsCall(given[index]) /\ ~IsResult(given[index])
  BY DEF IsCall, IsResult
<1>3. PairedBefore(index + 1)
  <2>1. PairedBefore(index)
    BY DEF ScanInv, ExchangesScanned, Accepted
  <2>2. \A j \in 1 .. (index + 1) - 1 : j = index \/ j \in 1 .. index - 1
    BY <1>1
  <2>3. \A j \in 1 .. index - 1 : j + 1 < index => j + 1 < index + 1
    BY <1>1
  <2> QED
    BY <1>2, <2>1, <2>2, <2>3 DEF PairedBefore
<1>4. PositionsBefore(index + 1) = PositionsBefore(index)
  BY <1>1, NoCallsNext
<1>5. /\ seen \subseteq CallIds
      /\ seen = {IdAt(q) : q \in PositionsBefore(index)}
      /\ \A q, r \in PositionsBefore(index) : IdAt(q) = IdAt(r) => q = r
  BY DEF ScanInv, ScanType, ExchangesScanned, Accepted
<1>6. index + 1 - 1 <= Len(given)
  BY <1>1
<1> QED
  BY <1>3, <1>4, <1>5, <1>6, AddGroupPreservesScanInv


\* The IDs seen so far and those of the next message.
LEMMA IdsBeforeNext ==
    ASSUME ScanInv, place = "scan", index <= Len(given), given[index].role = "assistant"
    PROVE  LET calls == given[index].calls IN
           /\ {IdAt(q) : q \in PositionsBefore(index + 1)} = seen \cup ToSet(calls)
           /\ FreshCallIds <=>
                 \A q, r \in PositionsBefore(index + 1) : IdAt(q) = IdAt(r) => q = r
<1> DEFINE calls == given[index].calls
           Before == PositionsBefore(index)
           After == PositionsBefore(index + 1)
<1>1. /\ index \in DOMAIN given /\ index \in Nat /\ given \in Seq(Message)
      /\ calls \in Seq(CallIds)
  BY NextStartsExchange
<1>2. /\ seen = {IdAt(q) : q \in Before}
      /\ \A q, r \in Before : IdAt(q) = IdAt(r) => q = r
  BY DEF ScanInv, ExchangesScanned, Accepted
<1>3. \A q : q \in After <=> q \in Before \/ \E k \in DOMAIN calls : q = <<index, k>>
  BY <1>1, PositionsBeforeNext
<1>4. ASSUME NEW k \in DOMAIN calls
      PROVE  <<index, k>> \in After /\ <<index, k>> \notin Before /\ IdAt(<<index, k>>) = calls[k]
  BY <1>1, <1>3 DEF IdAt, PositionsBefore
<1>5. ToSet(calls) = {calls[k] : k \in DOMAIN calls}
  BY DEF ToSet
<1>6. /\ FreshCallIds <=> \A i \in DOMAIN calls :
            calls[i] \notin seen /\ \A j \in 1 .. i - 1 : calls[j] # calls[i]
      /\ DOMAIN calls = 1 .. Len(calls) /\ Len(calls) \in Nat
  BY <1>1 DEF FreshCallIds
<1> HIDE DEF calls, Before, After
<1>7. {IdAt(q) : q \in After} = seen \cup ToSet(calls)
  <2>1. ASSUME NEW q \in After
        PROVE  IdAt(q) \in seen \cup ToSet(calls)
    BY <1>2, <1>3, <1>4, <1>5
  <2>2. ASSUME NEW id \in seen
        PROVE  \E q \in After : IdAt(q) = id
    BY <1>2, <1>3
  <2>3. ASSUME NEW id \in ToSet(calls)
        PROVE  \E q \in After : IdAt(q) = id
    BY <1>4, <1>5
  <2> QED
    BY <2>1, <2>2, <2>3
<1>8. ASSUME FreshCallIds, NEW q \in After, NEW r \in After, IdAt(q) = IdAt(r)
      PROVE  q = r
  <2>1. \A k \in DOMAIN calls : calls[k] \notin seen
    BY <1>6, <1>8
  <2>2. \A j, k \in DOMAIN calls : calls[j] = calls[k] => j = k
    <3> SUFFICES ASSUME NEW j \in DOMAIN calls, NEW k \in DOMAIN calls,
                        calls[j] = calls[k], j < k
                 PROVE  FALSE
      BY <1>6
    <3>1. j \in 1 .. k - 1
      BY <1>6
    <3> QED
      BY <1>6, <1>8, <3>1
  <2>3. CASE q \in Before /\ r \in Before
    BY <1>2, <1>8, <2>3
  <2>4. CASE q \in Before /\ r \notin Before
    <3>1. PICK k \in DOMAIN calls : r = <<index, k>>
      BY <1>3, <2>4
    <3>2. IdAt(q) \in seen /\ IdAt(r) = calls[k]
      BY <1>2, <1>4, <2>4, <3>1
    <3> QED
      BY <1>8, <2>1, <3>2
  <2>5. CASE q \notin Before /\ r \in Before
    <3>1. PICK k \in DOMAIN calls : q = <<index, k>>
      BY <1>3, <2>5
    <3>2. IdAt(r) \in seen /\ IdAt(q) = calls[k]
      BY <1>2, <1>4, <2>5, <3>1
    <3> QED
      BY <1>8, <2>1, <3>2
  <2>6. CASE q \notin Before /\ r \notin Before
    <3>1. PICK j \in DOMAIN calls : q = <<index, j>>
      BY <1>3, <2>6
    <3>2. PICK k \in DOMAIN calls : r = <<index, k>>
      BY <1>3, <2>6
    <3> QED
      BY <1>4, <1>8, <2>2, <3>1, <3>2
  <2> QED
    BY <2>3, <2>4, <2>5, <2>6
<1>9. ASSUME \A q, r \in After : IdAt(q) = IdAt(r) => q = r, NEW i \in DOMAIN calls
      PROVE  calls[i] \notin seen /\ \A j \in 1 .. i - 1 : calls[j] # calls[i]
  <2>1. ASSUME calls[i] \in seen
        PROVE  FALSE
    <3>1. PICK q \in Before : IdAt(q) = calls[i]
      BY <1>2, <2>1
    <3> QED
      BY <1>3, <1>4, <1>9, <3>1
  <2>2. ASSUME NEW j \in 1 .. i - 1, calls[j] = calls[i]
        PROVE  FALSE
    <3>1. j \in DOMAIN calls /\ j # i
      BY <1>6, <2>2
    <3>2. <<index, j>> = <<index, i>>
      BY <1>4, <1>9, <2>2, <3>1
    <3> QED
      BY <3>1, <3>2
  <2> QED
    BY <2>1, <2>2
<1>10. FreshCallIds <=> \A q, r \in After : IdAt(q) = IdAt(r) => q = r
  BY <1>6, <1>8, <1>9
<1> QED
  BY <1>7, <1>10 DEF calls, After

-----------------------------------------------------------------------------
LEMMA ScanUserPreservesScanInv ==
    ASSUME ScanInv, ScanUser \/ RejectOrphanResult
    PROVE  ScanInv'
<1> USE DEF Scanning
<1>1. CASE ScanUser
  BY <1>1, SinglePreservesScanInv DEF ScanUser
<1>2. CASE RejectOrphanResult
  <2> USE <1>2 DEF RejectOrphanResult
  <2>1. IsResult(given[index]) /\ index \in DOMAIN given
        /\ (index > 1 => ~IsCall(given[index - 1]))
    BY NextStartsExchange DEF IsResult
  <2>2. ~IsConversation(given)
    BY <2>1 DEF IsConversation, IsPaired
  <2> QED
    BY <2>2, RejectPreservesScanInv
<1> QED
  BY <1>1, <1>2

LEMMA ScanTextPreservesScanInv ==
    ASSUME ScanInv, ScanText \/ RejectReusedCallId
    PROVE  ScanInv'
<1> USE DEF Scanning
<1>1. CASE ScanText
  BY <1>1, SinglePreservesScanInv DEF ScanText
<1>2. CASE RejectReusedCallId
  <2> USE <1>2 DEF RejectReusedCallId
  <2>1. PICK q \in PositionsBefore(index + 1), r \in PositionsBefore(index + 1) :
           IdAt(q) = IdAt(r) /\ q # r
    BY IdsBeforeNext
  <2>2. ~IsConversation(given)
    BY <2>1 DEF IsConversation, CallIdsUnique, PositionsBefore, IdAt
  <2> QED
    BY <2>2, RejectPreservesScanInv
<1> QED
  BY <1>1, <1>2

LEMMA RejectResultsPreservesScanInv ==
    ASSUME ScanInv, RejectResults
    PROVE  ScanInv'
<1> USE DEF RejectResults, Scanning
<1>1. IsCall(given[index]) /\ index \in DOMAIN given
  BY NextStartsExchange DEF IsCall
<1>2. ~(/\ index < Len(given)
        /\ given[index + 1].role = "user"
        /\ given[index + 1].results = given[index].calls)
  BY DEF HasResult
<1>3. ~IsConversation(given)
  BY <1>1, <1>2 DEF IsConversation, IsPaired
<1> QED
  BY <1>3, RejectPreservesScanInv

LEMMA ScanCallPreservesScanInv ==
    ASSUME ScanInv, ScanCall
    PROVE  ScanInv'
<1> USE DEF ScanCall, Scanning
<1>1. /\ index \in DOMAIN given /\ index \in 1 .. Len(given) /\ Len(given) \in Nat
      /\ given \in Seq(Message) /\ given[index].calls \in Seq(CallIds)
  BY NextStartsExchange
<1>2. /\ IsCall(given[index]) /\ ~IsResult(given[index])
      /\ index < Len(given) /\ given[index + 1].role = "user"
      /\ given[index + 1].results = given[index].calls /\ ~IsCall(given[index + 1])
  BY DEF IsCall, IsResult, HasResult
<1>3. index + 1 \in DOMAIN given
  BY <1>1, <1>2
<1>4. PairedBefore(index + 2)
  <2>1. PairedBefore(index)
    BY DEF ScanInv, ExchangesScanned, Accepted
  <2>2. \A j \in 1 .. (index + 2) - 1 : j = index + 1 \/ j = index \/ j \in 1 .. index - 1
    BY <1>1
  <2>3. ASSUME NEW j \in 1 .. (index + 2) - 1, IsCall(given[j])
        PROVE  /\ j + 1 < index + 2
               /\ given[j + 1].role = "user" /\ given[j + 1].results = given[j].calls
    <3>1. CASE j = index
      BY <1>1, <1>2, <3>1
    <3>2. CASE j \in 1 .. index - 1
      BY <1>1, <2>1, <2>3, <3>2 DEF PairedBefore
    <3> QED
      BY <1>2, <2>2, <2>3, <3>1, <3>2
  <2>4. ASSUME NEW j \in 1 .. (index + 2) - 1, IsResult(given[j])
        PROVE  j > 1 /\ IsCall(given[j - 1])
    <3>1. CASE j = index + 1
      <4>1. j - 1 = index /\ j > 1
        BY <1>1, <3>1
      <4> QED
        BY <1>2, <4>1
    <3>2. CASE j \in 1 .. index - 1
      BY <2>1, <2>4, <3>2 DEF PairedBefore
    <3> QED
      BY <1>2, <2>2, <2>4, <3>1, <3>2
  <2> QED
    BY <2>3, <2>4 DEF PairedBefore
<1>5. PositionsBefore(index + 2) = PositionsBefore(index + 1)
  <2>1. (index + 1) + 1 = index + 2
    BY <1>1
  <2>2. PositionsBefore((index + 1) + 1) = PositionsBefore(index + 1)
    BY <1>1, <1>2, <1>3, NoCallsNext
  <2> QED
    BY <2>1, <2>2
<1>6. /\ {IdAt(q) : q \in PositionsBefore(index + 1)} = seen'
      /\ \A q, r \in PositionsBefore(index + 1) : IdAt(q) = IdAt(r) => q = r
  BY IdsBeforeNext
<1>7. seen' \subseteq CallIds
  <2>1. seen \subseteq CallIds
    BY DEF ScanInv, ScanType
  <2>2. ToSet(given[index].calls) \subseteq CallIds
    BY <1>1 DEF ToSet
  <2> QED
    BY <2>1, <2>2
<1>8. index + 2 - 1 <= Len(given) /\ 2 \in {1, 2}
  BY <1>1, <1>2
<1>9. AddGroup(2) /\ place = "scan" /\ index <= Len(given)
  OBVIOUS
<1> QED
  BY <1>2, <1>4, <1>5, <1>6, <1>7, <1>8, <1>9, AddGroupPreservesScanInv


-----------------------------------------------------------------------------
\* What the scan has accepted is a conversation.
LEMMA AcceptedIsConversation ==
    ASSUME ScanInv, Accepted, index = Len(given) + 1
    PROVE  IsConversation(given)
<1>1. given \in Seq(Message) /\ Len(given) \in Nat /\ DOMAIN given = 1 .. index - 1
  <2>1. given \in Seq(Message)
    BY DEF ScanInv, ScanType
  <2>2. Len(given) \in Nat /\ DOMAIN given = 1 .. Len(given)
    BY <2>1
  <2>3. index - 1 = Len(given)
    BY <2>2
  <2> QED
    BY <2>1, <2>2, <2>3
<1>2. /\ \A j \in DOMAIN given : given[j].role = "system" => j <= PrefixLength(given)
      /\ PairedBefore(index)
      /\ \A q, r \in PositionsBefore(index) : IdAt(q) = IdAt(r) => q = r
  BY DEF ScanInv, ExchangesScanned
<1>3. IsPaired(given)
  <2>1. \A j \in DOMAIN given : j + 1 < index => j < Len(given)
    BY <1>1
  <2> QED
    BY <1>1, <1>2, <2>1 DEF IsPaired, PairedBefore
<1>4. CallPositions(given) \subseteq PositionsBefore(index)
  <2> SUFFICES ASSUME NEW q \in CallPositions(given) PROVE q[1] < index
    BY DEF PositionsBefore
  <2>1. q[1] \in DOMAIN given
    BY <1>1, CallPositionsProperty
  <2> QED
    BY <1>1, <2>1
<1>5. CallIdsUnique(given)
  BY <1>2, <1>4 DEF CallIdsUnique, IdAt
<1> QED
  BY <1>3, <1>5 DEF IsConversation

\* The first group is the prefix if there is one, and the others are the exchanges.
FirstExchange == IF PrefixLength(given) > 0 THEN 2 ELSE 1

LEMMA GroupsAreExchanges ==
    ASSUME ScanInv, Accepted, index = Len(given) + 1, NEW starts, Marks(starts)
    PROVE  /\ Len(groups) \in Nat /\ FirstExchange \in 1 .. Len(groups) + 1
           /\ Prefix = SystemPrefix(given)
           /\ Candidates \in Seq(Seq(Message))
           /\ Len(Candidates) = Len(groups) + 1 - FirstExchange
           /\ \A i \in 1 .. Len(Candidates) : Candidates[i] = groups[i + FirstExchange - 1]
           /\ ExchangeStarts(given) = {starts[k] : k \in FirstExchange .. Len(groups)}
<1> DEFINE n == Len(groups)
           p == PrefixLength(given)
           c == FirstExchange
<1>1. /\ given \in Seq(Message) /\ Len(given) \in Nat /\ index = Len(given) + 1
      /\ groups \in Seq(Seq(Message)) /\ n \in Nat
  <2>1. given \in Seq(Message) /\ groups \in Seq(Seq(Message))
    BY DEF ScanInv, ScanType
  <2> QED
    BY <2>1
<1>2. /\ p \in 0 .. Len(given) /\ \A i \in 1 .. p : given[i].role = "system"
      /\ p < Len(given) => given[p + 1].role # "system"
  BY <1>1, PrefixLengthProperty
<1> HIDE DEF n, p
<1>3. /\ starts \in [1 .. n + 1 -> 1 .. Len(given) + 1]
      /\ starts[1] = 1 /\ starts[n + 1] = Len(given) + 1
      /\ \A j, k \in 1 .. n + 1 : j < k => starts[j] < starts[k]
      /\ \A k \in 1 .. n : groups[k] = SubSeq(given, starts[k], starts[k + 1] - 1)
      /\ {starts[k] : k \in 1 .. n} = GroupStarts(given) \cap (1 .. index - 1)
      /\ p > 0 => groups # <<>> /\ starts[2] = p + 1
  BY <1>1 DEF Marks, n, p
<1>4. \A k \in 1 .. n + 1 : starts[k] \in Nat /\ starts[k] >= 1 /\ starts[k] <= Len(given) + 1
  BY <1>1, <1>3
<1>5. p > 0 => n >= 1
  BY <1>1, <1>3 DEF n
<1>6. /\ c = IF p > 0 THEN 2 ELSE 1
      /\ c \in {1, 2} /\ c \in 1 .. n + 1
  BY <1>1, <1>2, <1>5 DEF FirstExchange, p
<1> HIDE DEF c
<1>7. GroupStarts(given) = {starts[k] : k \in 1 .. n}
  <2>1. GroupStarts(given) \subseteq 1 .. index - 1
    BY <1>1, StartsAreMessages
  <2> QED
    BY <1>3, <2>1
<1>8. HasPrefix(groups) <=> p > 0
  <2>1. CASE groups = <<>>
    BY <1>3, <1>2, <2>1 DEF HasPrefix
  <2>2. CASE groups # <<>>
    <3>1. n >= 1 /\ 1 \in 1 .. n /\ 1 \in 1 .. n + 1 /\ 2 \in 1 .. n + 1
      BY <1>1, <2>2 DEF n
    <3>2. PICK e : e = starts[2] - 1
      OBVIOUS
    <3>3. groups[1] = SubSeq(given, 1, e)
      BY <1>3, <3>1, <3>2
    <3>4. e \in Nat /\ e >= 1 /\ e <= Len(given)
      <4>1. starts[1] < starts[2]
        BY <1>3, <3>1
      <4> QED
        BY <1>1, <1>3, <1>4, <3>1, <3>2, <4>1
    <3>5. DOMAIN groups[1] = 1 .. e /\ \A i \in 1 .. e : groups[1][i] = given[i]
      BY <1>1, <3>3, <3>4
    <3>6. CASE p > 0
      <4>1. e = p
        BY <1>2, <1>3, <3>2, <3>6
      <4> QED
        BY <1>2, <2>2, <3>5, <3>6, <4>1 DEF HasPrefix
    <3>7. CASE ~(p > 0)
      <4>1. p = 0 /\ given[1].role # "system" /\ 1 \in 1 .. e
        BY <1>1, <1>2, <3>4, <3>7
      <4> QED
        BY <3>5, <3>7, <4>1 DEF HasPrefix
    <3> QED
      BY <3>6, <3>7
  <2> QED
    BY <2>1, <2>2
<1>9. Prefix = SystemPrefix(given)
  <2>1. CASE p > 0
    <3>1. 1 \in 1 .. n /\ starts[2] - 1 = p
      BY <1>1, <1>2, <1>3, <1>5, <2>1
    <3>2. groups[1] = SubSeq(given, 1, p)
      <4>1. PICK k \in 1 .. n : k = 1
        BY <3>1
      <4>2. groups[k] = SubSeq(given, starts[k], starts[k + 1] - 1)
        BY <1>3
      <4>3. k + 1 = 2
        BY <4>1
      <4> QED
        BY <1>3, <3>1, <4>1, <4>2, <4>3
    <3> QED
      BY <1>8, <2>1, <3>2 DEF Prefix, SystemPrefix, p
  <2>2. CASE ~(p > 0)
    <3>1. p = 0
      BY <1>2, <2>2
    <3>2. SubSeq(given, 1, 0) = <<>>
      BY <1>1
    <3> QED
      BY <1>8, <2>2, <3>1, <3>2 DEF Prefix, SystemPrefix, p
  <2> QED
    BY <2>1, <2>2
<1>10. /\ Candidates \in Seq(Seq(Message)) /\ Len(Candidates) = n + 1 - c
       /\ \A i \in 1 .. Len(Candidates) : Candidates[i] = groups[i + c - 1]
  <2>1. CASE p > 0
    <3>1. Candidates = Tail(groups) /\ groups # <<>> /\ c = 2
      BY <1>3, <1>6, <1>8, <2>1 DEF Candidates
    <3>2. /\ Tail(groups) \in Seq(Seq(Message)) /\ Len(Tail(groups)) = n - 1
          /\ \A i \in 1 .. Len(Tail(groups)) : Tail(groups)[i] = groups[i + 1]
      BY <1>1, <3>1, HeadTailProperties DEF n
    <3> QED
      BY <1>1, <3>1, <3>2
  <2>2. CASE ~(p > 0)
    <3>1. Candidates = groups /\ c = 1
      BY <1>6, <1>8, <2>2 DEF Candidates
    <3> QED
      BY <1>1, <3>1 DEF n
  <2> QED
    BY <2>1, <2>2
<1>11. ExchangeStarts(given) = {starts[k] : k \in c .. n}
  <2>1. ExchangeStarts(given) \subseteq p + 1 .. Len(given)
    BY <1>1, StartsAreMessages DEF p
  <2>2. CASE p > 0
    <3>1. c = 2 /\ n >= 1 /\ starts[2] = p + 1
      BY <1>3, <1>5, <1>6, <2>2
    <3>2. GroupStarts(given) = ExchangeStarts(given) \cup {1} /\ 1 \notin ExchangeStarts(given)
      BY <1>2, <2>1, <2>2 DEF GroupStarts, p
    <3>3. ASSUME NEW t \in ExchangeStarts(given)
          PROVE  \E k \in 2 .. n : t = starts[k]
      <4>1. PICK k \in 1 .. n : t = starts[k]
        BY <1>7, <3>2
      <4>2. k # 1
        BY <1>3, <3>2, <4>1
      <4> QED
        BY <1>1, <4>1, <4>2
    <3>4. ASSUME NEW k \in 2 .. n
          PROVE  starts[k] \in ExchangeStarts(given)
      <4>1. k \in 1 .. n /\ 1 < k /\ 1 \in 1 .. n + 1 /\ k \in 1 .. n + 1
        BY <1>1, <3>4
      <4>2. starts[k] \in GroupStarts(given) /\ starts[1] < starts[k]
        BY <1>3, <1>7, <4>1
      <4>3. starts[k] # 1
        BY <1>3, <4>2
      <4> QED
        BY <3>2, <4>2, <4>3
    <3> QED
      BY <3>1, <3>3, <3>4
  <2>3. CASE ~(p > 0)
    BY <1>6, <1>7, <2>3 DEF GroupStarts, p
  <2> QED
    BY <2>2, <2>3
<1> QED
  BY <1>1, <1>6, <1>9, <1>10, <1>11 DEF n, c


\* Two adjacent parts of a sequence, the later up to its end.
LEMMA GlueParts ==
    ASSUME NEW S, NEW s \in Seq(S), NEW i \in 1 .. Len(s), NEW j \in i .. Len(s) + 1
    PROVE  /\ SubSeq(s, i, j - 1) \in Seq(S) /\ SubSeq(s, j, Len(s)) \in Seq(S)
           /\ SubSeq(s, i, j - 1) \o SubSeq(s, j, Len(s)) = SubSeq(s, i, Len(s))
<1> DEFINE a == SubSeq(s, i, j - 1)
           b == SubSeq(s, j, Len(s))
           ab == SubSeq(s, i, Len(s))
<1>1. Len(s) \in Nat /\ i \in Nat /\ j \in Nat /\ i >= 1 /\ i <= j /\ j <= Len(s) + 1
  OBVIOUS
<1>2. /\ a \in Seq(S) /\ Len(a) = j - i
      /\ \A k \in 1 .. j - i : a[k] = s[i + k - 1]
  <2>1. \A k \in i .. j - 1 : s[k] \in S
    BY <1>1
  <2> QED
    BY <1>1, <2>1, SubSeqProperties
<1>3. /\ b \in Seq(S) /\ Len(b) = Len(s) - j + 1
      /\ \A k \in 1 .. Len(s) - j + 1 : b[k] = s[j + k - 1]
  <2>1. \A k \in j .. Len(s) : s[k] \in S
    BY <1>1
  <2> QED
    BY <1>1, <2>1, SubSeqProperties
<1>4. /\ ab \in Seq(S) /\ Len(ab) = Len(s) - i + 1
      /\ \A k \in 1 .. Len(s) - i + 1 : ab[k] = s[i + k - 1]
  BY <1>1
<1> HIDE DEF a, b, ab
<1>5. a \o b \in Seq(S) /\ Len(a \o b) = Len(s) - i + 1
  <2>1. a \o b \in Seq(S) /\ Len(a \o b) = Len(a) + Len(b)
    BY <1>2, <1>3, ConcatProperties
  <2> QED
    BY <1>1, <1>2, <1>3, <2>1
<1>6. ASSUME NEW k \in 1 .. Len(s) - i + 1
      PROVE  (a \o b)[k] = ab[k]
  <2>1. CASE k <= j - i
    <3>1. k \in 1 .. Len(a)
      BY <1>1, <1>2, <2>1
    <3>2. (a \o b)[k] = a[k]
      BY <1>2, <1>3, <3>1
    <3> QED
      BY <1>2, <1>4, <3>1, <3>2
  <2>2. CASE k > j - i
    <3>1. k \in Len(a) + 1 .. Len(a) + Len(b)
      BY <1>1, <1>2, <1>3, <2>2
    <3>2. (a \o b)[k] = b[k - Len(a)]
      <4>1. k \in 1 .. Len(a) + Len(b) /\ ~(k <= Len(a))
        BY <1>1, <1>2, <1>3, <3>1
      <4> QED
        BY <1>2, <1>3, <4>1, ConcatProperties
    <3>3. k - Len(a) \in 1 .. Len(s) - j + 1
      BY <1>1, <1>2, <2>2
    <3>4. b[k - Len(a)] = s[j + (k - Len(a)) - 1]
      BY <1>3, <3>3
    <3>5. j + (k - Len(a)) - 1 = i + k - 1
      BY <1>1, <1>2
    <3> QED
      BY <1>4, <3>2, <3>4, <3>5
  <2>3. k <= j - i \/ k > j - i
    BY <1>1
  <2> QED
    BY <2>1, <2>2, <2>3, Zenon
<1>7. a \o b = ab
  BY <1>4, <1>5, <1>6, SeqEqual
<1> QED
  BY <1>2, <1>3, <1>7 DEF a, b, ab

LEMMA BehindFront ==
    ASSUME NEW S, NEW a \in Seq(S), NEW b \in Seq(S)
    PROVE  SubSeq(a \o b, Len(a) + 1, Len(a \o b)) = b
<1> DEFINE ab == a \o b
           rest == SubSeq(ab, Len(a) + 1, Len(ab))
<1>1. Len(a) \in Nat /\ Len(b) \in Nat
  OBVIOUS
<1>2. /\ ab \in Seq(S) /\ Len(ab) = Len(a) + Len(b)
      /\ \A k \in 1 .. Len(b) : ab[Len(a) + k] = b[k]
  <2>1. ab \in Seq(S) /\ Len(ab) = Len(a) + Len(b)
    BY ConcatProperties
  <2>2. ASSUME NEW k \in 1 .. Len(b)
        PROVE  ab[Len(a) + k] = b[k]
    BY <1>1
  <2> QED
    BY <2>1, <2>2
<1> HIDE DEF ab
<1>3. /\ rest \in Seq(S) /\ Len(rest) = Len(b)
      /\ \A k \in 1 .. Len(b) : rest[k] = ab[Len(a) + k]
  <2>1. \A k \in Len(a) + 1 .. Len(ab) : ab[k] \in S
    BY <1>1, <1>2
  <2>2. Len(a) + 1 \in Int /\ Len(ab) \in Int /\ Len(a) + 1 <= Len(ab) + 1
    BY <1>1, <1>2
  <2>3. /\ rest \in Seq(S)
        /\ Len(rest) = Len(ab) - (Len(a) + 1) + 1
        /\ \A k \in 1 .. Len(ab) - (Len(a) + 1) + 1 : rest[k] = ab[(Len(a) + 1) + k - 1]
    BY <2>1, <2>2, SubSeqProperties
  <2>4. Len(ab) - (Len(a) + 1) + 1 = Len(b)
    BY <1>1, <1>2
  <2>5. \A k \in 1 .. Len(b) : (Len(a) + 1) + k - 1 = Len(a) + k
    BY <1>1
  <2> QED
    BY <2>3, <2>4, <2>5
<1> HIDE DEF rest
<1>4. rest = b
  BY <1>2, <1>3, SeqEqual
<1> QED
  BY <1>4 DEF rest, ab


-----------------------------------------------------------------------------
\* The loop of prune_messages: what it knows of the groups it has looked at.
LEMMA PruneKnows ==
    ASSUME ScanInv, place = "prune"
    PROVE  \E starts :
              /\ Marks(starts) /\ Keeps(starts)
              /\ given \in Seq(Message) /\ Len(given) \in Nat
              /\ Len(groups) \in Nat /\ position \in Nat
              /\ Prefix = SystemPrefix(given)
              /\ FirstExchange \in 1 .. Len(groups) + 1
              /\ Len(Candidates) = Len(groups) + 1 - FirstExchange
              /\ \A i \in 1 .. Len(Candidates) : Candidates[i] = groups[i + FirstExchange - 1]
              /\ ExchangeStarts(given) = {starts[k] : k \in FirstExchange .. Len(groups)}
              /\ \A k \in 1 .. Len(groups) + 1 : starts[k] \in 1 .. Len(given) + 1
              /\ IsConversation(given)
<1>1. PICK starts : Marks(starts) /\ Keeps(starts)
  BY DEF ScanInv, GroupsMarked, Accepted
<1>2. Accepted /\ index = Len(given) + 1
  BY DEF Accepted, ScanInv, ScanEnds
<1>3. given \in Seq(Message) /\ position \in Nat
  BY DEF ScanInv, ScanType
<1>4. \A k \in 1 .. Len(groups) + 1 : starts[k] \in 1 .. Len(given) + 1
  BY <1>1 DEF Marks
<1>5. IsConversation(given)
  BY <1>2, AcceptedIsConversation
<1>6. Len(given) \in Nat
  BY <1>3
<1> QED
  BY <1>1, <1>2, <1>3, <1>4, <1>5, <1>6, GroupsAreExchanges

\* The next proposal adds the next older exchange.
LEMMA ProposedAddsExchange ==
    ASSUME ScanInv, place = "prune", position < Len(Candidates),
           NEW starts, Marks(starts), Keeps(starts)
    PROVE  Proposed = KeepFrom(given, starts[Len(groups) - position])
<1> DEFINE n == Len(groups)
           front == SystemPrefix(given)
<1>1. Accepted /\ index = Len(given) + 1
  BY DEF Accepted, ScanInv, ScanEnds
<1>2. /\ Prefix = front /\ n \in Nat /\ FirstExchange \in 1 .. n + 1
      /\ Len(Candidates) = n + 1 - FirstExchange
      /\ \A i \in 1 .. Len(Candidates) : Candidates[i] = groups[i + FirstExchange - 1]
  BY <1>1, GroupsAreExchanges
<1>3. given \in Seq(Message) /\ position \in Nat
  BY DEF ScanInv, ScanType
<1> HIDE DEF n
<1>4. PICK k \in 1 .. n : k = n - position
  <2>1. n - position \in 1 .. n
    BY <1>2, <1>3
  <2> QED
    BY <2>1
<1>5. Candidate = groups[k]
  <2>1. PICK i \in 1 .. Len(Candidates) : i = Len(Candidates) - position
    <3>1. Len(Candidates) \in Nat
      BY <1>2
    <3>2. Len(Candidates) - position \in 1 .. Len(Candidates)
      BY <1>3, <3>1
    <3> QED
      BY <3>2
  <2>2. Candidates[i] = groups[i + FirstExchange - 1]
    BY <1>2
  <2>3. i + FirstExchange - 1 = k
    BY <1>2, <1>3, <1>4, <2>1
  <2> QED
    BY <2>1, <2>2, <2>3 DEF Candidate
<1>6. /\ k \in 1 .. n + 1 /\ k + 1 \in 1 .. n + 1 /\ k < k + 1 /\ n + 1 - position = k + 1
      /\ n + 1 \in 1 .. n + 1 /\ k < n + 1
  BY <1>2, <1>3, <1>4
<1>7. /\ starts \in [1 .. n + 1 -> 1 .. Len(given) + 1] /\ starts[n + 1] = Len(given) + 1
      /\ \A j, l \in 1 .. n + 1 : j < l => starts[j] < starts[l]
      /\ groups[k] = SubSeq(given, starts[k], starts[k + 1] - 1)
  BY <1>1, <1>4 DEF Marks, n
<1>8. PICK s \in 1 .. Len(given) : s = starts[k]
  <2>1. starts[k] < starts[n + 1]
    BY <1>6, <1>7
  <2>2. starts[k] \in 1 .. Len(given)
    BY <1>3, <1>6, <1>7, <2>1
  <2> QED
    BY <2>2
<1>9. PICK e \in s .. Len(given) + 1 : e = starts[k + 1]
  <2>1. starts[k] < starts[k + 1]
    BY <1>6, <1>7
  <2>2. starts[k + 1] \in s .. Len(given) + 1
    BY <1>3, <1>6, <1>7, <1>8, <2>1
  <2> QED
    BY <2>2
<1>10. Candidate = SubSeq(given, s, e - 1)
  BY <1>5, <1>7, <1>8, <1>9
<1>11. retained = front \o SubSeq(given, e, Len(given))
  BY <1>6, <1>9 DEF Keeps, KeepFrom, n
<1>12. /\ SubSeq(given, s, e - 1) \in Seq(Message) /\ SubSeq(given, e, Len(given)) \in Seq(Message)
       /\ SubSeq(given, s, e - 1) \o SubSeq(given, e, Len(given)) = SubSeq(given, s, Len(given))
  BY <1>3, GlueParts
<1>13. front \in Seq(Message)
  <2>1. PrefixLength(given) \in 0 .. Len(given)
    BY <1>3, PrefixLengthProperty
  <2> QED
    BY <1>3, <2>1 DEF SystemPrefix
<1> DEFINE older == SubSeq(given, s, e - 1)
           newer == SubSeq(given, e, Len(given))
<1>14. Proposed = (front \o older) \o SubSeq(front \o newer, Len(front) + 1, Len(front \o newer))
  BY <1>2, <1>10, <1>11 DEF Proposed
<1>15. KeepFrom(given, s) = front \o (older \o newer)
  BY <1>12 DEF KeepFrom
<1> HIDE DEF older, newer, front
<1>16. older \in Seq(Message) /\ newer \in Seq(Message)
  BY <1>12 DEF older, newer
<1>17. Proposed = (front \o older) \o newer
  BY <1>13, <1>14, <1>16, BehindFront
<1>18. Regroups(front, older, newer)
  BY <1>13, <1>16, Associative
<1>19. Proposed = KeepFrom(given, s)
  BY <1>15, <1>17, <1>18 DEF Regroups
<1> QED
  BY <1>4, <1>8, <1>19 DEF n

LEMMA StartPrunePreservesScanInv ==
    ASSUME ScanInv, StartPrune
    PROVE  ScanInv'
<1>0. /\ place = "scan" /\ index > Len(given) /\ retained' = Prefix
      /\ place' = IF WithinLimits(Prefix, allowed) THEN "prune" ELSE "prefix too large"
      /\ given' = given /\ allowed' = allowed /\ index' = index /\ groups' = groups
      /\ seen' = seen /\ position' = position
  BY DEF StartPrune
<1>1. given \in Seq(Message) /\ index = Len(given) + 1 /\ Accepted
  <2>1. given \in Seq(Message) /\ index \in 1 .. Len(given) + 1
    BY DEF ScanInv, ScanType
  <2>2. Len(given) \in Nat
    BY <2>1
  <2>3. index > Len(given)
    BY <1>0
  <2>4. index = Len(given) + 1
    BY <2>1, <2>2, <2>3
  <2>5. Accepted
    BY <1>0, Zenon DEF Accepted
  <2> QED
    BY <2>1, <2>4, <2>5
<1>2. PICK starts : Marks(starts)
  BY <1>1 DEF ScanInv, GroupsMarked
<1>3. /\ Prefix = SystemPrefix(given) /\ Len(groups) \in Nat
      /\ FirstExchange \in 1 .. Len(groups) + 1
      /\ Len(Candidates) = Len(groups) + 1 - FirstExchange
      /\ ExchangeStarts(given) = {starts[k] : k \in FirstExchange .. Len(groups)}
  BY <1>1, <1>2, GroupsAreExchanges
<1>4. IsConversation(given) /\ position = 0
  BY <1>0, <1>1, AcceptedIsConversation DEF ScanInv, ScanEnds
<1>5. SystemPrefix(given) \in Seq(Message)
  <2>1. PrefixLength(given) \in 0 .. Len(given)
    BY <1>1, PrefixLengthProperty
  <2> QED
    BY <1>1, <2>1 DEF SystemPrefix
<1>6. ScanType'
  BY <1>0, <1>3, <1>5 DEF ScanInv, ScanType
<1>7. Marks(starts)'
  BY <1>0, <1>2 DEF Marks
<1>8. Keeps(starts)'
  <2>1. starts[Len(groups) + 1] = Len(given) + 1 /\ Len(groups) + 1 - 0 = Len(groups) + 1
    BY <1>1, <1>2, <1>3 DEF Marks
  <2>2. KeepFrom(given, Len(given) + 1) = SystemPrefix(given)
    <3>1. SubSeq(given, Len(given) + 1, Len(given)) = <<>>
      BY <1>1
    <3> QED
      BY <1>5, <3>1, ConcatEmptySeq DEF KeepFrom
  <2>3. \A t \in ExchangeStarts(given) : ~(t >= Len(given) + 1)
    <3>1. \A t \in ExchangeStarts(given) : t \in 1 .. Len(given)
      BY <1>1, StartsAreMessages
    <3>2. \A t \in 1 .. Len(given) : ~(t >= Len(given) + 1)
      BY <1>1
    <3> QED
      BY <3>1, <3>2
  <2>4. 0 <= Len(Candidates) /\ Candidates' = Candidates
    <3>1. 0 <= Len(Candidates)
      BY <1>3
    <3>2. Candidates' = Candidates
      BY <1>0, Zenon DEF Candidates, HasPrefix
    <3> QED
      BY <3>1, <3>2
  <2>5. /\ retained' = KeepFrom(given', starts[Len(groups') + 1 - position'])
        /\ position' <= Len(Candidates)'
    BY <1>0, <1>3, <1>4, <2>1, <2>2, <2>4
  <2>6. \A t \in ExchangeStarts(given') : t >= starts[Len(groups') + 1 - position'] =>
           WithinLimits(KeepFrom(given', t), allowed')
    BY <1>0, <1>4, <2>1, <2>3
  <2> QED
    BY <2>5, <2>6 DEF Keeps
<1>9. GroupsMarked'
  BY <1>7, <1>8 DEF GroupsMarked
<1>10. ExchangesScanned'
  BY <1>0, <1>1 DEF ScanInv, ExchangesScanned, Accepted, PairedBefore, PositionsBefore, IdAt
<1>11. ScanEnds'
  BY <1>0, <1>1, <1>3, <1>4 DEF ScanEnds
<1>12. place' = "prefix too large" => ~CanPrune(given, allowed)'
  BY <1>0, <1>3 DEF CanPrune
<1> QED
  BY <1>0, <1>4, <1>6, <1>9, <1>10, <1>11, <1>12
     DEF ScanInv, InPrefix, ScanDecides, PruneDecides


LEMMA KeepCandidatePreservesScanInv ==
    ASSUME ScanInv, KeepCandidate
    PROVE  ScanInv'
<1>0. /\ place = "prune" /\ position < Len(Candidates) /\ WithinLimits(Proposed, allowed)
      /\ retained' = Proposed /\ position' = position + 1
      /\ given' = given /\ allowed' = allowed /\ index' = index /\ groups' = groups
      /\ seen' = seen /\ place' = place
  BY DEF KeepCandidate
<1>1. PICK starts :
        /\ Marks(starts) /\ Keeps(starts)
        /\ given \in Seq(Message) /\ Len(given) \in Nat
        /\ Len(groups) \in Nat /\ position \in Nat
        /\ FirstExchange \in 1 .. Len(groups) + 1
        /\ Len(Candidates) = Len(groups) + 1 - FirstExchange
        /\ ExchangeStarts(given) = {starts[k] : k \in FirstExchange .. Len(groups)}
        /\ \A k \in 1 .. Len(groups) + 1 : starts[k] \in 1 .. Len(given) + 1
  BY <1>0, PruneKnows
<1> DEFINE n == Len(groups)
           oldest == starts[n + 1 - position]
           next == starts[n - position]
<1>2. Proposed = KeepFrom(given, next) /\ WithinLimits(KeepFrom(given, next), allowed)
  BY <1>0, <1>1, ProposedAddsExchange
<1>3. \A t \in ExchangeStarts(given) : t >= oldest => WithinLimits(KeepFrom(given, t), allowed)
  BY <1>1 DEF Keeps
<1>4. n + 1 - (position + 1) = n - position /\ position + 1 <= Len(Candidates)
  <2>1. /\ n \in Nat /\ position \in Nat /\ position < Len(Candidates)
        /\ FirstExchange \in 1 .. n + 1 /\ Len(Candidates) = n + 1 - FirstExchange
    BY <1>0, <1>1
  <2> HIDE DEF n
  <2>2. Len(Candidates) \in Nat
    BY <2>1
  <2> QED
    BY <2>1, <2>2
<1>5. next \in ExchangeStarts(given)
  <2>1. n - position \in FirstExchange .. n
    BY <1>0, <1>1
  <2> QED
    BY <1>1, <2>1
<1>6. ASSUME NEW t \in ExchangeStarts(given), t >= next
      PROVE  WithinLimits(KeepFrom(given, t), allowed)
  <2>1. PICK k \in FirstExchange .. n : t = starts[k]
    BY <1>1
  <2>2. CASE k = n - position
    BY <1>2, <2>1, <2>2
  <2>3. CASE k < n - position
    <3>1. k \in 1 .. n + 1 /\ n - position \in 1 .. n + 1
      BY <1>0, <1>1, <2>1
    <3>2. starts[k] < next
      BY <1>1, <2>3, <3>1 DEF Marks
    <3>3. starts[k] \in Nat /\ next \in Nat
      BY <1>1, <3>1
    <3> QED
      BY <1>6, <2>1, <3>2, <3>3
  <2>4. CASE k > n - position
    <3>1. k \in 1 .. n + 1 /\ n + 1 - position \in 1 .. n + 1
      BY <1>0, <1>1, <2>1
    <3>2. k = n + 1 - position \/ n + 1 - position < k
      <4>1. k \in Nat /\ n \in Nat /\ position \in Nat
        BY <1>1, <2>1
      <4> HIDE DEF n
      <4> QED
        BY <2>4, <4>1
    <3>3. n + 1 - position < k => oldest < starts[k]
      BY <1>1, <3>1 DEF Marks
    <3>4. starts[k] \in Nat /\ oldest \in Nat
      BY <1>1, <3>1
    <3>5. t >= oldest
      BY <2>1, <3>2, <3>3, <3>4
    <3> QED
      BY <1>3, <3>5
  <2>5. k \in Int /\ n - position \in Int
    BY <1>1, <2>1
  <2> QED
    BY <2>2, <2>3, <2>4, <2>5
<1>7. Marks(starts)'
  BY <1>0, <1>1 DEF Marks
<1>8. Keeps(starts)'
  <2>1. starts[Len(groups') + 1 - position'] = next
    BY <1>0, <1>4
  <2>2. Candidates' = Candidates
    BY <1>0, Zenon DEF Candidates, HasPrefix
  <2>3. /\ retained' = KeepFrom(given', starts[Len(groups') + 1 - position'])
        /\ position' <= Len(Candidates')
    BY <1>0, <1>2, <1>4, <2>1, <2>2
  <2> HIDE DEF next
  <2>4. \A t \in ExchangeStarts(given') : t >= starts[Len(groups') + 1 - position'] =>
           WithinLimits(KeepFrom(given', t), allowed')
    BY <1>0, <1>6, <2>1
  <2> QED
    BY <2>3, <2>4 DEF Keeps
<1>9. GroupsMarked'
  BY <1>7, <1>8 DEF GroupsMarked
<1>10. ExchangesScanned'
  BY <1>0 DEF ScanInv, ExchangesScanned, Accepted, PairedBefore, PositionsBefore, IdAt
<1>11. ScanType'
  <2>1. retained' \in Seq(Message)
    BY <1>0, <1>2, <1>5, <1>1, KeepFromProperty
  <2>2. position' \in Nat
    BY <1>0, <1>1
  <2> QED
    BY <1>0, <2>1, <2>2 DEF ScanInv, ScanType
<1> QED
  BY <1>0, <1>9, <1>10, <1>11
     DEF ScanInv, InPrefix, ScanEnds, ScanDecides, PruneDecides, Accepted

\* When the loop stops, what it has kept is from the oldest exchange on from which all fit.
LEMMA EndPrunePreservesScanInv ==
    ASSUME ScanInv, EndPrune
    PROVE  ScanInv'
<1>0. /\ place = "prune"
      /\ position < Len(Candidates) => ~WithinLimits(Proposed, allowed)
      /\ place' = IF position < Len(Candidates) /\ position = 0
                  THEN "newest too large" ELSE "pruned"
      /\ given' = given /\ allowed' = allowed /\ index' = index /\ groups' = groups
      /\ seen' = seen /\ retained' = retained /\ position' = position
  BY DEF EndPrune
<1>1. PICK starts :
        /\ Marks(starts) /\ Keeps(starts)
        /\ given \in Seq(Message) /\ Len(given) \in Nat
        /\ Len(groups) \in Nat /\ position \in Nat
        /\ FirstExchange \in 1 .. Len(groups) + 1
        /\ Len(Candidates) = Len(groups) + 1 - FirstExchange
        /\ ExchangeStarts(given) = {starts[k] : k \in FirstExchange .. Len(groups)}
        /\ \A k \in 1 .. Len(groups) + 1 : starts[k] \in 1 .. Len(given) + 1
        /\ IsConversation(given)
  BY <1>0, PruneKnows
<1> DEFINE n == Len(groups)
           oldest == starts[n + 1 - position]
           next == starts[n - position]
<1>2. /\ retained = KeepFrom(given, oldest) /\ position <= Len(Candidates)
      /\ \A t \in ExchangeStarts(given) : t >= oldest => WithinLimits(KeepFrom(given, t), allowed)
  BY <1>1 DEF Keeps
<1>3. WithinLimits(SystemPrefix(given), allowed)
  BY <1>0 DEF ScanInv, ScanEnds
<1>4. ASSUME position < Len(Candidates)
      PROVE  next \in ExchangeStarts(given) /\ ~WithinLimits(KeepFrom(given, next), allowed)
  <2>1. n - position \in FirstExchange .. n
    BY <1>1, <1>4
  <2> QED
    BY <1>0, <1>1, <1>4, <2>1, ProposedAddsExchange
<1>5. ASSUME NEW s \in KeptStarts(given, allowed)
      PROVE  \E k \in n + 1 - position .. n : s = starts[k]
  <2>1. PICK k \in FirstExchange .. n : s = starts[k]
    BY <1>1 DEF KeptStarts
  <2>2. CASE position < Len(Candidates)
    <3>1. ASSUME k <= n - position
          PROVE  FALSE
      <4>1. k \in 1 .. n + 1 /\ n - position \in 1 .. n + 1
        BY <1>1, <2>1, <2>2
      <4>2. k = n - position \/ starts[k] < next
        <5>1. k = n - position \/ k < n - position
          BY <1>1, <2>1, <3>1
        <5> QED
          BY <1>1, <4>1, <5>1 DEF Marks
      <4>3. starts[k] \in Nat /\ next \in Nat
        BY <1>1, <4>1
      <4>4. next >= s
        BY <2>1, <4>2, <4>3
      <4>5. next \in ExchangeStarts(given) /\ ~WithinLimits(KeepFrom(given, next), allowed)
        BY <1>4, <2>2
      <4> HIDE DEF next
      <4> QED
        BY <4>4, <4>5 DEF KeptStarts
    <3>2. k \in n + 1 - position .. n
      BY <1>1, <2>1, <3>1
    <3> QED
      BY <2>1, <3>2
  <2>3. CASE ~(position < Len(Candidates))
    <3>1. n + 1 - position = FirstExchange
      BY <1>1, <1>2, <2>3
    <3> QED
      BY <2>1, <3>1
  <2> QED
    BY <2>2, <2>3
<1>6. ASSUME position < Len(Candidates) /\ position = 0
      PROVE  ~CanPrune(given, allowed)
  <2>1. n + 1 - position = n + 1
    BY <1>1, <1>6
  <2>2. \A k \in n + 1 - position .. n : FALSE
    BY <1>1, <2>1
  <2>3. KeptStarts(given, allowed) = {}
    BY <1>5, <2>2
  <2>4. ExchangeStarts(given) # {}
    BY <1>4, <1>6
  <2> QED
    BY <2>3, <2>4 DEF CanPrune
<1>7. ASSUME ~(position < Len(Candidates) /\ position = 0)
      PROVE  CanPrune(given, allowed) /\ retained = Pruned(given, allowed)
  <2>1. CASE position = 0
    <3>1. FirstExchange = n + 1 /\ n + 1 - position = n + 1
      BY <1>1, <1>2, <1>7, <2>1
    <3>2. ExchangeStarts(given) = {}
      <4>1. \A k \in FirstExchange .. n : FALSE
        BY <1>1, <3>1
      <4> QED
        BY <1>1, <4>1
    <3>3. retained = SystemPrefix(given)
      <4>1. oldest = Len(given) + 1
        <5>1. starts[n + 1] = index /\ index = Len(given) + 1
          BY <1>0, <1>1 DEF Marks, ScanInv, ScanEnds, Accepted
        <5> QED
          BY <3>1, <5>1
      <4>2. SubSeq(given, Len(given) + 1, Len(given)) = <<>>
        BY <1>1
      <4>3. SystemPrefix(given) \in Seq(Message)
        <5>1. PrefixLength(given) \in 0 .. Len(given)
          BY <1>1, PrefixLengthProperty
        <5> QED
          BY <1>1, <5>1 DEF SystemPrefix
      <4> QED
        BY <1>2, <4>1, <4>2, <4>3, ConcatEmptySeq DEF KeepFrom
    <3> QED
      BY <1>1, <1>3, <3>2, <3>3 DEF CanPrune, Pruned
  <2>2. CASE position # 0
    <3>1. n + 1 - position \in FirstExchange .. n /\ n + 1 - position \in 1 .. n + 1
      BY <1>1, <1>2, <2>2
    <3>2. oldest \in ExchangeStarts(given) /\ oldest \in Nat
      BY <1>1, <3>1
    <3>3. oldest \in KeptStarts(given, allowed)
      BY <1>2, <3>2 DEF KeptStarts
    <3>4. ASSUME NEW s \in KeptStarts(given, allowed)
          PROVE  oldest <= s /\ s \in Nat
      <4>1. PICK k \in n + 1 - position .. n : s = starts[k]
        BY <1>5
      <4>2. k \in 1 .. n + 1 /\ (k = n + 1 - position \/ n + 1 - position < k)
        <5>1. n \in Nat /\ n + 1 - position \in 1 .. n + 1
          BY <1>1, <3>1
        <5> HIDE DEF n
        <5> QED
          BY <4>1, <5>1
      <4>3. k = n + 1 - position \/ oldest < starts[k]
        BY <1>1, <3>1, <4>2 DEF Marks
      <4>4. starts[k] \in Nat
        BY <1>1, <4>2
      <4> QED
        BY <3>2, <4>1, <4>3, <4>4
    <3> HIDE DEF oldest
    <3> DEFINE IsOldest(s) == \A t \in KeptStarts(given, allowed) : s <= t
    <3>5. \A s \in KeptStarts(given, allowed) : IsOldest(s) => s = oldest
      BY <3>2, <3>3, <3>4
    <3>6. IsOldest(oldest)
      BY <3>4
    <3>7. (CHOOSE s \in KeptStarts(given, allowed) : IsOldest(s)) = oldest
      <4> HIDE DEF IsOldest
      <4> QED
        BY <3>3, <3>5, <3>6
    <3>8. Pruned(given, allowed) = KeepFrom(given, oldest)
      BY <3>2, <3>7 DEF Pruned
    <3> QED
      BY <1>1, <1>2, <1>3, <3>3, <3>8 DEF CanPrune, oldest
  <2> QED
    BY <2>1, <2>2
<1>8. ScanType' /\ InPrefix' /\ ScanEnds' /\ ScanDecides'
  BY <1>0 DEF ScanInv, ScanType, InPrefix, ScanEnds, ScanDecides, Accepted
<1>9. ExchangesScanned'
  BY <1>0 DEF ScanInv, ExchangesScanned, Accepted, PairedBefore, PositionsBefore, IdAt
<1>10. GroupsMarked'
  <2>1. Marks(starts)'
    BY <1>0, <1>1 DEF Marks
  <2> QED
    BY <1>0, <2>1 DEF GroupsMarked
<1>11. PruneDecides'
  <2>1. CASE position < Len(Candidates) /\ position = 0
    BY <1>0, <1>6, <2>1 DEF PruneDecides
  <2>2. CASE ~(position < Len(Candidates) /\ position = 0)
    BY <1>0, <1>7, <2>2 DEF PruneDecides
  <2> QED
    BY <2>1, <2>2
<1> QED
  BY <1>8, <1>9, <1>10, <1>11 DEF ScanInv

LEMMA ScanNextPreservesScanInv == ScanInv /\ [ScanNext]_loops => ScanInv'
<1> SUFFICES ASSUME ScanInv, [ScanNext]_loops PROVE ScanInv'
  OBVIOUS
<1>1. CASE Scan
  BY <1>1, ScanPrefixPreservesScanInv, EndPrefixPreservesScanInv, RejectSystemPreservesScanInv,
     ScanUserPreservesScanInv, ScanTextPreservesScanInv, ScanCallPreservesScanInv,
     RejectResultsPreservesScanInv DEF Scan
<1>2. CASE Prune
  BY <1>2, StartPrunePreservesScanInv, KeepCandidatePreservesScanInv, EndPrunePreservesScanInv
     DEF Prune
<1>3. CASE UNCHANGED loops
  <2> USE <1>3 DEF loops, ScanInv
  <2>1. ScanType' /\ InPrefix' /\ ScanEnds' /\ ScanDecides' /\ PruneDecides'
    BY DEF ScanType, InPrefix, ScanEnds, ScanDecides, PruneDecides, Accepted
  <2>2. ExchangesScanned'
    BY DEF ExchangesScanned, Accepted, PairedBefore, PositionsBefore, IdAt
  <2>3. GroupsMarked'
    <3>1. ASSUME NEW starts
          PROVE  (Marks(starts) => Marks(starts)') /\ (Keeps(starts) => Keeps(starts)')
      BY DEF Marks, Keeps, Candidates, HasPrefix
    <3> QED
      BY <3>1 DEF GroupsMarked, Accepted
  <2> QED
    BY <2>1, <2>2, <2>3
<1> QED
  BY <1>1, <1>2, <1>3 DEF ScanNext

LEMMA ScanInvHolds == ScanSpec => []ScanInv
BY ScanInitInv, ScanNextPreservesScanInv, PTL DEF ScanSpec

\* For messages of any number: _conversation_groups accepts them exactly if they are a
\* conversation.
THEOREM ScanIsExact == ScanSpec => []ScanDecides
<1>1. ScanInv => ScanDecides
  BY DEF ScanInv
<1> QED
  BY <1>1, ScanInvHolds, PTL

\* For messages and limits of any size: prune_messages returns what Pruned defines, and
\* raises exactly if that is not defined.
THEOREM PruneIsExact == ScanSpec => []PruneDecides
<1>1. ScanInv => PruneDecides
  BY DEF ScanInv
<1> QED
  BY <1>1, ScanInvHolds, PTL

-----------------------------------------------------------------------------
(***************************************************************************)
(* Pruning keeps the most that fits.  MessageBytes is a fold, and folds    *)
(* are defined by recursion: it counts the bytes of the messages, and the  *)
(* set of these bytes needs no recursion.                                  *)
(***************************************************************************)

\* The bytes of the messages at some positions, and a comma after each.
BytesAt(ms, positions) ==
    UNION { {i} \X (0 .. BodyBytes[ms[i].body]) : i \in positions }

LEMMA BytesAreNatural ==
    ASSUME NEW ms \in Seq(Message), NEW i \in 1 .. Len(ms)
    PROVE  BodyBytes[ms[i].body] \in Nat
<1>1. ms[i] \in Message
  OBVIOUS
<1>2. ms[i].body \in Bodies
  BY <1>1 DEF Message
<1> QED
  BY <1>2, BodyBytesAssumption

LEMMA BytesAtFinite ==
    ASSUME NEW ms \in Seq(Message), NEW positions \in SUBSET (1 .. Len(ms))
    PROVE  /\ IsFiniteSet(BytesAt(ms, positions))
           /\ Cardinality(BytesAt(ms, positions)) \in Nat
<1> DEFINE BytesOf(i) == {i} \X (0 .. BodyBytes[ms[i].body])
           Parts == {BytesOf(i) : i \in positions}
<1>1. IsFiniteSet(positions)
  <2>1. IsFiniteSet(1 .. Len(ms))
    BY FS_Interval
  <2> QED
    BY <2>1, FS_Subset
<1>2. IsFiniteSet(Parts)
  <2> DEFINE f == [i \in positions |-> BytesOf(i)]
  <2>1. f \in Surjection(positions, Parts)
    <3> HIDE DEF BytesOf
    <3> QED
      BY DEF Surjection
  <2> QED
    BY <1>1, <2>1, FS_Surjection
<1>3. ASSUME NEW i \in positions
      PROVE  IsFiniteSet(BytesOf(i))
  <2>1. IsFiniteSet(0 .. BodyBytes[ms[i].body]) /\ IsFiniteSet({i})
    <3>1. BodyBytes[ms[i].body] \in Int /\ 0 \in Int
      BY BytesAreNatural
    <3> QED
      BY <3>1, FS_Interval, FS_Singleton
  <2> QED
    BY <2>1, FS_Product
<1>4. IsFiniteSet(UNION Parts)
  <2> HIDE DEF BytesOf
  <2>1. \A T \in Parts : IsFiniteSet(T)
    BY <1>3
  <2> QED
    BY <1>2, <2>1, FS_UNION
<1> QED
  BY <1>4, FS_CardinalityType DEF BytesAt

\* One message more adds its bytes.
LEMMA BytesAtAdd ==
    ASSUME NEW ms \in Seq(Message), NEW positions \in SUBSET (1 .. Len(ms)),
           NEW last \in (1 .. Len(ms)) \ positions
    PROVE  Cardinality(BytesAt(ms, positions \cup {last})) =
              Cardinality(BytesAt(ms, positions)) + BodyBytes[ms[last].body] + 1
<1> DEFINE bytes == BodyBytes[ms[last].body]
           Old == BytesAt(ms, positions)
           New == {last} \X (0 .. bytes)
<1>1. bytes \in Nat
  BY BytesAreNatural
<1>2. BytesAt(ms, positions \cup {last}) = Old \cup New
  BY DEF BytesAt
<1>3. Old \cap New = {}
  BY DEF BytesAt
<1>4. IsFiniteSet(Old) /\ Cardinality(Old) \in Nat
  BY BytesAtFinite
<1>5. IsFiniteSet(New) /\ Cardinality(New) = bytes + 1
  <2>1. IsFiniteSet({last}) /\ Cardinality({last}) = 1
    BY FS_Singleton
  <2>2. IsFiniteSet(0 .. bytes) /\ Cardinality(0 .. bytes) = bytes + 1
    <3>1. bytes \in Int /\ 0 \in Int /\ ~(0 > bytes) /\ bytes - 0 + 1 = bytes + 1
      BY <1>1
    <3> HIDE DEF bytes
    <3> QED
      BY <3>1, FS_Interval
  <2>3. IsFiniteSet(New) /\ Cardinality(New) = 1 * (bytes + 1)
    <3> HIDE DEF bytes
    <3> QED
      BY <2>1, <2>2, FS_Product
  <2> QED
    BY <1>1, <2>3
<1> HIDE DEF Old, New
<1>6. Cardinality(Old \cup New) =
         Cardinality(Old) + Cardinality(New) - Cardinality(Old \cap New)
  BY <1>4, <1>5, FS_Union
<1>7. Cardinality(Old \cap New) = 0
  BY <1>3, FS_EmptySet
<1> HIDE DEF bytes
<1>8. Cardinality(Old \cup New) = Cardinality(Old) + bytes + 1
  BY <1>1, <1>4, <1>5, <1>6, <1>7
<1> QED
  BY <1>2, <1>8 DEF Old, bytes

\* The size of a sequence of messages.
LEMMA MessageBytesProperty ==
    ASSUME NEW ms \in Seq(Message)
    PROVE  MessageBytes(ms) = IF ms = <<>> THEN 2
                              ELSE 1 + Cardinality(BytesAt(ms, 1 .. Len(ms)))
<1> DEFINE Total(s) == 1 + Cardinality(BytesAt(ms, s))
           Folds(f) == f = [s \in SUBSET DOMAIN ms |->
                               IF s = {} THEN 1
                               ELSE f[s \ {Max(s)}] + BodyBytes[ms[Max(s)].body] + 1]
           chosen == CHOOSE f : Folds(f)
<1>0. DOMAIN ms = 1 .. Len(ms) /\ Len(ms) \in Nat
  OBVIOUS
<1>1. CASE ms = <<>>
  BY <1>1 DEF MessageBytes
<1>2. CASE ms # <<>>
  <2>1. MessageBytes(ms) = chosen[DOMAIN ms]
    BY <1>2 DEF MessageBytes, FoldLeft, MapThenFoldSet
  <2>2. ASSUME NEW s \in SUBSET DOMAIN ms, s # {}
        PROVE  Max(s) \in s /\ \A i \in s : i <= Max(s)
    <3>1. \E x \in s : \A y \in s : x >= y
      BY <1>0, <2>2, GreatestPosition
    <3> QED
      BY <3>1 DEF Max
  <2>3. ASSUME NEW s \in SUBSET DOMAIN ms, s # {}
        PROVE  Total(s) = Total(s \ {Max(s)}) + BodyBytes[ms[Max(s)].body] + 1
    <3>1. PICK last \in s : last = Max(s)
      BY <2>2, <2>3
    <3>2. PICK rest \in SUBSET DOMAIN ms : rest = s \ {last}
      OBVIOUS
    <3>3. last \in (1 .. Len(ms)) \ rest /\ rest \in SUBSET (1 .. Len(ms))
      BY <1>0, <3>2
    <3>4. rest \cup {last} = s
      BY <3>2
    <3>5. Cardinality(BytesAt(ms, rest)) \in Nat /\ BodyBytes[ms[last].body] \in Nat
      BY <3>3, BytesAtFinite, BytesAreNatural
    <3>6. Cardinality(BytesAt(ms, s)) =
             Cardinality(BytesAt(ms, rest)) + BodyBytes[ms[last].body] + 1
      BY <3>3, <3>4, BytesAtAdd
    <3> QED
      BY <3>1, <3>2, <3>5, <3>6
  <2>4. Total({}) = 1
    <3>1. BytesAt(ms, {}) = {}
      BY DEF BytesAt
    <3> QED
      BY <3>1, FS_EmptySet
  <2> HIDE DEF Total
  <2>5. Folds([s \in SUBSET DOMAIN ms |-> Total(s)])
    <3> DEFINE f == [s \in SUBSET DOMAIN ms |-> Total(s)]
    <3>1. ASSUME NEW s \in SUBSET DOMAIN ms
          PROVE  Total(s) = IF s = {} THEN 1
                            ELSE f[s \ {Max(s)}] + BodyBytes[ms[Max(s)].body] + 1
      <4>1. CASE s = {}
        BY <2>4, <4>1
      <4>2. CASE s # {}
        <5>1. f[s \ {Max(s)}] = Total(s \ {Max(s)})
          OBVIOUS
        <5> QED
          BY <2>3, <4>2, <5>1
      <4> QED
        BY <4>1, <4>2
    <3>2. f = [s \in SUBSET DOMAIN ms |->
                  IF s = {} THEN 1
                  ELSE f[s \ {Max(s)}] + BodyBytes[ms[Max(s)].body] + 1]
      <4> DEFINE g == [s \in SUBSET DOMAIN ms |->
                  IF s = {} THEN 1
                  ELSE f[s \ {Max(s)}] + BodyBytes[ms[Max(s)].body] + 1]
      <4>1. \A s \in SUBSET DOMAIN ms : f[s] = g[s]
        <5> SUFFICES ASSUME NEW s \in SUBSET DOMAIN ms PROVE f[s] = g[s]
          OBVIOUS
        <5>1. f[s] = Total(s)
          OBVIOUS
        <5> HIDE DEF f
        <5> QED
          BY <3>1, <5>1
      <4>2. f = [s \in SUBSET DOMAIN ms |-> f[s]] /\ g = [s \in SUBSET DOMAIN ms |-> g[s]]
        OBVIOUS
      <4> HIDE DEF f, g
      <4>3. f = g
        BY <4>1, <4>2
      <4> QED
        BY <4>3 DEF g
    <3> QED
      BY <3>2
  <2>6. Folds(chosen)
    <3> HIDE DEF Folds
    <3> QED
      BY <2>5
  <2> HIDE DEF chosen
  <2> DEFINE Wrong == {k \in 0 .. Len(ms) : chosen[1 .. k] # Total(1 .. k)}
  <2>7. Wrong = {}
    <3> SUFFICES ASSUME Wrong # {} PROVE FALSE
      OBVIOUS
    <3>1. Wrong \in SUBSET Nat
      OBVIOUS
    <3>2. PICK k \in Wrong : \A j \in Wrong : k <= j
      <4> HIDE DEF Wrong
      <4> QED
        BY <3>1, LeastNatural
    <3>3. k \in 0 .. Len(ms) /\ 1 .. k \in SUBSET DOMAIN ms
      BY <1>0
    <3>4. CASE k = 0
      <4>1. 1 .. k = {}
        BY <3>4
      <4>2. chosen[{}] = 1
        BY <2>6
      <4> QED
        BY <2>4, <4>1, <4>2
    <3>5. CASE k > 0
      <4>1. 1 .. k # {} /\ (1 .. k) \ {k} = 1 .. k - 1
        <5>1. k \in Int /\ k \in 1 .. k
          BY <3>3, <3>5
        <5>2. ASSUME NEW i PROVE i \in (1 .. k) \ {k} <=> i \in 1 .. k - 1
          BY <5>1
        <5> QED
          BY <5>1, <5>2
      <4>2. Max(1 .. k) = k
        <5>1. Max(1 .. k) \in 1 .. k /\ \A i \in 1 .. k : i <= Max(1 .. k)
          BY <2>2, <3>3, <4>1
        <5> QED
          BY <3>3, <3>5, <5>1
      <4>3. chosen[1 .. k] = chosen[1 .. k - 1] + BodyBytes[ms[k].body] + 1
        <5>1. PICK s \in SUBSET DOMAIN ms : s = 1 .. k
          BY <3>3
        <5>2. chosen[s] = IF s = {} THEN 1
                          ELSE chosen[s \ {Max(s)}] + BodyBytes[ms[Max(s)].body] + 1
          BY <2>6
        <5> QED
          BY <4>1, <4>2, <5>1, <5>2
      <4>4. Total(1 .. k) = Total(1 .. k - 1) + BodyBytes[ms[k].body] + 1
        BY <2>3, <3>3, <4>1, <4>2
      <4>5. chosen[1 .. k - 1] = Total(1 .. k - 1)
        <5>1. k - 1 \in 0 .. Len(ms) /\ k - 1 < k
          BY <3>3, <3>5
        <5> QED
          BY <3>2, <3>3, <5>1
      <4> QED
        BY <4>3, <4>4, <4>5
    <3> QED
      BY <3>3, <3>4, <3>5
  <2>8. chosen[1 .. Len(ms)] = Total(1 .. Len(ms))
    BY <1>0, <2>7
  <2> QED
    BY <1>0, <1>2, <2>1, <2>8 DEF Total
<1> QED
  BY <1>1, <1>2


\* The exchanges from a later start on fit when those from an earlier one do: every
\* message of the later ones is among the earlier ones, with all its bytes.
LEMMA LaterStartFits ==
    ASSUME NEW ms \in Seq(Message), NEW limits \in [messages : Nat, bytes : Nat],
           NEW earlier \in ExchangeStarts(ms), NEW later \in ExchangeStarts(ms),
           earlier <= later, WithinLimits(KeepFrom(ms, earlier), limits)
    PROVE  /\ WithinLimits(KeepFrom(ms, later), limits)
           /\ Len(KeepFrom(ms, later)) <= Len(KeepFrom(ms, earlier))
<1> DEFINE p == PrefixLength(ms)
           more == KeepFrom(ms, earlier)
           less == KeepFrom(ms, later)
<1>1. p \in 0 .. Len(ms) /\ Len(ms) \in Nat
  BY PrefixLengthProperty
<1>2. /\ earlier \in p + 1 .. Len(ms)
      /\ more \in Seq(Message) /\ Len(more) = p + Len(ms) - earlier + 1
      /\ \A i \in 1 .. p : more[i] = ms[i]
      /\ \A i \in p + 1 .. Len(more) : more[i] = ms[i - p + earlier - 1]
  BY KeepFromProperty
<1>3. /\ later \in p + 1 .. Len(ms)
      /\ less \in Seq(Message) /\ Len(less) = p + Len(ms) - later + 1
      /\ \A i \in 1 .. p : less[i] = ms[i]
      /\ \A i \in p + 1 .. Len(less) : less[i] = ms[i - p + later - 1]
  BY KeepFromProperty
<1>4. Len(more) <= limits.messages /\ MessageBytes(more) <= limits.bytes
  BY DEF WithinLimits
<1> HIDE DEF p, more, less
<1>5. /\ Len(less) \in Nat \ {0} /\ Len(more) \in Nat \ {0} /\ Len(less) <= Len(more)
      /\ less # <<>> /\ more # <<>>
  BY <1>1, <1>2, <1>3
\* Where a message that is kept in both cases is when more is kept.
<1> DEFINE Place(i) == IF i <= p THEN i ELSE i + (later - earlier)
<1>6. ASSUME NEW i \in 1 .. Len(less)
      PROVE  Place(i) \in 1 .. Len(more) /\ more[Place(i)] = less[i]
  <2>1. CASE i <= p
    <3>1. i \in 1 .. p /\ Place(i) = i
      BY <1>1, <2>1
    <3>2. i \in 1 .. Len(more)
      BY <1>5
    <3> QED
      BY <1>2, <1>3, <3>1, <3>2
  <2>2. CASE ~(i <= p)
    <3>1. PICK k \in p + 1 .. Len(more) : k = Place(i)
      BY <1>1, <1>2, <1>3, <2>2
    <3>2. k - p + earlier - 1 = i - p + later - 1 /\ i \in p + 1 .. Len(less)
      BY <1>1, <1>2, <1>3, <2>2, <3>1
    <3>3. more[k] = ms[k - p + earlier - 1] /\ less[i] = ms[i - p + later - 1]
      BY <1>2, <1>3, <3>2
    <3>4. k \in 1 .. Len(more)
      BY <1>1, <1>5
    <3> QED
      BY <3>1, <3>2, <3>3, <3>4
  <2> QED
    BY <2>1, <2>2
<1>7. ASSUME NEW i \in 1 .. Len(less), NEW j \in 1 .. Len(less), Place(i) = Place(j)
      PROVE  i = j
  <2>1. i \in Nat /\ j \in Nat /\ p \in Nat /\ later - earlier \in Nat
    BY <1>1, <1>2, <1>3
  <2>2. PICK d \in Nat : d = later - earlier
    BY <2>1
  <2>3. (IF i <= p THEN i ELSE i + d) = (IF j <= p THEN j ELSE j + d)
    BY <1>7, <2>2
  <2> QED
    BY <2>1, <2>2, <2>3
<1> HIDE DEF Place
<1> DEFINE Less == BytesAt(less, 1 .. Len(less))
           More == BytesAt(more, 1 .. Len(more))
           move == [c \in Less |-> <<Place(c[1]), c[2]>>]
<1>8. ASSUME NEW c \in Less
      PROVE  /\ c[1] \in 1 .. Len(less) /\ c = <<c[1], c[2]>>
             /\ <<Place(c[1]), c[2]>> \in More
  <2>1. PICK i \in 1 .. Len(less) : c \in {i} \X (0 .. BodyBytes[less[i].body])
    BY DEF BytesAt
  <2>2. c[1] = i /\ c = <<c[1], c[2]>> /\ c[2] \in 0 .. BodyBytes[less[i].body]
    BY <2>1
  <2>3. PICK k \in 1 .. Len(more) : k = Place(i) /\ more[k] = less[i]
    BY <1>6
  <2>4. <<k, c[2]>> \in {k} \X (0 .. BodyBytes[more[k].body])
    BY <2>2, <2>3
  <2>5. <<k, c[2]>> \in More
    BY <2>4 DEF BytesAt
  <2> QED
    BY <2>2, <2>3, <2>5
<1> HIDE DEF Less, More
<1>9. move \in Injection(Less, More)
  <2>1. move \in [Less -> More]
    BY <1>8
  <2>2. ASSUME NEW c \in Less, NEW d \in Less, move[c] = move[d]
        PROVE  c = d
    <3>1. Place(c[1]) = Place(d[1]) /\ c[2] = d[2]
      BY <2>2
    <3> QED
      BY <1>7, <1>8, <3>1
  <2> QED
    BY <2>1, <2>2 DEF Injection, IsInjective
<1>10. IsFiniteSet(More) /\ Cardinality(More) \in Nat
  BY <1>2, BytesAtFinite DEF More
<1>11. IsFiniteSet(Less) /\ Cardinality(Less) \in Nat
  BY <1>3, BytesAtFinite DEF Less
<1>12. Cardinality(Less) <= Cardinality(More)
  <2> HIDE DEF move
  <2> QED
    BY <1>9, <1>10, FS_Injection
<1>13. /\ MessageBytes(less) = 1 + Cardinality(Less)
       /\ MessageBytes(more) = 1 + Cardinality(More)
  BY <1>2, <1>3, <1>5, MessageBytesProperty DEF Less, More
<1>14. Len(less) <= limits.messages /\ MessageBytes(less) <= limits.bytes
  BY <1>4, <1>5, <1>10, <1>11, <1>12, <1>13
<1> QED
  BY <1>5, <1>14 DEF WithinLimits, less, more

\* Pruning changes nothing where nothing is too large.
LEMMA FittingIsKept ==
    ASSUME NEW ms \in Seq(Message), NEW limits \in [messages : Nat, bytes : Nat],
           WithinLimits(ms, limits)
    PROVE  Pruned(ms, limits) = ms
<1> DEFINE p == PrefixLength(ms)
<1>1. /\ p \in 0 .. Len(ms) /\ Len(ms) \in Nat
      /\ \A i \in 1 .. p : ms[i].role = "system"
  BY PrefixLengthProperty
<1>2. SystemPrefix(ms) = SubSeq(ms, 1, p)
  BY DEF SystemPrefix
<1>3. \A i : i \in ExchangeStarts(ms) <=>
                i \in p + 1 .. Len(ms) /\ (i = 1 \/ ~IsCall(ms[i - 1]))
  BY DEF ExchangeStarts
<1> HIDE DEF p
<1>4. CASE p = Len(ms)
  <2>1. ExchangeStarts(ms) = {}
    BY <1>1, <1>3, <1>4
  <2>2. SystemPrefix(ms) = ms
    BY <1>2, <1>4
  <2> QED
    BY <2>1, <2>2 DEF Pruned
<1>5. CASE p # Len(ms)
  <2>1. p + 1 \in ExchangeStarts(ms)
    <3>1. PICK i \in p + 1 .. Len(ms) : i = p + 1
      BY <1>1, <1>5
    <3>2. i = 1 \/ ~IsCall(ms[i - 1])
      <4>1. CASE p = 0
        BY <3>1, <4>1
      <4>2. CASE p # 0
        <5>1. p \in 1 .. p /\ i - 1 = p
          BY <1>1, <3>1, <4>2
        <5>2. ms[p].role = "system"
          BY <1>1, <5>1
        <5> QED
          BY <5>1, <5>2 DEF IsCall
      <4> QED
        BY <4>1, <4>2
    <3>3. i \in ExchangeStarts(ms)
      BY <1>3, <3>2
    <3> QED
      BY <3>1, <3>3
  <2>2. PICK first \in ExchangeStarts(ms) : first = p + 1
    BY <2>1
  <2>3. KeepFrom(ms, first) = ms
    <3>1. KeepFrom(ms, first) = SubSeq(ms, 1, p) \o SubSeq(ms, p + 1, Len(ms))
      BY <1>2, <2>2 DEF KeepFrom
    <3>2. SubSeq(ms, 1, p) \o SubSeq(ms, p + 1, Len(ms)) = ms
      <4>1. /\ 1 \in 1 .. Len(ms) /\ p + 1 \in 1 .. Len(ms) + 1 /\ (p + 1) - 1 = p
            /\ SubSeq(ms, 1, Len(ms)) = ms
        BY <1>1, <1>5
      <4> QED
        BY <4>1, GlueParts
    <3> QED
      BY <3>1, <3>2
  <2>4. ASSUME NEW t \in ExchangeStarts(ms)
        PROVE  first <= t /\ WithinLimits(KeepFrom(ms, t), limits)
    <3>1. first <= t
      BY <1>1, <1>3, <2>2
    <3> QED
      BY <2>3, <3>1, LaterStartFits
  <2>5. KeptStarts(ms, limits) = ExchangeStarts(ms)
    BY <2>4 DEF KeptStarts
  <2> DEFINE IsOldest(s) == \A t \in ExchangeStarts(ms) : s <= t
             oldest == CHOOSE s \in ExchangeStarts(ms) : IsOldest(s)
  <2>6. oldest \in ExchangeStarts(ms) /\ IsOldest(oldest)
    <3>1. IsOldest(first)
      BY <2>4
    <3> HIDE DEF IsOldest
    <3> QED
      BY <2>2, <3>1
  <2>7. Pruned(ms, limits) = KeepFrom(ms, oldest)
    BY <2>1, <2>5 DEF Pruned
  <2> HIDE DEF oldest
  <2>8. oldest = first
    <3>1. oldest <= first /\ first <= oldest
      BY <2>2, <2>4, <2>6
    <3>2. oldest \in Nat /\ first \in Nat
      BY <1>1, <1>3, <2>6
    <3> QED
      BY <3>1, <3>2
  <2> QED
    BY <2>3, <2>7, <2>8
<1> QED
  BY <1>4, <1>5

\* No longer run of exchanges up to the newest fits.
LEMMA PrunedIsLongest ==
    ASSUME NEW ms \in Seq(Message), NEW limits \in [messages : Nat, bytes : Nat],
           CanPrune(ms, limits),
           NEW start \in ExchangeStarts(ms), WithinLimits(KeepFrom(ms, start), limits)
    PROVE  Len(KeepFrom(ms, start)) <= Len(Pruned(ms, limits))
<1> DEFINE IsOldest(s) == \A t \in KeptStarts(ms, limits) : s <= t
           oldest == CHOOSE s \in KeptStarts(ms, limits) : IsOldest(s)
<1>1. KeptStarts(ms, limits) \in SUBSET Nat
  <2>1. PrefixLength(ms) \in 0 .. Len(ms)
    BY PrefixLengthProperty
  <2> QED
    BY <2>1 DEF KeptStarts, ExchangeStarts
<1>2. start \in KeptStarts(ms, limits)
  <2>1. ASSUME NEW t \in ExchangeStarts(ms), t >= start
        PROVE  WithinLimits(KeepFrom(ms, t), limits)
    <3>1. start <= t
      <4>1. PrefixLength(ms) \in 0 .. Len(ms)
        BY PrefixLengthProperty
      <4>2. start \in Nat /\ t \in Nat
        BY <4>1 DEF ExchangeStarts
      <4> QED
        BY <2>1, <4>2
    <3> QED
      BY <3>1, LaterStartFits
  <2> QED
    BY <2>1 DEF KeptStarts
<1>3. oldest \in KeptStarts(ms, limits) /\ IsOldest(oldest)
  <2>1. \E s \in KeptStarts(ms, limits) : IsOldest(s)
    BY <1>1, <1>2, LeastNatural
  <2> QED
    BY <2>1
<1>4. Pruned(ms, limits) = KeepFrom(ms, oldest)
  BY DEF Pruned
<1> HIDE DEF oldest
<1>5. oldest \in ExchangeStarts(ms) /\ oldest <= start /\ oldest \in Nat
  BY <1>1, <1>2, <1>3 DEF KeptStarts
<1>6. WithinLimits(KeepFrom(ms, oldest), limits)
  BY <1>3, <1>5 DEF KeptStarts
<1> QED
  BY <1>4, <1>5, <1>6, LaterStartFits

\* Pruning keeps as much as fits, for any number of messages: no longer run of
\* exchanges that ends at the newest is within the limits, and pruning the result
\* changes nothing.
THEOREM PruneKeepsMost == ScanSpec => []PruneIsMaximal
<1>1. ScanInv => PruneIsMaximal
  <2> SUFFICES ASSUME ScanInv, place = "pruned"
               PROVE  /\ \A s \in ExchangeStarts(given) :
                            WithinLimits(KeepFrom(given, s), allowed) =>
                                Len(KeepFrom(given, s)) <= Len(retained)
                      /\ retained = Pruned(retained, allowed)
    BY DEF PruneIsMaximal
  <2>1. /\ given \in Seq(Message) /\ retained \in Seq(Message)
        /\ allowed \in [messages : Nat, bytes : Nat]
    BY ScanAssumption DEF ScanInv, ScanType
  <2>2. CanPrune(given, allowed) /\ retained = Pruned(given, allowed)
    BY DEF ScanInv, PruneDecides
  <2>3. WithinLimits(retained, allowed)
    BY <2>1, <2>2, PrunedProperty
  <2> QED
    BY <2>1, <2>2, <2>3, PrunedIsLongest, FittingIsKept
<1> QED
  BY <1>1, ScanInvHolds, PTL

=============================================================================
