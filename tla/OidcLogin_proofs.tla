-------------------------- MODULE OidcLogin_proofs --------------------------
(***************************************************************************)
(* Theorems about OidcLogin, for any logins, clients, keys and clocks.     *)
(*                                                                         *)
(* The argument.  A login whose token is in hand has spent its code and    *)
(* has a token the provider issued, whatever codes and tokens are swapped; *)
(* verification compares its nonce, and nothing touches a verified login.  *)
(* A good token is signed with the key of its generation, and a snapshot   *)
(* of that generation has this key, because the published keys change only *)
(* with the generation.                                                    *)
(***************************************************************************)
EXTENDS OidcLogin, TLAPS

\* The provider serves the key it signs with.
PublishedInv ==
    /\ \E key \in published : key.born = generation
    /\ \A key \in published :
          key.born <= generation /\ (key.born = generation => key.kind = "good")

\* A token is its login's, of the past, and signed with a key of its time.
IssuedInv ==
    \A t \in issued :
        /\ t.audience = client[t.nonce]
        /\ t.at <= now
        /\ t.key.kind = "good" /\ t.key.born <= generation
        /\ t.key.born = generation => t.key \in published
        /\ state[t.nonce] \notin {"new", "waiting"}

\* A snapshot of the present is what is published, and one of the past has the key
\* of every token of its time.
SnapshotInv ==
    \A l \in Logins : snapshot[l] # None =>
        /\ snapshot[l].generation <= generation
        /\ snapshot[l].generation = generation => snapshot[l].keys = published
        /\ \A t \in issued :
              t.key.born = snapshot[l].generation => t.key \in snapshot[l].keys

LoginInv ==
    \A l \in Logins :
        /\ state[l] \in InHand => token[l] \in issued /\ codes[l] = "spent"
        /\ state[l] = "verified" =>
              /\ token[l].nonce = l /\ token[l].audience = client[l]
              /\ token[l].key \in snapshot[l].keys

Inv == TypeOK /\ PublishedInv /\ IssuedInv /\ SnapshotInv /\ LoginInv

-----------------------------------------------------------------------------
LEMMA SigningKeyProperty ==
    ASSUME TypeOK, PublishedInv
    PROVE  /\ SigningKey \in published /\ SigningKey \in Keys
           /\ SigningKey.born = generation /\ SigningKey.kind = "good"
<1>1. SigningKey \in published /\ SigningKey.born = generation
  BY DEF PublishedInv, SigningKey
<1> QED
  BY <1>1 DEF TypeOK, PublishedInv

LEMMA InitInv == Init => Inv
<1> SUFFICES ASSUME Init PROVE Inv
  OBVIOUS
<1>1. PICK kid \in Kids, kind \in {"good", "other"} :
          published \in { {Key(kid, "good", 0)},
                          {Key(kid, "good", 0), Key(kid, kind, -1)} }
  BY DEF Init
<1>2. /\ Key(kid, "good", 0) \in Keys /\ Key(kid, kind, -1) \in Keys
      /\ Key(kid, "good", 0).born = 0 /\ Key(kid, "good", 0).kind = "good"
      /\ Key(kid, kind, -1).born = -1
  BY DEF Key, Keys
<1>3. generation = 0
  BY DEF Init
<1>4. /\ Key(kid, "good", 0) \in published
      /\ \A key \in published : key = Key(kid, "good", 0) \/ key = Key(kid, kind, -1)
  BY <1>1
<1>5. published \subseteq Keys /\ PublishedInv
  BY <1>2, <1>3, <1>4 DEF PublishedInv
<1>6. TypeOK
  BY <1>5 DEF Init, TypeOK
<1>7. IssuedInv /\ SnapshotInv /\ LoginInv
  BY DEF Init, IssuedInv, SnapshotInv, LoginInv, InHand
<1> QED
  BY <1>5, <1>6, <1>7 DEF Inv

\* The steps that give no token to a login.
LEMMA DiscoverInv ==
    ASSUME Inv, NEW l \in Logins, Discover(l)
    PROVE  Inv'
<1> USE DEF Discover, Inv, provider, clocks
<1>1. TypeOK'
  BY DEF TypeOK
<1>2. PublishedInv'
  BY DEF PublishedInv
<1>3. IssuedInv'
  BY DEF IssuedInv
<1>4. SnapshotInv' /\ LoginInv'
  BY DEF SnapshotInv, LoginInv
<1> QED
  BY <1>1, <1>2, <1>3, <1>4

LEMMA AuthorizeInv ==
    ASSUME Inv, NEW l \in Logins, NEW metadata, Authorize(l, metadata)
    PROVE  Inv'
<1> USE DEF Authorize, Inv, clocks
<1>1. TypeOK'
  BY DEF TypeOK
<1>2. PublishedInv'
  BY DEF PublishedInv
<1>3. IssuedInv'
  BY DEF IssuedInv, TypeOK, Tokens
<1>4. SnapshotInv'
  BY DEF SnapshotInv
<1>5. LoginInv'
  BY DEF LoginInv, TypeOK, InHand
<1> QED
  BY <1>1, <1>2, <1>3, <1>4, <1>5

LEMMA FetchKeysInv ==
    ASSUME Inv, NEW l \in Logins, NEW metadata, FetchKeys(l, metadata)
    PROVE  Inv'
<1> USE DEF FetchKeys, Inv, provider, clocks
<1> DEFINE fetched == [client |-> client[l], keys |-> published,
                       generation |-> generation]
<1>1. fetched \in Snapshots /\ snapshot' = [snapshot EXCEPT ![l] = fetched]
  BY DEF TypeOK, Snapshots
<1>2. TypeOK'
  BY <1>1 DEF TypeOK
<1>3. PublishedInv'
  BY DEF PublishedInv
<1>4. IssuedInv'
  BY DEF IssuedInv
<1>5. SnapshotInv'
  BY <1>1 DEF SnapshotInv, IssuedInv, TypeOK
<1>6. LoginInv'
  BY <1>1 DEF LoginInv, TypeOK
<1> QED
  BY <1>2, <1>3, <1>4, <1>5, <1>6

LEMMA RotateInv ==
    ASSUME Inv, NEW kid \in Kids, NEW kept \in SUBSET published, Rotate(kid, kept)
    PROVE  Inv'
<1> USE DEF Rotate, Inv, host, clocks
<1>1. generation \in Nat /\ generation' = generation + 1
  BY DEF TypeOK
<1>2. Key(kid, "good", generation') \in Keys
  BY <1>1 DEF Key, Keys
<1>3. TypeOK'
  BY <1>1, <1>2 DEF TypeOK
<1>4. PublishedInv'
  <2>1. /\ Key(kid, "good", generation').born = generation'
        /\ Key(kid, "good", generation').kind = "good"
    BY DEF Key
  <2>2. \A key \in kept : key.born \in Int /\ key.born <= generation
    BY DEF PublishedInv, TypeOK, Keys
  <2>3. \A key \in kept : key.born <= generation' /\ key.born # generation'
    BY <1>1, <2>2
  <2>4. published' = {Key(kid, "good", generation')} \cup kept
    OBVIOUS
  <2> HIDE DEF Rotate, Inv
  <2> QED
    BY <1>1, <2>1, <2>3, <2>4 DEF PublishedInv
<1>5. IssuedInv'
  BY <1>1 DEF IssuedInv, TypeOK, Tokens, Keys
<1>6. SnapshotInv'
  BY <1>1 DEF SnapshotInv, TypeOK, Snapshots
<1>7. LoginInv'
  BY DEF LoginInv
<1> QED
  BY <1>3, <1>4, <1>5, <1>6, <1>7

LEMMA TickInv ==
    ASSUME Inv, Tick
    PROVE  Inv'
<1> USE DEF Tick, Inv, host, provider
<1>1. TypeOK'
  BY DEF TypeOK
<1>2. PublishedInv'
  BY DEF PublishedInv
<1>3. IssuedInv'
  BY DEF IssuedInv, TypeOK, Tokens
<1>4. SnapshotInv' /\ LoginInv'
  BY DEF SnapshotInv, LoginInv
<1> QED
  BY <1>1, <1>2, <1>3, <1>4

-----------------------------------------------------------------------------
\* The exchange of a code.
LEMMA ErrorOfResponse ==
    /\ \A body \in Bodies : ErrorOf(200, body) \in Errors \cup {"none"}
    /\ \A body \in Bodies : ErrorOf(400, body) \in Errors
BY DEF ErrorOf, Bodies, Errors

LEMMA ErrorsAreNoOtherStates ==
    /\ Errors \cap InHand = {}
    /\ \A error \in Errors : error \notin {"new", "waiting"}
BY DEF Errors, InHand

LEMMA ExchangeCodeInv ==
    ASSUME Inv, NEW l \in Logins, NEW metadata, ExchangeCode(l, metadata)
    PROVE  Inv'
<1> USE DEF ExchangeCode, Inv, clocks
<1>1. /\ SigningKey \in published /\ SigningKey \in Keys
      /\ SigningKey.born = generation /\ SigningKey.kind = "good"
  BY SigningKeyProperty
<1>2. Token(l) \in Tokens
  BY <1>1 DEF Token, Tokens, TypeOK
<1>3. \/ state' = [state EXCEPT ![l] = "exchanged"]
         /\ token' = [token EXCEPT ![l] = Token(l)]
      \/ \E error \in Errors : state' = [state EXCEPT ![l] = error]
         /\ token' = token
  BY ErrorOfResponse DEF Receive, Errors
<1>4. state[l] \notin InHand
  BY DEF Exchanging
<1>5. TypeOK'
  BY <1>2, <1>3 DEF TypeOK, InHand
<1>6. PublishedInv'
  BY DEF PublishedInv
<1>7. IssuedInv'
  BY <1>1, <1>3, ErrorsAreNoOtherStates DEF IssuedInv, Token, TypeOK, Tokens, Keys
<1>8. SnapshotInv'
  BY <1>1 DEF SnapshotInv, Token
<1>9. LoginInv'
  BY <1>3, <1>4, ErrorsAreNoOtherStates DEF LoginInv, TypeOK, InHand
<1> QED
  BY <1>5, <1>6, <1>7, <1>8, <1>9

LEMMA CodeRefusedInv ==
    ASSUME Inv, NEW l \in Logins, NEW metadata, NEW code \in Logins,
           NEW body \in Bodies, CodeRefused(l, metadata, code, body)
    PROVE  Inv'
<1> USE DEF CodeRefused, Inv, clocks
<1>1. ErrorOf(400, body) \in Errors
  BY ErrorOfResponse
<1>2. TypeOK'
  BY <1>1 DEF TypeOK
<1>3. PublishedInv'
  BY DEF PublishedInv
<1>4. IssuedInv'
  BY <1>1, ErrorsAreNoOtherStates DEF IssuedInv, TypeOK, Tokens
<1>5. SnapshotInv'
  BY DEF SnapshotInv
<1>6. LoginInv'
  BY <1>1, ErrorsAreNoOtherStates DEF LoginInv, TypeOK, InHand
<1> QED
  BY <1>2, <1>3, <1>4, <1>5, <1>6

LEMMA ReceiveOtherInv ==
    ASSUME Inv, NEW l \in Logins, NEW metadata, NEW other \in issued,
           ReceiveOther(l, metadata, other)
    PROVE  Inv'
<1> USE DEF ReceiveOther, Receive, Inv, clocks
<1>1. TypeOK'
  BY DEF TypeOK, InHand
<1>2. PublishedInv'
  BY DEF PublishedInv
<1>3. IssuedInv'
  BY DEF IssuedInv, TypeOK, Tokens
<1>4. SnapshotInv'
  BY DEF SnapshotInv
<1>5. LoginInv'
  BY DEF LoginInv, TypeOK, InHand
<1> QED
  BY <1>1, <1>2, <1>3, <1>4, <1>5

-----------------------------------------------------------------------------
\* A token whose one key of its ID is in the snapshot and whose claims hold.
LEMMA GoodToken ==
    ASSUME NEW l \in Logins, NEW t, NEW keys, SignatureHolds(t, keys), ClaimsHold(t, l)
    PROVE  t.nonce = l /\ t.audience = client[l] /\ t.key \in keys
BY DEF SignatureHolds, Matches, ClaimsHold

LEMMA VerifyTokenInv ==
    ASSUME Inv, NEW l \in Logins, NEW metadata, NEW s \in Logins,
           VerifyToken(l, metadata, snapshot[s])
    PROVE  Inv'
<1> USE DEF VerifyToken, Inv, provider, clocks
<1>1. /\ snapshot[s] \in Snapshots
      /\ snapshot' = [snapshot EXCEPT ![l] = snapshot[s]]
  BY DEF TypeOK
<1>2. \/ state' = [state EXCEPT ![l] = "rejected"]
      \/ /\ state' = [state EXCEPT ![l] = "verified"]
         /\ token[l].nonce = l /\ token[l].audience = client[l]
         /\ token[l].key \in snapshot[s].keys
  BY GoodToken
<1>3. TypeOK'
  BY <1>1, <1>2 DEF TypeOK, InHand
<1>4. PublishedInv'
  BY DEF PublishedInv
<1>5. IssuedInv'
  BY <1>2 DEF IssuedInv, TypeOK, Tokens
<1>6. SnapshotInv'
  BY <1>1 DEF SnapshotInv, TypeOK
<1>7. LoginInv'
  BY <1>1, <1>2 DEF LoginInv, TypeOK, InHand
<1> QED
  BY <1>3, <1>4, <1>5, <1>6, <1>7

LEMMA NextPreservesInv == Inv /\ [Next]_vars => Inv'
<1> SUFFICES ASSUME Inv, [Next]_vars PROVE Inv'
  OBVIOUS
<1>1. CASE \E l \in Logins : Discover(l)
  BY <1>1, DiscoverInv
<1>2. CASE \E l \in Logins, metadata \in discovered : Login(l, metadata)
  <2>1. PICK l \in Logins, metadata \in discovered : Login(l, metadata)
    BY <1>2
  <2>2. CASE Authorize(l, metadata) \/ FetchKeys(l, metadata)
    BY <2>2, AuthorizeInv, FetchKeysInv
  <2>3. CASE ExchangeCode(l, metadata)
    BY <2>3, ExchangeCodeInv
  <2>4. CASE \E code \in Logins, body \in Bodies : CodeRefused(l, metadata, code, body)
    BY <2>4, CodeRefusedInv
  <2>5. CASE \E other \in issued : ReceiveOther(l, metadata, other)
    BY <2>5, ReceiveOtherInv
  <2>6. CASE \E s \in Logins : VerifyToken(l, metadata, snapshot[s])
    BY <2>6, VerifyTokenInv
  <2> QED
    BY <2>1, <2>2, <2>3, <2>4, <2>5, <2>6 DEF Login
<1>3. CASE \E kid \in Kids, kept \in {{}, published} : Rotate(kid, kept)
  BY <1>3, RotateInv
<1>4. CASE Tick
  BY <1>4, TickInv
<1>5. CASE UNCHANGED vars
  BY <1>5 DEF vars, host, provider, clocks, Inv, TypeOK, PublishedInv, IssuedInv,
              SnapshotInv, LoginInv
<1> QED
  BY <1>1, <1>2, <1>3, <1>4, <1>5 DEF Next

LEMMA InvHolds == Spec => []Inv
BY InitInv, NextPreservesInv, PTL DEF Spec

-----------------------------------------------------------------------------
\* The host's and the provider's state stays in its types.
THEOREM TypeCorrect == Spec => []TypeOK
<1>1. Inv => TypeOK
  BY DEF Inv
<1> QED
  BY <1>1, InvHolds, PTL

\* verify_id_token and exchange_code: whoever is verified is who logged in, and a
\* code spent for a token that is not in hand has left an error.
THEOREM OnlyGenuineLogins == Spec => []LoginsAreGenuine
<1>1. Inv => LoginsAreGenuine
  <2> SUFFICES ASSUME Inv, NEW l \in Logins
               PROVE  /\ state[l] = "verified" =>
                            /\ token[l] \in issued
                            /\ token[l].nonce = l /\ token[l].audience = client[l]
                            /\ token[l].key \in snapshot[l].keys
                            /\ codes[l] = "spent"
                      /\ l \in { t.nonce : t \in issued } /\ state[l] \notin InHand =>
                            state[l] \in Errors
    BY DEF LoginsAreGenuine
  <2>1. state[l] \in {"new", "waiting"} \cup Errors \cup InHand
    BY DEF Inv, TypeOK
  <2> QED
    BY <2>1 DEF Inv, LoginInv, IssuedInv, InHand
<1> QED
  BY <1>1, InvHolds, PTL

\* Why a token of this login is not verified, if its signature fails: the snapshot is
\* of another time, or has a second signing key of its ID.
LEMMA BadSignature ==
    ASSUME Inv, NEW s \in Logins, snapshot[s] # None, NEW t \in issued,
           ~SignatureHolds(t, snapshot[s].keys),
           snapshot[s].generation = t.key.born
    PROVE  \E key \in snapshot[s].keys :
               key # t.key /\ key.kid = t.key.kid /\ key.kind # "other"
<1>1. t.key \in snapshot[s].keys /\ t.key.kind = "good"
  BY DEF Inv, SnapshotInv, IssuedInv
<1>2. t.key \in Matches(t, snapshot[s].keys)
  BY <1>1 DEF Matches
<1>3. Matches(t, snapshot[s].keys) # {t.key}
  BY DEF SignatureHolds
<1>4. PICK key \in Matches(t, snapshot[s].keys) : key # t.key
  BY <1>2, <1>3
<1> QED
  BY <1>4 DEF Matches

\* And if its claims fail: the clocks.
LEMMA BadClaims ==
    ASSUME Inv, NEW l \in Logins, NEW t \in issued, t.nonce = l, ~ClaimsHold(t, l)
    PROVE  \/ now >= t.at + policy.skew + Lifetime
           \/ policy.skew > IF policy.notBefore THEN 0 ELSE Leeway
<1>1. ~TimeIsValid(t)
  BY DEF Inv, IssuedInv, ClaimsHold
<1>2. t.at \in Nat /\ t.at <= now /\ now \in Nat
  BY DEF Inv, IssuedInv, TypeOK, Tokens
<1>3. /\ policy.skew \in Int /\ policy.notBefore \in BOOLEAN
      /\ Leeway \in Nat /\ Lifetime \in Nat
  BY LoginAssumption DEF Inv, TypeOK
<1> QED
  BY <1>1, <1>2, <1>3 DEF TimeIsValid, IssuedAt

\* verify_id_token rejects the token of a login that went well only for a reason
\* outside the client.
THEOREM OnlyExplainedFailures == Spec => FailuresAreExplained
<1> DEFINE Explained ==
        \A l \in Logins :
          state[l] = "exchanged" /\ state'[l] = "rejected" =>
             \/ token[l].nonce # l
             \/ snapshot'[l].generation # token[l].key.born
             \/ \E key \in snapshot'[l].keys :
                   /\ key # token[l].key /\ key.kid = token[l].key.kid
                   /\ key.kind # "other"
             \/ now >= token[l].at + policy.skew + Lifetime
             \/ policy.skew > IF policy.notBefore THEN 0 ELSE Leeway
<1>1. Inv /\ [Next]_vars => [Explained]_vars
  <2> SUFFICES ASSUME Inv, Next, NEW l \in Logins,
                      state[l] = "exchanged", state'[l] = "rejected",
                      token[l].nonce = l, snapshot'[l].generation = token[l].key.born
               PROVE  \/ \E key \in snapshot'[l].keys :
                            /\ key # token[l].key /\ key.kid = token[l].key.kid
                            /\ key.kind # "other"
                      \/ now >= token[l].at + policy.skew + Lifetime
                      \/ policy.skew > IF policy.notBefore THEN 0 ELSE Leeway
    OBVIOUS
  <2>1. PICK metadata \in discovered, s \in Logins :
            VerifyToken(l, metadata, snapshot[s])
    <3>1. state \in [Logins -> {"new", "waiting"} \cup Errors \cup InHand]
      BY DEF Inv, TypeOK
    <3>2. state'[l] # state[l] /\ state'[l] \notin Errors
      BY DEF Errors
    <3>3. PICK k \in Logins, metadata \in discovered : Login(k, metadata)
      BY <3>2 DEF Next, Discover, Rotate, Tick, host
    <3>4. ~Authorize(k, metadata)
      BY <3>1, <3>2 DEF Authorize
    <3>5. ~FetchKeys(k, metadata)
      BY <3>2 DEF FetchKeys
    <3>6. ~ExchangeCode(k, metadata)
      BY <3>1, <3>2, ErrorOfResponse DEF ExchangeCode, Receive, Errors
    <3>7. ASSUME NEW code \in Logins, NEW body \in Bodies,
                 CodeRefused(k, metadata, code, body)
          PROVE  FALSE
      BY <3>1, <3>2, <3>7, ErrorOfResponse DEF CodeRefused
    <3>8. ASSUME NEW other \in issued, ReceiveOther(k, metadata, other)
          PROVE  FALSE
      BY <3>1, <3>2, <3>8 DEF ReceiveOther, Receive
    <3>9. PICK s \in Logins : VerifyToken(k, metadata, snapshot[s])
      BY <3>3, <3>4, <3>5, <3>6, <3>7, <3>8 DEF Login
    <3>10. k = l
      BY <3>1, <3>2, <3>9 DEF VerifyToken
    <3> QED
      BY <3>9, <3>10
  <2>2. snapshot'[l] = snapshot[s] /\ snapshot[s] # None
    BY <2>1 DEF VerifyToken, Inv, TypeOK
  <2>3. token[l] \in issued
    BY DEF Inv, LoginInv, InHand
  <2>4. ~SignatureHolds(token[l], snapshot[s].keys) \/ ~ClaimsHold(token[l], l)
    BY <2>1 DEF VerifyToken, Inv, TypeOK
  <2> QED
    BY <2>2, <2>3, <2>4, BadSignature, BadClaims
<1> QED
  BY <1>1, InvHolds, PTL DEF Spec, FailuresAreExplained
=============================================================================
