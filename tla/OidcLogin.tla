----------------------------- MODULE OidcLogin -----------------------------
(***************************************************************************)
(* Logins with OidcClient: discovery, a snapshot of the provider's signing *)
(* keys, the exchange of a one-use code, and the verification of the       *)
(* identity token, while the provider rotates its keys.                    *)
(*                                                                         *)
(* Several logins and clients of one issuer run side by side, and the host *)
(* may pass the metadata and the snapshot of any to any call.  A login     *)
(* stands for its nonce and its PKCE verifier, which the host draws for it *)
(* alone.  The provider's endpoints stay.                                  *)
(***************************************************************************)
EXTENDS Integers, FiniteSets

CONSTANTS
    Logins,        \* login attempts
    Clients,       \* client registrations, each with its OidcClient
    Kids,          \* key IDs
    None,          \* no snapshot or token
    Policies,      \* of the provider: the lead of its clock, and whether its tokens
                   \* have "nbf"
    Leeway,        \* _MAXIMUM_FUTURE_ISSUED_AT_SECONDS
    Lifetime,      \* of an identity token
    MaxRotations,  \* bound: key rotations of the provider
    MaxTime        \* bound: the last time of the clock

ASSUME LoginAssumption ==
    /\ Policies \subseteq [skew : Int, notBefore : BOOLEAN] /\ Leeway \in Nat
    /\ Lifetime \in Nat \ {0}
    /\ MaxRotations \in Nat /\ MaxTime \in Nat

VARIABLES
    client,      \* the client of each login
    discovered,  \* the clients whose metadata the host holds
    snapshot,    \* the key snapshot each login has fetched or was verified with
    state,       \* "new", "waiting" for a token, the error the last exchange raised,
                 \* "exchanged", "rejected" or "verified"
    token,       \* the identity token in hand
    published,   \* the key set the provider serves
    generation,  \* history: the rotations so far, and the key that signs
    codes,       \* the code of each login at the provider
    issued,      \* the tokens the provider has issued
    now,         \* the client's clock
    policy       \* the provider's

host     == <<client, discovered, snapshot, state, token>>
provider == <<published, generation, codes, issued>>
clocks   == <<now, policy>>
vars     == <<host, provider, clocks>>

\* A "good" key verifies, an "other" one is no RS256 verification key.
Key(kid, kind, born) == [kid |-> kid, kind |-> kind, born |-> born]

Init ==
    /\ client \in [Logins -> Clients]
    /\ discovered = {}
    /\ snapshot = [l \in Logins |-> None] /\ state = [l \in Logins |-> "new"]
    /\ token = [l \in Logins |-> None]
    /\ generation = 0
    /\ \E kid \in Kids, kind \in {"good", "other"} :
          published \in { {Key(kid, "good", 0)},
                          {Key(kid, "good", 0), Key(kid, kind, -1)} }
    /\ codes = [l \in Logins |-> "none"] /\ issued = {}
    /\ now = 0 /\ policy \in Policies

-----------------------------------------------------------------------------
\* _json_request: what it raises for a response, in the order of its checks.  An
\* OidcResponseLimitError is an OidcProtocolError.
Bodies == {"object", "too large", "bad headers", "not an object"}

Errors == {"transport", "protocol", "http"}

ErrorOf(status, body) ==
    IF body \in {"too large", "bad headers"} THEN "protocol"
    ELSE IF status # 200 THEN "http"
    ELSE IF body = "not an object" THEN "protocol"
    ELSE "none"

\* _validate_metadata: the client that discovered it is the one that uses it.
Belongs(metadata, l) == metadata = client[l]

\* discover, by the client of the login.
Discover(l) ==
    /\ discovered' = discovered \cup {client[l]}
    /\ UNCHANGED <<client, snapshot, state, token, provider, clocks>>

\* authorization_url; the provider gives the user a code for the login.
Authorize(l, metadata) ==
    /\ state[l] = "new"
    /\ Belongs(metadata, l)
    /\ state' = [state EXCEPT ![l] = "waiting"]
    /\ codes' = [codes EXCEPT ![l] = "issued"]
    /\ UNCHANGED <<client, discovered, snapshot, token, published, generation, issued>>
    /\ UNCHANGED clocks

\* fetch_signing_keys, by the host or by verify_id_token for it: when one of the
\* keys is usable the snapshot has them all.
FetchKeys(l, metadata) ==
    /\ state[l] # "verified"
    /\ Belongs(metadata, l)
    /\ \E key \in published : key.kind = "good"
    /\ snapshot' = [snapshot EXCEPT ![l] =
                       [client |-> client[l], keys |-> published,
                        generation |-> generation]]
    /\ UNCHANGED <<client, discovered, state, token, provider, clocks>>

-----------------------------------------------------------------------------
InHand == {"exchanged", "rejected", "verified"}

\* exchange_code, which the host may call again after an error.
Exchanging(l, metadata) == state[l] \notin {"new"} \cup InHand /\ Belongs(metadata, l)

SigningKey == CHOOSE key \in published : key.born = generation

Token(l) == [nonce |-> l, audience |-> client[l], at |-> now, key |-> SigningKey]

Receive(l, received) ==
    /\ state' = [state EXCEPT ![l] = "exchanged"]
    /\ token' = [token EXCEPT ![l] = received]

\* The provider knows the code and the verifier, and answers with a token, which
\* arrives unless the response is lost or rejected.
ExchangeCode(l, metadata) ==
    /\ Exchanging(l, metadata)
    /\ codes[l] = "issued"
    /\ codes' = [codes EXCEPT ![l] = "spent"]
    /\ issued' = issued \cup {Token(l)}
    /\ \/ Receive(l, Token(l))
       \/ /\ \E error \in {"transport"} \cup {ErrorOf(200, body) : body \in Bodies} :
                error # "none" /\ state' = [state EXCEPT ![l] = error]
          /\ UNCHANGED token
    /\ UNCHANGED <<client, discovered, snapshot, published, generation, clocks>>

\* The code is spent, or of another login, whose verifier is another one: it is
\* spent now.
CodeRefused(l, metadata, code, body) ==
    /\ Exchanging(l, metadata)
    /\ codes[code] # "none" /\ ~(code = l /\ codes[l] = "issued")
    /\ codes' = [codes EXCEPT ![code] = "spent"]
    /\ state' = [state EXCEPT ![l] = ErrorOf(400, body)]
    /\ UNCHANGED <<client, discovered, snapshot, token, published, generation, issued>>
    /\ UNCHANGED clocks

\* The token endpoint answers with a token it has issued for another request.
ReceiveOther(l, metadata, other) ==
    /\ Exchanging(l, metadata)
    /\ codes' = [codes EXCEPT ![l] = "spent"]
    /\ Receive(l, other)
    /\ UNCHANGED <<client, discovered, snapshot, published, generation, issued, clocks>>

-----------------------------------------------------------------------------
\* Fault: every key with the key ID counts.
MatchesOfKid(t, keys) == { key \in keys : key.kid = t.key.kid }

\* _select_rsa_key.
Matches(t, keys) == { key \in keys : key.kid = t.key.kid /\ key.kind # "other" }

\* The one key of that ID verifies the signature.
SignatureHolds(t, keys) == Matches(t, keys) = {t.key}

IssuedAt(t) == t.at + policy.skew

TimeIsValid(t) ==
    /\ IssuedAt(t) + Lifetime > now
    /\ IssuedAt(t) <= now + Leeway
    /\ policy.notBefore => IssuedAt(t) <= now

\* Fault: the nonce is left to the PKCE verifier.
ClaimsHoldForAnyNonce(t, l) == t.audience = client[l] /\ TimeIsValid(t)

\* _verified_claims.
ClaimsHold(t, l) ==
    /\ t.audience = client[l]
    /\ t.nonce = l
    /\ TimeIsValid(t)

\* verify_id_token, with the snapshot of any login.  After an error the host still
\* has the token, and may verify it again.
VerifyToken(l, metadata, used) ==
    /\ state[l] \in {"exchanged", "rejected"}
    /\ Belongs(metadata, l)
    /\ used # None
    /\ used.client = client[l]
    /\ snapshot' = [snapshot EXCEPT ![l] = used]
    /\ state' = [state EXCEPT ![l] =
                    IF SignatureHolds(token[l], used.keys) /\ ClaimsHold(token[l], l)
                    THEN "verified" ELSE "rejected"]
    /\ UNCHANGED <<client, discovered, token, provider, clocks>>

-----------------------------------------------------------------------------
\* The provider signs with a new key, under any ID, and may keep the old ones.
Rotate(kid, kept) ==
    /\ generation < MaxRotations
    /\ generation' = generation + 1
    /\ published' = {Key(kid, "good", generation')} \cup kept
    /\ UNCHANGED <<host, codes, issued, clocks>>

Tick ==
    /\ now < MaxTime
    /\ now' = now + 1
    /\ UNCHANGED <<host, provider, policy>>

-----------------------------------------------------------------------------
Login(l, metadata) ==
    \/ Authorize(l, metadata) \/ FetchKeys(l, metadata) \/ ExchangeCode(l, metadata)
    \/ \E code \in Logins, body \in Bodies : CodeRefused(l, metadata, code, body)
    \/ \E other \in issued : ReceiveOther(l, metadata, other)
    \/ \E s \in Logins : VerifyToken(l, metadata, snapshot[s])

Next ==
    \/ \E l \in Logins : Discover(l)
    \/ \E l \in Logins, metadata \in discovered : Login(l, metadata)
    \/ \E kid \in Kids, kept \in {{}, published} : Rotate(kid, kept)
    \/ Tick

Spec == Init /\ [][Next]_vars

-----------------------------------------------------------------------------
Keys      == [kid : Kids, kind : {"good", "other"}, born : Int]
Tokens    == [nonce : Logins, audience : Clients, at : Nat, key : Keys]
Snapshots == [client : Clients, keys : SUBSET Keys, generation : Nat]

\* Types of the host's and the provider's state.
TypeOK ==
    /\ client \in [Logins -> Clients] /\ discovered \subseteq Clients
    /\ snapshot \in [Logins -> Snapshots \cup {None}]
    /\ state \in [Logins -> {"new", "waiting"} \cup Errors \cup InHand]
    /\ token \in [Logins -> Tokens \cup {None}]
    /\ published \subseteq Keys /\ generation \in Nat
    /\ codes \in [Logins -> {"none", "issued", "spent"}] /\ issued \subseteq Tokens
    /\ now \in Nat /\ policy \in Policies

\* Who is verified is who logged in: the token is the one the provider issued for
\* the code of this very login, to its client, signed with a key it published;
\* and a code that is spent for a token that is not in hand has left an error.
LoginsAreGenuine ==
    \A l \in Logins :
        /\ state[l] = "verified" =>
              /\ token[l] \in issued
              /\ token[l].nonce = l /\ token[l].audience = client[l]
              /\ token[l].key \in snapshot[l].keys
              /\ codes[l] = "spent"
        /\ l \in { t.nonce : t \in issued } /\ state[l] \notin InHand =>
              state[l] \in Errors

\* A login that went well may only be rejected for a reason outside the client: the
\* token is of another login, the provider rotated its keys between the snapshot and
\* the token or published two signing keys of one ID, the token is used too late, or
\* the provider's clock is further ahead than the leeway, of which "nbf" has none.
FailuresAreExplained ==
    [][\A l \in Logins :
          state[l] = "exchanged" /\ state'[l] = "rejected" =>
             \/ token[l].nonce # l
             \/ snapshot'[l].generation # token[l].key.born
             \/ \E key \in snapshot'[l].keys :
                   /\ key # token[l].key /\ key.kid = token[l].key.kid
                   /\ key.kind # "other"
             \/ now >= token[l].at + policy.skew + Lifetime
             \/ policy.skew > IF policy.notBefore THEN 0 ELSE Leeway]_vars
=============================================================================
