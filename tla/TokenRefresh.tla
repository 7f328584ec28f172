---------------------------- MODULE TokenRefresh ----------------------------
(* connectors/auth/oauth.py, token_store.py: OAuth2Client.token, _mint and    *)
(* invalidate over the InMemoryTokenStore, for the coroutines that share one  *)
(* account.  Refresh tokens are numbered in the order the provider issues     *)
(* them; a provider that rotates them retires the one it was sent.            *)
EXTENDS Integers, FiniteSets

CONSTANTS
    Coroutines,   \* those that ask for the token of the account
    Margin,       \* refresh_margin_seconds
    Lifetimes,    \* expires_in of a response, 0 when it says nothing usable
    MaxMints,     \* token requests the provider serves
    ClockEnd      \* the clock stops here

ASSUME TokenAssumption ==
    /\ {Margin, MaxMints, ClockEnd} \subseteq Nat /\ Lifetimes \subseteq Nat
    /\ "nobody" \notin Coroutines

VARIABLES
    clock,
    cached,     \* the store's token: [access (0: nothing stored), expires (-1 never), refresh]
    holder,     \* who holds the account's lock
    client,     \* per coroutine: [at, access (the token it uses), carried (the refresh token it sent)]
    provider,   \* [minted, refresh (the latest issued), retired]
    lost,       \* history: the provider answered and the answer did not arrive
    reused      \* history: the provider was sent a refresh token it had retired

tokenVars == <<clock, cached, holder, client, provider, lost, reused>>

Idle == [at |-> "idle", access |-> 0, carried |-> 0]

\* The store starts empty and the configuration has refresh token 1.
TokenInit ==
    /\ clock = 0
    /\ cached = [access |-> 0, expires |-> -1, refresh |-> 0]
    /\ holder = "nobody"
    /\ client = [c \in Coroutines |-> Idle]
    /\ provider = [minted |-> 0, refresh |-> 1, retired |-> {}]
    /\ lost = FALSE /\ reused = FALSE

-----------------------------------------------------------------------------
\* needs_refresh: a token that has an expiry is stale from the margin on.
IsStale == cached.expires # -1 /\ clock + Margin >= cached.expires
Usable  == cached.access # 0 /\ ~IsStale

\* Without the lock any coroutine may mint.
Unguarded == TRUE
\* store.lock: one coroutine per account.
Unlocked == holder = "nobody"

Moves(c, at, access, carried) ==
    client' = [client EXCEPT ![c] = [at |-> at, access |-> access, carried |-> carried]]

\* token: the store's token serves as long as it is not stale.
Ask(c) ==
    /\ client[c].at = "idle"
    /\ IF Usable THEN Moves(c, "use", cached.access, 0) ELSE Moves(c, "wait", 0, 0)
    /\ UNCHANGED <<clock, cached, holder, provider, lost, reused>>

\* Under the lock the store is read again: another coroutine may have minted.
FindMinted(c) ==
    /\ client[c].at = "wait" /\ Unlocked /\ Usable
    /\ Moves(c, "use", cached.access, 0)
    /\ UNCHANGED <<clock, cached, holder, provider, lost, reused>>

\* _mint: the stored refresh token, or the configured one, is sent.
RequestToken(c) ==
    /\ client[c].at = "wait" /\ Unlocked /\ ~Usable
    /\ provider.minted < MaxMints
    /\ holder' = c
    /\ Moves(c, "post", 0, IF cached.refresh # 0 THEN cached.refresh ELSE 1)
    /\ UNCHANGED <<clock, cached, provider, lost, reused>>

\* The provider mints, and keeps or rotates the refresh token it was sent.
Minted(c, rotates) ==
    /\ client[c].at = "post" /\ client[c].carried \notin provider.retired
    /\ provider' =
         IF rotates
         THEN [minted |-> provider.minted + 1, refresh |-> provider.refresh + 1,
               retired |-> provider.retired \cup {client[c].carried}]
         ELSE [provider EXCEPT !.minted = @ + 1]

\* _token_from_payload: a response without a refresh token keeps the one sent.
\* It is saved before the lock is let go.
SaveMinted(c) ==
    /\ \E rotates \in BOOLEAN, lifetime \in Lifetimes :
          /\ Minted(c, rotates)
          /\ cached' = [access  |-> provider.minted + 1,
                        expires |-> IF lifetime = 0 THEN -1 ELSE clock + lifetime,
                        refresh |-> IF rotates THEN provider.refresh + 1 ELSE client[c].carried]
    /\ Moves(c, "use", provider.minted + 1, 0)
    /\ holder' = "nobody"
    /\ UNCHANGED <<clock, lost, reused>>

\* The answer does not arrive, or is no token response: the error ends the
\* call and the store keeps what the provider may have retired.
AnswerLost(c) ==
    /\ \E rotates \in BOOLEAN : Minted(c, rotates)
    /\ Moves(c, "idle", 0, 0)
    /\ holder' = "nobody" /\ lost' = TRUE
    /\ UNCHANGED <<clock, cached, reused>>

\* _raise_for_token_error, or an endpoint that was not reached.
TokenRefused(c) ==
    /\ client[c].at = "post"
    /\ Moves(c, "idle", 0, 0)
    /\ holder' = "nobody"
    /\ reused' = (reused \/ client[c].carried \in provider.retired)
    /\ UNCHANGED <<clock, cached, provider, lost>>

Served(c) ==
    /\ client[c].at = "use"
    /\ Moves(c, "idle", 0, 0)
    /\ UNCHANGED <<clock, cached, holder, provider, lost, reused>>

\* invalidate, after a 401: whatever token the store has by now is expired.
Invalidate(c) ==
    /\ client[c].at = "use"
    /\ Moves(c, "idle", 0, 0)
    /\ cached' = IF cached.access = 0 THEN cached ELSE [cached EXCEPT !.expires = clock]
    /\ UNCHANGED <<clock, holder, provider, lost, reused>>

TokenTick ==
    /\ clock < ClockEnd /\ clock' = clock + 1
    /\ UNCHANGED <<cached, holder, client, provider, lost, reused>>

TokenNext ==
    \/ TokenTick
    \/ \E c \in Coroutines :
          \/ Ask(c) \/ FindMinted(c) \/ RequestToken(c) \/ SaveMinted(c) \/ AnswerLost(c)
          \/ TokenRefused(c) \/ Served(c) \/ Invalidate(c)

TokenSpec == TokenInit /\ [][TokenNext]_tokenVars

-----------------------------------------------------------------------------
(* Properties.                                                              *)

TokenTypeOK ==
    /\ clock \in 0..ClockEnd
    /\ cached.access \in 0..provider.minted /\ cached.refresh \in 0..provider.refresh
    /\ holder \in Coroutines \cup {"nobody"}
    /\ \A c \in Coroutines : client[c].at \in {"idle", "wait", "post", "use"}

\* OAuth2Client.token: whatever coroutines find stale or have refused at once,
\* a refresh token the provider has retired is never sent again, unless the
\* answer that carried its successor was lost.
RefreshSpentOnce == reused => lost
=============================================================================
