--------------------------------- MODULE Tokens ---------------------------------
(***************************************************************************)
(* The tokens that one API key of a device gives (api/v1/auth.py,          *)
(* core/security.py, api/deps.py).                                         *)
(*                                                                         *)
(* A token is signed and carries its type and the time it expires; the     *)
(* server stores none and revokes none.  An endpoint decides on what a     *)
(* SELECT returned and issues afterwards: Delay bounds the time between.   *)
(***************************************************************************)
EXTENDS Integers

CONSTANTS
    AccessLife, RefreshLife,
    Delay,          \* time a request takes at most
    MaxTime,        \* bound: the clock
    TokenRequests   \* requests at a time, each used again and again

ASSUME TokensAssumption ==
    /\ AccessLife \in Nat /\ RefreshLife \in Nat /\ Delay \in Nat /\ MaxTime \in Nat

VARIABLES
    now,
    key,         \* whether the key is the one that is stored
    replacedAt,  \* history: when a registration has replaced it
    tokens,      \* tokens the holder of the key has got
    asking       \* what each request is doing, and since when

tokenVars == <<now, key, replacedAt, tokens, asking>>

LastExpiry == MaxTime + AccessLife + RefreshLife
Token == [type : {"access", "refresh"}, exp : 0..LastExpiry]
NotAsking == [kind |-> "none", since |-> 0]

TokenTypeOK ==
    /\ now \in 0..MaxTime
    /\ key \in {"stored", "replaced"}
    /\ replacedAt \in 0..MaxTime
    /\ tokens \subseteq Token
    /\ asking \in [TokenRequests -> [kind : {"none", "token", "refresh"}, since : 0..MaxTime]]

TokenInit ==
    /\ now = 0
    /\ key = "stored" /\ replacedAt = 0
    /\ tokens = {}
    /\ asking = [r \in TokenRequests |-> NotAsking]

CreateAccess == [type |-> "access", exp |-> now + AccessLife]
CreateRefresh == [type |-> "refresh", exp |-> now + RefreshLife]

\* Signature aside, a token is refused after its time, or as one of the other type.
Decodes(t, expected) == now <= t.exp /\ t.type = expected

-----------------------------------------------------------------------------
\* register_device stores another key.
Replace ==
    /\ key = "stored"
    /\ key' = "replaced" /\ replacedAt' = now
    /\ UNCHANGED <<now, tokens, asking>>

Begin(r, kind) ==
    /\ asking[r].kind = "none"
    /\ asking' = [asking EXCEPT ![r] = [kind |-> kind, since |-> now]]
    /\ UNCHANGED <<now, key, replacedAt, tokens>>

\* The row is read, and its hash is that of the key.
AskToken(r) == key = "stored" /\ Begin(r, "token")

\* The token is decoded, then the row is read: it is there, since no endpoint
\* deletes a device.
AskRefresh(r) == (\E t \in tokens : Decodes(t, "refresh")) /\ Begin(r, "refresh")

Give(r, kind, new) ==
    /\ asking[r].kind = kind
    /\ tokens' = tokens \cup new
    /\ asking' = [asking EXCEPT ![r] = NotAsking]
    /\ UNCHANGED <<now, key, replacedAt>>

GetToken(r) == Give(r, "token", {CreateAccess, CreateRefresh})

\* Mutant of RefreshToken: the refresh token is rotated.
MutRefreshToken(r) == Give(r, "refresh", {CreateAccess, CreateRefresh})

RefreshToken(r) == Give(r, "refresh", {CreateAccess})

Fail(r) == asking[r].kind # "none" /\ Give(r, asking[r].kind, {})

Tick ==
    /\ now < MaxTime
    /\ \A r \in TokenRequests : asking[r].kind # "none" => now < asking[r].since + Delay
    /\ now' = now + 1
    /\ UNCHANGED <<key, replacedAt, tokens, asking>>

TokenNext ==
    \/ Replace \/ Tick
    \/ \E r \in TokenRequests :
          \/ AskToken(r) \/ AskRefresh(r)
          \/ GetToken(r) \/ RefreshToken(r) \/ Fail(r)

TokenSpec == TokenInit /\ [][TokenNext]_tokenVars

-----------------------------------------------------------------------------
\* get_current_serial lets a request in.
Admitted == \E t \in tokens : Decodes(t, "access")

\* auth.py:171: a refresh token is not rotated, and when it expires the agent
\* must present its key again.  So a key that has been replaced lets nobody in
\* for longer than a refresh token and one access token after it live, plus the
\* time the two requests took, however many refreshes were made and whatever
\* request was under way when the key was replaced.
ReplacedKeyLapses ==
    Admitted => key = "stored" \/ now <= replacedAt + RefreshLife + AccessLife + 2 * Delay
================================================================================
