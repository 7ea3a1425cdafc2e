------------------------------ MODULE Records_proof ------------------------------
(* Streams, keys, tokens, screenshots and paginated lists: types and safety,   *)
(* for every value of the constants.                                           *)
EXTENDS Streams, Registration, Tokens, Screenshots, Lists,
        FiniteSetTheorems, SequenceTheorems, TLAPS

-----------------------------------------------------------------------------
(* Tokens. *)

\* Until when the key was stored.
Valid == IF key = "stored" THEN now ELSE replacedAt

\* What a token allows is bounded by when it was issued, and that by when the
\* key was last found stored.
TokenInv ==
    /\ TokenTypeOK
    /\ replacedAt <= now
    /\ \A t \in tokens :
          /\ t.type = "refresh" => t.exp <= Valid + RefreshLife + Delay
          /\ t.type = "access" => t.exp <= Valid + RefreshLife + AccessLife + 2 * Delay
    /\ \A r \in TokenRequests :
          /\ asking[r].kind # "none" =>
                asking[r].since <= now /\ now <= asking[r].since + Delay
          /\ asking[r].kind = "token" => asking[r].since <= Valid
          /\ asking[r].kind = "refresh" => asking[r].since <= Valid + RefreshLife + Delay

LEMMA TokenInvInit == TokenInit => TokenInv
  BY TokensAssumption, SMT DEF TokenInit, TokenInv, TokenTypeOK, NotAsking, Valid

LEMMA TokenInvNext == TokenInv /\ [TokenNext]_tokenVars => TokenInv'
  <1> SUFFICES ASSUME TokenInv, [TokenNext]_tokenVars PROVE TokenInv'
      OBVIOUS
  <1> USE TokensAssumption
  <1>0. /\ now \in Int /\ replacedAt \in Int /\ Valid \in Int
        /\ \A t \in tokens : t.exp \in Int
        /\ \A r \in TokenRequests : asking[r].since \in Int
      BY SMT DEF TokenInv, TokenTypeOK, Token, Valid
  <1>1. CASE Replace
      BY <1>0, <1>1, SMT DEF Replace, TokenInv, TokenTypeOK, Valid
  <1>2. CASE Tick
      BY <1>0, <1>2, SMT DEF Tick, TokenInv, TokenTypeOK, Valid
  <1>3. ASSUME NEW r \in TokenRequests, NEW kind \in {"token", "refresh"}, Begin(r, kind),
               kind = "token" => now <= Valid,
               kind = "refresh" => now <= Valid + RefreshLife + Delay
        PROVE  TokenInv'
    <2>1. TokenTypeOK'
        BY <1>3, SMT DEF Begin, TokenInv, TokenTypeOK
    <2>2. \A q \in TokenRequests :
             asking'[q] = IF q = r THEN [kind |-> kind, since |-> now] ELSE asking[q]
        BY <1>3 DEF Begin, TokenInv, TokenTypeOK
    <2>3. now' = now /\ Valid' = Valid /\ UNCHANGED <<tokens, replacedAt>>
        BY <1>3 DEF Begin, Valid
    <2> QED
        BY <1>0, <1>3, <2>1, <2>2, <2>3, SMT DEF TokenInv
  <1>4. ASSUME NEW r \in TokenRequests, NEW kind, NEW new \in SUBSET Token, Give(r, kind, new),
               \A t \in new :
                  /\ t.type = "refresh" => t.exp <= Valid + RefreshLife + Delay
                  /\ t.type = "access" => t.exp <= Valid + RefreshLife + AccessLife + 2 * Delay
        PROVE  TokenInv'
    <2>1. TokenTypeOK'
        BY <1>4, SMT DEF Give, NotAsking, TokenInv, TokenTypeOK
    <2>2. \A q \in TokenRequests : asking'[q] = IF q = r THEN NotAsking ELSE asking[q]
        BY <1>4 DEF Give, TokenInv, TokenTypeOK
    <2>3. now' = now /\ Valid' = Valid /\ UNCHANGED replacedAt
        BY <1>4 DEF Give, Valid
    <2>4. \A t \in tokens' : t \in tokens \/ t \in new
        BY <1>4 DEF Give
    <2> QED
        BY <1>0, <1>4, <2>1, <2>2, <2>3, <2>4, SMT DEF TokenInv, NotAsking
  <1>5. ASSUME NEW r \in TokenRequests, AskToken(r) PROVE TokenInv'
      BY <1>0, <1>3, <1>5 DEF AskToken, Valid
  <1>6. ASSUME NEW r \in TokenRequests, AskRefresh(r) PROVE TokenInv'
    <2>1. PICK t \in tokens : Decodes(t, "refresh")
        BY <1>6 DEF AskRefresh
    <2>2. now <= Valid + RefreshLife + Delay
        BY <1>0, <2>1, SMT DEF Decodes, TokenInv
    <2> QED
        BY <1>3, <1>6, <2>2 DEF AskRefresh
  <1>7. ASSUME NEW r \in TokenRequests, GetToken(r) PROVE TokenInv'
    <2>1. CreateAccess \in Token /\ CreateRefresh \in Token
        BY SMT DEF CreateAccess, CreateRefresh, Token, LastExpiry, TokenInv, TokenTypeOK
    <2>2. now <= Valid + Delay
        BY <1>0, <1>7, SMT DEF GetToken, Give, TokenInv
    <2>3. /\ CreateAccess.type = "access" /\ CreateAccess.exp = now + AccessLife
          /\ CreateRefresh.type = "refresh" /\ CreateRefresh.exp = now + RefreshLife
        BY DEF CreateAccess, CreateRefresh
    <2>4. \A t \in {CreateAccess, CreateRefresh} :
             /\ t.type = "refresh" => t.exp <= Valid + RefreshLife + Delay
             /\ t.type = "access" => t.exp <= Valid + RefreshLife + AccessLife + 2 * Delay
        BY <1>0, <2>2, <2>3, SMT
    <2> QED
        BY <1>4, <1>7, <2>1, <2>4 DEF GetToken
  <1>8. ASSUME NEW r \in TokenRequests, RefreshToken(r) PROVE TokenInv'
    <2>1. CreateAccess \in Token
        BY SMT DEF CreateAccess, Token, LastExpiry, TokenInv, TokenTypeOK
    <2>2. now <= Valid + RefreshLife + 2 * Delay
        BY <1>0, <1>8, SMT DEF RefreshToken, Give, TokenInv
    <2>3. CreateAccess.type = "access" /\ CreateAccess.exp = now + AccessLife
        BY DEF CreateAccess
    <2>4. \A t \in {CreateAccess} :
             /\ t.type = "refresh" => t.exp <= Valid + RefreshLife + Delay
             /\ t.type = "access" => t.exp <= Valid + RefreshLife + AccessLife + 2 * Delay
        BY <1>0, <2>2, <2>3, SMT
    <2> QED
        BY <1>4, <1>8, <2>1, <2>4 DEF RefreshToken
  <1>9. ASSUME NEW r \in TokenRequests, Fail(r) PROVE TokenInv'
      BY <1>4, <1>9 DEF Fail
  <1>10. CASE UNCHANGED tokenVars
    <2>1. Valid' = Valid
        BY <1>10 DEF tokenVars, Valid
    <2> QED
        BY <1>10, <2>1 DEF tokenVars, TokenInv, TokenTypeOK
  <1> QED
      BY <1>1, <1>2, <1>5, <1>6, <1>7, <1>8, <1>9, <1>10 DEF TokenNext

\* Every variable of the tokens has its type.
THEOREM TokenTypes == TokenSpec => []TokenTypeOK
  <1>1. TokenInv => TokenTypeOK
      BY DEF TokenInv
  <1> QED
      BY <1>1, TokenInvInit, TokenInvNext, PTL DEF TokenSpec

\* auth.py:171: for any lifetimes and any number of requests, a key that has
\* been replaced stops to let anybody in.
THEOREM KeysLapse == TokenSpec => []ReplacedKeyLapses
  <1>1. TokenInv => ReplacedKeyLapses
    <2> SUFFICES ASSUME TokenInv, NEW t \in tokens, Decodes(t, "access"), key # "stored"
                 PROVE  now <= replacedAt + RefreshLife + AccessLife + 2 * Delay
        BY DEF ReplacedKeyLapses, Admitted
    <2>1. t \in Token /\ t.exp \in Int
        BY SMT DEF TokenInv, TokenTypeOK, Token
    <2>2. t.exp <= replacedAt + RefreshLife + AccessLife + 2 * Delay
        BY DEF TokenInv, Valid, Decodes
    <2> QED
        BY <2>1, <2>2, TokensAssumption, SMT DEF Decodes, TokenInv, TokenTypeOK
  <1> QED
      BY <1>1, TokenInvInit, TokenInvNext, PTL DEF TokenSpec

-----------------------------------------------------------------------------
(* Screenshots. *)

\* The upload that wrote a file last has its image there, and a settled row
\* describes the image that is there.
ShotInv ==
    /\ ShotTypeOK
    /\ \A u \in newest : upload[u] # NoUpload /\ file[upload[u].shot] = upload[u].image
    /\ \A s \in settled : file[s] \in Images /\ shot[s] = file[s]

LEMMA ShotInvInit == ShotInit => ShotInv
  BY ScreenshotsAssumption DEF ShotInit, ShotInv, ShotTypeOK, NoUpload

LEMMA ShotInvNext == ShotInv /\ [ShotNext]_shotVars => ShotInv'
  <1> SUFFICES ASSUME ShotInv, [ShotNext]_shotVars PROVE ShotInv'
      OBVIOUS
  <1> USE ScreenshotsAssumption DEF ShotInv, ShotTypeOK
  <1>0. \A u \in Uploads : upload[u] # NoUpload =>
            upload[u].shot \in Shots /\ upload[u].image \in Images
      BY DEF NoUpload
  <1>1. ASSUME NEW s \in Shots, Capture(s) PROVE ShotInv'
      BY <1>1 DEF Capture
  <1>2. ASSUME NEW s \in Shots, WriteFails(s) PROVE ShotInv'
      BY <1>0, <1>2 DEF WriteFails, Written
  <1>3. ASSUME NEW u \in Uploads, NEW s \in Shots, NEW i \in Images, WriteFile(u, s, i)
        PROVE  ShotInv'
    <2>1. /\ upload'[u] = [shot |-> s, image |-> i] /\ upload'[u] # NoUpload
          /\ \A v \in Uploads \ {u} : upload'[v] = upload[v]
          /\ file'[s] = i /\ \A r \in Shots \ {s} : file'[r] = file[r]
        BY <1>3 DEF WriteFile, NoUpload
    <2>2. \A v \in newest' : upload'[v] # NoUpload /\ file'[upload'[v].shot] = upload'[v].image
        BY <1>0, <1>3, <2>1 DEF WriteFile, Written
    <2>3. ShotTypeOK'
        BY <1>3 DEF WriteFile, Written
    <2>4. \A r \in settled' : file'[r] \in Images /\ shot'[r] = file'[r]
        BY <1>3, <2>1 DEF WriteFile, Written
    <2> QED BY <2>2, <2>3, <2>4
  <1>4. ASSUME NEW u \in Uploads, UpdateRow(u) PROVE ShotInv'
      BY <1>0, <1>4 DEF UpdateRow
  <1>5. ASSUME NEW u \in Uploads, UpdateFails(u) PROVE ShotInv'
      BY <1>5 DEF UpdateFails
  <1>6. CASE UNCHANGED shotVars
      BY <1>6 DEF shotVars
  <1> QED
      BY <1>1, <1>2, <1>3, <1>4, <1>5, <1>6 DEF ShotNext

\* Every variable of the screenshots has its type.
THEOREM ShotTypes == ShotSpec => []ShotTypeOK
  <1>1. ShotInv => ShotTypeOK
      BY DEF ShotInv
  <1> QED
      BY <1>1, ShotInvInit, ShotInvNext, PTL DEF ShotSpec

\* screenshots.py:124-144: for any number of uploads, overlapping and failing, a
\* row stored by the upload that wrote its file last describes what is served.
THEOREM RowsDescribeFiles == ShotSpec => []RowDescribesFile
  <1>1. ShotInv => RowDescribesFile
      BY ScreenshotsAssumption DEF ShotInv, ShotTypeOK, RowDescribesFile, Served
  <1> QED
      BY <1>1, ShotInvInit, ShotInvNext, PTL DEF ShotSpec

-----------------------------------------------------------------------------
(* Keys. *)

\* r has made up a key that it has not stored yet.
Registering(r) == request[r].kind = "register"

\* A key belongs to the row, to one request, or to the past.
RegInv ==
    /\ RegTypeOK
    /\ replaced \subseteq used
    /\ device.key # NoKey => device.key \in used /\ device.key \notin replaced
    /\ \A r \in Requests : Registering(r) =>
          /\ request[r].key \in used
          /\ request[r].key \notin replaced
          /\ request[r].key # device.key
          /\ \A q \in Requests : Registering(q) /\ request[q].key = request[r].key => q = r

LEMMA RegInvInit == RegInit => RegInv
  BY RegistrationAssumption
  DEF RegInit, RegInv, RegTypeOK, Rows, NoRowYet, Waiting, Registering

\* What Put stores: another key than before is one of a request that ends.
LEMMA PutKeepsInv ==
    ASSUME RegInv, NEW r \in Requests, NEW row \in Rows, Put(row), Finish(r), UNCHANGED used,
           answered' \subseteq Tags,
           \/ row.key \in {NoKey, device.key}
           \/ Registering(r) /\ row.key = request[r].key
    PROVE  RegInv'
  <1> USE RegistrationAssumption
  <1>1. Waiting.kind = "none" /\ Waiting \in [kind : {"none", "register", "patch"},
                key : ApiKeys \cup {NoKey}, tags : SUBSET Tags, was : Rows]
      BY DEF Waiting, NoRowYet, Rows
  <1>2. \A q \in Requests : request'[q] = IF q = r THEN Waiting ELSE request[q]
      BY DEF Finish, RegInv, RegTypeOK
  <1>3. device.key \in ApiKeys \cup {NoKey} /\ device' = row
      BY DEF RegInv, RegTypeOK, Rows, Put
  <1>4. replaced' = replaced \cup ({device.key} \ {row.key, NoKey})
      BY DEF Put
  <1>5. RegTypeOK'
      BY <1>1, <1>3, <1>4 DEF RegInv, RegTypeOK, Finish
  <1>6. replaced' \subseteq used'
      BY <1>3, <1>4 DEF RegInv
  <1>7. row.key # NoKey => row.key \in used /\ row.key \notin replaced'
      BY <1>3, <1>4 DEF RegInv
  <1>8. \A q \in Requests : Registering(q)' =>
          /\ q # r /\ Registering(q)
          /\ request'[q] = request[q]
      BY <1>1, <1>2 DEF Registering
  <1>9. ASSUME NEW q \in Requests, Registering(q)'
        PROVE  /\ request[q].key \in used
               /\ request[q].key \notin replaced'
               /\ request[q].key # row.key
    <2>1. /\ q # r /\ Registering(q)
          /\ request[q].key \in used /\ request[q].key \notin replaced
          /\ request[q].key # device.key
        BY <1>8, <1>9 DEF RegInv
    <2>2. request[q].key # NoKey
        BY <2>1 DEF RegInv, RegTypeOK
    <2>3. Registering(r) => request[q].key # request[r].key
        BY <2>1 DEF RegInv
    <2> QED
        BY <1>4, <2>1, <2>2, <2>3
  <1>10. \A q, p \in Requests :
            Registering(q)' /\ Registering(p)' /\ request'[p].key = request'[q].key => p = q
      BY <1>8 DEF RegInv
  <1>11. \A q \in Requests : Registering(q)' =>
            /\ request'[q].key \in used' /\ request'[q].key \notin replaced'
            /\ request'[q].key # device'.key
      BY <1>3, <1>8, <1>9
  <1> QED
      BY <1>3, <1>5, <1>6, <1>7, <1>10, <1>11 DEF RegInv

LEMMA RegInvNext == RegInv /\ [RegNext]_regVars => RegInv'
  <1> SUFFICES ASSUME RegInv, [RegNext]_regVars PROVE RegInv'
      OBVIOUS
  <1> USE RegistrationAssumption
  <1>1. ASSUME NEW r \in Requests, NEW k \in ApiKeys, RegisterLoad(r, k) PROVE RegInv'
    <2> DEFINE new == [kind |-> "register", key |-> k, tags |-> {}, was |-> device]
    <2>1. new.kind = "register" /\ new.key = k
          /\ new \in [kind : {"none", "register", "patch"}, key : ApiKeys \cup {NoKey},
                      tags : SUBSET Tags, was : Rows]
        BY DEF RegInv, RegTypeOK
    <2>2. /\ request' = [request EXCEPT ![r] = new]
          /\ k \notin used /\ used' = used \cup {k} /\ answered' = {}
          /\ UNCHANGED <<device, replaced>>
        BY <1>1 DEF RegisterLoad
    <2> HIDE DEF new
    <2>3. RegTypeOK'
        BY <2>1, <2>2 DEF RegInv, RegTypeOK
    <2>4. \A q \in Requests : request'[q] = IF q = r THEN new ELSE request[q]
        BY <2>2 DEF RegInv, RegTypeOK
    <2>5. k # NoKey /\ k \notin replaced /\ k # device.key
        BY <2>2 DEF RegInv
    <2> QED
        BY <2>1, <2>2, <2>3, <2>4, <2>5 DEF RegInv, Registering
  <1>2. ASSUME NEW r \in Requests, Rotate(r) PROVE RegInv'
    <2> DEFINE new == [there |-> "yes", key |-> request[r].key, tags |-> request[r].was.tags]
    <2>1. new \in Rows /\ new.key = request[r].key
        BY DEF RegInv, RegTypeOK, Rows
    <2>2. Put(new) /\ Finish(r) /\ UNCHANGED used /\ answered' = {} /\ Registering(r)
        BY <1>2 DEF Rotate, Registering
    <2> HIDE DEF new
    <2> QED
        BY <2>1, <2>2, PutKeepsInv
  <1>3. ASSUME NEW r \in Requests, Insert(r) PROVE RegInv'
    <2>1. CASE device.there = "no"
      <3> DEFINE new == [there |-> "yes", key |-> request[r].key, tags |-> {}]
      <3>1. new \in Rows /\ new.key = request[r].key
          BY DEF RegInv, RegTypeOK, Rows
      <3>2. Put(new) /\ Finish(r) /\ UNCHANGED used /\ answered' = {} /\ Registering(r)
          BY <1>3, <2>1 DEF Insert, Registering
      <3> HIDE DEF new
      <3> QED
          BY <3>1, <3>2, PutKeepsInv
    <2>2. CASE device.there # "no"
      <3>1. Put(device) /\ device \in Rows
          BY <1>3, <2>2 DEF Insert, Put, RegInv, RegTypeOK
      <3> QED
          BY <1>3, <3>1, PutKeepsInv DEF Insert
    <2> QED
        BY <2>1, <2>2
  <1>4. ASSUME NEW r \in Requests, NEW t \in Tags, PatchLoad(r, t) PROVE RegInv'
    <2> DEFINE new == [kind |-> "patch", key |-> NoKey, tags |-> {t}, was |-> device]
    <2>1. new.kind = "patch"
          /\ new \in [kind : {"none", "register", "patch"}, key : ApiKeys \cup {NoKey},
                      tags : SUBSET Tags, was : Rows]
        BY DEF RegInv, RegTypeOK
    <2>2. request' = [request EXCEPT ![r] = new] /\ answered' = {}
          /\ UNCHANGED <<device, used, replaced>>
        BY <1>4 DEF PatchLoad
    <2> HIDE DEF new
    <2>3. RegTypeOK'
        BY <2>1, <2>2 DEF RegInv, RegTypeOK
    <2>4. \A q \in Requests : request'[q] = IF q = r THEN new ELSE request[q]
        BY <2>2 DEF RegInv, RegTypeOK
    <2> QED
        BY <2>1, <2>2, <2>3, <2>4 DEF RegInv, Registering
  <1>5. ASSUME NEW r \in Requests, PatchStore(r) PROVE RegInv'
    <2>1. request[r].tags \in SUBSET Tags /\ device \in Rows
        BY DEF RegInv, RegTypeOK
    <2>2. CASE Bare(request[r].was)
      <3> DEFINE new == [device EXCEPT !.key = NoKey, !.tags = request[r].tags]
      <3>1. new \in Rows /\ new.key = NoKey
          BY <2>1 DEF Rows
      <3>2. Put(new) /\ Finish(r) /\ UNCHANGED used /\ answered' \subseteq Tags
          BY <1>5, <2>1, <2>2 DEF PatchStore
      <3> HIDE DEF new
      <3> QED
          BY <3>1, <3>2, PutKeepsInv
    <2>3. CASE ~Bare(request[r].was)
      <3>1. Put(device)
          BY <1>5, <2>3 DEF PatchStore, Put
      <3> QED
          BY <1>5, <2>1, <3>1, PutKeepsInv DEF PatchStore
    <2> QED
        BY <2>2, <2>3
  <1>6. ASSUME NEW r \in Requests, Abandon(r) PROVE RegInv'
    <2>1. Put(device) /\ device \in Rows
        BY <1>6 DEF Abandon, Put, RegInv, RegTypeOK
    <2> QED
        BY <1>6, <2>1, PutKeepsInv DEF Abandon
  <1>7. CASE UNCHANGED regVars
      BY <1>7 DEF regVars, RegInv, RegTypeOK, Registering
  <1> QED
      BY <1>1, <1>2, <1>3, <1>4, <1>5, <1>6, <1>7 DEF RegNext

\* Every variable of registration and updates has its type.
THEOREM RegTypes == RegSpec => []RegTypeOK
  <1>1. RegInv => RegTypeOK
      BY DEF RegInv
  <1> QED
      BY <1>1, RegInvInit, RegInvNext, PTL DEF RegSpec

\* auth.py:73: for any number of registrations and updates, a key that was
\* replaced is not accepted again.
THEOREM ReplacedKeysStayOut == RegSpec => []ReplacedStaysOut
  <1>1. RegInv => ReplacedStaysOut
      BY DEF RegInv, ReplacedStaysOut, Accepts
  <1> QED
      BY <1>1, RegInvInit, RegInvNext, PTL DEF RegSpec

-----------------------------------------------------------------------------
(* Streams. *)

\* A device that is there, or of which it is still to be handled that it is not.
Known(d) == d \in link \cup notices

\* A session that is tracked is listed for its device, and one that is active
\* or about to be is of a known device, unless the handler has passed it over.
StreamInv ==
    /\ StreamTypeOK
    /\ \A s \in tracked : s \in listed[stream[s].device]
    /\ \A s \in tracked :
          stream[s].state = "active" \/ s \in sending =>
             Known(stream[s].device) \/ s \in missed

LEMMA StreamInvInit == StreamInit => StreamInv
  BY StreamsAssumption, SMT DEF StreamInit, StreamInv, StreamTypeOK, State

LEMMA Becomes ==
    ASSUME StreamTypeOK, NEW S \in SUBSET Streams, NEW state \in State, Become(S, state)
    PROVE  /\ stream' \in [Streams -> [device : StreamDevices, state : State]]
           /\ \A s \in Streams :
                 /\ stream'[s].device = stream[s].device
                 /\ stream'[s].state = IF s \in S THEN state ELSE stream[s].state
  BY DEF StreamTypeOK, Become

LEMMA StreamInvNext == StreamInv /\ [StreamNext]_streamVars => StreamInv'
  <1> SUFFICES ASSUME StreamInv, [StreamNext]_streamVars PROVE StreamInv'
      OBVIOUS
  <1> USE StreamsAssumption
  <1>0. /\ StreamTypeOK /\ tracked \subseteq Streams
        /\ \A s \in Streams : stream[s].device \in StreamDevices
      BY DEF StreamInv, StreamTypeOK
  <1>1. ASSUME NEW s \in Streams, Create(s) PROVE StreamInv'
    <2>1. /\ stream' \in [Streams -> [device : StreamDevices, state : State]]
          /\ \A q \in Streams : /\ stream'[q].device = stream[q].device
                                /\ q # s => stream'[q].state = stream[q].state
        BY <1>0, <1>1, Becomes DEF Create, State
    <2>2. StreamTypeOK'
        BY <1>1, <2>1 DEF Create, StreamInv, StreamTypeOK
    <2>3. \A d \in StreamDevices : listed'[d] = IF d = stream[s].device THEN listed[d] \cup {s}
                                              ELSE listed[d]
        BY <1>1 DEF Create, StreamInv, StreamTypeOK
    <2>4. \A q \in tracked' : q \in listed'[stream'[q].device]
        BY <1>0, <1>1, <2>1, <2>3 DEF Create, StreamInv
    <2>5. ASSUME NEW q \in tracked', stream'[q].state = "active" \/ q \in sending'
          PROVE  stream'[q].device \in link' \cup notices' \/ q \in missed'
      <3>1. CASE q = s
          BY <1>0, <1>1, <2>1, <3>1 DEF Create
      <3>2. CASE q # s
          BY <1>0, <1>1, <2>1, <2>5, <3>2 DEF Create, StreamInv, Known
      <3> QED
          BY <3>1, <3>2
    <2> QED
        BY <2>2, <2>4, <2>5 DEF StreamInv, Known
  <1>2. ASSUME NEW s \in Streams, Started(s) PROVE StreamInv'
    <2>1. /\ stream' \in [Streams -> [device : StreamDevices, state : State]]
          /\ \A q \in Streams : /\ stream'[q].device = stream[q].device
                                /\ q # s => stream'[q].state = stream[q].state
        BY <1>0, <1>2, Becomes DEF Started, State
    <2>2. StreamTypeOK'
        BY <1>2, <2>1 DEF Started, StreamInv, StreamTypeOK
    <2> QED
        BY <1>0, <1>2, <2>1, <2>2 DEF Started, StreamInv, Known
  \* Sessions that are cleaned up are no longer tracked; the others stay listed.
  <1>3. ASSUME NEW S \in SUBSET Streams, CleanUp(S),
               \A q \in Streams : stream'[q].device = stream[q].device
        PROVE  /\ tracked' \subseteq Streams /\ tracked' = tracked \ S
               /\ listed' \in [StreamDevices -> SUBSET Streams]
               /\ \A q \in tracked' : q \in listed'[stream'[q].device]
      BY <1>0, <1>3 DEF CleanUp, StreamInv, StreamTypeOK
  <1>4. ASSUME NEW s \in Streams, NotStarted(s) PROVE StreamInv'
      BY <1>0, <1>3, <1>4 DEF NotStarted, StreamInv, StreamTypeOK, Known
  <1>5. ASSUME NEW s \in Streams, NEW c \in Enders, End(c, s) PROVE StreamInv'
      BY <1>5 DEF End, StreamInv, StreamTypeOK, Known
  <1>6. ASSUME NEW c \in Enders, Ended(c) PROVE StreamInv'
    <2>1. {ending[c]} \in SUBSET Streams
        BY <1>6 DEF Ended, StreamInv, StreamTypeOK
    <2>2. /\ stream' \in [Streams -> [device : StreamDevices, state : State]]
          /\ \A q \in Streams : /\ stream'[q].device = stream[q].device
                                /\ q # ending[c] => stream'[q].state = stream[q].state
        BY <1>0, <1>6, <2>1, Becomes DEF Ended, State
    <2>3. /\ tracked' \subseteq Streams /\ tracked' = tracked \ {ending[c]}
          /\ listed' \in [StreamDevices -> SUBSET Streams]
          /\ \A q \in tracked' : q \in listed'[stream'[q].device]
        BY <1>3, <1>6, <2>1, <2>2 DEF Ended
    <2>4. StreamTypeOK'
        BY <1>6, <2>2, <2>3 DEF Ended, StreamInv, StreamTypeOK
    <2> QED
        BY <1>0, <1>6, <2>2, <2>3, <2>4 DEF Ended, StreamInv, Known
  <1>7. ASSUME NEW d \in StreamDevices, Lose(d) PROVE StreamInv'
    <2>1. StreamTypeOK'
        BY <1>7, SMT DEF Lose, StreamInv, StreamTypeOK
    <2> QED
        BY <1>7, <2>1 DEF Lose, StreamInv, Known
  <1>8. ASSUME NEW d \in StreamDevices, Return(d) PROVE StreamInv'
      BY <1>8 DEF Return, StreamInv, StreamTypeOK, Known
  <1>9. ASSUME NEW d \in StreamDevices, Offline(d) PROVE StreamInv'
    <2>1. Running(d) \in SUBSET Streams
        BY <1>0 DEF Running
    <2>2. /\ stream' \in [Streams -> [device : StreamDevices, state : State]]
          /\ \A q \in Streams :
                /\ stream'[q].device = stream[q].device
                /\ q \notin Running(d) => stream'[q].state = stream[q].state
        BY <1>0, <1>9, <2>1, Becomes DEF Offline, State
    <2>3. /\ tracked' \subseteq Streams /\ tracked' = tracked \ Running(d)
          /\ listed' \in [StreamDevices -> SUBSET Streams]
          /\ \A q \in tracked' : q \in listed'[stream'[q].device]
        BY <1>3, <1>9, <2>1, <2>2 DEF Offline
    <2>4. StreamTypeOK'
        BY <1>9, <2>2, <2>3 DEF Offline, StreamInv, StreamTypeOK
    <2>5. ASSUME NEW s \in tracked', stream'[s].state = "active" \/ s \in sending'
          PROVE  stream'[s].device \in link' \cup notices' \/ s \in missed'
      <3>1. /\ s \in tracked /\ s \in Streams /\ s \notin Running(d)
            /\ s \in listed[stream[s].device]
            /\ stream[s].state = "active" \/ s \in sending
          BY <1>0, <1>9, <2>2, <2>3, <2>5 DEF Offline, StreamInv
      <3>2. CASE stream[s].device = d
          BY <1>9, <3>1, <3>2 DEF Offline, Running
      <3>3. CASE stream[s].device # d
          BY <1>9, <2>2, <3>1, <3>3 DEF Offline, StreamInv, Known
      <3> QED
          BY <3>2, <3>3
    <2> QED
        BY <2>3, <2>4, <2>5 DEF StreamInv, Known
  <1>10. CASE UNCHANGED streamVars
      BY <1>10 DEF streamVars, StreamInv, StreamTypeOK, Known
  <1> QED
      BY <1>1, <1>2, <1>4, <1>5, <1>6, <1>7, <1>8, <1>9, <1>10 DEF StreamNext

\* Every variable of the streams has its type.
THEOREM StreamTypes == StreamSpec => []StreamTypeOK
  <1>1. StreamInv => StreamTypeOK
      BY DEF StreamInv
  <1> QED
      BY <1>1, StreamInvInit, StreamInvNext, PTL DEF StreamSpec

\* session_manager.py:238: for any devices and sessions, no session of a device
\* that is gone stays active, but for those that were just being created.
THEOREM OfflineDevicesEnd == StreamSpec => []OfflineEndsActive
  <1>1. StreamInv => OfflineEndsActive
      BY DEF StreamInv, OfflineEndsActive, Known
  <1> QED
      BY <1>1, StreamInvInit, StreamInvNext, PTL DEF StreamSpec

-----------------------------------------------------------------------------
(* Lists. *)

\* Rows have the ids in which they came.
NumberedIn(rows) ==
    \A i \in DOMAIN rows :
        /\ rows[i].id <= Len(rows)
        /\ \A j \in DOMAIN rows : rows[i].id = rows[j].id => i = j

\* What the reader still owes is on the pages it has not read.
OwedIsAhead ==
    left = "no" /\ Reading =>
        \A i \in DOMAIN table :
            table[i].id \in standing \ received => Position(table, i) > (walk.page - 1) * PerPage

ListInv ==
    /\ ListTypeOK
    /\ NumberedIn(table)
    /\ standing \subseteq ShownIds(table)
    /\ walk.state = "on" /\ walk.page = 1 => standing = {}
    /\ OwedIsAhead
    /\ WalkMissesNothing

LEMMA InitListInv == ListInit => ListInv
  <1> SUFFICES ASSUME ListInit PROVE ListInv
    OBVIOUS
  <1>1. table = <<>> /\ table \in Seq(Row) /\ Len(table) = 0 /\ DOMAIN table = {}
    BY DEF ListInit
  <1>2. ListTypeOK
    BY <1>1, ListsAssumption DEF ListInit, ListTypeOK
  <1> QED BY <1>1, <1>2 DEF ListInit, ListInv, NumberedIn, OwedIsAhead, Reading, WalkMissesNothing

\* A set that fits into another one is no larger.
LEMMA CountInjection ==
    ASSUME NEW i \in Nat, NEW j \in Nat, NEW S \in SUBSET (1..i), NEW T \in SUBSET (1..j),
           NEW f \in Injection(S, T)
    PROVE  Cardinality(S) <= Cardinality(T)
  <1>1. IsFiniteSet(1..j)
    BY FS_Interval
  <1>2. IsFiniteSet(T)
    BY <1>1, FS_Subset
  <1> QED BY <1>2, FS_Injection

\* A position is a number, at most the row's place in the table.
LEMMA PositionType ==
    ASSUME NEW rows, NEW i \in Nat
    PROVE  Position(rows, i) \in 0..i
  <1> DEFINE S == {j \in 1..i : Shown(rows[j])}
  <1>1. IsFiniteSet(1..i) /\ Cardinality(1..i) = i
    BY FS_Interval, FS_EmptySet
  <1>2. IsFiniteSet(S) /\ Cardinality(S) <= i
    BY <1>1, FS_Subset
  <1> QED BY <1>2, FS_CardinalityType DEF Position

\* Positions grow along the table.
LEMMA PositionMonotone ==
    ASSUME NEW rows, NEW i \in Nat, NEW j \in Nat, i <= j
    PROVE  Position(rows, i) <= Position(rows, j)
  <1> DEFINE S == {k \in 1..i : Shown(rows[k])}
             T == {k \in 1..j : Shown(rows[k])}
  <1>1. IsFiniteSet(1..j)
    BY FS_Interval
  <1>2. IsFiniteSet(T) /\ S \in SUBSET T
    BY <1>1, FS_Subset
  <1>3. Cardinality(S) <= Cardinality(T)
    BY <1>2, FS_Subset
  <1> QED BY <1>3 DEF Position

\* What an insertion makes of the rows.
LEMMA AddedRows ==
    ASSUME table \in Seq(Row), Len(table) < MaxRows, NEW k \in 0..Len(table),
           NEW serial \in Serials, NEW tag \in {"open", "closed"}
    PROVE  LET rows == Added(k, serial, tag) IN
           /\ rows \in Seq(Row) /\ Len(rows) = Len(table) + 1
           /\ \A i \in 1..Len(rows) :
                 rows[i] = IF i <= k THEN table[i]
                           ELSE IF i = k + 1
                           THEN [id |-> Len(table) + 1, serial |-> serial, tag |-> tag]
                           ELSE table[i - 1]
  <1> DEFINE new == [id |-> Len(table) + 1, serial |-> serial, tag |-> tag]
             a == SubSeq(table, 1, k)
             b == SubSeq(table, k + 1, Len(table))
  <1>1. new \in Row /\ <<new>> \in Seq(Row) /\ Len(<<new>>) = 1 /\ <<new>>[1] = new
    BY ListsAssumption, LenProperties DEF Row
  <1>2. /\ a \in Seq(Row) /\ Len(a) = k /\ \A i \in 1..k : a[i] = table[i]
        /\ b \in Seq(Row) /\ Len(b) = Len(table) - k
        /\ \A i \in 1..(Len(table) - k) : b[i] = table[k + i]
    OBVIOUS
  <1> HIDE DEF new, a, b
  <1>3. /\ a \o <<new>> \in Seq(Row) /\ Len(a \o <<new>>) = k + 1
        /\ \A i \in 1..(k + 1) : (a \o <<new>>)[i] = IF i <= k THEN table[i] ELSE new
    <2> DEFINE ab == a \o <<new>>
    <2>1. /\ ab \in Seq(Row) /\ Len(ab) = Len(a) + Len(<<new>>)
          /\ \A i \in 1..(Len(a) + Len(<<new>>)) :
                ab[i] = IF i <= Len(a) THEN a[i] ELSE <<new>>[i - Len(a)]
      BY <1>1, <1>2, ConcatProperties
    <2> HIDE DEF ab
    <2>2. Len(ab) = k + 1 /\ \A i \in 1..(k + 1) : ab[i] = IF i <= k THEN table[i] ELSE new
      <3>1. Len(ab) = k + 1
        BY <1>1, <1>2, <2>1
      <3>2. ASSUME NEW i \in 1..k PROVE ab[i] = table[i]
        BY <1>1, <1>2, <2>1
      <3>3. ab[k + 1] = new
        BY <1>1, <1>2, <2>1
      <3> QED BY <3>1, <3>2, <3>3
    <2> QED BY <2>1, <2>2 DEF ab
  <1>4. /\ (a \o <<new>>) \o b \in Seq(Row) /\ Len((a \o <<new>>) \o b) = Len(table) + 1
        /\ \A i \in 1..(Len(table) + 1) :
              ((a \o <<new>>) \o b)[i] = IF i <= k + 1 THEN (a \o <<new>>)[i] ELSE b[i - (k + 1)]
    BY <1>2, <1>3, ConcatProperties
  <1>5. \A i \in 1..(Len(table) + 1) : i > k + 1 => b[i - (k + 1)] = table[i - 1]
    BY <1>2
  <1>6. \A i \in 1..(Len(table) + 1) :
            ((a \o <<new>>) \o b)[i] = IF i <= k THEN table[i] ELSE IF i = k + 1 THEN new ELSE table[i - 1]
    BY <1>2, <1>3, <1>4, <1>5
  <1> QED BY <1>4, <1>6 DEF Added, new, a, b

\* A row that is added moves those behind it back by one, and none forward.
LEMMA AddedMovesBack ==
    ASSUME table \in Seq(Row), Len(table) < MaxRows, NEW k \in 0..Len(table),
           NEW serial \in Serials, NEW tag \in {"open", "closed"}, NEW i \in DOMAIN table
    PROVE  LET rows == Added(k, serial, tag)
               to == IF i <= k THEN i ELSE i + 1
           IN  /\ to \in DOMAIN rows /\ rows[to] = table[i]
               /\ Position(table, i) <= Position(rows, to)
  <1> DEFINE rows == Added(k, serial, tag)
             To(j) == IF j <= k THEN j ELSE j + 1
             S == {j \in 1..i : Shown(table[j])}
             T == {j \in 1..To(i) : Shown(rows[j])}
             f == [j \in S |-> To(j)]
  <1>0. /\ rows \in Seq(Row) /\ Len(rows) = Len(table) + 1
        /\ \A j \in 1..Len(rows) :
              rows[j] = IF j <= k THEN table[j]
                        ELSE IF j = k + 1
                        THEN [id |-> Len(table) + 1, serial |-> serial, tag |-> tag]
                        ELSE table[j - 1]
    BY AddedRows
  <1> HIDE DEF rows
  <1>1. \A j \in 1..Len(table) : To(j) \in 1..Len(rows) /\ rows[To(j)] = table[j]
    <2> SUFFICES ASSUME NEW j \in 1..Len(table)
                 PROVE  To(j) \in 1..Len(rows) /\ rows[To(j)] = table[j]
      OBVIOUS
    <2>1. CASE j <= k
      BY <1>0, <2>1
    <2>2. CASE ~(j <= k)
      <3>1. To(j) = j + 1 /\ j + 1 \in 1..Len(rows) /\ ~(j + 1 <= k) /\ j + 1 # k + 1
        BY <1>0, <2>2
      <3> QED BY <1>0, <3>1
    <2> QED BY <2>1, <2>2
  <1>2. i \in 1..Len(table) /\ DOMAIN rows = 1..Len(rows) /\ To(i) \in Nat
    BY <1>0
  <1>3. f \in [S -> T]
    <2> SUFFICES ASSUME NEW j \in S PROVE To(j) \in T
      OBVIOUS
    <2>1. j \in 1..i /\ j \in 1..Len(table) /\ Shown(table[j])
      BY <1>2
    <2>2. To(j) \in 1..To(i) /\ Shown(rows[To(j)])
      BY <1>1, <1>2, <2>1
    <2> QED BY <2>2
  <1>4. \A j, m \in S : f[j] = f[m] => j = m
    BY <1>2
  <1>5. f \in Injection(S, T)
    <2> HIDE DEF S, T, f
    <2>1. \A j, m \in S : f[j] = f[m] => j = m
      BY <1>4
    <2> QED BY <1>3, <2>1 DEF Injection, IsInjective
  <1>6. Cardinality(S) <= Cardinality(T)
    <2>1. i \in Nat /\ S \in SUBSET (1..i) /\ T \in SUBSET (1..To(i))
      BY <1>2
    <2> HIDE DEF S, T, f, To
    <2> QED BY <1>2, <1>5, <2>1, CountInjection
  <1> QED BY <1>1, <1>2, <1>6 DEF Position, rows

\* A row that changes and takes none out of the list moves none forward.
LEMMA RetaggedMovesBack ==
    ASSUME NumberedIn(table), table \in Seq(Row), NEW id, NEW tag,
           ShownIds(table) \subseteq ShownIds(Retagged(id, tag)), NEW i \in DOMAIN table
    PROVE  Position(table, i) <= Position(Retagged(id, tag), i)
  <1> DEFINE rows == Retagged(id, tag)
             S == {j \in 1..i : Shown(table[j])}
             T == {j \in 1..i : Shown(rows[j])}
  <1>1. DOMAIN rows = DOMAIN table /\ \A j \in DOMAIN table : rows[j].id = table[j].id
    BY DEF Retagged, Row
  <1>2. i \in 1..Len(table) /\ DOMAIN table = 1..Len(table)
    OBVIOUS
  <1> HIDE DEF rows
  <1>3. S \in SUBSET T
    <2> SUFFICES ASSUME NEW j \in 1..i, Shown(table[j]) PROVE Shown(rows[j])
      OBVIOUS
    <2>1. j \in DOMAIN table
      BY <1>2
    <2>2. table[j].id \in ShownIds(rows)
      BY <2>1 DEF ShownIds, rows
    <2>3. PICK m \in DOMAIN rows : Shown(rows[m]) /\ rows[m].id = table[j].id
      BY <2>2 DEF ShownIds
    <2>4. m = j
      BY <1>1, <2>1, <2>3 DEF NumberedIn
    <2> QED BY <2>3, <2>4
  <1>4. IsFiniteSet(1..i)
    BY <1>2, FS_Interval
  <1>5. IsFiniteSet(T)
    BY <1>4, FS_Subset
  <1>6. Cardinality(S) <= Cardinality(T)
    BY <1>3, <1>5, FS_Subset
  <1> QED BY <1>6 DEF Position, rows

\* What is shown is a matter of the row, the list and the filters only.
LEMMA ShownSame ==
    ASSUME UNCHANGED <<list, query>>
    PROVE  \A i : Shown(table[i])' <=> Shown(table'[i])
BY DEF Shown, AlertsShown, CommandsShown, HeartbeatsShown, ScreenshotsShown, SnapshotsShown,
       LogsShown, RunsShown, DevicesShown, SessionsShown, PairsShown

LEMMA SameView ==
    ASSUME UNCHANGED <<list, query>>
    PROVE  /\ ShownIds(table)' = ShownIds(table')
           /\ \A i : Position(table, i)' = Position(table', i)
BY ShownSame DEF ShownIds, Position

\* A change of the table keeps what is known of the walk, if it moves no row
\* forward, or counts as one by which a row left.
LEMMA NowKeeps ==
    ASSUME ListInv, NEW rows, Now(rows), UNCHANGED <<list, query, walk, received>>,
           rows \in Seq(Row), Len(rows) <= MaxRows, NumberedIn(rows),
           resolving' \in [Resolvers -> 0..MaxRows],
           left' = "no" /\ Reading =>
              \A i \in DOMAIN table : \E to \in DOMAIN rows :
                 rows[to].id = table[i].id /\ Position(table, i) <= Position(rows, to)
    PROVE  ListInv'
  <1>1. /\ table' = rows /\ standing' = standing \cap ShownIds(rows)
        /\ left' \in {"no", "yes"} /\ (left' = "no" => left = "no")
    BY DEF Now, ListInv, ListTypeOK
  <1>2. ListTypeOK'
    BY <1>1 DEF ListInv, ListTypeOK
  <1>3. NumberedIn(table)'
    BY <1>1 DEF NumberedIn
  <1>4. ShownIds(table)' = ShownIds(rows) /\ \A i : Position(table, i)' = Position(rows, i)
    BY <1>1, SameView
  <1>5. (standing \subseteq ShownIds(table))'
    BY <1>1, <1>4
  <1>6. (walk.state = "on" /\ walk.page = 1 => standing = {})'
    BY <1>1 DEF ListInv
  <1>7. OwedIsAhead'
    <2> SUFFICES ASSUME left' = "no", Reading', NEW i \in DOMAIN rows,
                        rows[i].id \in standing' \ received'
                 PROVE  Position(rows, i) > (walk.page - 1) * PerPage
      BY <1>1, <1>4 DEF OwedIsAhead
    <2>1. Reading /\ left = "no" /\ rows[i].id \in standing \ received
      BY <1>1 DEF Reading
    <2>2. PICK j \in DOMAIN table : table[j].id = rows[i].id
      BY <2>1 DEF ListInv, ShownIds
    <2>3. PICK to \in DOMAIN rows :
             rows[to].id = table[j].id /\ Position(table, j) <= Position(rows, to)
      BY <2>1
    <2>4. to = i
      BY <2>2, <2>3 DEF NumberedIn
    <2>5. Position(table, j) > (walk.page - 1) * PerPage
      BY <2>1, <2>2 DEF ListInv, OwedIsAhead
    <2>6. DOMAIN table \subseteq Nat /\ DOMAIN rows \subseteq Nat
      BY DEF ListInv, ListTypeOK
    <2>7. Position(table, j) \in Int /\ Position(rows, i) \in Int
      BY <2>6, PositionType
    <2>8. (walk.page - 1) * PerPage \in Int
      BY ListsAssumption DEF ListInv, ListTypeOK
    <2> QED BY <2>3, <2>4, <2>5, <2>7, <2>8
  <1>8. WalkMissesNothing'
    BY <1>1 DEF ListInv, WalkMissesNothing
  <1> QED BY <1>2, <1>3, <1>5, <1>6, <1>7, <1>8 DEF ListInv

\* ExecuteCommand, CollectLogs and AddOther.
LEMMA AddKeeps ==
    ASSUME ListInv, NEW serial \in Serials, NEW tag \in {"open", "closed"}, Add(serial, tag)
    PROVE  ListInv'
  <1>1. table \in Seq(Row) /\ Len(table) < MaxRows
    BY DEF ListInv, ListTypeOK, Add
  <1>2. PICK k \in 0..Len(table) : Now(Added(k, serial, tag))
    BY DEF Add
  <1> DEFINE rows == Added(k, serial, tag)
             new == [id |-> Len(table) + 1, serial |-> serial, tag |-> tag]
  <1>3. /\ rows \in Seq(Row) /\ Len(rows) = Len(table) + 1
        /\ \A i \in 1..Len(rows) :
              rows[i] = IF i <= k THEN table[i] ELSE IF i = k + 1 THEN new ELSE table[i - 1]
    BY <1>1, AddedRows
  <1>4. \A i \in DOMAIN table : \E to \in DOMAIN rows :
           rows[to].id = table[i].id /\ Position(table, i) <= Position(rows, to)
    BY <1>1, AddedMovesBack
  <1>5. /\ UNCHANGED <<list, query, walk, received>>
        /\ resolving' \in [Resolvers -> 0..MaxRows] /\ Len(rows) <= MaxRows
    BY <1>1, <1>3, ListsAssumption DEF Add, ListInv, ListTypeOK
  <1> HIDE DEF rows
  <1>6. NumberedIn(rows)
    <2>1. \A i \in 1..Len(rows) : rows[i].id <= Len(rows) /\ (rows[i].id = Len(rows) <=> i = k + 1)
      <3> SUFFICES ASSUME NEW i \in 1..Len(rows)
                   PROVE rows[i].id <= Len(rows) /\ (rows[i].id = Len(rows) <=> i = k + 1)
        OBVIOUS
      <3>1. CASE i = k + 1
        BY <1>1, <1>3, <3>1
      <3>2. CASE i # k + 1
        <4>1. PICK j \in 1..Len(table) : rows[i] = table[j]
          <5>1. CASE i <= k
            BY <1>1, <1>3, <5>1
          <5>2. CASE ~(i <= k)
            <6>1. i - 1 \in 1..Len(table)
              BY <1>1, <1>3, <3>2, <5>2
            <6>2. rows[i] = table[i - 1]
              BY <1>3, <3>2, <5>2
            <6> QED BY <6>1, <6>2
          <5> QED BY <5>1, <5>2
        <4>2. table[j].id <= Len(table) /\ table[j].id \in Int
          <5>1. table[j] \in Row /\ j \in DOMAIN table
            BY <1>1
          <5> QED BY <5>1 DEF ListInv, NumberedIn, Row
        <4> QED BY <1>1, <1>3, <3>2, <4>1, <4>2
      <3> QED BY <3>1, <3>2
    <2>2. \A i, j \in 1..Len(rows) : i # k + 1 /\ j # k + 1 /\ rows[i].id = rows[j].id => i = j
      <3> SUFFICES ASSUME NEW i \in 1..Len(rows), NEW j \in 1..Len(rows),
                          i # k + 1, j # k + 1, rows[i].id = rows[j].id
                   PROVE  i = j
        OBVIOUS
      <3> DEFINE From(n) == IF n <= k THEN n ELSE n - 1
      <3>1. \A n \in 1..Len(rows) : n # k + 1 =>
                From(n) \in 1..Len(table) /\ rows[n] = table[From(n)]
        BY <1>1, <1>3
      <3>2. From(i) = From(j)
        BY <1>1, <3>1 DEF ListInv, NumberedIn
      <3> QED BY <1>1, <1>3, <3>2
    <2>3. DOMAIN rows = 1..Len(rows)
      BY <1>3
    <2> QED BY <2>1, <2>2, <2>3 DEF NumberedIn
  <1>7. Now(rows)
    BY <1>2 DEF rows
  <1> QED BY <1>3, <1>4, <1>5, <1>6, <1>7, NowKeeps

\* Change and ResolveStore.
LEMMA RetagKeeps ==
    ASSUME ListInv, NEW id, NEW tag \in {"open", "closed"}, Now(Retagged(id, tag)),
           UNCHANGED <<list, query, walk, received>>, resolving' \in [Resolvers -> 0..MaxRows]
    PROVE  ListInv'
  <1> DEFINE rows == Retagged(id, tag)
  <1>1. table \in Seq(Row) /\ Len(table) <= MaxRows
    BY DEF ListInv, ListTypeOK
  <1>2. /\ DOMAIN rows = 1..Len(table) /\ \A i \in 1..Len(table) :
              rows[i] \in Row /\ rows[i].id = table[i].id
    <2>1. DOMAIN rows = 1..Len(table)
      BY <1>1 DEF Retagged
    <2>2. ASSUME NEW i \in 1..Len(table) PROVE rows[i] \in Row /\ rows[i].id = table[i].id
      <3>1. table[i] \in Row
        BY <1>1
      <3>2. [table[i] EXCEPT !.tag = tag] \in Row /\ [table[i] EXCEPT !.tag = tag].id = table[i].id
        BY <3>1 DEF Row
      <3>3. rows[i] = table[i] \/ rows[i] = [table[i] EXCEPT !.tag = tag]
        BY <1>1 DEF Retagged
      <3> QED BY <3>1, <3>2, <3>3
    <2> QED BY <2>1, <2>2
  <1>3. rows \in Seq(Row) /\ Len(rows) = Len(table)
    <2>1. rows = [i \in 1..Len(table) |-> rows[i]]
      BY <1>1 DEF Retagged
    <2>2. Len(table) \in Nat
      BY <1>1
    <2> HIDE DEF rows
    <2>3. rows \in Seq(Row)
      BY <1>2, <2>1, <2>2, IsASeq
    <2> QED BY <1>2, <2>2, <2>3, LenProperties
  <1>4. NumberedIn(rows)
    <2> HIDE DEF rows
    <2> QED BY <1>1, <1>2, <1>3 DEF ListInv, NumberedIn
  <1>5. left' = "no" /\ Reading => ShownIds(table) \subseteq ShownIds(rows)
    BY DEF Now
  <1>6. left' = "no" /\ Reading => \A i \in DOMAIN table : \E to \in DOMAIN rows :
           rows[to].id = table[i].id /\ Position(table, i) <= Position(rows, to)
    <2> SUFFICES ASSUME left' = "no", Reading, NEW i \in DOMAIN table
                 PROVE  rows[i].id = table[i].id /\ Position(table, i) <= Position(rows, i)
      BY <1>1, <1>2
    <2>1. Position(table, i) <= Position(rows, i)
      BY <1>1, <1>5, RetaggedMovesBack DEF ListInv
    <2> QED BY <1>1, <1>2, <2>1
  <1> HIDE DEF rows
  <1>7. Now(rows)
    BY DEF rows
  <1> QED BY <1>1, <1>3, <1>4, <1>6, <1>7, NowKeeps

\* What a page leaves owed is behind it.
LEMMA ReadKeeps ==
    ASSUME ListInv, Read
    PROVE  ListInv'
  <1> DEFINE p == walk.page
  <1>1. /\ table \in Seq(Row) /\ Len(table) \in 0..MaxRows /\ DOMAIN table = 1..Len(table)
        /\ p \in 1..(MaxRows + 1) /\ MaxRows \in Nat /\ PerPage \in Nat \ {0} /\ MaxRows + 1 \in Nat
        /\ walk \in [state : {"on", "done", "failed"}, page : 1..(MaxRows + 1)]
    BY ListsAssumption DEF ListInv, ListTypeOK
  <1>2. /\ walk.state = "on" /\ UNCHANGED <<list, query, table, left, resolving>>
        /\ received' = received \cup Page(table, p)
        /\ walk' = IF Full(table, p) THEN [walk EXCEPT !.page = p + 1]
                   ELSE [walk EXCEPT !.state = "done"]
        /\ standing' = IF p = 1 THEN ShownIds(table) ELSE standing
    BY DEF Read
  <1>3. p * PerPage \in Int /\ (p - 1) * PerPage \in Int /\ p * PerPage >= p
        /\ (p = 1 => (p - 1) * PerPage = 0)
    BY <1>1
  <1>4. \A i \in DOMAIN table : Position(table, i) \in Nat
    BY <1>1, PositionType
  <1>5. Position(table, Len(table)) \in 0..Len(table)
    BY <1>1, PositionType
  <1>6. ShownIds(table)' = ShownIds(table) /\ \A i : Position(table, i)' = Position(table, i)
    BY <1>2, SameView
  <1>7. standing' \subseteq ShownIds(table)
    BY <1>2 DEF ListInv
  <1>8. ASSUME left = "no", NEW i \in DOMAIN table, table[i].id \in standing' \ received'
        PROVE  Position(table, i) > p * PerPage
    <2>1. Shown(table[i])
      <3>1. PICK j \in DOMAIN table : Shown(table[j]) /\ table[j].id = table[i].id
        BY <1>7, <1>8 DEF ShownIds
      <3>2. j = i
        BY <3>1 DEF ListInv, NumberedIn
      <3> QED BY <3>1, <3>2
    <2>2. Position(table, i) > (p - 1) * PerPage
      <3>1. CASE p = 1
        <4> DEFINE S == {j \in 1..i : Shown(table[j])}
        <4>1. i \in S /\ i \in Nat
          BY <1>1, <2>1
        <4>2. IsFiniteSet(1..i)
          BY <4>1, FS_Interval
        <4>3. IsFiniteSet(S)
          BY <4>2, FS_Subset
        <4>4. Cardinality(S) # 0
          BY <4>1, <4>3, FS_EmptySet
        <4> QED BY <1>3, <1>4, <3>1, <4>4 DEF Position
      <3>2. CASE p # 1
        <4>1. Reading /\ table[i].id \in standing \ received
          BY <1>1, <1>2, <1>8, <3>2 DEF Reading
        <4> QED BY <1>8, <4>1 DEF ListInv, OwedIsAhead
      <3> QED BY <3>1, <3>2
    <2>3. ~(Position(table, i) <= p * PerPage)
      BY <1>2, <1>8, <2>1, <2>2 DEF Page
    <2> QED BY <1>3, <1>4, <2>3
  <1>9. Full(table, p) => p <= MaxRows
    BY <1>1, <1>3, <1>5 DEF Full
  <1>10. ListTypeOK'
    <2>1. walk' \in [state : {"on", "done", "failed"}, page : 1..(MaxRows + 1)]
      BY <1>1, <1>2, <1>9
    <2>2. ShownIds(table) \subseteq 1..MaxRows /\ Page(table, p) \subseteq 1..MaxRows
      <3>1. \A j \in DOMAIN table : table[j].id \in 1..MaxRows
        <4>1. \A j \in 1..Len(table) : table[j] \in Row
          BY <1>1
        <4> QED BY <1>1, <4>1 DEF Row
      <3> QED BY <3>1 DEF ShownIds, Page
    <2>3. received' \subseteq 1..MaxRows /\ standing' \subseteq 1..MaxRows
      BY <1>2, <2>2 DEF ListInv, ListTypeOK
    <2> QED BY <1>2, <2>1, <2>3 DEF ListInv, ListTypeOK
  <1>11. NumberedIn(table)'
    BY <1>2 DEF ListInv, NumberedIn
  <1>12. (standing \subseteq ShownIds(table))'
    BY <1>6, <1>7
  <1>13. (walk.state = "on" /\ walk.page = 1 => standing = {})'
    BY <1>1, <1>2
  <1>14. OwedIsAhead'
    <2> SUFFICES ASSUME left = "no", Reading', NEW i \in DOMAIN table,
                        table[i].id \in standing' \ received'
                 PROVE  Position(table, i) > (walk'.page - 1) * PerPage
      BY <1>2, <1>6 DEF OwedIsAhead
    <2>1. walk'.page = p + 1
      BY <1>1, <1>2 DEF Reading
    <2>2. walk'.page - 1 = p
      BY <1>1, <2>1
    <2> QED BY <1>8, <2>2
  <1>15. WalkMissesNothing'
    <2> SUFFICES ASSUME walk'.state = "done", left = "no", NEW id \in standing', id \notin received'
                 PROVE  FALSE
      BY <1>2 DEF WalkMissesNothing
    <2>1. ~Full(table, p)
      BY <1>1, <1>2
    <2>2. PICK i \in DOMAIN table : table[i].id = id
      BY <1>7 DEF ShownIds
    <2>3. Position(table, i) > p * PerPage
      BY <1>8, <2>2
    <2>4. Position(table, i) <= Position(table, Len(table))
      BY <1>1, PositionMonotone
    <2> QED BY <1>1, <1>3, <1>4, <1>5, <2>1, <2>3, <2>4 DEF Full
  <1> QED BY <1>10, <1>11, <1>12, <1>13, <1>14, <1>15 DEF ListInv

\* Nothing of the list changes and the walk does not go on.
LEMMA RestKeeps ==
    ASSUME ListInv, UNCHANGED <<list, query, table, received, standing, left>>,
           walk' = walk \/ walk' = [walk EXCEPT !.state = "failed"],
           resolving' \in [Resolvers -> 0..MaxRows]
    PROVE  ListInv'
  <1>1. ShownIds(table)' = ShownIds(table) /\ \A i : Position(table, i)' = Position(table, i)
    BY SameView
  <1>2. walk \in [state : {"on", "done", "failed"}, page : 1..(MaxRows + 1)]
    BY DEF ListInv, ListTypeOK
  <1>3. /\ walk' \in [state : {"on", "done", "failed"}, page : 1..(MaxRows + 1)]
        /\ walk'.state = "done" => walk.state = "done"
        /\ walk'.state = "on" => walk.state = "on"
        /\ walk'.page = walk.page
    BY <1>2
  <1>4. ListTypeOK'
    BY <1>3 DEF ListInv, ListTypeOK
  <1>5. NumberedIn(table)'
    BY DEF ListInv, NumberedIn
  <1>6. (standing \subseteq ShownIds(table))'
    BY <1>1 DEF ListInv
  <1>7. (walk.state = "on" /\ walk.page = 1 => standing = {})'
    BY <1>3 DEF ListInv
  <1>8. OwedIsAhead'
    <2> SUFFICES ASSUME left = "no", Reading', NEW i \in DOMAIN table,
                        table[i].id \in standing \ received
                 PROVE  Position(table, i) > (walk.page - 1) * PerPage
      BY <1>1, <1>3 DEF OwedIsAhead
    <2>1. Reading
      BY <1>3 DEF Reading
    <2> QED BY <2>1 DEF ListInv, OwedIsAhead
  <1>9. WalkMissesNothing'
    BY <1>3 DEF ListInv, WalkMissesNothing
  <1> QED BY <1>4, <1>5, <1>6, <1>7, <1>8, <1>9 DEF ListInv

LEMMA NextListInv == ListInv /\ [ListNext]_listVars => ListInv'
  <1> SUFFICES ASSUME ListInv, [ListNext]_listVars PROVE ListInv'
    OBVIOUS
  <1>1. resolving \in [Resolvers -> 0..MaxRows] /\ 0 \in 0..MaxRows
    BY ListsAssumption DEF ListInv, ListTypeOK
  <1>2. CASE Read
    BY <1>2, ReadKeeps
  <1>3. CASE ReadLogs
    BY <1>1, <1>3, RestKeeps DEF ReadLogs
  <1>4. ASSUME NEW serial \in Serials, ExecuteCommand(serial) \/ CollectLogs(serial) PROVE ListInv'
    BY <1>4, AddKeeps DEF ExecuteCommand, CollectLogs
  <1>5. ASSUME NEW serial \in Serials, NEW tag \in {"open", "closed"}, AddOther(serial, tag)
        PROVE  ListInv'
    BY <1>5, AddKeeps DEF AddOther
  <1>6. ASSUME NEW id \in 1..MaxRows, NEW tag \in {"open", "closed"}, Change(id, tag) PROVE ListInv'
    BY <1>1, <1>6, RetagKeeps DEF Change
  <1>7. ASSUME NEW id \in 1..MaxRows, NEW o \in Resolvers, ResolveLoad(o, id) PROVE ListInv'
    <2>1. id \in 0..MaxRows
      BY ListsAssumption
    <2>2. resolving' \in [Resolvers -> 0..MaxRows]
      BY <1>1, <1>7, <2>1 DEF ResolveLoad
    <2> QED BY <1>7, <2>2, RestKeeps DEF ResolveLoad
  <1>8. ASSUME NEW o \in Resolvers, ResolveStore(o) PROVE ListInv'
    <2>1. resolving' \in [Resolvers -> 0..MaxRows]
      BY <1>1, <1>8 DEF ResolveStore
    <2> QED BY <1>8, <2>1, RetagKeeps DEF ResolveStore
  <1>9. CASE UNCHANGED listVars
    BY <1>1, <1>9, RestKeeps DEF listVars
  <1> QED BY <1>2, <1>3, <1>4, <1>5, <1>6, <1>7, <1>8, <1>9 DEF ListNext

\* Every variable of the lists has its type.
THEOREM ListTypes == ListSpec => []ListTypeOK
  <1>1. ListInv => ListTypeOK
    BY DEF ListInv
  <1> QED BY <1>1, InitListInv, NextListInv, PTL DEF ListSpec

\* For any rows, filters and page size, whoever reads to a page that is not full
\* has received every row that was in the list all the time, unless a row left
\* the list meanwhile: offset and limit of the list endpoints, and the stores of
\* alerts.py:92-113 and of the other lists' writers.
THEOREM WalksMissNothing == ListSpec => []WalkMissesNothing
  <1>1. ListInv => WalkMissesNothing
    BY DEF ListInv
  <1> QED BY <1>1, InitListInv, NextListInv, PTL DEF ListSpec
================================================================================
