------------------------------ MODULE Registration ------------------------------
(***************************************************************************)
(* The keys and the metadata of a device (api/v1/auth.py, and update_device *)
(* of api/v1/devices.py).  One serial number: others are independent.      *)
(*                                                                         *)
(* The key's hash and the tags share one JSON column, which a session      *)
(* writes whole or not at all.  A request loads the row, decides, and      *)
(* stores what it has changed, in one step with its commit: until then the *)
(* row is locked and nobody sees it.  Tokens are signed, not stored; the   *)
(* other columns a registration sets are left out.                         *)
(***************************************************************************)
EXTENDS Integers

CONSTANTS
    ApiKeys,   \* each generated once
    Tags,      \* entries of the metadata that are no key
    Requests,  \* requests at a time, each used again and again
    NoKey

ASSUME RegistrationAssumption == NoKey \notin ApiKeys

VARIABLES
    device,    \* the row
    request,   \* what each request is doing, and the row it has loaded
    used,      \* keys generated so far
    replaced,  \* history: keys that were stored and no longer are
    answered   \* history: the tag that this step's PATCH reported as stored

regVars == <<device, request, used, replaced, answered>>

Rows == [there : {"no", "yes"}, key : ApiKeys \cup {NoKey}, tags : SUBSET Tags]
NoRowYet == [there |-> "no", key |-> NoKey, tags |-> {}]
Waiting == [kind |-> "none", key |-> NoKey, tags |-> {}, was |-> NoRowYet]

RegTypeOK ==
    /\ device \in Rows
    /\ request \in [Requests -> [kind : {"none", "register", "patch"}, key : ApiKeys \cup {NoKey},
                                 tags : SUBSET Tags, was : Rows]]
    /\ used \subseteq ApiKeys
    /\ replaced \subseteq ApiKeys
    /\ answered \subseteq Tags

\* A row without metadata is one that DeviceService.register has made.
RegInit ==
    /\ device \in {NoRowYet, [NoRowYet EXCEPT !.there = "yes"]}
    /\ request = [r \in Requests |-> Waiting]
    /\ used = {}
    /\ replaced = {}
    /\ answered = {}

Put(row) ==
    /\ device' = row
    /\ replaced' = replaced \cup ({device.key} \ {row.key, NoKey})

Finish(r) == request' = [request EXCEPT ![r] = Waiting]

-----------------------------------------------------------------------------
\* register_device loads the row and makes up a key.
RegisterLoad(r, k) ==
    /\ request[r].kind = "none"
    /\ k \notin used
    /\ used' = used \cup {k}
    /\ request' = [request EXCEPT ![r] = [kind |-> "register", key |-> k, tags |-> {},
                                          was |-> device]]
    /\ answered' = {}
    /\ UNCHANGED <<device, replaced>>

\* A known device: the metadata it was loaded with, and the new key.
Rotate(r) ==
    /\ request[r].kind = "register" /\ request[r].was.there = "yes"
    /\ Put([there |-> "yes", key |-> request[r].key, tags |-> request[r].was.tags])
    /\ Finish(r)
    /\ answered' = {}
    /\ UNCHANGED used

\* A new device; if another request has inserted it, the constraint on the
\* serial number ends this one.
Insert(r) ==
    /\ request[r].kind = "register" /\ request[r].was.there = "no"
    /\ IF device.there = "no"
       THEN Put([there |-> "yes", key |-> request[r].key, tags |-> {}])
       ELSE UNCHANGED <<device, replaced>>
    /\ Finish(r)
    /\ answered' = {}
    /\ UNCHANGED used

\* get_token: the only key that is exchanged for tokens.
Accepts(k) == device.there = "yes" /\ device.key = k /\ k # NoKey

-----------------------------------------------------------------------------
\* update_device.
PatchLoad(r, t) ==
    /\ request[r].kind = "none"
    /\ device.there = "yes"
    /\ request' = [request EXCEPT ![r] = [kind |-> "patch", key |-> NoKey, tags |-> {t},
                                          was |-> device]]
    /\ answered' = {}
    /\ UNCHANGED <<device, used, replaced>>

\* Mutant of PatchStore: the merged metadata is written, as it was loaded.
MutPatchStore(r) ==
    /\ request[r].kind = "patch"
    /\ Put([request[r].was EXCEPT !.tags = @ \cup request[r].tags])
    /\ Finish(r)
    /\ answered' = request[r].tags
    /\ UNCHANGED used

Bare(row) == row.key = NoKey /\ row.tags = {}

\* The tags are added to the loaded dictionary itself, which is then assigned
\* again: the session finds the attribute equal to what it loaded, and writes
\* nothing.  Only where there was no metadata a new dictionary is stored.
\* The response is made of the dictionary, tags included.
PatchStore(r) ==
    /\ request[r].kind = "patch"
    /\ IF Bare(request[r].was)
       THEN Put([device EXCEPT !.key = NoKey, !.tags = request[r].tags])
       ELSE UNCHANGED <<device, replaced>>
    /\ Finish(r)
    /\ answered' = request[r].tags
    /\ UNCHANGED used

\* An error, or the client is gone: rolled back.
Abandon(r) ==
    /\ request[r].kind # "none"
    /\ Finish(r)
    /\ answered' = {}
    /\ UNCHANGED <<device, used, replaced>>

RegNext ==
    \E r \in Requests :
        \/ \E k \in ApiKeys : RegisterLoad(r, k)
        \/ Rotate(r) \/ Insert(r)
        \/ \E t \in Tags : PatchLoad(r, t)
        \/ PatchStore(r) \/ Abandon(r)

RegSpec == RegInit /\ [][RegNext]_regVars

-----------------------------------------------------------------------------
\* auth.py:73: a registration rotates the key.  A key that was replaced never
\* works again, however registrations and updates of the metadata overlap: none
\* writes back the column it loaded before the rotation.
ReplacedStaysOut == \A k \in replaced : ~Accepts(k)

\* devices.py:120: what a PATCH reports is in the row.  The code violates it.
PatchIsStored == answered \subseteq device.tags
================================================================================
