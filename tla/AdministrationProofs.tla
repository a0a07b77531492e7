------------------------- MODULE AdministrationProofs -------------------------
(***************************************************************************)
(* Theorems of Administration for any members, credentials, rows, versions *)
(* and requests in flight.                                                 *)
(***************************************************************************)
EXTENDS Administration, TLAPS

-----------------------------------------------------------------------------
(* The inductive invariant *)

Unrevoked(c) == keys[c].status \in {"live", "expired"}

\* Until the tenant is provisioned there is nothing, and nobody to be admitted.
NothingBefore ==
  status = "absent" =>
    /\ settings = [r \in Rows |-> NoSetting]
    /\ members = [m \in Members |-> NoMember]
    /\ keys = [c \in Credentials |-> NoKey]
    /\ record = NoRecord /\ answers = {}
    /\ \A q \in Requests : req[q].step \in {"idle", "provision"}

RecordComplete == record.key # Nil => record.credential \in Credentials

ActiveHaveRoles == \A m \in Members : members[m].active => members[m].role \in Roles

\* What a request has in hand is there, and a key stays as long as it is rotated.
KnowsItsRows(q) ==
  /\ req[q].step \in {"upsert", "revoke", "sweep", "create"} => req[q].member \in Members
  /\ req[q].step \in {"upsert", "create"} => req[q].grant \in Roles
  /\ req[q].step = "rotate" => req[q].key \in Credentials /\ Unrevoked(req[q].key)
  /\ req[q].step = "provision" => req[q].key \in ProvisionKeys

\* A row whose version a client has seen is still the row it has seen.
SawTheRow(q) ==
  req[q].row # Nil =>
    /\ req[q].seen.version <= settings[req[q].row].version
    /\ Unchanged(q) => req[q].seen = settings[req[q].row]

\* The rows a removal has chosen are keys that were made, and all its member
\* has, but for stale ones.
SweepsAll(q) ==
  req[q].step = "sweep" =>
    /\ \A c \in req[q].swept : keys[c].status # "unused"
    /\ \A c \in Credentials :
         Unrevoked(c) /\ keys[c].member = req[q].member /\ ~keys[c].stale => c \in req[q].swept

\* The other owner that a demotion has read is there until it writes.
LeavesAnOwner(q) ==
  req[q].step = "upsert" /\ req[q].grant # "owner" /\ req[q].member \in Owners =>
    OtherOwner(req[q].member)

\* Locks: one demotion or promotion of the tenant, and one rotation of a key, at
\* a time.
LocksHeld ==
  \A p, q \in Requests : p # q =>
    /\ ~(req[p].step = "upsert" /\ req[q].step = "upsert")
    /\ ~(req[p].step = "rotate" /\ req[q].step = "rotate" /\ req[p].key = req[q].key)

Orderly ==
  /\ TypeOK
  /\ NothingBefore
  /\ RecordComplete
  /\ ActiveHaveRoles
  /\ \A q \in Requests : KnowsItsRows(q) /\ SawTheRow(q) /\ SweepsAll(q) /\ LeavesAnOwner(q)
  /\ LocksHeld
  /\ ProvisionedOnce
  /\ RemovalTakesTheKeys

-----------------------------------------------------------------------------
(* Lemmas *)

\* The values that stand for nothing are well typed, and no request at work.
LEMMA NothingTyped ==
  /\ NoSetting \in Setting /\ NoMember \in Member /\ NoRequest \in Request
  /\ ~NoMember.active /\ NoKey.status = "unused" /\ NoRecord.key = Nil
  /\ NoRequest.step = "idle" /\ NoRequest.row = Nil
BY DEF NoSetting, Setting, NoMember, Member, NoRequest, Request, NoKey, NoRecord

\* An unrevoked key is one that was made.
LEMMA UnrevokedTyped ==
  ASSUME TypeOK, NEW c \in Credentials, keys[c].status # "unused"
  PROVE  keys[c] \in Key
BY DEF TypeOK, NoKey

\* The keys of a member that are not revoked were made.
LEMMA KeysOfTyped ==
  ASSUME TypeOK, NEW m \in Members, NEW c \in KeysOf(m)
  PROVE  c \in Credentials /\ keys[c] \in Key
BY AdministrationAssumption DEF TypeOK, KeysOf, NoKey

\* The start: nothing is there.
LEMMA InitOrderly == Init => Orderly
<1> SUFFICES ASSUME Init PROVE Orderly
  OBVIOUS
<1>1. TypeOK
  BY NothingTyped DEF Init, TypeOK, NoRecord
<1>2. NothingBefore /\ RecordComplete /\ ActiveHaveRoles
  BY NothingTyped DEF Init, NothingBefore, RecordComplete, ActiveHaveRoles
<1>3. \A q \in Requests : KnowsItsRows(q) /\ SawTheRow(q) /\ SweepsAll(q) /\ LeavesAnOwner(q)
  BY NothingTyped DEF Init, KnowsItsRows, SawTheRow, SweepsAll, LeavesAnOwner
<1>4. LocksHeld
  BY NothingTyped DEF Init, LocksHeld
<1>5. ProvisionedOnce /\ RemovalTakesTheKeys
  BY NothingTyped DEF Init, ProvisionedOnce, RemovalTakesTheKeys
<1>6. QED
  BY <1>1, <1>2, <1>3, <1>4, <1>5 DEF Orderly

\* A request that moves on without writing keeps the order, when it takes the
\* locks of its new step and knows what that step needs.
LEMMA RequestMoves ==
  ASSUME Orderly, NEW q \in Requests, NEW f \in Request, Enter(q, f),
         UNCHANGED <<status, settings, members, keys, record, answers>>,
         status = "absent" => f.step \in {"idle", "provision"},
         f.step = "upsert" => TenantFree(q),
         f.step = "rotate" => KeyFree(q, f.key),
         KnowsItsRows(q)', SawTheRow(q)', SweepsAll(q)', LeavesAnOwner(q)'
  PROVE  Orderly'
<1> USE DEF Orderly
<1>1. /\ req' \in [Requests -> Request]
      /\ req'[q] = f
      /\ \A p \in Requests \ {q} : req'[p] = req[p]
  BY DEF Enter, TypeOK
<1>2. TypeOK' /\ RecordComplete' /\ ActiveHaveRoles' /\ ProvisionedOnce' /\ RemovalTakesTheKeys'
  BY <1>1 DEF TypeOK, RecordComplete, ActiveHaveRoles, ProvisionedOnce, RemovalTakesTheKeys
<1>3. NothingBefore'
  BY <1>1 DEF NothingBefore
<1>4. \A p \in Requests \ {q} :
        KnowsItsRows(p)' /\ SawTheRow(p)' /\ SweepsAll(p)' /\ LeavesAnOwner(p)'
  <2> SUFFICES ASSUME NEW p \in Requests \ {q}
               PROVE  KnowsItsRows(p)' /\ SawTheRow(p)' /\ SweepsAll(p)' /\ LeavesAnOwner(p)'
    OBVIOUS
  <2>1. req'[p] = req[p] /\ members' = members /\ keys' = keys /\ settings' = settings
    BY <1>1
  <2>2. KnowsItsRows(p) /\ SawTheRow(p) /\ SweepsAll(p) /\ LeavesAnOwner(p)
    OBVIOUS
  <2>3. KnowsItsRows(p)' /\ SweepsAll(p)'
    BY <2>1, <2>2 DEF KnowsItsRows, SweepsAll, Unrevoked
  <2>4. SawTheRow(p)'
    BY <2>1, <2>2 DEF SawTheRow, Unchanged
  <2>5. LeavesAnOwner(p)'
    BY <2>1, <2>2 DEF LeavesAnOwner, OtherOwner, Owners
  <2>6. QED
    BY <2>3, <2>4, <2>5
<1>5. LocksHeld'
  BY <1>1 DEF LocksHeld, TenantFree, KeyFree
<1>6. QED
  BY <1>2, <1>3, <1>4, <1>5

\* A request that ends holds no lock and knows nothing.
LEMMA RequestEnds ==
  ASSUME Orderly, NEW q \in Requests, End(q)
  PROVE  /\ req' \in [Requests -> Request]
         /\ req'[q] = NoRequest
         /\ \A p \in Requests \ {q} : req'[p] = req[p]
         /\ KnowsItsRows(q)' /\ SawTheRow(q)' /\ SweepsAll(q)' /\ LeavesAnOwner(q)'
         /\ LocksHeld'
<1> USE DEF Orderly
<1>1. /\ req' \in [Requests -> Request]
      /\ req'[q] = NoRequest
      /\ \A p \in Requests \ {q} : req'[p] = req[p]
  BY NothingTyped DEF End, Enter, TypeOK
<1>2. req'[q].step = "idle" /\ req'[q].row = Nil
  BY <1>1, NothingTyped
<1>3. KnowsItsRows(q)' /\ SawTheRow(q)' /\ SweepsAll(q)' /\ LeavesAnOwner(q)'
  BY <1>2 DEF KnowsItsRows, SawTheRow, SweepsAll, LeavesAnOwner
<1>4. LocksHeld'
  BY <1>1, <1>2 DEF LocksHeld
<1>5. QED
  BY <1>1, <1>3, <1>4

-----------------------------------------------------------------------------
(* The steps that only move a request *)

\* A request that is at work on a tenant found it provisioned.
LEMMA WorkFindsATenant ==
  ASSUME Orderly, NEW q \in Requests, req[q].step \notin {"idle", "provision"}
  PROVE  status # "absent"
BY DEF Orderly, NothingBefore

\* What ends a request or begins a provisioning.
LEMMA FailOrderly ==
  ASSUME Orderly, NEW q \in Requests, Fail(q)
  PROVE  Orderly'
<1>1. /\ Enter(q, NoRequest) /\ End(q)
      /\ UNCHANGED <<status, settings, members, keys, record, answers>>
  BY DEF Fail, End
<1>2. KnowsItsRows(q)' /\ SawTheRow(q)' /\ SweepsAll(q)' /\ LeavesAnOwner(q)'
  BY <1>1, RequestEnds
<1>3. QED
  BY <1>1, <1>2, NothingTyped, RequestMoves

LEMMA OpenProvisionOrderly ==
  ASSUME Orderly, NEW q \in Requests, NEW k \in ProvisionKeys, OpenProvision(q, k)
  PROVE  Orderly'
<1> DEFINE f == [NoRequest EXCEPT !.step = "provision", !.key = k]
<1>1. /\ f \in Request /\ f.step = "provision" /\ f.key = k /\ f.row = Nil
  BY DEF NoRequest, Request, NoSetting, Setting
<1>2. /\ Enter(q, f)
      /\ UNCHANGED <<status, settings, members, keys, record, answers>>
  BY DEF OpenProvision
<1> HIDE DEF f
<1>3. req'[q] = f
  BY <1>2 DEF Enter, Orderly, TypeOK
<1>4. KnowsItsRows(q)' /\ SawTheRow(q)' /\ SweepsAll(q)' /\ LeavesAnOwner(q)'
  BY <1>1, <1>3 DEF KnowsItsRows, SawTheRow, SweepsAll, LeavesAnOwner
<1>5. QED
  BY <1>1, <1>2, <1>4, RequestMoves

\* The principal keeps what the client had read.
LEMMA AuthenticateOrderly ==
  ASSUME Orderly, NEW q \in Requests, NEW c \in Credentials, Authenticate(q, c)
  PROVE  Orderly'
<1> USE DEF Orderly
<1> DEFINE f == [req[q] EXCEPT !.step = "admitted", !.role = keys[c].role]
<1>1. /\ keys[c] \in Key /\ req[q] \in Request
  BY UnrevokedTyped DEF Authenticate, TypeOK
<1>2. /\ f \in Request /\ f.step = "admitted"
      /\ f.row = req[q].row /\ f.seen = req[q].seen
  BY <1>1 DEF Request, Key
<1>3. /\ Enter(q, f)
      /\ UNCHANGED <<status, settings, members, keys, record, answers>>
  BY DEF Authenticate
<1> HIDE DEF f
<1>4. req'[q] = f
  BY <1>3 DEF Enter, TypeOK
<1>5. KnowsItsRows(q)' /\ SweepsAll(q)' /\ LeavesAnOwner(q)'
  BY <1>2, <1>4 DEF KnowsItsRows, SweepsAll, LeavesAnOwner
<1>6. SawTheRow(q)'
  BY <1>2, <1>3, <1>4 DEF SawTheRow, Unchanged
<1>7. status # "absent"
  BY NothingTyped DEF Authenticate, NothingBefore
<1>8. QED
  BY <1>2, <1>3, <1>5, <1>6, <1>7, RequestMoves

\* What a client reads is the row at that moment.
LEMMA ReadSettingsOrderly ==
  ASSUME Orderly, NEW q \in Requests, NEW r \in Rows, ReadSettings(q, r)
  PROVE  Orderly'
<1> USE DEF Orderly
<1> DEFINE f == [NoRequest EXCEPT !.step = "reading", !.row = r, !.seen = settings[r]]
<1>1. settings[r] \in Setting
  BY DEF TypeOK
<1>2. /\ f \in Request /\ f.step = "reading" /\ f.row = r /\ f.seen = settings[r]
  BY <1>1 DEF NoRequest, Request
<1>3. /\ Enter(q, f)
      /\ UNCHANGED <<status, settings, members, keys, record, answers>>
  BY DEF ReadSettings
<1> HIDE DEF f
<1>4. req'[q] = f
  BY <1>3 DEF Enter, TypeOK
<1>5. KnowsItsRows(q)' /\ SweepsAll(q)' /\ LeavesAnOwner(q)'
  BY <1>2, <1>4 DEF KnowsItsRows, SweepsAll, LeavesAnOwner
<1>6. SawTheRow(q)'
  BY <1>1, <1>2, <1>3, <1>4 DEF SawTheRow, Unchanged, Setting
<1>7. status # "absent"
  BY WorkFindsATenant DEF ReadSettings, May
<1>8. QED
  BY <1>2, <1>3, <1>5, <1>6, <1>7, RequestMoves

\* An upsert waits for the tenant's lock, and a demotion has read another owner.
LEMMA OpenUpsertOrderly ==
  ASSUME Orderly, NEW q \in Requests, NEW m \in Members, NEW r \in GrantedRoles,
         OpenUpsert(q, m, r)
  PROVE  Orderly'
<1> USE DEF Orderly
<1> DEFINE f == [NoRequest EXCEPT !.step = "upsert", !.member = m, !.grant = r]
<1>0. r \in Roles
  BY AdministrationAssumption
<1>1. /\ f \in Request /\ f.step = "upsert" /\ f.member = m /\ f.grant = r /\ f.row = Nil
  BY <1>0 DEF NoRequest, Request, NoSetting, Setting
<1>2. /\ Enter(q, f) /\ TenantFree(q)
      /\ m \in Owners /\ r # "owner" => OtherOwner(m)
      /\ UNCHANGED <<status, settings, members, keys, record, answers>>
  BY DEF OpenUpsert
<1> HIDE DEF f
<1>3. req'[q] = f
  BY <1>2 DEF Enter, TypeOK
<1>4. KnowsItsRows(q)' /\ SawTheRow(q)' /\ SweepsAll(q)'
  BY <1>0, <1>1, <1>3 DEF KnowsItsRows, SawTheRow, SweepsAll
<1>5. LeavesAnOwner(q)'
  BY <1>1, <1>2, <1>3 DEF LeavesAnOwner, OtherOwner, Owners
<1>6. status # "absent"
  BY WorkFindsATenant DEF OpenUpsert, May
<1>7. QED
  BY <1>1, <1>2, <1>4, <1>5, <1>6, RequestMoves

LEMMA OpenRevokeOrderly ==
  ASSUME Orderly, NEW q \in Requests, NEW m \in Members, OpenRevoke(q, m)
  PROVE  Orderly'
<1> USE DEF Orderly
<1> DEFINE f == [NoRequest EXCEPT !.step = "revoke", !.member = m]
<1>1. /\ f \in Request /\ f.step = "revoke" /\ f.member = m /\ f.row = Nil
  BY DEF NoRequest, Request, NoSetting, Setting
<1>2. /\ Enter(q, f)
      /\ UNCHANGED <<status, settings, members, keys, record, answers>>
  BY DEF OpenRevoke
<1> HIDE DEF f
<1>3. req'[q] = f
  BY <1>2 DEF Enter, TypeOK
<1>4. KnowsItsRows(q)' /\ SawTheRow(q)' /\ SweepsAll(q)' /\ LeavesAnOwner(q)'
  BY <1>1, <1>3 DEF KnowsItsRows, SawTheRow, SweepsAll, LeavesAnOwner
<1>5. status # "absent"
  BY WorkFindsATenant DEF OpenRevoke, May
<1>6. QED
  BY <1>1, <1>2, <1>4, <1>5, RequestMoves

\* The rows chosen are the unrevoked keys of the member.
LEMMA SweepKeysOrderly ==
  ASSUME Orderly, NEW q \in Requests, SweepKeys(q)
  PROVE  Orderly'
<1> USE DEF Orderly
<1> DEFINE f == [req[q] EXCEPT !.step = "sweep", !.swept = KeysOf(req[q].member)]
<1>1. /\ req[q] \in Request /\ req[q].step = "revoke" /\ req[q].member \in Members
      /\ KeysOf(req[q].member) \in SUBSET Credentials
  BY DEF SweepKeys, TypeOK, KnowsItsRows, KeysOf
<1>2. /\ f \in Request /\ f.step = "sweep" /\ f.member = req[q].member
      /\ f.swept = KeysOf(req[q].member) /\ f.row = req[q].row /\ f.seen = req[q].seen
  BY <1>1 DEF Request
<1>3. /\ Enter(q, f)
      /\ UNCHANGED <<status, settings, members, keys, record, answers>>
  BY DEF SweepKeys
<1> HIDE DEF f
<1>4. req'[q] = f
  BY <1>3 DEF Enter, TypeOK
<1>5. KnowsItsRows(q)' /\ LeavesAnOwner(q)'
  BY <1>1, <1>2, <1>4 DEF KnowsItsRows, LeavesAnOwner
<1>6. SawTheRow(q)'
  BY <1>2, <1>3, <1>4 DEF SawTheRow, Unchanged
<1>7. SweepsAll(q)'
  <2>1. \A c \in KeysOf(req[q].member) : keys[c].status # "unused"
    BY <1>1, KeysOfTyped DEF Key
  <2>2. QED
    BY <1>2, <1>3, <1>4, <2>1 DEF SweepsAll, KeysOf, Unrevoked
<1>8. status # "absent"
  BY <1>1, WorkFindsATenant
<1>9. QED
  BY <1>2, <1>3, <1>5, <1>6, <1>7, <1>8, RequestMoves

\* A key is made with the role of a member who was active.
LEMMA OpenCreateOrderly ==
  ASSUME Orderly, NEW q \in Requests, NEW m \in Members, OpenCreate(q, m)
  PROVE  Orderly'
<1> USE DEF Orderly
<1> DEFINE f == [NoRequest EXCEPT !.step = "create", !.member = m, !.grant = members[m].role]
<1>0. members[m].role \in Roles
  BY DEF OpenCreate, Exists, ActiveHaveRoles
<1>1. /\ f \in Request /\ f.step = "create" /\ f.member = m
      /\ f.grant = members[m].role /\ f.row = Nil
  BY <1>0 DEF NoRequest, Request, NoSetting, Setting
<1>2. /\ Enter(q, f)
      /\ UNCHANGED <<status, settings, members, keys, record, answers>>
  BY DEF OpenCreate
<1> HIDE DEF f
<1>3. req'[q] = f
  BY <1>2 DEF Enter, TypeOK
<1>4. KnowsItsRows(q)' /\ SawTheRow(q)' /\ SweepsAll(q)' /\ LeavesAnOwner(q)'
  BY <1>0, <1>1, <1>3 DEF KnowsItsRows, SawTheRow, SweepsAll, LeavesAnOwner
<1>5. status # "absent"
  BY WorkFindsATenant DEF OpenCreate, May
<1>6. QED
  BY <1>1, <1>2, <1>4, <1>5, RequestMoves

\* A key that is rotated is locked and not revoked.
LEMMA OpenRotateOrderly ==
  ASSUME Orderly, NEW q \in Requests, NEW c \in Credentials, OpenRotate(q, c)
  PROVE  Orderly'
<1> USE DEF Orderly
<1> DEFINE f == [NoRequest EXCEPT !.step = "rotate", !.key = c]
<1>1. /\ f \in Request /\ f.step = "rotate" /\ f.key = c /\ f.row = Nil
  BY DEF NoRequest, Request, NoSetting, Setting
<1>2. /\ Enter(q, f) /\ KeyFree(q, c) /\ Unrevoked(c)
      /\ UNCHANGED <<status, settings, members, keys, record, answers>>
  BY DEF OpenRotate, Unrevoked
<1> HIDE DEF f
<1>3. req'[q] = f
  BY <1>2 DEF Enter, TypeOK
<1>4. KnowsItsRows(q)' /\ SawTheRow(q)' /\ SweepsAll(q)' /\ LeavesAnOwner(q)'
  BY <1>1, <1>2, <1>3 DEF KnowsItsRows, SawTheRow, SweepsAll, LeavesAnOwner, Unrevoked
<1>5. status # "absent"
  BY WorkFindsATenant DEF OpenRotate, May
<1>6. QED
  BY <1>1, <1>2, <1>4, <1>5, RequestMoves

-----------------------------------------------------------------------------
(* The steps that write *)

\* The first provisioning finds nothing, and leaves one tenant with one owner
\* and the owner's key.
LEMMA ProvisionOrderly ==
  ASSUME Orderly, NEW q \in Requests, NEW c \in Credentials, NEW v \in Values,
         NEW told \in BOOLEAN, Provision(q, c, v, told)
  PROVE  Orderly'
<1> USE DEF Orderly
<1> DEFINE key == [NoKey EXCEPT !.status = "live", !.member = Founder, !.role = "owner"]
<1>1. /\ req[q].step = "provision" /\ req[q].key \in ProvisionKeys
      /\ status' = "suspended"
      /\ settings' = [r \in Rows |-> [version |-> 1, value |-> v]]
      /\ members' = [members EXCEPT ![Founder] = [role |-> "owner", active |-> TRUE]]
      /\ keys' = [keys EXCEPT ![c] = key]
      /\ record' = [key |-> req[q].key, credential |-> c]
      /\ answers' = IF told THEN answers \cup {c} ELSE answers
      /\ End(q)
  BY DEF Provision, KnowsItsRows
<1>2. /\ settings = [r \in Rows |-> NoSetting]
      /\ members = [m \in Members |-> NoMember]
      /\ keys = [d \in Credentials |-> NoKey]
      /\ answers = {}
      /\ \A p \in Requests : req[p].step \in {"idle", "provision"}
  BY DEF Provision, IdFree, NothingBefore
<1>3. /\ key \in Key /\ key.status = "live" /\ key.member = Founder
      /\ Founder \in Members
  BY AdministrationAssumption DEF NoKey, Key, Roles
<1> HIDE DEF key
<1>4. /\ req' \in [Requests -> Request]
      /\ req'[q] = NoRequest
      /\ \A p \in Requests \ {q} : req'[p] = req[p]
      /\ KnowsItsRows(q)' /\ SawTheRow(q)' /\ SweepsAll(q)' /\ LeavesAnOwner(q)'
      /\ LocksHeld'
  BY <1>1, RequestEnds
<1>5. \A d \in Credentials : keys'[d] = IF d = c THEN key ELSE NoKey
  BY <1>1, <1>2
<1>6. \A m \in Members : members'[m] = IF m = Founder THEN [role |-> "owner", active |-> TRUE]
                                                     ELSE NoMember
  BY <1>1, <1>2
<1>7. TypeOK'
  <2>1. settings' \in [Rows -> Setting]
    BY <1>1 DEF Setting
  <2>2. members' \in [Members -> Member]
    BY <1>1, <1>3 DEF TypeOK, Member, Roles
  <2>3. keys' \in [Credentials -> Key \cup {NoKey}]
    BY <1>1, <1>3 DEF TypeOK
  <2>4. QED
    BY <1>1, <1>2, <1>4, <2>1, <2>2, <2>3 DEF TypeOK, Statuses
<1>8. NothingBefore' /\ RecordComplete'
  BY <1>1 DEF NothingBefore, RecordComplete
<1>9. ActiveHaveRoles'
  BY <1>6, NothingTyped DEF ActiveHaveRoles, Roles
<1>10. ProvisionedOnce'
  BY <1>1, <1>2 DEF ProvisionedOnce
<1>11. RemovalTakesTheKeys'
  <2>1. members'[Founder].active
    BY <1>3, <1>6
  <2>2. QED
    BY <1>3, <1>5, <2>1, NothingTyped DEF RemovalTakesTheKeys
<1>12. \A p \in Requests \ {q} :
         KnowsItsRows(p)' /\ SawTheRow(p)' /\ SweepsAll(p)' /\ LeavesAnOwner(p)'
  <2> SUFFICES ASSUME NEW p \in Requests \ {q}
               PROVE  KnowsItsRows(p)' /\ SawTheRow(p)' /\ SweepsAll(p)' /\ LeavesAnOwner(p)'
    OBVIOUS
  <2>1. req'[p] = req[p] /\ req[p].step \in {"idle", "provision"}
    BY <1>2, <1>4
  <2>2. KnowsItsRows(p)' /\ SweepsAll(p)' /\ LeavesAnOwner(p)'
    BY <2>1 DEF KnowsItsRows, SweepsAll, LeavesAnOwner
  <2>3. SawTheRow(p)'
    <3>1. CASE req[p].row = Nil
      BY <2>1, <3>1 DEF SawTheRow
    <3>2. CASE req[p].row # Nil
      <4>1. /\ req[p].row \in Rows /\ req[p].seen \in Setting
            /\ req[p].seen.version <= 0
        BY <1>2, <3>2 DEF SawTheRow, TypeOK, Request, NoSetting
      <4>2. settings'[req[p].row].version = 1
        BY <1>1, <4>1
      <4>3. QED
        BY <2>1, <4>1, <4>2 DEF SawTheRow, Unchanged, Setting
    <3>3. QED
      BY <3>1, <3>2
  <2>4. QED
    BY <2>2, <2>3
<1>13. QED
  BY <1>4, <1>7, <1>8, <1>9, <1>10, <1>11, <1>12

\* A repeated request is answered with the credential of the first.
LEMMA ReplayOrderly ==
  ASSUME Orderly, NEW q \in Requests, NEW k \in ProvisionKeys, Replay(q, k)
  PROVE  Orderly'
<1> USE DEF Orderly
<1>1. /\ answers' = answers \cup {record.credential}
      /\ UNCHANGED <<status, settings, members, keys, record, req>>
  BY DEF Replay
<1>2. record.key # Nil /\ record.credential \in Credentials
  BY AdministrationAssumption DEF Replay, RecordComplete
<1>3. TypeOK' /\ ProvisionedOnce' /\ RecordComplete' /\ ActiveHaveRoles'
  BY <1>1, <1>2 DEF TypeOK, ProvisionedOnce, RecordComplete, ActiveHaveRoles
<1>4. NothingBefore'
  BY <1>1, <1>2, NothingTyped DEF NothingBefore
<1>5. LocksHeld' /\ RemovalTakesTheKeys'
  BY <1>1 DEF LocksHeld, RemovalTakesTheKeys
<1>6. \A p \in Requests :
        KnowsItsRows(p)' /\ SawTheRow(p)' /\ SweepsAll(p)' /\ LeavesAnOwner(p)'
  <2> SUFFICES ASSUME NEW p \in Requests
               PROVE  KnowsItsRows(p)' /\ SawTheRow(p)' /\ SweepsAll(p)' /\ LeavesAnOwner(p)'
    OBVIOUS
  <2>1. KnowsItsRows(p)' /\ SweepsAll(p)'
    BY <1>1 DEF KnowsItsRows, SweepsAll, Unrevoked
  <2>2. SawTheRow(p)'
    BY <1>1 DEF SawTheRow, Unchanged
  <2>3. LeavesAnOwner(p)'
    BY <1>1 DEF LeavesAnOwner, OtherOwner, Owners
  <2>4. QED
    BY <2>1, <2>2, <2>3
<1>7. QED
  BY <1>3, <1>4, <1>5, <1>6

\* A write leaves its row with a version that no client has seen.
LEMMA WrittenRowsAreNew ==
  ASSUME Orderly, NEW r \in Rows, NEW row \in Setting, Write(r, row),
         row.version = settings[r].version
  PROVE  /\ settings' \in [Rows -> Setting]
         /\ \A p \in Requests : req'[p] = req[p] => SawTheRow(p)'
<1> USE DEF Orderly
<1> DEFINE new == [row EXCEPT !.version = row.version + 1]
<1>1. settings' = [settings EXCEPT ![r] = new]
  BY DEF Write
<1>2. new \in Setting /\ new.version = settings[r].version + 1
  BY DEF Setting
<1> HIDE DEF new
<1>3. settings' \in [Rows -> Setting]
  BY <1>1, <1>2 DEF TypeOK
<1>4. ASSUME NEW p \in Requests, req'[p] = req[p]
      PROVE  SawTheRow(p)'
  <2>1. SUFFICES ASSUME req[p].row # Nil
                 PROVE  /\ req[p].seen.version <= settings'[req[p].row].version
                        /\ req[p].seen.version = settings'[req[p].row].version =>
                             req[p].seen = settings'[req[p].row]
    BY <1>4 DEF SawTheRow, Unchanged
  <2>2. /\ req[p].row \in Rows
        /\ req[p].seen.version \in Nat /\ settings[req[p].row].version \in Nat
    BY <2>1 DEF TypeOK, Request, Setting
  <2>3. /\ req[p].seen.version <= settings[req[p].row].version
        /\ req[p].seen.version = settings[req[p].row].version =>
             req[p].seen = settings[req[p].row]
    BY <2>1 DEF SawTheRow, Unchanged
  <2>4. CASE req[p].row = r
    <3>1. settings'[r] = new
      BY <1>1 DEF TypeOK
    <3>2. QED
      BY <1>2, <2>2, <2>3, <2>4, <3>1
  <2>5. CASE req[p].row # r
    <3>1. settings'[req[p].row] = settings[req[p].row]
      BY <1>1, <2>2, <2>5 DEF TypeOK
    <3>2. QED
      BY <2>3, <3>1
  <2>6. QED
    BY <2>4, <2>5
<1>5. QED
  BY <1>3, <1>4

\* A write to settings, or a change of status, moves no lock, member or key.
LEMMA SettingsWritten ==
  ASSUME Orderly, NEW q \in Requests, End(q), status # "absent",
         status' \in Statuses, settings' \in [Rows -> Setting],
         \A p \in Requests : req'[p] = req[p] => SawTheRow(p)',
         UNCHANGED <<members, keys, record, answers>>
  PROVE  Orderly'
<1> USE DEF Orderly
<1>1. /\ req' \in [Requests -> Request]
      /\ \A p \in Requests \ {q} : req'[p] = req[p]
      /\ KnowsItsRows(q)' /\ SawTheRow(q)' /\ SweepsAll(q)' /\ LeavesAnOwner(q)'
      /\ LocksHeld'
  BY RequestEnds
<1>2. TypeOK' /\ RecordComplete' /\ ActiveHaveRoles' /\ ProvisionedOnce' /\ RemovalTakesTheKeys'
  BY <1>1 DEF TypeOK, RecordComplete, ActiveHaveRoles, ProvisionedOnce, RemovalTakesTheKeys
<1>3. NothingBefore'
  BY DEF NothingBefore, Statuses
<1>4. \A p \in Requests \ {q} :
        KnowsItsRows(p)' /\ SawTheRow(p)' /\ SweepsAll(p)' /\ LeavesAnOwner(p)'
  <2> SUFFICES ASSUME NEW p \in Requests \ {q}
               PROVE  KnowsItsRows(p)' /\ SawTheRow(p)' /\ SweepsAll(p)' /\ LeavesAnOwner(p)'
    OBVIOUS
  <2>1. req'[p] = req[p]
    BY <1>1
  <2>2. KnowsItsRows(p)' /\ SweepsAll(p)'
    BY <2>1 DEF KnowsItsRows, SweepsAll, Unrevoked
  <2>3. LeavesAnOwner(p)'
    BY <2>1 DEF LeavesAnOwner, OtherOwner, Owners
  <2>4. QED
    BY <2>1, <2>2, <2>3
<1>5. QED
  BY <1>1, <1>2, <1>3, <1>4

\* What an accepted update of a client writes, if anything, is the row it read.
LEMMA SaveWrites ==
  ASSUME Orderly, NEW q \in Requests, NEW v \in Values, Save(q, v)
  PROVE  \/ settings' = settings
         \/ /\ req[q].row \in Rows
            /\ Write(req[q].row, [settings[req[q].row] EXCEPT !.value = v])
<1> USE DEF Orderly
<1> DEFINE r == req[q].row
<1>1. r \in Rows \cup {Nil}
  BY DEF TypeOK, Request
<1>2. CASE r \in Rows
  BY <1>2 DEF Save
<1>3. CASE r \notin Rows
  BY <1>3 DEF Save, Write, TypeOK
<1>4. QED
  BY <1>2, <1>3

LEMMA SaveOrderly ==
  ASSUME Orderly, NEW q \in Requests, NEW v \in Values, Save(q, v),
         req[q].step = "admitted"
  PROVE  Orderly'
<1> USE DEF Orderly
<1>1. /\ End(q) /\ UNCHANGED <<status, members, keys, record, answers>>
  BY DEF Save
<1>2. status # "absent" /\ status' \in Statuses
  BY <1>1, WorkFindsATenant DEF TypeOK
<1>3. /\ settings' \in [Rows -> Setting]
      /\ \A p \in Requests : req'[p] = req[p] => SawTheRow(p)'
  <2>1. CASE settings' = settings
    BY <2>1 DEF TypeOK, SawTheRow, Unchanged
  <2>2. CASE /\ req[q].row \in Rows
             /\ Write(req[q].row, [settings[req[q].row] EXCEPT !.value = v])
    <3>1. /\ [settings[req[q].row] EXCEPT !.value = v] \in Setting
          /\ [settings[req[q].row] EXCEPT !.value = v].version = settings[req[q].row].version
      BY <2>2 DEF TypeOK, Setting
    <3>2. QED
      BY <2>2, <3>1, WrittenRowsAreNew
  <2>3. QED
    BY <2>1, <2>2, SaveWrites
<1>4. QED
  BY <1>1, <1>2, <1>3, SettingsWritten

LEMMA TransitionOrderly ==
  ASSUME Orderly, NEW q \in Requests, NEW target \in Statuses, TransitionTenant(q, target)
  PROVE  Orderly'
<1> USE DEF Orderly
<1>1. /\ End(q) /\ status' = target /\ Write("tenant", settings["tenant"])
      /\ UNCHANGED <<members, keys, record, answers>>
  BY DEF TransitionTenant
<1>2. "tenant" \in Rows /\ settings["tenant"] \in Setting
  BY AdministrationAssumption DEF TypeOK
<1>3. /\ settings' \in [Rows -> Setting]
      /\ \A p \in Requests : req'[p] = req[p] => SawTheRow(p)'
  BY <1>1, <1>2, WrittenRowsAreNew
<1>4. status # "absent"
  BY WorkFindsATenant DEF TransitionTenant, May
<1>5. QED
  BY <1>1, <1>3, <1>4, SettingsWritten

\* A write to members or keys leaves the settings and the provisioning alone.
LEMMA KeysWritten ==
  ASSUME Orderly, NEW q \in Requests, End(q), status # "absent",
         UNCHANGED <<status, settings, record, answers>>,
         members' \in [Members -> Member], keys' \in [Credentials -> Key \cup {NoKey}],
         ActiveHaveRoles', RemovalTakesTheKeys',
         \A p \in Requests \ {q} : req'[p] = req[p] =>
           KnowsItsRows(p)' /\ SweepsAll(p)' /\ LeavesAnOwner(p)'
  PROVE  Orderly'
<1> USE DEF Orderly
<1>1. /\ req' \in [Requests -> Request]
      /\ \A p \in Requests \ {q} : req'[p] = req[p]
      /\ KnowsItsRows(q)' /\ SawTheRow(q)' /\ SweepsAll(q)' /\ LeavesAnOwner(q)'
      /\ LocksHeld'
  BY RequestEnds
<1>2. TypeOK' /\ RecordComplete' /\ ProvisionedOnce' /\ NothingBefore'
  BY <1>1 DEF TypeOK, RecordComplete, ProvisionedOnce, NothingBefore
<1>3. \A p \in Requests \ {q} : SawTheRow(p)'
  BY <1>1 DEF SawTheRow, Unchanged
<1>4. QED
  BY <1>1, <1>2, <1>3

\* Removals stay complete when no key is unmade and each key that is neither
\* revoked nor stale was so before, or is not of the member removed.
LEMMA SweepsStay ==
  ASSUME Orderly, NEW p \in Requests, req'[p] = req[p],
         \A c \in Credentials :
           /\ keys[c].status # "unused" => keys'[c].status # "unused"
           /\ Unrevoked(c)' /\ ~keys'[c].stale
                /\ req[p].step = "sweep" /\ keys'[c].member = req[p].member
              => Unrevoked(c) /\ ~keys[c].stale /\ keys[c].member = req[p].member
  PROVE  SweepsAll(p)'
<1>1. SUFFICES ASSUME req[p].step = "sweep"
               PROVE  /\ \A c \in req[p].swept : keys'[c].status # "unused"
                      /\ \A c \in Credentials :
                           Unrevoked(c)' /\ keys'[c].member = req[p].member /\ ~keys'[c].stale
                             => c \in req[p].swept
  BY DEF SweepsAll
<1>2. SweepsAll(p) /\ req[p].swept \subseteq Credentials
  BY DEF Orderly, TypeOK, Request
<1>3. QED
  BY <1>1, <1>2 DEF SweepsAll

\* An upsert gives a role to a member and to the keys it has.
LEMMA UpsertOrderly ==
  ASSUME Orderly, NEW q \in Requests, Upsert(q)
  PROVE  Orderly'
<1> USE DEF Orderly
<1> DEFINE m == req[q].member
           grant == req[q].grant
<1>1. /\ m \in Members /\ grant \in Roles /\ req[q].step = "upsert"
      /\ members' = [members EXCEPT ![m] = [role |-> grant, active |-> TRUE]]
      /\ keys' = [c \in Credentials |-> IF c \in KeysOf(m)
                                          THEN [keys[c] EXCEPT !.role = grant]
                                          ELSE keys[c]]
      /\ End(q) /\ UNCHANGED <<status, settings, record, answers>>
  BY DEF Upsert, KnowsItsRows
<1>2. /\ members' \in [Members -> Member]
      /\ ActiveHaveRoles'
      /\ \A d \in Members : members[d].active => members'[d].active
  <2>1. [role |-> grant, active |-> TRUE] \in Member
    BY <1>1 DEF Member
  <2>2. \A d \in Members : members'[d] = IF d = m THEN [role |-> grant, active |-> TRUE]
                                                 ELSE members[d]
    BY <1>1 DEF TypeOK
  <2>3. QED
    BY <1>1, <2>1, <2>2 DEF TypeOK, ActiveHaveRoles
<1>3. \A c \in Credentials :
        /\ keys'[c] \in Key \cup {NoKey}
        /\ keys'[c].status = keys[c].status
        /\ keys'[c].member = keys[c].member
        /\ keys'[c].stale = keys[c].stale
  <2> SUFFICES ASSUME NEW c \in Credentials
               PROVE  /\ keys'[c] \in Key \cup {NoKey}
                      /\ keys'[c].status = keys[c].status
                      /\ keys'[c].member = keys[c].member
                      /\ keys'[c].stale = keys[c].stale
    OBVIOUS
  <2>1. CASE c \in KeysOf(m)
    <3>1. keys[c] \in Key
      BY <1>1, <2>1, KeysOfTyped
    <3>2. keys'[c] = [keys[c] EXCEPT !.role = grant]
      BY <1>1, <2>1
    <3>3. QED
      BY <1>1, <3>1, <3>2 DEF Key
  <2>2. CASE c \notin KeysOf(m)
    BY <1>1, <2>2 DEF TypeOK
  <2>3. QED
    BY <2>1, <2>2
<1>4. keys' \in [Credentials -> Key \cup {NoKey}]
  BY <1>1, <1>3
<1>5. RemovalTakesTheKeys'
  <2> SUFFICES ASSUME NEW c \in Credentials, keys'[c].status \in {"live", "expired"},
                      ~members'[keys'[c].member].active
               PROVE  keys'[c].stale
    BY DEF RemovalTakesTheKeys
  <2>1. keys[c] \in Key
    BY <1>3, NothingTyped DEF TypeOK
  <2>2. keys[c].member \in Members
    BY <2>1 DEF Key
  <2>3. QED
    BY <1>2, <1>3, <2>2 DEF RemovalTakesTheKeys
<1>6. ASSUME NEW p \in Requests \ {q}, req'[p] = req[p]
      PROVE  KnowsItsRows(p)' /\ SweepsAll(p)' /\ LeavesAnOwner(p)'
  <2>1. KnowsItsRows(p)'
    <3>1. req[p].step = "rotate" => Unrevoked(req[p].key)'
      BY <1>3, <1>6 DEF KnowsItsRows, Unrevoked
    <3>2. QED
      BY <1>6, <3>1 DEF KnowsItsRows
  <2>2. SweepsAll(p)'
    BY <1>3, <1>6, SweepsStay DEF Unrevoked
  <2>3. LeavesAnOwner(p)'
    BY <1>1, <1>6 DEF LeavesAnOwner, LocksHeld
  <2>4. QED
    BY <2>1, <2>2, <2>3
<1>7. status # "absent"
  BY <1>1, WorkFindsATenant
<1>8. QED
  BY <1>1, <1>2, <1>4, <1>5, <1>6, <1>7, KeysWritten

\* A removal revokes the keys it has chosen, which are all the member has.
LEMMA RevokeMemberOrderly ==
  ASSUME Orderly, NEW q \in Requests, RevokeMember(q)
  PROVE  Orderly'
<1> USE DEF Orderly
<1> DEFINE m == req[q].member
           swept == req[q].swept
<1>1. /\ m \in Members /\ req[q].step = "sweep" /\ swept \subseteq Credentials
      /\ members' = [members EXCEPT ![m].active = FALSE]
      /\ keys' = [c \in Credentials |-> IF c \in swept
                                          THEN [keys[c] EXCEPT !.status = "revoked"]
                                          ELSE keys[c]]
      /\ \A c \in swept : KeyFree(q, c)
      /\ TenantFree(q)
      /\ End(q) /\ UNCHANGED <<status, settings, record, answers>>
  BY DEF RevokeMember, KnowsItsRows, TypeOK, Request
<1>2. \A d \in Members : /\ members'[d] \in Member
                         /\ members'[d].role = members[d].role
                         /\ members'[d].active = (d # m /\ members[d].active)
  BY <1>1 DEF TypeOK, Member
<1>3. members' \in [Members -> Member] /\ ActiveHaveRoles'
  <2>1. members' \in [Members -> Member]
    BY <1>1, <1>2 DEF TypeOK
  <2>2. QED
    BY <1>2, <2>1 DEF ActiveHaveRoles
<1>4. \A c \in Credentials :
        /\ keys'[c] \in Key \cup {NoKey}
        /\ keys'[c].status = IF c \in swept THEN "revoked" ELSE keys[c].status
        /\ keys'[c].member = keys[c].member
        /\ keys'[c].stale = keys[c].stale
  <2> SUFFICES ASSUME NEW c \in Credentials
               PROVE  /\ keys'[c] \in Key \cup {NoKey}
                      /\ keys'[c].status = IF c \in swept THEN "revoked" ELSE keys[c].status
                      /\ keys'[c].member = keys[c].member
                      /\ keys'[c].stale = keys[c].stale
    OBVIOUS
  <2>1. CASE c \in swept
    <3>1. keys[c] \in Key
      BY <1>1, <2>1, UnrevokedTyped DEF SweepsAll
    <3>2. keys'[c] = [keys[c] EXCEPT !.status = "revoked"]
      BY <1>1, <2>1
    <3>3. QED
      BY <2>1, <3>1, <3>2 DEF Key
  <2>2. CASE c \notin swept
    BY <1>1, <2>2 DEF TypeOK
  <2>3. QED
    BY <2>1, <2>2
<1>5. keys' \in [Credentials -> Key \cup {NoKey}]
  BY <1>1, <1>4
<1>6. RemovalTakesTheKeys'
  <2> SUFFICES ASSUME NEW c \in Credentials, keys'[c].status \in {"live", "expired"},
                      ~members'[keys'[c].member].active
               PROVE  keys'[c].stale
    BY DEF RemovalTakesTheKeys
  <2>1. c \notin swept /\ Unrevoked(c) /\ keys[c] \in Key
    BY <1>4, NothingTyped DEF TypeOK, Unrevoked
  <2>2. keys[c].member \in Members
    BY <2>1 DEF Key
  <2>3. CASE keys[c].member = m
    BY <1>1, <1>4, <2>1, <2>3 DEF SweepsAll
  <2>4. CASE keys[c].member # m
    BY <1>2, <1>4, <2>1, <2>2, <2>4 DEF RemovalTakesTheKeys, Unrevoked
  <2>5. QED
    BY <2>3, <2>4
<1>7. ASSUME NEW p \in Requests \ {q}, req'[p] = req[p]
      PROVE  KnowsItsRows(p)' /\ SweepsAll(p)' /\ LeavesAnOwner(p)'
  <2>1. KnowsItsRows(p)'
    <3>1. ASSUME req[p].step = "rotate" PROVE Unrevoked(req[p].key)'
      BY <1>1, <1>4, <1>7, <3>1 DEF KnowsItsRows, Unrevoked, KeyFree
    <3>2. QED
      BY <1>7, <3>1 DEF KnowsItsRows
  <2>2. SweepsAll(p)'
    BY <1>4, <1>7, SweepsStay DEF Unrevoked
  <2>3. LeavesAnOwner(p)'
    BY <1>1, <1>7 DEF LeavesAnOwner, TenantFree
  <2>4. QED
    BY <2>1, <2>2, <2>3
<1>8. status # "absent"
  BY <1>1, WorkFindsATenant
<1>9. QED
  BY <1>1, <1>3, <1>5, <1>6, <1>7, <1>8, KeysWritten

\* A key is made for a member that no removal or upsert holds.
LEMMA CreateKeyOrderly ==
  ASSUME Orderly, NEW q \in Requests, NEW c \in Credentials, CreateKey(q, c)
  PROVE  Orderly'
<1> USE DEF Orderly
<1> DEFINE m == req[q].member
           key == [NoKey EXCEPT !.status = "live", !.member = m, !.role = req[q].grant,
                                !.stale = ~members[m].active]
<1>1. /\ m \in Members /\ req[q].grant \in Roles /\ req[q].step = "create"
      /\ keys[c] = NoKey /\ MemberFree(q, m)
      /\ keys' = [keys EXCEPT ![c] = key]
      /\ End(q) /\ UNCHANGED <<status, settings, members, record, answers>>
  BY DEF CreateKey, KnowsItsRows
<1>2. /\ key \in Key /\ key.status = "live" /\ key.member = m
      /\ key.stale = ~members[m].active
  <2>1. members[m].active \in BOOLEAN
    BY <1>1 DEF TypeOK, Member
  <2>2. QED
    BY <1>1, <2>1 DEF NoKey, Key
<1> HIDE DEF key
<1>3. \A d \in Credentials : keys'[d] = IF d = c THEN key ELSE keys[d]
  BY <1>1 DEF TypeOK
<1>4. keys' \in [Credentials -> Key \cup {NoKey}]
  BY <1>1, <1>2 DEF TypeOK
<1>5. members' \in [Members -> Member] /\ ActiveHaveRoles'
  BY <1>1 DEF TypeOK, ActiveHaveRoles
<1>6. RemovalTakesTheKeys'
  BY <1>1, <1>2, <1>3 DEF RemovalTakesTheKeys
<1>7. ASSUME NEW p \in Requests \ {q}, req'[p] = req[p]
      PROVE  KnowsItsRows(p)' /\ SweepsAll(p)' /\ LeavesAnOwner(p)'
  <2>1. KnowsItsRows(p)'
    <3>1. req[p].step = "rotate" => Unrevoked(req[p].key)'
      BY <1>2, <1>3, <1>7 DEF KnowsItsRows, Unrevoked
    <3>2. QED
      BY <1>7, <3>1 DEF KnowsItsRows
  <2>2. SweepsAll(p)'
    <3>1. req[p].step = "sweep" => req[p].member # m
      BY <1>1 DEF MemberFree
    <3>2. QED
      BY <1>1, <1>2, <1>3, <1>7, <3>1, SweepsStay, NothingTyped DEF Unrevoked
  <2>3. LeavesAnOwner(p)'
    BY <1>1, <1>7 DEF LeavesAnOwner, OtherOwner, Owners
  <2>4. QED
    BY <2>1, <2>2, <2>3
<1>8. status # "absent"
  BY <1>1, WorkFindsATenant
<1>9. QED
  BY <1>1, <1>4, <1>5, <1>6, <1>7, <1>8, KeysWritten

\* A rotation revokes the key it has locked, and its successor is as stale as it
\* was; no removal of its member is under way.
LEMMA RotateKeyOrderly ==
  ASSUME Orderly, NEW q \in Requests, NEW d \in Credentials, RotateKey(q, d)
  PROVE  Orderly'
<1> USE DEF Orderly
<1> DEFINE c == req[q].key
           new == [keys[c] EXCEPT !.status = "live", !.from = c]
           old == [keys[c] EXCEPT !.status = "revoked"]
<1>1. /\ c \in Credentials /\ Unrevoked(c) /\ req[q].step = "rotate"
      /\ keys[d] = NoKey /\ MemberFree(q, keys[c].member)
      /\ keys' = [keys EXCEPT ![c].status = "revoked", ![d] = new]
      /\ End(q) /\ UNCHANGED <<status, settings, members, record, answers>>
  BY DEF RotateKey, KnowsItsRows
<1>2. keys[c] \in Key /\ c # d
  BY <1>1, UnrevokedTyped, NothingTyped DEF Unrevoked
<1>3. /\ new \in Key /\ new.status = "live" /\ new.member = keys[c].member
      /\ new.stale = keys[c].stale
      /\ old \in Key /\ old.status = "revoked"
  BY <1>1, <1>2 DEF Key
<1>4. \A e \in Credentials : keys'[e] = IF e = d THEN new
                                        ELSE IF e = c THEN old ELSE keys[e]
  BY <1>1, <1>2 DEF TypeOK
<1>5. keys' \in [Credentials -> Key \cup {NoKey}]
  <2>1. keys' = [e \in Credentials |-> keys'[e]]
    BY <1>1 DEF TypeOK
  <2>2. \A e \in Credentials : keys'[e] \in Key \cup {NoKey}
    BY <1>3, <1>4 DEF TypeOK
  <2>3. QED
    BY <2>1, <2>2
<1> HIDE DEF new, old
<1>6. members' \in [Members -> Member] /\ ActiveHaveRoles'
  BY <1>1 DEF TypeOK, ActiveHaveRoles
<1>7. RemovalTakesTheKeys'
  <2>1. members' = members
    BY <1>1
  <2>2. SUFFICES ASSUME NEW e \in Credentials, Unrevoked(e)', ~members[keys'[e].member].active
                 PROVE  keys'[e].stale
    BY <2>1 DEF RemovalTakesTheKeys, Unrevoked
  <2>3. CASE e = d
    <3>1. keys'[e] = new
      BY <1>4, <2>3
    <3>2. Unrevoked(c) /\ ~members[keys[c].member].active /\ c \in Credentials
      BY <1>1, <1>3, <2>2, <3>1
    <3>3. keys[c].stale
      BY <3>2 DEF RemovalTakesTheKeys, Unrevoked
    <3>4. QED
      BY <1>3, <3>1, <3>3
  <2>4. CASE e # d
    <3>1. e # c
      BY <1>3, <1>4, <2>2, <2>4 DEF Unrevoked
    <3>2. keys'[e] = keys[e]
      BY <1>4, <2>4, <3>1
    <3>3. QED
      BY <2>2, <3>2 DEF RemovalTakesTheKeys, Unrevoked
  <2>5. QED
    BY <2>3, <2>4
<1>8. ASSUME NEW p \in Requests \ {q}, req'[p] = req[p]
      PROVE  KnowsItsRows(p)' /\ SweepsAll(p)' /\ LeavesAnOwner(p)'
  <2>1. KnowsItsRows(p)'
    <3>1. ASSUME req[p].step = "rotate" PROVE Unrevoked(req[p].key)'
      <4>1. req[p].key # c
        BY <1>1, <3>1 DEF LocksHeld
      <4>2. QED
        BY <1>3, <1>4, <1>8, <3>1, <4>1 DEF KnowsItsRows, Unrevoked
    <3>2. QED
      BY <1>8, <3>1 DEF KnowsItsRows
  <2>2. SweepsAll(p)'
    <3>1. req[p].step = "sweep" => req[p].member # keys[c].member
      BY <1>1 DEF MemberFree
    <3>2. ASSUME NEW e \in Credentials, keys[e].status # "unused"
          PROVE  keys'[e].status # "unused"
      BY <1>1, <1>3, <1>4, <3>2, NothingTyped
    <3>3. ASSUME NEW e \in Credentials, Unrevoked(e)', ~keys'[e].stale,
                 req[p].step = "sweep", keys'[e].member = req[p].member
          PROVE  Unrevoked(e) /\ ~keys[e].stale /\ keys[e].member = req[p].member
      <4>1. e # d
        BY <1>3, <1>4, <3>1, <3>3
      <4>2. e # c
        BY <1>3, <1>4, <3>3, <4>1 DEF Unrevoked
      <4>3. keys'[e] = keys[e]
        BY <1>4, <4>1, <4>2
      <4>4. QED
        BY <3>3, <4>3 DEF Unrevoked
    <3>4. QED
      BY <1>8, <3>2, <3>3, SweepsStay
  <2>3. LeavesAnOwner(p)'
    BY <1>1, <1>8 DEF LeavesAnOwner, OtherOwner, Owners
  <2>4. QED
    BY <2>1, <2>2, <2>3
<1>9. status # "absent"
  BY <1>1, WorkFindsATenant
<1>10. QED
  BY <1>1, <1>5, <1>6, <1>7, <1>8, <1>9, KeysWritten

\* A key is revoked when nobody rotates it.
LEMMA RevokeKeyOrderly ==
  ASSUME Orderly, NEW q \in Requests, NEW c \in Credentials, RevokeKey(q, c)
  PROVE  Orderly'
<1> USE DEF Orderly
<1>1. /\ KeyFree(q, c) /\ keys[c].status # "unused" /\ req[q].step = "admitted"
      /\ keys' = [keys EXCEPT ![c].status = "revoked"]
      /\ End(q) /\ UNCHANGED <<status, settings, members, record, answers>>
  BY DEF RevokeKey, May
<1>2. keys[c] \in Key
  BY <1>1, UnrevokedTyped
<1>3. \A d \in Credentials :
        /\ keys'[d] \in Key \cup {NoKey}
        /\ keys'[d].status = IF d = c THEN "revoked" ELSE keys[d].status
        /\ keys'[d].member = keys[d].member /\ keys'[d].stale = keys[d].stale
  BY <1>1, <1>2 DEF TypeOK, Key
<1>4. keys' \in [Credentials -> Key \cup {NoKey}]
  <2>1. keys' = [d \in Credentials |-> keys'[d]]
    BY <1>1 DEF TypeOK
  <2>2. QED
    BY <1>3, <2>1
<1>5. members' \in [Members -> Member] /\ ActiveHaveRoles'
  BY <1>1 DEF TypeOK, ActiveHaveRoles
<1>6. RemovalTakesTheKeys'
  BY <1>1, <1>3 DEF RemovalTakesTheKeys
<1>7. ASSUME NEW p \in Requests \ {q}, req'[p] = req[p]
      PROVE  KnowsItsRows(p)' /\ SweepsAll(p)' /\ LeavesAnOwner(p)'
  <2>1. KnowsItsRows(p)'
    <3>1. ASSUME req[p].step = "rotate" PROVE Unrevoked(req[p].key)'
      BY <1>1, <1>3, <1>7, <3>1 DEF KnowsItsRows, Unrevoked, KeyFree
    <3>2. QED
      BY <1>7, <3>1 DEF KnowsItsRows
  <2>2. SweepsAll(p)'
    BY <1>3, <1>7, SweepsStay DEF Unrevoked
  <2>3. LeavesAnOwner(p)'
    BY <1>1, <1>7 DEF LeavesAnOwner, OtherOwner, Owners
  <2>4. QED
    BY <2>1, <2>2, <2>3
<1>8. status # "absent"
  BY <1>1, WorkFindsATenant
<1>9. QED
  BY <1>1, <1>4, <1>5, <1>6, <1>7, <1>8, KeysWritten

\* A key that runs out of time is still not revoked.
LEMMA ExpireOrderly ==
  ASSUME Orderly, NEW c \in Credentials, Expire(c)
  PROVE  Orderly'
<1> USE DEF Orderly
<1>1. /\ keys[c].status = "live" /\ keys' = [keys EXCEPT ![c].status = "expired"]
      /\ UNCHANGED <<status, settings, members, record, answers, req>>
  BY DEF Expire
<1>2. keys[c] \in Key
  BY <1>1, UnrevokedTyped
<1>3. \A d \in Credentials :
        /\ keys'[d] \in Key \cup {NoKey}
        /\ keys'[d].status = IF d = c THEN "expired" ELSE keys[d].status
        /\ keys'[d].member = keys[d].member /\ keys'[d].stale = keys[d].stale
  BY <1>1, <1>2 DEF TypeOK, Key
<1>4. TypeOK'
  <2>1. keys' \in [Credentials -> Key \cup {NoKey}]
    <3>1. keys' = [d \in Credentials |-> keys'[d]]
      BY <1>1 DEF TypeOK
    <3>2. QED
      BY <1>3, <3>1
  <2>2. QED
    BY <1>1, <2>1 DEF TypeOK
<1>5. RemovalTakesTheKeys'
  BY <1>1, <1>3 DEF RemovalTakesTheKeys
<1>6. NothingBefore' /\ RecordComplete' /\ ActiveHaveRoles' /\ ProvisionedOnce' /\ LocksHeld'
  <2>1. status # "absent"
    BY <1>1, NothingTyped DEF NothingBefore
  <2>2. QED
    BY <1>1, <2>1 DEF NothingBefore, RecordComplete, ActiveHaveRoles, ProvisionedOnce, LocksHeld
<1>7. ASSUME NEW p \in Requests
      PROVE  KnowsItsRows(p)' /\ SawTheRow(p)' /\ SweepsAll(p)' /\ LeavesAnOwner(p)'
  <2>1. KnowsItsRows(p)'
    <3>1. req[p].step = "rotate" => Unrevoked(req[p].key)'
      BY <1>1, <1>3 DEF KnowsItsRows, Unrevoked
    <3>2. QED
      BY <1>1, <3>1 DEF KnowsItsRows
  <2>2. SweepsAll(p)'
    BY <1>1, <1>3, SweepsStay DEF Unrevoked
  <2>3. SawTheRow(p)'
    BY <1>1 DEF SawTheRow, Unchanged
  <2>4. LeavesAnOwner(p)'
    BY <1>1 DEF LeavesAnOwner, OtherOwner, Owners
  <2>5. QED
    BY <2>1, <2>2, <2>3, <2>4
<1>8. QED
  BY <1>4, <1>5, <1>6, <1>7

\* A step that changes nothing keeps the order.
LEMMA StutterOrderly ==
  ASSUME Orderly, UNCHANGED vars
  PROVE  Orderly'
<1> USE DEF Orderly, vars
<1>1. TypeOK' /\ NothingBefore' /\ RecordComplete' /\ ActiveHaveRoles' /\ LocksHeld'
  BY DEF TypeOK, NothingBefore, RecordComplete, ActiveHaveRoles, LocksHeld
<1>2. ProvisionedOnce' /\ RemovalTakesTheKeys'
  BY DEF ProvisionedOnce, RemovalTakesTheKeys
<1>3. ASSUME NEW p \in Requests
      PROVE  KnowsItsRows(p)' /\ SawTheRow(p)' /\ SweepsAll(p)' /\ LeavesAnOwner(p)'
  <2>1. KnowsItsRows(p)' /\ SweepsAll(p)'
    BY DEF KnowsItsRows, SweepsAll, Unrevoked
  <2>2. SawTheRow(p)' /\ LeavesAnOwner(p)'
    BY DEF SawTheRow, Unchanged, LeavesAnOwner, OtherOwner, Owners
  <2>3. QED
    BY <2>1, <2>2
<1>4. QED
  BY <1>1, <1>2, <1>3

-----------------------------------------------------------------------------
(* The theorems *)

\* The order is an invariant, whatever requests interleave, fail and die.
THEOREM AlwaysOrderly == Spec => []Orderly
<1>1. Orderly /\ [Next]_vars => Orderly'
  <2> SUFFICES ASSUME Orderly, [Next]_vars
               PROVE  Orderly'
    OBVIOUS
  <2>1. ASSUME NEW q \in Requests, Fail(q) \/ Upsert(q) \/ SweepKeys(q) \/ RevokeMember(q)
        PROVE  Orderly'
    BY <2>1, FailOrderly, UpsertOrderly, SweepKeysOrderly, RevokeMemberOrderly
  <2>2. ASSUME NEW q \in Requests, NEW r \in Rows, ReadSettings(q, r)
        PROVE  Orderly'
    BY <2>2, ReadSettingsOrderly
  <2>3. ASSUME NEW q \in Requests, NEW k \in ProvisionKeys, OpenProvision(q, k) \/ Replay(q, k)
        PROVE  Orderly'
    BY <2>3, OpenProvisionOrderly, ReplayOrderly
  <2>4. ASSUME NEW q \in Requests, NEW v \in Values, UpdateSettings(q, v) \/ SetEntitlement(q, v)
        PROVE  Orderly'
    BY <2>4, SaveOrderly DEF UpdateSettings, SetEntitlement, May
  <2>5. ASSUME NEW q \in Requests, NEW v \in Values, NEW c \in Credentials, NEW told \in BOOLEAN,
               Provision(q, c, v, told)
        PROVE  Orderly'
    BY <2>5, ProvisionOrderly
  <2>6. ASSUME NEW q \in Requests, NEW target \in Statuses, TransitionTenant(q, target)
        PROVE  Orderly'
    BY <2>6, TransitionOrderly
  <2>7. ASSUME NEW q \in Requests, NEW m \in Members,
               \/ \E r \in GrantedRoles : OpenUpsert(q, m, r)
               \/ OpenRevoke(q, m) \/ OpenCreate(q, m)
        PROVE  Orderly'
    BY <2>7, OpenUpsertOrderly, OpenRevokeOrderly, OpenCreateOrderly
  <2>8. ASSUME NEW q \in Requests, NEW c \in Credentials,
               \/ Authenticate(q, c) \/ CreateKey(q, c) \/ OpenRotate(q, c)
               \/ RotateKey(q, c) \/ RevokeKey(q, c)
        PROVE  Orderly'
    BY <2>8, AuthenticateOrderly, CreateKeyOrderly, OpenRotateOrderly, RotateKeyOrderly,
       RevokeKeyOrderly
  <2>9. ASSUME NEW c \in Credentials, Expire(c)
        PROVE  Orderly'
    BY <2>9, ExpireOrderly
  <2>10. CASE UNCHANGED vars
    BY <2>10, StutterOrderly
  <2>11. QED
    BY <2>1, <2>2, <2>3, <2>4, <2>5, <2>6, <2>7, <2>8, <2>9, <2>10 DEF Next
<1>2. QED
  BY InitOrderly, <1>1, PTL DEF Spec

\* Rows and requests keep their types.
THEOREM TypeCorrect == Spec => []TypeOK
<1>1. Orderly => TypeOK
  BY DEF Orderly
<1>2. QED
  BY AlwaysOrderly, <1>1, PTL

\* However provisioning requests race, repeat and lose their answers, they are
\* all answered with the credential of the one that created the tenant.
THEOREM AlwaysProvisionedOnce == Spec => []ProvisionedOnce
<1>1. Orderly => ProvisionedOnce
  BY DEF Orderly
<1>2. QED
  BY AlwaysOrderly, <1>1, PTL

\* A removed member keeps no unrevoked key but one whose creation had begun, or
\* that descends from it: no rotation or creation that overlaps the removal
\* slips another key past it.
THEOREM RemovalAlwaysTakesTheKeys == Spec => []RemovalTakesTheKeys
<1>1. Orderly => RemovalTakesTheKeys
  BY DEF Orderly
<1>2. QED
  BY AlwaysOrderly, <1>1, PTL

\* The value of a row changes when the tenant is made, or by an update that was
\* made from the row as it is.
LEMMA UpdatesAreFromTheRow ==
  ASSUME Orderly, NEW q \in Requests, NEW v \in Values, Save(q, v), NEW r \in Rows,
         settings'[r].value # settings[r].value
  PROVE  req[q].row = r /\ req[q].seen = settings[r]
<1> USE DEF Orderly
<1>1. /\ req[q].row \in Rows
      /\ Write(req[q].row, [settings[req[q].row] EXCEPT !.value = v])
  BY SaveWrites
<1>2. req[q].row = r
  BY <1>1 DEF Write, TypeOK
<1>3. req[q].row # Nil
  BY <1>1, AdministrationAssumption
<1>4. QED
  BY <1>2, <1>3 DEF Save, SawTheRow

\* What writes settings: provisioning, a change of status and the two updates.
LEMMA SettingsWriters ==
  ASSUME [Next]_vars, settings' # settings
  PROVE  \/ \E q \in Requests, target \in Statuses : TransitionTenant(q, target)
         \/ \E q \in Requests, v \in Values, c \in Credentials, told \in BOOLEAN :
              Provision(q, c, v, told)
         \/ \E q \in Requests, v \in Values : UpdateSettings(q, v) \/ SetEntitlement(q, v)
<1>1. ASSUME NEW q \in Requests, Fail(q) \/ Upsert(q) \/ SweepKeys(q) \/ RevokeMember(q)
      PROVE  settings' = settings
  BY <1>1 DEF Fail, Upsert, SweepKeys, RevokeMember
<1>2. ASSUME NEW q \in Requests, NEW r \in Rows, ReadSettings(q, r)
      PROVE  settings' = settings
  BY <1>2 DEF ReadSettings
<1>3. ASSUME NEW q \in Requests, NEW k \in ProvisionKeys, OpenProvision(q, k) \/ Replay(q, k)
      PROVE  settings' = settings
  BY <1>3 DEF OpenProvision, Replay
<1>4. ASSUME NEW q \in Requests, NEW m \in Members,
             \/ \E r \in GrantedRoles : OpenUpsert(q, m, r)
             \/ OpenRevoke(q, m) \/ OpenCreate(q, m)
      PROVE  settings' = settings
  BY <1>4 DEF OpenUpsert, OpenRevoke, OpenCreate
<1>5. ASSUME NEW q \in Requests, NEW c \in Credentials,
             \/ Authenticate(q, c) \/ CreateKey(q, c) \/ OpenRotate(q, c)
             \/ RotateKey(q, c) \/ RevokeKey(q, c)
      PROVE  settings' = settings
  BY <1>5 DEF Authenticate, CreateKey, OpenRotate, RotateKey, RevokeKey
<1>6. ASSUME NEW c \in Credentials, Expire(c)
      PROVE  settings' = settings
  BY <1>6 DEF Expire
<1>7. ~UNCHANGED vars
  BY DEF vars
<1>8. QED
  BY <1>1, <1>2, <1>3, <1>4, <1>5, <1>6, <1>7 DEF Next

\* What writes members: provisioning, an upsert and a removal.
LEMMA MembersWriters ==
  ASSUME [Next]_vars, members' # members
  PROVE  \/ \E q \in Requests : Upsert(q) \/ RevokeMember(q)
         \/ \E q \in Requests, c \in Credentials, v \in Values, told \in BOOLEAN :
              Provision(q, c, v, told)
<1>1. ASSUME NEW q \in Requests, Fail(q) \/ SweepKeys(q)
      PROVE  members' = members
  BY <1>1 DEF Fail, SweepKeys
<1>2. ASSUME NEW q \in Requests, NEW r \in Rows, ReadSettings(q, r)
      PROVE  members' = members
  BY <1>2 DEF ReadSettings
<1>3. ASSUME NEW q \in Requests, NEW k \in ProvisionKeys, OpenProvision(q, k) \/ Replay(q, k)
      PROVE  members' = members
  BY <1>3 DEF OpenProvision, Replay
<1>4. ASSUME NEW q \in Requests, NEW v \in Values, UpdateSettings(q, v) \/ SetEntitlement(q, v)
      PROVE  members' = members
  BY <1>4 DEF UpdateSettings, SetEntitlement, Save
<1>5. ASSUME NEW q \in Requests, NEW target \in Statuses, TransitionTenant(q, target)
      PROVE  members' = members
  BY <1>5 DEF TransitionTenant
<1>6. ASSUME NEW q \in Requests, NEW m \in Members,
             \/ \E r \in GrantedRoles : OpenUpsert(q, m, r)
             \/ OpenRevoke(q, m) \/ OpenCreate(q, m)
      PROVE  members' = members
  BY <1>6 DEF OpenUpsert, OpenRevoke, OpenCreate
<1>7. ASSUME NEW q \in Requests, NEW c \in Credentials,
             \/ Authenticate(q, c) \/ CreateKey(q, c) \/ OpenRotate(q, c)
             \/ RotateKey(q, c) \/ RevokeKey(q, c)
      PROVE  members' = members
  BY <1>7 DEF Authenticate, CreateKey, OpenRotate, RotateKey, RevokeKey
<1>8. ASSUME NEW c \in Credentials, Expire(c)
      PROVE  members' = members
  BY <1>8 DEF Expire
<1>9. ~UNCHANGED vars
  BY DEF vars
<1>10. QED
  BY <1>1, <1>2, <1>3, <1>4, <1>5, <1>6, <1>7, <1>8, <1>9 DEF Next

\* Changes of status and other writes leave the values of rows alone.
LEMMA OthersKeepTheValues ==
  ASSUME Orderly, [Next]_vars, NEW r \in Rows, settings'[r].value # settings[r].value
  PROVE  \/ settings[r] = NoSetting
         \/ \E q \in Requests, v \in Values : Save(q, v) /\ req[q].step = "admitted"
<1> USE DEF Orderly
<1>1. ASSUME NEW q \in Requests, NEW target \in Statuses, TransitionTenant(q, target)
      PROVE  FALSE
  <2>1. settings' = [settings EXCEPT !["tenant"] =
                       [settings["tenant"] EXCEPT !.version = settings["tenant"].version + 1]]
    BY <1>1 DEF TransitionTenant, Write
  <2>2. settings'[r].value = settings[r].value
    BY <2>1 DEF TypeOK, Setting
  <2>3. QED
    BY <2>2
<1>2. ASSUME NEW q \in Requests, NEW v \in Values, NEW c \in Credentials, NEW told \in BOOLEAN,
             Provision(q, c, v, told)
      PROVE  settings[r] = NoSetting
  BY <1>2 DEF Provision, IdFree, NothingBefore
<1>3. ASSUME NEW q \in Requests, NEW v \in Values, UpdateSettings(q, v) \/ SetEntitlement(q, v)
      PROVE  Save(q, v) /\ req[q].step = "admitted"
  BY <1>3 DEF UpdateSettings, SetEntitlement, May
<1>4. CASE settings' = settings
  BY <1>4
<1>5. CASE settings' # settings
  <2>1. \/ \E q \in Requests, target \in Statuses : TransitionTenant(q, target)
        \/ \E q \in Requests, v \in Values, c \in Credentials, told \in BOOLEAN :
             Provision(q, c, v, told)
        \/ \E q \in Requests, v \in Values : UpdateSettings(q, v) \/ SetEntitlement(q, v)
    BY <1>5, SettingsWriters
  <2>2. QED
    BY <1>1, <1>2, <1>3, <2>1
<1>6. QED
  BY <1>4, <1>5

\* An accepted update was made by a client that had seen the row as it was: the
\* version it sends back stands for the whole row, whatever was written between
\* its read and its update.
THEOREM UpdatesNeverLost == Spec => NoLostUpdate
<1>1. ASSUME Orderly, [Next]_vars, NEW q \in Requests, NEW r \in Rows,
             settings[r] # NoSetting, settings'[r].value # settings[r].value,
             req[q].step = "admitted", req'[q] = NoRequest
      PROVE  req[q].row = r /\ req[q].seen = settings[r]
  <2>1. PICK p \in Requests, v \in Values : Save(p, v) /\ req[p].step = "admitted"
    BY <1>1, OthersKeepTheValues
  <2>2. p = q
    <3>1. SUFFICES ASSUME p # q PROVE FALSE
      OBVIOUS
    <3>2. req'[q] = req[q]
      BY <1>1, <2>1, <3>1 DEF Save, End, Enter, Orderly, TypeOK
    <3>3. QED
      BY <1>1, <3>2, NothingTyped
  <2>3. QED
    BY <1>1, <2>1, <2>2, UpdatesAreFromTheRow
<1>2. Orderly /\ [Next]_vars =>
        [\A q \in Requests, r \in Rows :
           /\ settings[r] # NoSetting /\ settings'[r].value # settings[r].value
           /\ req[q].step = "admitted" /\ req'[q] = NoRequest
           => req[q].row = r /\ req[q].seen = settings[r]]_vars
  BY <1>1
<1>3. QED
  BY <1>2, AlwaysOrderly, PTL DEF Spec, NoLostUpdate

\* Demotions, which count the other owners in one step and write in a later one,
\* never leave the tenant without an owner: only a removal can.
THEOREM DemotionsKeepAnOwner == Spec => DemotionKeepsAnOwner
<1>1. ASSUME Orderly, [Next]_vars, Owners # {}, Owners' = {}
      PROVE  \E m \in Owners : members'[m].role = "owner"
  <2> USE DEF Orderly
  <2>1. CASE members' = members
    BY <1>1, <2>1 DEF Owners
  <2>2. CASE \E q \in Requests : Upsert(q)
    <3>1. PICK q \in Requests : Upsert(q)
      BY <2>2
    <3> DEFINE m == req[q].member
    <3>2. /\ m \in Members
          /\ members' = [members EXCEPT ![m] = [role |-> req[q].grant, active |-> TRUE]]
      BY <1>1, <3>1 DEF Upsert, KnowsItsRows
    <3>3. Owners \ {m} \subseteq Owners'
      BY <1>1, <3>2 DEF Owners, TypeOK
    <3>4. req[q].grant = "owner" => m \in Owners'
      BY <1>1, <3>2 DEF Owners, TypeOK
    <3>5. m \in Owners /\ req[q].grant # "owner" => Owners \ {m} # {}
      BY <1>1, <3>1 DEF Upsert, LeavesAnOwner, OtherOwner
    <3>6. QED
      BY <1>1, <3>3, <3>4, <3>5
  <2>3. CASE \E q \in Requests : RevokeMember(q)
    <3>1. PICK q \in Requests : RevokeMember(q)
      BY <2>3
    <3>2. \A m \in Members : members'[m].role = members[m].role
      BY <1>1, <3>1 DEF RevokeMember, TypeOK, Member
    <3>3. QED
      BY <1>1, <3>2 DEF Owners
  <2>4. CASE \E q \in Requests, c \in Credentials, v \in Values, told \in BOOLEAN :
               Provision(q, c, v, told)
    <3>1. members' = [members EXCEPT ![Founder] = [role |-> "owner", active |-> TRUE]]
      BY <2>4 DEF Provision
    <3>2. Founder \in Owners'
      BY <1>1, <3>1, AdministrationAssumption DEF Owners, TypeOK
    <3>3. QED
      BY <1>1, <3>2
  <2>5. \/ members' = members
        \/ \E q \in Requests : Upsert(q) \/ RevokeMember(q)
        \/ \E q \in Requests, c \in Credentials, v \in Values, told \in BOOLEAN :
             Provision(q, c, v, told)
    BY <1>1, MembersWriters
  <2>6. QED
    BY <2>1, <2>2, <2>3, <2>4, <2>5
<1>2. Orderly /\ [Next]_vars =>
        [Owners # {} /\ Owners' = {} => \E m \in Owners : members'[m].role = "owner"]_vars
  BY <1>1
<1>3. QED
  BY <1>2, AlwaysOrderly, PTL DEF Spec, DemotionKeepsAnOwner
=============================================================================
