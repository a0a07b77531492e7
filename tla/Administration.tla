---------------------------- MODULE Administration ----------------------------
(***************************************************************************)
(* The control plane of one tenant: its provisioning, its status and       *)
(* settings, its members, and the keys that requests authenticate with.  A *)
(* request is authenticated in one transaction and acts in another, with   *)
(* the role it had in the first.  Transactions are read committed: only    *)
(* rows taken FOR UPDATE, and the rows that an insert refers to, keep the  *)
(* transactions of two requests apart.                                     *)
(***************************************************************************)
EXTENDS Integers, FiniteSets

CONSTANTS
  Members,         \* subjects that are, or may become, members
  Founder,         \* the subject provisioned as owner
  Credentials,     \* rows of administrative_credentials, used once each
  ProvisionKeys,   \* idempotency keys of provisioning requests
  GrantedRoles,    \* the roles that requests give
  Rows,            \* "tenant", "business_profile", and capabilities
  Values,          \* what a row may say
  Requests,        \* HTTP requests in flight
  MaxVersion,      \* bounds on the versions of rows
  Nil

Roles == {"owner", "manager", "agent", "knowledge_editor", "viewer"}

ASSUME AdministrationAssumption ==
  /\ Founder \in Members
  /\ GrantedRoles \subseteq Roles
  /\ MaxVersion \in [Rows -> Nat]
  /\ "tenant" \in Rows
  /\ Nil \notin Members \cup Credentials \cup ProvisionKeys \cup Roles \cup Rows

VARIABLES
  status,          \* tenants.status
  settings,        \* the versioned rows: tenants, its profile and entitlements
  members,         \* tenant_members
  keys,            \* administrative_credentials
  record,          \* tenant_provisioning_records
  answers,         \* the credentials that provisioning was answered with
  req              \* requests in flight

vars == <<status, settings, members, keys, record, answers, req>>

Statuses == {"suspended", "active", "archived"}
Setting == [version : Nat, value : Values \cup {Nil}]

Member == [role : Roles \cup {Nil}, active : BOOLEAN]

\* stale is history: the row was written after its member had been removed, or
\* descends from such a row.
Key == [status : {"live", "expired", "revoked"}, member : Members, role : Roles,
        from : Credentials \cup {Nil}, stale : BOOLEAN]

Request == [step : {"idle", "reading", "admitted", "provision", "upsert", "revoke", "sweep",
                    "create", "rotate"},
            role : Roles \cup {Nil}, member : Members \cup {Nil}, grant : Roles \cup {Nil},
            key : Credentials \cup ProvisionKeys \cup {Nil}, swept : SUBSET Credentials,
            row : Rows \cup {Nil}, seen : Setting]

NoSetting == [version |-> 0, value |-> Nil]
NoMember == [role |-> Nil, active |-> FALSE]
NoKey == [status |-> "unused", member |-> Nil, role |-> Nil, from |-> Nil, stale |-> FALSE]
NoRecord == [key |-> Nil, credential |-> Nil]
NoRequest == [step |-> "idle", role |-> Nil, member |-> Nil, grant |-> Nil, key |-> Nil,
              swept |-> {}, row |-> Nil, seen |-> NoSetting]

TypeOK ==
  /\ status \in Statuses \cup {"absent"}
  /\ settings \in [Rows -> Setting]
  /\ members \in [Members -> Member]
  /\ keys \in [Credentials -> Key \cup {NoKey}]
  /\ record \in [key : ProvisionKeys \cup {Nil}, credential : Credentials \cup {Nil}]
  /\ answers \subseteq Credentials
  /\ req \in [Requests -> Request]

Init ==
  /\ status = "absent"
  /\ settings = [r \in Rows |-> NoSetting]
  /\ members = [m \in Members |-> NoMember]
  /\ keys = [c \in Credentials |-> NoKey]
  /\ record = NoRecord
  /\ answers = {}
  /\ req = [q \in Requests |-> NoRequest]

-----------------------------------------------------------------------------
(* Locks *)

TenantFreeAlways(q) == TRUE                                  \* faulty variants
MemberFreeAlways(q, m) == TRUE

\* Locks that a step of q has to wait for.  Inserting an audit event takes a
\* lock on the tenant that excludes FOR UPDATE, and inserting a key takes one on
\* its member.
TenantFree(q) == \A p \in Requests \ {q} : req[p].step # "upsert"
MemberFree(q, m) ==
  \A p \in Requests \ {q} : ~(req[p].step \in {"upsert", "revoke", "sweep"} /\ req[p].member = m)
KeyFree(q, c) == \A p \in Requests \ {q} : ~(req[p].step = "rotate" /\ req[p].key = c)

Enter(q, fields) == req' = [req EXCEPT ![q] = fields]
End(q) == Enter(q, NoRequest)

\* The request is refused, its transaction is the victim of a deadlock, the time
\* limit of requests cancels it, or the process dies.
Fail(q) ==
  /\ req[q].step # "idle"
  /\ End(q)
  /\ UNCHANGED <<status, settings, members, keys, record, answers>>

-----------------------------------------------------------------------------
(* Provisioning *)

IdIgnored == TRUE                                            \* faulty variant

\* The id and the slug of the tenant are unique.
IdFree == status = "absent"

\* provision up to its reads, with the lock on the idempotency key.
OpenProvision(q, k) ==
  /\ req[q] = NoRequest
  /\ \A p \in Requests : ~(req[p].step = "provision" /\ req[p].key = k)
  /\ record = NoRecord /\ IdFree
  /\ Enter(q, [NoRequest EXCEPT !.step = "provision", !.key = k])
  /\ UNCHANGED <<status, settings, members, keys, record, answers>>

\* Its inserts.  The answer, which alone tells the secret, may be lost.
Provision(q, c, v, told) ==
  /\ req[q].step = "provision" /\ keys[c] = NoKey
  /\ IdFree
  /\ status' = "suspended"
  /\ settings' = [r \in Rows |-> [version |-> 1, value |-> v]]
  /\ members' = [members EXCEPT ![Founder] = [role |-> "owner", active |-> TRUE]]
  /\ keys' = [keys EXCEPT ![c] = [NoKey EXCEPT !.status = "live", !.member = Founder,
                                               !.role = "owner"]]
  /\ record' = [key |-> req[q].key, credential |-> c]
  /\ answers' = IF told THEN answers \cup {c} ELSE answers
  /\ End(q)

\* provision with a key that has provisioned the tenant.
Replay(q, k) ==
  /\ req[q] = NoRequest
  /\ record.key = k
  /\ answers' = answers \cup {record.credential}
  /\ UNCHANGED <<status, settings, members, keys, record, req>>

-----------------------------------------------------------------------------
(* Authority *)

Usable(c) ==
  LET m == members[keys[c].member]
  IN  keys[c].status = "live" /\ m.active /\ keys[c].role = m.role

\* authenticate: the principal keeps the role of this moment.
Authenticate(q, c) ==
  /\ req[q].step \in {"idle", "reading"}
  /\ keys[c].status # "unused" /\ Usable(c)
  /\ KeyFree(q, c)
  /\ Enter(q, [req[q] EXCEPT !.step = "admitted", !.role = keys[c].role])
  /\ UNCHANGED <<status, settings, members, keys, record, answers>>

ManagerPermissions == {"tenant_admin:read", "tenant_profile:write"}
OwnerPermissions == {"tenant_lifecycle:write", "tenant_member:write",
                     "tenant_credential:write", "tenant_entitlement:write"}

Permissions == [r \in Roles |-> CASE r = "owner" -> ManagerPermissions \cup OwnerPermissions
                                  [] r = "manager" -> ManagerPermissions
                                  [] OTHER -> {}]

\* Principal.require.
May(q, permission) == req[q].step = "admitted" /\ permission \in Permissions[req[q].role]

-----------------------------------------------------------------------------
(* Settings *)

\* get_tenant, business_profile, entitlements.  The client keeps the answer, to
\* make an update from it in a request of its own.
ReadSettings(q, r) ==
  /\ May(q, "tenant_admin:read")
  /\ Enter(q, [NoRequest EXCEPT !.step = "reading", !.row = r, !.seen = settings[r]])
  /\ UNCHANGED <<status, settings, members, keys, record, answers>>

UnchangedAlways(q) == TRUE                                   \* faulty variant
Unchanged(q) == req[q].seen.version = settings[req[q].row].version

\* Versions count the updates that change a row.
Write(r, row) ==
  /\ row.version < MaxVersion[r]
  /\ settings' = [settings EXCEPT ![r] = [row EXCEPT !.version = @ + 1]]

\* The version is the one the client has read.  An update that changes nothing
\* leaves it alone.
Save(q, v) ==
  LET r == req[q].row
  IN  /\ TenantFree(q)
      /\ Unchanged(q)
      /\ IF v = settings[r].value THEN UNCHANGED settings
                                  ELSE Write(r, [settings[r] EXCEPT !.value = v])
      /\ End(q)
      /\ UNCHANGED <<status, members, keys, record, answers>>

Profile == {"tenant", "business_profile"}

\* update_tenant, update_business_profile.
UpdateSettings(q, v) ==
  /\ May(q, "tenant_profile:write")
  /\ req[q].row \in Profile
  /\ Save(q, v)

SetEntitlement(q, v) ==
  /\ May(q, "tenant_entitlement:write")
  /\ req[q].row \in Rows \ Profile
  /\ Save(q, v)

Targets == [suspended |-> {"active", "archived"}, active |-> {"suspended", "archived"},
            archived |-> {}]

\* transition_tenant.
TransitionTenant(q, target) ==
  /\ May(q, "tenant_lifecycle:write")
  /\ TenantFree(q)
  /\ target \in Targets[status]
  /\ status' = target
  /\ Write("tenant", settings["tenant"])
  /\ End(q)
  /\ UNCHANGED <<members, keys, record, answers>>

-----------------------------------------------------------------------------
(* Members *)

Owners == {m \in Members : members[m].role = "owner" /\ members[m].active}

\* _require_other_owner, which locks nothing.
OtherOwner(m) == Owners \ {m} # {}

\* upsert_member up to its last read, with locks on the tenant and the member.
OpenUpsert(q, m, r) ==
  /\ May(q, "tenant_member:write")
  /\ TenantFree(q) /\ MemberFree(q, m)
  /\ m \in Owners /\ r # "owner" => OtherOwner(m)
  /\ Enter(q, [NoRequest EXCEPT !.step = "upsert", !.member = m, !.grant = r])
  /\ UNCHANGED <<status, settings, members, keys, record, answers>>

\* The unrevoked keys of a member.
KeysOf(m) == {c \in Credentials : keys[c].member = m /\ keys[c].status # "revoked"}

\* Its writes, which a key being rotated holds up.
Upsert(q) ==
  LET m == req[q].member
  IN  /\ req[q].step = "upsert"
      /\ \A c \in KeysOf(m) : KeyFree(q, c)
      /\ members' = [members EXCEPT ![m] = [role |-> req[q].grant, active |-> TRUE]]
      /\ keys' = [c \in Credentials |-> IF c \in KeysOf(m)
                                          THEN [keys[c] EXCEPT !.role = req[q].grant]
                                          ELSE keys[c]]
      /\ End(q)
      /\ UNCHANGED <<status, settings, record, answers>>

\* revoke_member up to its last read, with a lock on the member.
OpenRevoke(q, m) ==
  /\ May(q, "tenant_member:write")
  /\ MemberFree(q, m)
  /\ members[m].active
  /\ m \in Owners => OtherOwner(m)
  /\ Enter(q, [NoRequest EXCEPT !.step = "revoke", !.member = m])
  /\ UNCHANGED <<status, settings, members, keys, record, answers>>

\* Its update of the keys chooses the rows it is going to write ...
SweepKeys(q) ==
  /\ req[q].step = "revoke"
  /\ Enter(q, [req[q] EXCEPT !.step = "sweep", !.swept = KeysOf(req[q].member)])
  /\ UNCHANGED <<status, settings, members, keys, record, answers>>

\* ... and waits for those that others hold.
RevokeMember(q) ==
  LET m == req[q].member
  IN  /\ req[q].step = "sweep"
      /\ \A c \in req[q].swept : KeyFree(q, c)
      /\ TenantFree(q)
      /\ members' = [members EXCEPT ![m].active = FALSE]
      /\ keys' = [c \in Credentials |-> IF c \in req[q].swept
                                          THEN [keys[c] EXCEPT !.status = "revoked"]
                                          ELSE keys[c]]
      /\ End(q)
      /\ UNCHANGED <<status, settings, record, answers>>

-----------------------------------------------------------------------------
(* Keys *)

Exists(m) == members[m].active

\* create_credential reads the member, without a lock ...
OpenCreate(q, m) ==
  /\ May(q, "tenant_credential:write")
  /\ Exists(m)
  /\ Enter(q, [NoRequest EXCEPT !.step = "create", !.member = m, !.grant = members[m].role])
  /\ UNCHANGED <<status, settings, members, keys, record, answers>>

\* ... and inserts the key with the role it has read.
CreateKey(q, c) ==
  LET m == req[q].member
  IN  /\ req[q].step = "create" /\ keys[c] = NoKey
      /\ MemberFree(q, m) /\ TenantFree(q)
      /\ keys' = [keys EXCEPT ![c] = [NoKey EXCEPT !.status = "live", !.member = m,
                                                   !.role = req[q].grant,
                                                   !.stale = ~members[m].active]]
      /\ End(q)
      /\ UNCHANGED <<status, settings, members, record, answers>>

\* rotate_credential up to its check, with a lock on the key.
OpenRotate(q, c) ==
  /\ May(q, "tenant_credential:write")
  /\ KeyFree(q, c)
  /\ keys[c].status \in {"live", "expired"}
  /\ Enter(q, [NoRequest EXCEPT !.step = "rotate", !.key = c])
  /\ UNCHANGED <<status, settings, members, keys, record, answers>>

\* The new key replaces the old one.
RotateKey(q, d) ==
  LET c == req[q].key
  IN  /\ req[q].step = "rotate" /\ keys[d] = NoKey
      /\ MemberFree(q, keys[c].member) /\ TenantFree(q)
      /\ keys' = [keys EXCEPT ![c].status = "revoked",
                              ![d] = [keys[c] EXCEPT !.status = "live", !.from = c]]
      /\ End(q)
      /\ UNCHANGED <<status, settings, members, record, answers>>

\* revoke_credential.
RevokeKey(q, c) ==
  /\ May(q, "tenant_credential:write")
  /\ KeyFree(q, c) /\ TenantFree(q)
  /\ keys[c].status # "unused"
  /\ keys' = [keys EXCEPT ![c].status = "revoked"]
  /\ End(q)
  /\ UNCHANGED <<status, settings, members, record, answers>>

\* The time a key was given passes; a key may be given none.
Expire(c) ==
  /\ keys[c].status = "live"
  /\ keys' = [keys EXCEPT ![c].status = "expired"]
  /\ UNCHANGED <<status, settings, members, record, answers, req>>

-----------------------------------------------------------------------------
Next ==
  \/ \E q \in Requests :
       \/ Fail(q) \/ Upsert(q) \/ SweepKeys(q) \/ RevokeMember(q)
       \/ \E r \in Rows : ReadSettings(q, r)
       \/ \E k \in ProvisionKeys : OpenProvision(q, k) \/ Replay(q, k)
       \/ \E v \in Values :
            \/ UpdateSettings(q, v) \/ SetEntitlement(q, v)
            \/ \E c \in Credentials, told \in BOOLEAN : Provision(q, c, v, told)
       \/ \E target \in Statuses : TransitionTenant(q, target)
       \/ \E m \in Members : \/ \E r \in GrantedRoles : OpenUpsert(q, m, r)
                             \/ OpenRevoke(q, m) \/ OpenCreate(q, m)
       \/ \E c \in Credentials : \/ Authenticate(q, c) \/ CreateKey(q, c) \/ OpenRotate(q, c)
                                 \/ RotateKey(q, c) \/ RevokeKey(q, c)
  \/ \E c \in Credentials : Expire(c)

Spec == Init /\ [][Next]_vars

-----------------------------------------------------------------------------
(* Properties *)

\* Of several provisioning requests, with one key or with several, repeated when
\* an answer was lost, one creates the tenant, and all are answered with its
\* credential.
ProvisionedOnce == answers \subseteq {record.credential}

\* An update that is accepted was made by a client that had seen the row it
\* changes, and no status of the tenant since: nobody's change is lost in between.
NoLostUpdate ==
  [][\A q \in Requests, r \in Rows :
       /\ settings[r] # NoSetting /\ settings'[r].value # settings[r].value
       /\ req[q].step = "admitted" /\ req'[q] = NoRequest
       => req[q].row = r /\ req[q].seen = settings[r]]_vars

\* Demoting members, which counts the other owners and writes later, never takes
\* the last owner, whoever is removed meanwhile: the tenant's lock keeps two
\* demotions apart, and keeps the audit event of a removal waiting.
DemotionKeepsAnOwner ==
  [][Owners # {} /\ Owners' = {} => \E m \in Owners : members'[m].role = "owner"]_vars

\* A removed member keeps no unrevoked key, but one whose creation had read the
\* member before the removal, or that descends from it: no rotation slips a key
\* past the removal, which has chosen its rows before.
RemovalTakesTheKeys ==
  \A c \in Credentials :
    keys[c].status \in {"live", "expired"} /\ ~members[keys[c].member].active => keys[c].stale
================================================================================
