-------------------------------- MODULE Roles ---------------------------------
(***************************************************************************)
(* Who may do what in the App: the guard of every /api route                *)
(* (app/server/authz.ts) and the resolution of a caller's roles from the    *)
(* allowlists, the cache and the SCIM group lookup (app/server/identity.ts). *)
(*                                                                         *)
(* resolveRoles() runs to its next await at once.  The lookup is awaited, so *)
(* several requests of one user may be in flight together, memberships may  *)
(* change meanwhile, and replies may come back in another order than the    *)
(* lookups were answered in.                                                *)
(***************************************************************************)
EXTENDS Integers, Sequences, SequencesExt, FiniteSets

CONSTANTS
    Users,            \* callers, by e-mail
    AdjusterUsers,    \* ADJUSTER_USERS, the allowlist of adjusters
    BusinessUsers,    \* BUSINESS_USERS
    Movers,           \* the callers whose groups may change
    Actions,          \* the guarded actions that are asked for
    Requests,         \* requests that can be in flight together
    MaxEntries,       \* cacheMaxEntries
    Ttl,              \* cacheTtlMs
    Timeout,          \* scimTimeoutMs
    None              \* no cache entry

Roles == {"adjuster", "business_user"}

\* PERMISSIONS
Permissions ==
    [adjuster |-> {"identity", "queue", "cockpit", "finalize", "claims_history",
                   "cockpit_copilot", "history_chat"},
     business_user |-> {"identity", "business_dashboard", "business_chat",
                        "claims_history", "history_chat"}]

ASSUME RolesAssumption ==
    /\ AdjusterUsers \subseteq Users /\ BusinessUsers \subseteq Users
    /\ Actions \subseteq UNION {Permissions[role] : role \in Roles}
    /\ MaxEntries \in Nat \ {0} /\ Ttl \in Nat \ {0} /\ Timeout \in Nat
    /\ None \notin [roles : SUBSET Roles, ttl : 0..Ttl]

\* The callers on no allowlist: those whose groups are looked up.  A caller
\* without the e-mail header is one of them, whoever it is.
Unlisted == Users \ (AdjusterUsers \cup BusinessUsers)

\* How long an answer may be in use after SCIM has read it.
Window == Ttl + Timeout

\* Time is kept as ages and remaining lifetimes, each up to the point from which
\* on it makes no difference, so that it needs no bound.
VARIABLES
    groups,     \* the roles the groups of each caller stand for at present
    changed,    \* how long ago that last changed, role by role (for the properties)
    entries,    \* the role cache: roles and remaining lifetime of each caller's entry
    order,      \* its callers, the least recently used first
    requests    \* the requests in flight

memberships == <<groups, changed>>
cache == <<entries, order>>
vars == <<memberships, cache, requests>>

-----------------------------------------------------------------------------
(* The matrix *)

\* authorizeSet: some role the caller holds permits the action.
AuthorizeSet(roles, action) == \E role \in roles : action \in Permissions[role]

\* The allowlists, united.
Allowlisted(u) ==
    {role \in Roles : \/ role = "adjuster" /\ u \in AdjusterUsers
                      \/ role = "business_user" /\ u \in BusinessUsers}

-----------------------------------------------------------------------------
(* The cache: a Map, whose insertion order is the order of use *)

\* delete: the user's place in the order goes.
Place(s, u) == CHOOSE i \in DOMAIN s : s[i] = u
Without(s, u) == IF \E i \in DOMAIN s : s[i] = u THEN RemoveAt(s, Place(s, u)) ELSE s

\* get: an entry is live until its time is up.
Live(u) == entries[u] # None /\ entries[u].ttl > 0

\* Faulty: a hit renews the entry's lifetime.
RefreshedForTtl(u) ==
    /\ order' = Append(Without(order, u), u)
    /\ entries' = [entries EXCEPT ![u].ttl = Ttl]

\* get, on a hit: the user becomes the most recently used.
Refreshed(u) == order' = Append(Without(order, u), u) /\ UNCHANGED entries

\* get, on a miss: an expired entry is purged.
Purged(u) ==
    /\ order' = Without(order, u)
    /\ entries' = [entries EXCEPT ![u] = None]

\* The user's entry is made anew, after the first ones of the order have gone.
SetAfter(others, evicted, u, roles) ==
    /\ order' = Append(SubSeq(others, evicted + 1, Len(others)), u)
    /\ entries' = [v \in Unlisted |->
          IF v = u THEN [roles |-> roles, ttl |-> Ttl]
          ELSE IF \E i \in 1..evicted : others[i] = v THEN None ELSE entries[v]]

\* Faulty: one entry too many.
SetOverCapacity(u, roles) ==
    LET others == Without(order, u)
    IN  SetAfter(others, IF Len(others) > MaxEntries THEN Len(others) - MaxEntries ELSE 0,
                 u, roles)

\* set: while the cache is full the least recently used entry goes.
Set(u, roles) ==
    LET others == Without(order, u)
    IN  SetAfter(others, IF Len(others) < MaxEntries THEN 0 ELSE Len(others) - MaxEntries + 1,
                 u, roles)

-----------------------------------------------------------------------------
(* resolveRoles() and the guard *)

Idle == [stage |-> "idle"]

\* A lookup that awaits its answer; SCIM has read the memberships, and the answer
\* is on its way; the guard is through.  named: the e-mail header is there.
Asking == [stage : {"asking"}, user : Unlisted, action : Actions, named : BOOLEAN,
           age : 0..Timeout + 1]
Told == [stage : {"told"}, user : Unlisted, action : Actions, named : BOOLEAN,
         age : 0..Timeout + 1, roles : SUBSET Roles]
Replies == {"next", "role_not_permitted", "no_role", "role_resolution_failed"}
Replied == [stage : {"replied"}, user : Users, action : Actions, token : BOOLEAN,
            reply : Replies]

\* The guard on the resolved set; an empty one is a denial.
Reply(r, u, action, roles, token) ==
    requests' = [requests EXCEPT ![r] =
      [stage |-> "replied", user |-> u, action |-> action, token |-> token,
       reply |-> IF AuthorizeSet(roles, action) THEN "next"
                 ELSE IF roles # {} THEN "role_not_permitted" ELSE "no_role"]]

\* (1) The allowlists, when they yield a role.
ByAllowlist(r, u, action) ==
    /\ requests[r] = Idle
    /\ Allowlisted(u) # {}
    /\ \E token \in BOOLEAN : Reply(r, u, action, Allowlisted(u), token)
    /\ UNCHANGED <<memberships, cache>>

\* (2) No token: a hard deny.
WithoutToken(r, u, action) ==
    /\ requests[r] = Idle
    /\ u \in Unlisted
    /\ Reply(r, u, action, {}, FALSE)
    /\ UNCHANGED <<memberships, cache>>

\* (3) The cache.
ByCache(r, u, action) ==
    /\ requests[r] = Idle
    /\ u \in Unlisted /\ Live(u)
    /\ Reply(r, u, action, entries[u].roles, TRUE)
    /\ Refreshed(u)
    /\ UNCHANGED memberships

\* (4) The lookup, up to its await.
Lookup(r, u, action, named) ==
    /\ requests[r] = Idle
    /\ u \in Unlisted
    /\ named => ~Live(u)
    /\ IF named THEN Purged(u) ELSE UNCHANGED cache
    /\ requests' = [requests EXCEPT ![r] =
                      [stage |-> "asking", user |-> u, action |-> action,
                       named |-> named, age |-> 0]]
    /\ UNCHANGED memberships

InTime(r) == requests[r].age <= Timeout

\* SCIM reads the memberships at some moment before it answers.
ScimReads(r) ==
    LET req == requests[r]
    IN  /\ req.stage = "asking"
        /\ InTime(r)
        /\ requests' = [requests EXCEPT ![r] =
                          [stage |-> "told", user |-> req.user, action |-> req.action,
                           named |-> req.named, age |-> req.age,
                           roles |-> groups[req.user]]]
        /\ UNCHANGED <<memberships, cache>>

\* Faulty: a denial is cached as well.
CacheEveryReply(r) ==
    LET req == requests[r]
    IN  /\ req.stage = "told"
        /\ InTime(r)
        /\ IF req.named THEN Set(req.user, req.roles) ELSE UNCHANGED cache
        /\ Reply(r, req.user, req.action, req.roles, TRUE)
        /\ UNCHANGED memberships

\* The answer is back in time: a non-empty set is cached from now on, an empty
\* one is not.
ScimReplies(r) ==
    LET req == requests[r]
    IN  /\ req.stage = "told"
        /\ InTime(r)
        /\ IF req.named /\ req.roles # {} THEN Set(req.user, req.roles) ELSE UNCHANGED cache
        /\ Reply(r, req.user, req.action, req.roles, TRUE)
        /\ UNCHANGED memberships

\* An error, a bad status, a body that does not parse or the timeout: 403, and
\* nothing is cached.
LookupFails(r) ==
    LET req == requests[r]
    IN  /\ req.stage \in {"asking", "told"}
        /\ requests' = [requests EXCEPT ![r] =
                          [stage |-> "replied", user |-> req.user, action |-> req.action,
                           token |-> TRUE, reply |-> "role_resolution_failed"]]
        /\ UNCHANGED <<memberships, cache>>

\* The handler runs, or the denial is sent, and the request is over.
End(r) ==
    /\ requests[r].stage = "replied"
    /\ requests' = [requests EXCEPT ![r] = Idle]
    /\ UNCHANGED <<memberships, cache>>

-----------------------------------------------------------------------------
(* The environment *)

ChangeGroups(u, role) ==
    /\ groups' = [groups EXCEPT ![u] = IF role \in @ THEN @ \ {role} ELSE @ \cup {role}]
    /\ changed' = [changed EXCEPT ![u][role] = 0]
    /\ UNCHANGED <<cache, requests>>

Older(age, limit) == IF age < limit THEN age + 1 ELSE age

Tick ==
    /\ changed' = [u \in Unlisted |-> [role \in Roles |-> Older(changed[u][role], Window)]]
    /\ entries' = [u \in Unlisted |->
         IF ~Live(u) THEN entries[u] ELSE [entries[u] EXCEPT !.ttl = @ - 1]]
    /\ requests' = [r \in Requests |->
         IF requests[r].stage \in {"asking", "told"}
         THEN [requests[r] EXCEPT !.age = Older(@, Timeout + 1)] ELSE requests[r]]
    /\ UNCHANGED <<groups, order>>

-----------------------------------------------------------------------------
\* Memberships have been what they are since long ago.
Init ==
    /\ groups \in [Unlisted -> SUBSET Roles]
    /\ changed = [u \in Unlisted |-> [role \in Roles |-> Window]]
    /\ entries = [u \in Unlisted |-> None]
    /\ order = <<>>
    /\ requests = [r \in Requests |-> Idle]

Next ==
    \/ \E r \in Requests, u \in Users, action \in Actions :
         \/ ByAllowlist(r, u, action) \/ WithoutToken(r, u, action)
         \/ ByCache(r, u, action)
         \/ \E named \in BOOLEAN : Lookup(r, u, action, named)
    \/ \E r \in Requests : ScimReads(r) \/ ScimReplies(r) \/ LookupFails(r) \/ End(r)
    \/ \E u \in Movers \cap Unlisted, role \in Roles : ChangeGroups(u, role)
    \/ Tick

Spec == Init /\ [][Next]_vars

-----------------------------------------------------------------------------
(* Properties *)

\* What the cache stores: a role set that is never empty (identity.ts:231).
Entry == [roles : (SUBSET Roles) \ {{}}, ttl : 0..Ttl]

\* Every variable but the order of use keeps its shape.
Shapes ==
    /\ groups \in [Unlisted -> SUBSET Roles]
    /\ changed \in [Unlisted -> [Roles -> 0..Window]]
    /\ entries \in [Unlisted -> {None} \cup Entry]
    /\ requests \in [Requests -> {Idle} \cup Asking \cup Told \cup Replied]

\* Every variable keeps its shape; no denial is ever cached.
TypeOK == Shapes /\ order \in Seq(Unlisted)

\* An answer on its way is right about each role, or that role has changed since
\* the request was sent, or the answer comes too late to be used.
ToldIsRecent ==
    \A r \in Requests : requests[r].stage = "told" =>
      LET req == requests[r]
      IN  \A role \in Roles :
            \/ role \in req.roles <=> role \in groups[req.user]
            \/ changed[req.user][role] <= req.age
            \/ ~InTime(r)

\* A cached answer is right about each role, or that role has changed within the
\* part of the window the entry has used up.
CachedIsRecent ==
    \A u \in Unlisted : entries[u] # None =>
      \A role \in Roles :
        \/ role \in entries[u].roles <=> role \in groups[u]
        \/ changed[u][role] + entries[u].ttl <= Window

\* The two together are inductive: what a request or the cache knows of a role is
\* outdated only for as long as its own age allows (identity.ts:174-181, 264, 303).
KnownIsRecent == Shapes /\ ToldIsRecent /\ CachedIsRecent

\* The cache holds each caller once and no more callers than its capacity, through
\* every refresh, purge and eviction of requests in flight (identity.ts:174-181).
CacheBounded ==
    /\ Len(order) <= MaxEntries
    /\ ToSet(order) = {u \in Unlisted : entries[u] # None}
    /\ Len(order) = Cardinality(ToSet(order))

\* The request is answered in this step.
Answered(r) == requests[r].stage # "replied" /\ requests'[r].stage = "replied"

\* A grant, if this step answers r with one, is current.
GrantIsCurrent(r) ==
    Answered(r) /\ requests'[r].reply = "next" =>
      LET u == requests'[r].user
      IN  \E role \in Roles :
            /\ requests'[r].action \in Permissions[role]
            /\ \/ role \in Allowlisted(u)
               \/ u \in Unlisted /\ (role \in groups[u] \/ changed[u][role] < Window)

\* A denial, if this step answers r with one, is current.
DenialIsCurrent(r) ==
    LET req == requests'[r]
        u == req.user
    IN  Answered(r) /\ req.token /\ u \in Unlisted =>
          \A role \in groups[u] :
            /\ req.reply = "no_role" => changed[u][role] <= Timeout
            /\ req.reply = "role_not_permitted" /\ req.action \in Permissions[role]
                 => changed[u][role] < Window

\* No stale power: whoever is let through is on an allowlist for a role that
\* permits the action, or has been in a group of such a role within the cache's
\* lifetime and a lookup's timeout, however lookups overlapped (identity.ts:33-36).
GrantsAreCurrent == [][\A r \in Requests : GrantIsCurrent(r)]_vars

\* No stale denial: a caller on no allowlist who presents a token is denied for
\* want of a role only if the lookup itself has found none, and for having the
\* wrong one only as long as an answer may live in the cache (identity.ts:303).
DenialsAreCurrent == [][\A r \in Requests : DenialIsCurrent(r)]_vars
=============================================================================
