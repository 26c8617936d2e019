------------------------------ MODULE RolesProofs -----------------------------
(* Theorems of Roles for every value of its constants. *)
EXTENDS Roles, SequenceTheorems, FiniteSetTheorems, TLAPS

-----------------------------------------------------------------------------
(* Facts about requests and roles *)

\* The bounds of ages and lifetimes are natural numbers.
LEMMA BoundTypes ==
    /\ Ttl \in Nat /\ Ttl >= 1 /\ Timeout \in Nat
    /\ Window \in Nat /\ Timeout + 1 <= Window
  BY RolesAssumption DEF Window

\* The stage of a request tells its fields.
LEMMA StageTypes ==
    ASSUME NEW req \in {Idle} \cup Asking \cup Told \cup Replied
    PROVE  /\ req.stage = "asking" => req \in Asking
           /\ req.stage = "told" => req \in Told
           /\ req.stage = "replied" => req \in Replied
  BY DEF Idle, Asking, Told, Replied

\* No value is both an entry and the absence of one.
LEMMA EntryExists == None \notin Entry
  BY RolesAssumption DEF Entry

\* The guard's answer is a reply, and is a grant only if a role permits the action.
LEMMA ReplyType ==
    ASSUME NEW r \in Requests, NEW u \in Users, NEW action \in Actions,
           NEW roles \in SUBSET Roles, NEW token \in BOOLEAN,
           Shapes, Reply(r, u, action, roles, token)
    PROVE  /\ requests' \in [Requests -> {Idle} \cup Asking \cup Told \cup Replied]
           /\ requests'[r] \in Replied
           /\ requests'[r].user = u
           /\ requests'[r].action = action
           /\ requests'[r].token = token
           /\ requests'[r].reply = "next" => AuthorizeSet(roles, action)
           /\ requests'[r].reply = "no_role" => roles = {}
           /\ requests'[r].reply = "role_not_permitted" => ~AuthorizeSet(roles, action)
           /\ requests'[r].stage = "replied"
           /\ \A q \in Requests \ {r} : requests'[q] = requests[q]
  <1> DEFINE reply == IF AuthorizeSet(roles, action) THEN "next"
                      ELSE IF roles # {} THEN "role_not_permitted" ELSE "no_role"
             answer == [stage |-> "replied", user |-> u, action |-> action,
                        token |-> token, reply |-> reply]
  <1>1. /\ reply \in Replies
        /\ reply = "next" => AuthorizeSet(roles, action)
        /\ reply = "no_role" => roles = {}
        /\ reply = "role_not_permitted" => ~AuthorizeSet(roles, action)
    BY DEF Replies
  <1>2. requests' = [requests EXCEPT ![r] = answer]
    BY DEF Reply
  <1> HIDE DEF reply
  <1>3. answer \in Replied
    BY <1>1 DEF Replied
  <1>4. requests'[r] = answer /\ \A q \in Requests \ {r} : requests'[q] = requests[q]
    BY <1>2 DEF Shapes
  <1>5. /\ answer.stage = "replied" /\ answer.user = u /\ answer.action = action
        /\ answer.token = token /\ answer.reply = reply
    OBVIOUS
  <1> HIDE DEF answer
  <1>6. requests' \in [Requests -> {Idle} \cup Asking \cup Told \cup Replied]
    BY <1>2, <1>3 DEF Shapes
  <1> QED  BY <1>1, <1>3, <1>4, <1>5, <1>6

\* Setting the cache leaves every entry but the user's as it was, or empty.
LEMMA SetEntries ==
    ASSUME NEW u \in Unlisted, NEW roles \in SUBSET Roles, roles # {},
           Shapes, Set(u, roles)
    PROVE  /\ entries' \in [Unlisted -> {None} \cup Entry]
           /\ entries'[u] = [roles |-> roles, ttl |-> Ttl]
           /\ \A v \in Unlisted \ {u} : entries'[v] \in {None, entries[v]}
  <1>1. PICK others, evicted :
          entries' = [v \in Unlisted |->
              IF v = u THEN [roles |-> roles, ttl |-> Ttl]
              ELSE IF \E i \in 1..evicted : others[i] = v THEN None ELSE entries[v]]
    BY DEF Set, SetAfter
  <1>2. [roles |-> roles, ttl |-> Ttl] \in Entry
    BY BoundTypes DEF Entry
  <1>3. \A v \in Unlisted : entries[v] \in {None} \cup Entry
    BY DEF Shapes
  <1> QED  BY <1>1, <1>2, <1>3

-----------------------------------------------------------------------------
(* The invariant *)

\* Nobody has asked yet, and nothing is cached.
LEMMA InitKnown == Init => KnownIsRecent
  <1> SUFFICES ASSUME Init PROVE KnownIsRecent
    OBVIOUS
  <1>1. Shapes
    BY BoundTypes DEF Init, Shapes
  <1>2. ToldIsRecent
    BY DEF Init, ToldIsRecent, Idle
  <1>3. CachedIsRecent
    BY DEF Init, CachedIsRecent
  <1> QED  BY <1>1, <1>2, <1>3 DEF KnownIsRecent

\* What is asked by a request and told to it, when only that request moves and it
\* ends up replied or idle.
LEMMA OneRequestMoves ==
    ASSUME NEW r \in Requests, KnownIsRecent, UNCHANGED memberships,
           requests'[r].stage # "told",
           \A q \in Requests \ {r} : requests'[q] = requests[q]
    PROVE  ToldIsRecent'
  <1> SUFFICES ASSUME NEW q \in Requests, requests'[q].stage = "told", NEW role \in Roles
               PROVE  \/ role \in requests'[q].roles <=> role \in groups'[requests'[q].user]
                      \/ changed'[requests'[q].user][role] <= requests'[q].age
                      \/ ~InTime(q)'
    BY DEF ToldIsRecent
  <1>1. q # r /\ requests'[q] = requests[q]
    OBVIOUS
  <1> QED  BY <1>1 DEF KnownIsRecent, ToldIsRecent, InTime, memberships

\* What is cached, when entries may only vanish.
LEMMA EntriesVanish ==
    ASSUME KnownIsRecent, UNCHANGED memberships,
           \A v \in Unlisted : entries'[v] \in {None, entries[v]}
    PROVE  CachedIsRecent'
  BY DEF KnownIsRecent, CachedIsRecent, memberships

\* An answer from an allowlist or without a token touches nothing else.
LEMMA StepUncached ==
    ASSUME KnownIsRecent, NEW r \in Requests, NEW u \in Users, NEW action \in Actions,
           ByAllowlist(r, u, action) \/ WithoutToken(r, u, action)
    PROVE  KnownIsRecent'
  <1>1. \E roles \in SUBSET Roles, token \in BOOLEAN : Reply(r, u, action, roles, token)
    <2>1. Allowlisted(u) \in SUBSET Roles /\ {} \in SUBSET Roles /\ FALSE \in BOOLEAN
      BY DEF Allowlisted
    <2> QED  BY <2>1 DEF ByAllowlist, WithoutToken
  <1>2. UNCHANGED <<memberships, cache>>
    BY DEF ByAllowlist, WithoutToken
  <1>3. Shapes
    BY DEF KnownIsRecent
  <1>4. /\ requests' \in [Requests -> {Idle} \cup Asking \cup Told \cup Replied]
        /\ requests'[r].stage = "replied"
        /\ \A q \in Requests \ {r} : requests'[q] = requests[q]
    <2>1. ASSUME NEW roles \in SUBSET Roles, NEW token \in BOOLEAN,
                 Reply(r, u, action, roles, token)
          PROVE  /\ requests' \in [Requests -> {Idle} \cup Asking \cup Told \cup Replied]
                 /\ requests'[r].stage = "replied"
                 /\ \A q \in Requests \ {r} : requests'[q] = requests[q]
      BY <1>3, <2>1, ReplyType
    <2> QED  BY <1>1, <2>1
  <1>5. Shapes'
    BY <1>2, <1>3, <1>4 DEF Shapes, memberships, cache
  <1>6. ToldIsRecent'
    BY <1>2, <1>4, OneRequestMoves
  <1>7. CachedIsRecent'
    BY <1>2, EntriesVanish DEF cache
  <1> QED  BY <1>5, <1>6, <1>7 DEF KnownIsRecent

\* An answer from the cache moves its entry in the order only.
LEMMA StepByCache ==
    ASSUME KnownIsRecent, NEW r \in Requests, NEW u \in Users, NEW action \in Actions,
           ByCache(r, u, action)
    PROVE  KnownIsRecent'
  <1>1. u \in Unlisted /\ entries[u] # None /\ Shapes
    BY DEF ByCache, Live, KnownIsRecent
  <1>2. entries[u].roles \in SUBSET Roles
    BY <1>1 DEF Shapes, Entry
  <1>3. Reply(r, u, action, entries[u].roles, TRUE) /\ UNCHANGED <<memberships, entries>>
    BY DEF ByCache, Refreshed
  <1>4. /\ requests' \in [Requests -> {Idle} \cup Asking \cup Told \cup Replied]
        /\ requests'[r].stage = "replied"
        /\ \A q \in Requests \ {r} : requests'[q] = requests[q]
    BY <1>1, <1>2, <1>3, ReplyType, ZenonT(60)
  <1>5. Shapes'
    BY <1>1, <1>3, <1>4 DEF Shapes, memberships
  <1>6. ToldIsRecent'
    BY <1>3, <1>4, OneRequestMoves
  <1>7. CachedIsRecent'
    BY <1>3, EntriesVanish
  <1> QED  BY <1>5, <1>6, <1>7 DEF KnownIsRecent

\* A lookup is sent: an expired entry may go.
LEMMA StepLookup ==
    ASSUME KnownIsRecent, NEW r \in Requests, NEW u \in Users, NEW action \in Actions,
           NEW named \in BOOLEAN, Lookup(r, u, action, named)
    PROVE  KnownIsRecent'
  <1> DEFINE question == [stage |-> "asking", user |-> u, action |-> action,
                          named |-> named, age |-> 0]
  <1>1. u \in Unlisted /\ UNCHANGED memberships /\ requests' = [requests EXCEPT ![r] = question]
    BY DEF Lookup
  <1>2. Shapes
    BY DEF KnownIsRecent
  <1>3. question \in Asking /\ question.stage = "asking"
    BY <1>1, BoundTypes DEF Asking
  <1> HIDE DEF question
  <1>4. /\ requests' \in [Requests -> {Idle} \cup Asking \cup Told \cup Replied]
        /\ requests'[r] = question
        /\ \A q \in Requests \ {r} : requests'[q] = requests[q]
    BY <1>1, <1>2, <1>3 DEF Shapes
  <1>5. entries' = entries \/ entries' = [entries EXCEPT ![u] = None]
    BY DEF Lookup, Purged, cache
  <1>6. /\ entries' \in [Unlisted -> {None} \cup Entry]
        /\ \A v \in Unlisted : entries'[v] \in {None, entries[v]}
    BY <1>1, <1>2, <1>5 DEF Shapes
  <1>7. Shapes'
    BY <1>1, <1>2, <1>4, <1>6 DEF Shapes, memberships
  <1>8. ToldIsRecent'
    BY <1>1, <1>3, <1>4, OneRequestMoves
  <1>9. CachedIsRecent'
    BY <1>1, <1>6, EntriesVanish
  <1> QED  BY <1>7, <1>8, <1>9 DEF KnownIsRecent

\* SCIM reads the memberships: what it has read is right at present.
LEMMA StepScimReads ==
    ASSUME KnownIsRecent, NEW r \in Requests, ScimReads(r)
    PROVE  KnownIsRecent'
  <1> DEFINE req == requests[r]
             told == [stage |-> "told", user |-> req.user, action |-> req.action,
                      named |-> req.named, age |-> req.age, roles |-> groups[req.user]]
  <1>1. req \in Asking /\ UNCHANGED <<memberships, cache>>
    BY StageTypes DEF ScimReads, KnownIsRecent, Shapes
  <1>2. requests' = [requests EXCEPT ![r] = told]
    BY DEF ScimReads
  <1>3. told \in Told /\ told.user = req.user /\ told.roles = groups[req.user]
    BY <1>1 DEF Asking, Told, KnownIsRecent, Shapes
  <1> HIDE DEF told
  <1>4. Shapes'
    BY <1>1, <1>2, <1>3 DEF KnownIsRecent, Shapes, memberships, cache
  <1>5. ToldIsRecent'
    <2> SUFFICES ASSUME NEW q \in Requests, requests'[q].stage = "told", NEW role \in Roles
                 PROVE  \/ role \in requests'[q].roles <=> role \in groups'[requests'[q].user]
                        \/ changed'[requests'[q].user][role] <= requests'[q].age
                        \/ ~InTime(q)'
      BY DEF ToldIsRecent
    <2>1. CASE q = r
      <3>1. requests'[q] = told
        BY <1>2, <2>1 DEF KnownIsRecent, Shapes
      <3> QED  BY <1>1, <1>3, <3>1 DEF memberships
    <2>2. CASE q # r
      <3>1. requests'[q] = requests[q]
        BY <1>2, <2>2 DEF KnownIsRecent, Shapes
      <3> QED  BY <1>1, <3>1 DEF KnownIsRecent, ToldIsRecent, InTime, memberships
    <2> QED  BY <2>1, <2>2
  <1>6. CachedIsRecent'
    BY <1>1, EntriesVanish DEF cache
  <1> QED  BY <1>4, <1>5, <1>6 DEF KnownIsRecent

\* A reply in time: the request's knowledge becomes the entry's, and the rest of
\* the window is the entry's lifetime.
LEMMA StepScimReplies ==
    ASSUME KnownIsRecent, NEW r \in Requests, ScimReplies(r)
    PROVE  KnownIsRecent'
  <1> DEFINE req == requests[r]
  <1>1. req \in Told /\ Shapes /\ UNCHANGED memberships
    BY StageTypes DEF ScimReplies, KnownIsRecent, Shapes
  <1>2. /\ req.user \in Unlisted /\ req.user \in Users /\ req.action \in Actions
        /\ req.roles \in SUBSET Roles /\ req.age \in Nat /\ req.age <= Timeout
    BY <1>1, BoundTypes DEF Told, Unlisted, ScimReplies, InTime
  <1>3. Reply(r, req.user, req.action, req.roles, TRUE)
    BY DEF ScimReplies
  <1>4. /\ requests' \in [Requests -> {Idle} \cup Asking \cup Told \cup Replied]
        /\ requests'[r].stage = "replied"
        /\ \A q \in Requests \ {r} : requests'[q] = requests[q]
    BY <1>1, <1>2, <1>3, ReplyType, ZenonT(60)
  <1>5. ToldIsRecent'
    BY <1>1, <1>4, OneRequestMoves
  <1>6. CASE UNCHANGED cache
    <2>1. Shapes' /\ \A v \in Unlisted : entries'[v] = entries[v]
      BY <1>1, <1>4, <1>6 DEF Shapes, memberships, cache
    <2>2. CachedIsRecent'
      BY <1>1, <2>1, EntriesVanish
    <2> QED  BY <1>5, <2>1, <2>2 DEF KnownIsRecent
  <1>7. CASE req.roles # {} /\ Set(req.user, req.roles)
    <2>1. /\ entries' \in [Unlisted -> {None} \cup Entry]
          /\ entries'[req.user] = [roles |-> req.roles, ttl |-> Ttl]
          /\ \A v \in Unlisted \ {req.user} : entries'[v] \in {None, entries[v]}
      BY <1>1, <1>2, <1>7, SetEntries
    <2>2. Shapes'
      BY <1>1, <1>4, <2>1 DEF Shapes, memberships
    <2>3. ASSUME NEW role \in Roles
          PROVE  \/ role \in req.roles <=> role \in groups[req.user]
                 \/ changed[req.user][role] + Ttl <= Window
      <3>1. \/ role \in req.roles <=> role \in groups[req.user]
            \/ changed[req.user][role] <= req.age
        BY DEF KnownIsRecent, ToldIsRecent, ScimReplies
      <3>2. changed[req.user][role] \in Nat
        BY <1>1, <1>2, BoundTypes DEF Shapes
      <3> QED  BY <1>2, <3>1, <3>2, BoundTypes DEF Window
    <2>4. CachedIsRecent'
      <3> SUFFICES ASSUME NEW v \in Unlisted, entries'[v] # None, NEW role \in Roles
                   PROVE  \/ role \in entries'[v].roles <=> role \in groups'[v]
                          \/ changed'[v][role] + entries'[v].ttl <= Window
        BY DEF CachedIsRecent, Window
      <3>1. CASE v = req.user
        BY <1>1, <2>1, <2>3, <3>1 DEF memberships
      <3>2. CASE v # req.user
        <4>1. entries'[v] = entries[v]
          BY <2>1, <3>2
        <4> QED  BY <1>1, <4>1 DEF KnownIsRecent, CachedIsRecent, memberships
      <3> QED  BY <3>1, <3>2
    <2> QED  BY <1>5, <2>2, <2>4 DEF KnownIsRecent
  <1> QED  BY <1>6, <1>7 DEF ScimReplies

\* A lookup that fails and a request that ends know nothing any more.
LEMMA StepOver ==
    ASSUME KnownIsRecent, NEW r \in Requests, LookupFails(r) \/ End(r)
    PROVE  KnownIsRecent'
  <1> DEFINE req == requests[r]
             failure == [stage |-> "replied", user |-> req.user, action |-> req.action,
                         token |-> TRUE, reply |-> "role_resolution_failed"]
  <1>1. Shapes /\ UNCHANGED <<memberships, cache>>
    BY DEF LookupFails, End, KnownIsRecent
  <1>2. \E now \in {Idle} \cup Replied : now.stage # "told" /\ requests' = [requests EXCEPT ![r] = now]
    <2>1. CASE LookupFails(r)
      <3>1. req \in Asking \cup Told
        BY <1>1, <2>1, StageTypes DEF LookupFails, Shapes
      <3>2. failure \in Replied /\ failure.stage # "told"
        BY <3>1 DEF Asking, Told, Replied, Replies, Unlisted
      <3>3. requests' = [requests EXCEPT ![r] = failure]
        BY <2>1 DEF LookupFails
      <3> QED  BY <3>2, <3>3
    <2>2. CASE End(r)
      BY <2>2 DEF End, Idle
    <2> QED  BY <2>1, <2>2
  <1>3. /\ requests' \in [Requests -> {Idle} \cup Asking \cup Told \cup Replied]
        /\ requests'[r].stage # "told"
        /\ \A q \in Requests \ {r} : requests'[q] = requests[q]
    BY <1>1, <1>2 DEF Shapes
  <1>4. Shapes'
    BY <1>1, <1>3 DEF Shapes, memberships, cache
  <1>5. ToldIsRecent'
    BY <1>1, <1>3, OneRequestMoves
  <1>6. CachedIsRecent'
    BY <1>1, EntriesVanish DEF cache
  <1> QED  BY <1>4, <1>5, <1>6 DEF KnownIsRecent

\* A membership changes: whatever is known of that role is outdated from now on.
LEMMA StepChangeGroups ==
    ASSUME KnownIsRecent, NEW u \in Unlisted, NEW role \in Roles, ChangeGroups(u, role)
    PROVE  KnownIsRecent'
  <1>1. /\ Shapes /\ UNCHANGED <<cache, requests>>
        /\ groups' = [groups EXCEPT ![u] = IF role \in @ THEN @ \ {role} ELSE @ \cup {role}]
        /\ changed' = [changed EXCEPT ![u][role] = 0]
    BY DEF ChangeGroups, KnownIsRecent
  <1>2. Shapes'
    <2>1. groups' \in [Unlisted -> SUBSET Roles]
      BY <1>1 DEF Shapes
    <2>2. changed' \in [Unlisted -> [Roles -> 0..Window]]
      BY <1>1, BoundTypes DEF Shapes
    <2> QED  BY <1>1, <2>1, <2>2 DEF Shapes, cache
  <1>3. ASSUME NEW v \in Unlisted, NEW known \in Roles
        PROVE  \/ changed'[v][known] = 0
               \/ /\ changed'[v][known] = changed[v][known]
                  /\ known \in groups'[v] <=> known \in groups[v]
    <2>1. CASE v = u /\ known = role
      BY <1>1, <2>1 DEF Shapes
    <2>2. CASE v = u /\ known # role
      BY <1>1, <2>2 DEF Shapes
    <2>3. CASE v # u
      BY <1>1, <2>3 DEF Shapes
    <2> QED  BY <2>1, <2>2, <2>3
  <1>4. ToldIsRecent'
    <2> SUFFICES ASSUME NEW q \in Requests, requests[q].stage = "told", NEW known \in Roles
                 PROVE  \/ known \in requests[q].roles <=> known \in groups'[requests[q].user]
                        \/ changed'[requests[q].user][known] <= requests[q].age
                        \/ ~InTime(q)
      BY <1>1 DEF ToldIsRecent, InTime
    <2>1. requests[q].user \in Unlisted /\ 0 <= requests[q].age
      BY <1>1, StageTypes, BoundTypes DEF Shapes, Told
    <2>2. \/ known \in requests[q].roles <=> known \in groups[requests[q].user]
          \/ changed[requests[q].user][known] <= requests[q].age
          \/ ~InTime(q)
      BY DEF KnownIsRecent, ToldIsRecent
    <2> QED  BY <1>3, <2>1, <2>2
  <1>5. CachedIsRecent'
    <2> SUFFICES ASSUME NEW v \in Unlisted, entries[v] # None, NEW known \in Roles
                 PROVE  \/ known \in entries[v].roles <=> known \in groups'[v]
                        \/ changed'[v][known] + entries[v].ttl <= Window
      BY <1>1 DEF CachedIsRecent, cache, Window
    <2>1. entries[v].ttl \in 0..Ttl
      BY <1>1 DEF Shapes, Entry
    <2>2. 0 + entries[v].ttl <= Window
      BY <2>1, BoundTypes DEF Window
    <2>3. \/ known \in entries[v].roles <=> known \in groups[v]
          \/ changed[v][known] + entries[v].ttl <= Window
      BY DEF KnownIsRecent, CachedIsRecent
    <2> QED  BY <1>3, <2>2, <2>3
  <1> QED  BY <1>2, <1>4, <1>5 DEF KnownIsRecent

\* An age grows by at most one, and stays below its limit.
LEMMA OlderType ==
    ASSUME NEW limit \in Nat, NEW age \in 0..limit
    PROVE  /\ Older(age, limit) \in 0..limit
           /\ Older(age, limit) <= age + 1
           /\ age < limit => Older(age, limit) = age + 1
           /\ age = limit => Older(age, limit) = limit
  BY DEF Older

\* Time passes for changes, entries and requests alike.
LEMMA StepTick ==
    ASSUME KnownIsRecent, Tick
    PROVE  KnownIsRecent'
  <1>1. Shapes /\ UNCHANGED <<groups, order>>
    BY DEF Tick, KnownIsRecent
  <1>2. ASSUME NEW u \in Unlisted, NEW role \in Roles
        PROVE  /\ changed[u][role] \in 0..Window
               /\ changed'[u][role] \in 0..Window
               /\ changed'[u][role] <= changed[u][role] + 1
    <2>1. changed[u][role] \in 0..Window /\ changed'[u][role] = Older(changed[u][role], Window)
      BY <1>1 DEF Tick, Shapes
    <2> QED  BY <2>1, BoundTypes, OlderType
  <1>3. ASSUME NEW u \in Unlisted
        PROVE  \/ entries'[u] = entries[u] /\ (entries[u] = None \/ entries[u].ttl = 0)
               \/ /\ entries[u] \in Entry /\ entries'[u] \in Entry
                  /\ entries'[u].roles = entries[u].roles
                  /\ entries'[u].ttl = entries[u].ttl - 1
    <2>1. entries[u] \in {None} \cup Entry
      BY <1>1 DEF Shapes
    <2>2. entries'[u] = IF ~Live(u) THEN entries[u] ELSE [entries[u] EXCEPT !.ttl = @ - 1]
      BY DEF Tick
    <2> QED  BY <2>1, <2>2, BoundTypes DEF Live, Entry
  <1>4. entries' \in [Unlisted -> {None} \cup Entry]
    <2>1. entries' = [u \in Unlisted |-> entries'[u]]
      BY DEF Tick
    <2>2. \A u \in Unlisted : entries'[u] \in {None} \cup Entry
      BY <1>1, <1>3 DEF Shapes
    <2> QED  BY <2>1, <2>2
  <1>5. ASSUME NEW q \in Requests
        PROVE  /\ requests'[q] \in {Idle} \cup Asking \cup Told \cup Replied
               /\ requests'[q].stage = requests[q].stage
               /\ requests[q].stage = "told" =>
                    /\ requests'[q].user = requests[q].user
                    /\ requests'[q].roles = requests[q].roles
                    /\ requests'[q].age = Older(requests[q].age, Timeout + 1)
                    /\ requests[q].age \in 0..Timeout + 1
                    /\ requests[q].user \in Unlisted
    <2>1. requests[q] \in {Idle} \cup Asking \cup Told \cup Replied
      BY <1>1 DEF Shapes
    <2>2. requests'[q] = IF requests[q].stage \in {"asking", "told"}
                         THEN [requests[q] EXCEPT !.age = Older(@, Timeout + 1)] ELSE requests[q]
      BY DEF Tick
    <2>3. CASE requests[q].stage = "asking"
      <3>1. requests[q] \in Asking
        BY <2>1, <2>3, StageTypes
      <3>2. Older(requests[q].age, Timeout + 1) \in 0..Timeout + 1
        BY <3>1, BoundTypes DEF Asking, Older
      <3> QED  BY <2>2, <2>3, <3>1, <3>2 DEF Asking
    <2>4. CASE requests[q].stage = "told"
      <3>1. requests[q] \in Told
        BY <2>1, <2>4, StageTypes
      <3>2. Older(requests[q].age, Timeout + 1) \in 0..Timeout + 1
        BY <3>1, BoundTypes DEF Told, Older
      <3> QED  BY <2>2, <2>4, <3>1, <3>2 DEF Told
    <2>5. CASE requests[q].stage \notin {"asking", "told"}
      BY <2>1, <2>2, <2>5
    <2> QED  BY <2>3, <2>4, <2>5
  <1>6. Shapes'
    <2>1. changed' \in [Unlisted -> [Roles -> 0..Window]]
      <3>1. changed' = [u \in Unlisted |-> [role \in Roles |-> Older(changed[u][role], Window)]]
        BY DEF Tick
      <3>2. \A u \in Unlisted, role \in Roles : Older(changed[u][role], Window) \in 0..Window
        BY <1>1, BoundTypes, OlderType DEF Shapes
      <3> QED  BY <3>1, <3>2
    <2>2. requests' \in [Requests -> {Idle} \cup Asking \cup Told \cup Replied]
      <3>1. requests' = [q \in Requests |-> requests'[q]]
        BY DEF Tick
      <3> QED  BY <1>5, <3>1
    <2> QED  BY <1>1, <1>4, <2>1, <2>2 DEF Shapes
  <1>7. ToldIsRecent'
    <2> SUFFICES ASSUME NEW q \in Requests, requests'[q].stage = "told", NEW role \in Roles
                 PROVE  \/ role \in requests'[q].roles <=> role \in groups'[requests'[q].user]
                        \/ changed'[requests'[q].user][role] <= requests'[q].age
                        \/ ~(requests'[q].age <= Timeout)
      BY DEF ToldIsRecent, InTime
    <2> DEFINE u == requests[q].user
    <2>1. /\ requests[q].stage = "told" /\ u \in Unlisted
          /\ requests'[q].user = u /\ requests'[q].roles = requests[q].roles
          /\ requests'[q].age = Older(requests[q].age, Timeout + 1)
          /\ requests[q].age \in 0..Timeout + 1
      BY <1>5
    <2>2. \/ role \in requests[q].roles <=> role \in groups[u]
          \/ changed[u][role] <= requests[q].age
          \/ ~(requests[q].age <= Timeout)
      BY <2>1 DEF KnownIsRecent, ToldIsRecent, InTime
    <2>3. changed[u][role] \in 0..Window /\ changed'[u][role] \in 0..Window
          /\ changed'[u][role] <= changed[u][role] + 1
      BY <1>2, <2>1
    <2>4. \/ requests[q].age <= Timeout /\ requests'[q].age = requests[q].age + 1
          \/ requests[q].age = Timeout + 1 /\ requests'[q].age = Timeout + 1
      BY <2>1, BoundTypes DEF Older
    <2>5. groups' = groups
      BY <1>1
    <2> HIDE DEF u
    <2> QED  BY <2>1, <2>2, <2>3, <2>4, <2>5, BoundTypes
  <1>8. CachedIsRecent'
    <2> SUFFICES ASSUME NEW u \in Unlisted, entries'[u] # None, NEW role \in Roles
                 PROVE  \/ role \in entries'[u].roles <=> role \in groups[u]
                        \/ changed'[u][role] + entries'[u].ttl <= Window
      BY <1>1 DEF CachedIsRecent, Window
    <2>1. /\ changed[u][role] \in 0..Window /\ changed'[u][role] \in 0..Window
          /\ changed'[u][role] <= changed[u][role] + 1
      BY <1>2
    <2>2. CASE entries'[u] = entries[u] /\ entries[u].ttl = 0
      BY <2>1, <2>2, BoundTypes
    <2>3. CASE /\ entries[u] \in Entry /\ entries'[u] \in Entry
               /\ entries'[u].roles = entries[u].roles
               /\ entries'[u].ttl = entries[u].ttl - 1
      <3>1. entries[u] # None /\ entries[u].ttl \in Nat
        BY <2>3, EntryExists, BoundTypes DEF Entry
      <3>2. \/ role \in entries[u].roles <=> role \in groups[u]
            \/ changed[u][role] + entries[u].ttl <= Window
        BY <3>1 DEF KnownIsRecent, CachedIsRecent
      <3> QED  BY <2>1, <2>3, <3>1, <3>2, BoundTypes
    <2> QED  BY <1>3, <2>2, <2>3
  <1> QED  BY <1>6, <1>7, <1>8 DEF KnownIsRecent

-----------------------------------------------------------------------------
(* The theorems *)

\* Every step keeps what is known recent.
LEMMA StepKnown == KnownIsRecent /\ [Next]_vars => KnownIsRecent'
  <1> SUFFICES ASSUME KnownIsRecent, [Next]_vars PROVE KnownIsRecent'
    OBVIOUS
  <1>1. CASE UNCHANGED vars
    BY <1>1 DEF vars, memberships, cache, KnownIsRecent, Shapes, ToldIsRecent, InTime, CachedIsRecent
  <1>2. ASSUME NEW r \in Requests, NEW u \in Users, NEW action \in Actions,
               \/ ByAllowlist(r, u, action) \/ WithoutToken(r, u, action)
               \/ ByCache(r, u, action)
               \/ \E named \in BOOLEAN : Lookup(r, u, action, named)
        PROVE  KnownIsRecent'
    BY <1>2, StepUncached, StepByCache, StepLookup
  <1>3. ASSUME NEW r \in Requests, ScimReads(r) \/ ScimReplies(r) \/ LookupFails(r) \/ End(r)
        PROVE  KnownIsRecent'
    BY <1>3, StepScimReads, StepScimReplies, StepOver
  <1>4. ASSUME NEW u \in Unlisted, NEW role \in Roles, ChangeGroups(u, role)
        PROVE  KnownIsRecent'
    BY <1>4, StepChangeGroups
  <1>5. CASE Tick
    BY <1>5, StepTick
  <1> QED  BY <1>1, <1>2, <1>3, <1>4, <1>5 DEF Next

\* What the requests in flight and the cache know of a role is right, or has been
\* outdated for no longer than their age allows.
THEOREM AlwaysRecent == Spec => []KnownIsRecent
  BY InitKnown, StepKnown, PTL DEF Spec

\* The set of roles behind an answer is the allowlists', or nobody's for want of a
\* token, or it is right, or it was within the timeout or the window.
Grounds(u, roles, token) ==
    \/ roles = Allowlisted(u) /\ u \notin Unlisted
    \/ roles = {} /\ token = FALSE
    \/ /\ u \in Unlisted
       /\ \A role \in Roles : \/ role \in roles <=> role \in groups[u]
                              \/ changed[u][role] < Window
       /\ \A role \in groups[u] : roles = {} => changed[u][role] <= Timeout

\* The guard's verdict on them is the answer of this step.
Grounded(r) ==
    \E u \in Users, action \in Actions, roles \in SUBSET Roles, token \in BOOLEAN :
      Reply(r, u, action, roles, token) /\ Grounds(u, roles, token) /\ UNCHANGED memberships

\* A guard's answer is grounded.
LEMMA GroundedByAllowlist ==
    ASSUME NEW r \in Requests, NEW u \in Users, NEW action \in Actions,
           ByAllowlist(r, u, action)
    PROVE  Grounded(r)
  <1>1. u \notin Unlisted
    BY DEF ByAllowlist, Allowlisted, Unlisted
  <1>2. Allowlisted(u) \in SUBSET Roles
    BY DEF Allowlisted
  <1>3. ASSUME NEW token \in BOOLEAN, Reply(r, u, action, Allowlisted(u), token)
        PROVE  Grounded(r)
    <2>1. Grounds(u, Allowlisted(u), token) /\ UNCHANGED memberships
      BY <1>1 DEF Grounds, ByAllowlist
    <2> QED  BY <1>2, <1>3, <2>1 DEF Grounded
  <1> QED  BY <1>3 DEF ByAllowlist

\* Without a token nothing is known of a caller, and every action is denied.
LEMMA GroundedWithoutToken ==
    ASSUME NEW r \in Requests, NEW u \in Users, NEW action \in Actions,
           WithoutToken(r, u, action)
    PROVE  Grounded(r)
  <1>1. Grounds(u, {}, FALSE) /\ Reply(r, u, action, {}, FALSE) /\ UNCHANGED memberships
    BY DEF Grounds, WithoutToken
  <1>2. {} \in SUBSET Roles /\ FALSE \in BOOLEAN
    OBVIOUS
  <1> QED  BY <1>1, <1>2 DEF Grounded

\* A hit answers by what an entry that is still alive says.
LEMMA GroundedByCache ==
    ASSUME KnownIsRecent, NEW r \in Requests, NEW u \in Users, NEW action \in Actions,
           ByCache(r, u, action)
    PROVE  Grounded(r)
  <1> DEFINE roles == entries[u].roles
  <1>1. u \in Unlisted /\ entries[u] \in Entry /\ entries[u] # None /\ entries[u].ttl > 0 /\ Shapes
    BY DEF ByCache, Live, KnownIsRecent, Shapes
  <1>2. roles \in SUBSET Roles /\ roles # {} /\ entries[u].ttl \in Nat
    BY <1>1, BoundTypes DEF Entry
  <1>3. ASSUME NEW role \in Roles
        PROVE  \/ role \in roles <=> role \in groups[u]
               \/ changed[u][role] < Window
    <2>1. changed[u][role] \in Nat
      BY <1>1, BoundTypes DEF Shapes
    <2>2. \/ role \in roles <=> role \in groups[u]
          \/ changed[u][role] + entries[u].ttl <= Window
      BY <1>1 DEF KnownIsRecent, CachedIsRecent
    <2> QED  BY <1>1, <1>2, <2>1, <2>2, BoundTypes
  <1>4. Reply(r, u, action, roles, TRUE) /\ UNCHANGED memberships /\ TRUE \in BOOLEAN
    BY DEF ByCache
  <1> HIDE DEF roles
  <1>5. Grounds(u, roles, TRUE)
    BY <1>1, <1>2, <1>3 DEF Grounds
  <1> QED  BY <1>2, <1>4, <1>5 DEF Grounded

\* An answer of SCIM that arrives in time decides its own request.
LEMMA GroundedByLookup ==
    ASSUME KnownIsRecent, NEW r \in Requests, ScimReplies(r)
    PROVE  Grounded(r)
  <1> DEFINE u == requests[r].user
             action == requests[r].action
             roles == requests[r].roles
  <1>1. requests[r] \in Told /\ Shapes
    BY StageTypes DEF ScimReplies, KnownIsRecent, Shapes
  <1>2. u \in Unlisted /\ u \in Users /\ action \in Actions /\ roles \in SUBSET Roles
    BY <1>1 DEF Told, Unlisted
  <1>3. requests[r].age \in Nat /\ requests[r].age <= Timeout
    BY <1>1, BoundTypes DEF Told, ScimReplies, InTime
  <1>4. ASSUME NEW role \in Roles
        PROVE  \/ role \in roles <=> role \in groups[u]
               \/ changed[u][role] <= Timeout /\ changed[u][role] < Window
    <2>1. changed[u][role] \in Nat
      BY <1>1, <1>2, BoundTypes DEF Shapes
    <2>2. \/ role \in roles <=> role \in groups[u]
          \/ changed[u][role] <= requests[r].age
      BY DEF KnownIsRecent, ToldIsRecent, ScimReplies
    <2> QED  BY <1>3, <2>1, <2>2, BoundTypes
  <1>5. Reply(r, u, action, roles, TRUE) /\ UNCHANGED memberships /\ TRUE \in BOOLEAN
    BY DEF ScimReplies
  <1>6. groups[u] \subseteq Roles
    BY <1>1, <1>2 DEF Shapes
  <1> HIDE DEF u, action, roles
  <1>7. Grounds(u, roles, TRUE)
    BY <1>2, <1>4, <1>6 DEF Grounds
  <1> QED  BY <1>2, <1>5, <1>7 DEF Grounded

\* Every answer but that of a failed lookup is grounded.
LEMMA AnswersAreGrounded ==
    ASSUME KnownIsRecent, Next, NEW r \in Requests, Answered(r),
           requests'[r].reply # "role_resolution_failed"
    PROVE  Grounded(r)
  <1>1. Shapes
    BY DEF KnownIsRecent
  <1>2. ASSUME NEW p \in Requests, Grounded(p)
        PROVE  Grounded(r)
    <2>1. ASSUME p # r PROVE FALSE
      <3>1. requests'[r] = requests[r]
        <4>1. ASSUME NEW u \in Users, NEW action \in Actions, NEW roles \in SUBSET Roles,
                     NEW token \in BOOLEAN, Reply(p, u, action, roles, token)
              PROVE  requests'[r] = requests[r]
          <5>1. \A other \in Requests \ {p} : requests'[other] = requests[other]
            BY <1>1, <4>1 DEF Reply, Shapes
          <5> QED  BY <2>1, <5>1
        <4> QED  BY <1>2, <4>1 DEF Grounded
      <3> QED  BY <3>1 DEF Answered
    <2> QED  BY <1>2, <2>1
  <1>3. ASSUME NEW p \in Requests, NEW now, requests' = [requests EXCEPT ![p] = now],
               now.stage = "replied" => now.reply = "role_resolution_failed"
        PROVE  FALSE
    BY <1>1, <1>3 DEF Answered, Shapes
  <1>4. ASSUME NEW p \in Requests, NEW u \in Users, NEW action \in Actions,
               \/ ByAllowlist(p, u, action) \/ WithoutToken(p, u, action)
               \/ ByCache(p, u, action)
        PROVE  Grounded(r)
    BY <1>2, <1>4, GroundedByAllowlist, GroundedWithoutToken, GroundedByCache
  <1>5. ASSUME NEW p \in Requests, NEW u \in Users, NEW action \in Actions,
               NEW named \in BOOLEAN, Lookup(p, u, action, named)
        PROVE  FALSE
    BY <1>3, <1>5 DEF Lookup
  <1>6. ASSUME NEW p \in Requests, ScimReads(p) PROVE FALSE
    BY <1>3, <1>6 DEF ScimReads
  <1>7. ASSUME NEW p \in Requests, ScimReplies(p) PROVE Grounded(r)
    BY <1>2, <1>7, GroundedByLookup
  <1>8. ASSUME NEW p \in Requests, LookupFails(p) \/ End(p) PROVE FALSE
    BY <1>3, <1>8 DEF LookupFails, End, Idle
  <1>9. ASSUME NEW u \in Unlisted, NEW role \in Roles, ChangeGroups(u, role) PROVE FALSE
    BY <1>9 DEF ChangeGroups, Answered
  <1>10. CASE Tick
    BY <1>10 DEF Tick, Answered
  <1> QED  BY <1>4, <1>5, <1>6, <1>7, <1>8, <1>9, <1>10 DEF Next

\* Nobody is let through on a role that was taken away longer ago than an answer
\* may live, whatever lookups overlapped and whatever the cache evicted.
THEOREM GrantsAlwaysCurrent == Spec => GrantsAreCurrent
  <1>1. ASSUME KnownIsRecent, Next, NEW r \in Requests,
               Answered(r), requests'[r].reply = "next"
        PROVE  GrantIsCurrent(r)
    <2>1. Grounded(r)
      BY <1>1, AnswersAreGrounded
    <2>2. ASSUME NEW u \in Users, NEW action \in Actions, NEW roles \in SUBSET Roles,
                 NEW token \in BOOLEAN, Reply(r, u, action, roles, token), Grounds(u, roles, token)
          PROVE  GrantIsCurrent(r)
      <3>1. Shapes
        BY <1>1 DEF KnownIsRecent
      <3>2. /\ requests'[r].user = u /\ requests'[r].action = action
            /\ requests'[r].reply = "next" => AuthorizeSet(roles, action)
        BY <2>2, <3>1, ReplyType
      <3>3. PICK role \in roles : action \in Permissions[role]
        BY <1>1, <3>2 DEF AuthorizeSet
      <3> QED  BY <2>2, <3>2, <3>3 DEF Grounds, GrantIsCurrent
    <2> QED  BY <2>1, <2>2 DEF Grounded
  <1>2. KnownIsRecent /\ [Next]_vars => [\A r \in Requests : GrantIsCurrent(r)]_vars
    BY <1>1 DEF GrantIsCurrent
  <1> QED  BY <1>2, AlwaysRecent, PTL DEF GrantsAreCurrent, Spec

\* Nobody is kept out for want of a role given longer ago than a lookup may take,
\* nor as holding the wrong one longer than an answer may live.
THEOREM DenialsAlwaysCurrent == Spec => DenialsAreCurrent
  <1>1. ASSUME KnownIsRecent, Next, NEW r \in Requests, Answered(r)
        PROVE  DenialIsCurrent(r)
    <2>1. CASE requests'[r].reply = "role_resolution_failed"
      BY <2>1 DEF DenialIsCurrent
    <2>2. CASE requests'[r].reply # "role_resolution_failed"
      <3>1. Grounded(r)
        BY <1>1, <2>2, AnswersAreGrounded
      <3>2. ASSUME NEW u \in Users, NEW action \in Actions, NEW roles \in SUBSET Roles,
                   NEW token \in BOOLEAN, Reply(r, u, action, roles, token), Grounds(u, roles, token)
            PROVE  DenialIsCurrent(r)
        <4>1. Shapes
          BY <1>1 DEF KnownIsRecent
        <4>2. requests'[r].user = u /\ requests'[r].action = action
          BY <3>2, <4>1, ReplyType
        <4>3. requests'[r].token = token
          BY <3>2, <4>1, ReplyType
        <4>4. /\ requests'[r].reply = "no_role" => roles = {}
              /\ requests'[r].reply = "role_not_permitted" => ~AuthorizeSet(roles, action)
          BY <3>2, <4>1, ReplyType
        <4>5. ASSUME requests'[r].token, u \in Unlisted, NEW role \in groups[u]
              PROVE  /\ requests'[r].reply = "no_role" => changed[u][role] <= Timeout
                     /\ requests'[r].reply = "role_not_permitted" /\ action \in Permissions[role]
                          => changed[u][role] < Window
          <5>1. token # FALSE /\ role \in Roles
            BY <4>1, <4>3, <4>5 DEF Shapes
          <5>2. /\ role \in roles \/ changed[u][role] < Window
                /\ roles = {} => changed[u][role] <= Timeout
            BY <3>2, <4>5, <5>1 DEF Grounds
          <5> QED  BY <4>4, <5>2 DEF AuthorizeSet
        <4> QED  BY <4>2, <4>5 DEF DenialIsCurrent
      <3> QED  BY <3>1, <3>2 DEF Grounded
    <2> QED  BY <2>1, <2>2
  <1>2. KnownIsRecent /\ [Next]_vars => [\A r \in Requests : DenialIsCurrent(r)]_vars
    BY <1>1 DEF DenialIsCurrent
  <1> QED  BY <1>2, AlwaysRecent, PTL DEF DenialsAreCurrent, Spec

-----------------------------------------------------------------------------
(* The cache *)

\* Each caller is in the order once.
Ordered(s) == s \in Seq(Unlisted) /\ IsInjective(s)

\* The places of a sequence and its length, as the provers need them.
LEMMA SeqShape ==
    ASSUME NEW s, Ordered(s)
    PROVE  /\ Len(s) \in Nat /\ DOMAIN s = 1..Len(s)
           /\ \A i \in 1..Len(s) : s[i] \in Unlisted
           /\ \A i, j \in 1..Len(s) : s[i] = s[j] => i = j
  BY DEF Ordered, IsInjective

\* Who leaves the order leaves it alone.
LEMMA WithoutKeeps ==
    ASSUME NEW s, Ordered(s), NEW u \in Unlisted
    PROVE  /\ Ordered(Without(s, u))
           /\ ToSet(Without(s, u)) = ToSet(s) \ {u}
           /\ Len(Without(s, u)) <= Len(s)
           /\ u \in ToSet(s) => Len(Without(s, u)) = Len(s) - 1
  <1> DEFINE p == Place(s, u)
             w == SubSeq(s, 1, p - 1) \o SubSeq(s, p + 1, Len(s))
  <1>1. CASE ~\E i \in DOMAIN s : s[i] = u
    BY <1>1, SeqShape DEF Without, ToSet
  <1>2. CASE \E i \in DOMAIN s : s[i] = u
    <2>1. p \in DOMAIN s /\ s[p] = u /\ p \in 1..Len(s) /\ Len(s) \in Nat
      BY <1>2, SeqShape DEF Place
    <2>2. Without(s, u) = w
      BY <1>2 DEF Without, RemoveAt
    <2> HIDE DEF p
    <2>3. /\ w \in Seq(Unlisted) /\ Len(w) = Len(s) - 1
          /\ \A i \in 1..(Len(s) - 1) : w[i] = IF i < p THEN s[i] ELSE s[i + 1]
      <3>1. s \in Seq(Unlisted) /\ p - 1 \in 0..Len(s) /\ p + 1 \in 1..Len(s) + 1
        BY <2>1 DEF Ordered
      <3>2. /\ SubSeq(s, 1, p - 1) \in Seq(Unlisted) /\ Len(SubSeq(s, 1, p - 1)) = p - 1
            /\ \A i \in 1..(p - 1) : SubSeq(s, 1, p - 1)[i] = s[i]
        BY <2>1, <3>1, SubSeqProperties
      <3>3. /\ SubSeq(s, p + 1, Len(s)) \in Seq(Unlisted)
            /\ Len(SubSeq(s, p + 1, Len(s))) = Len(s) - p
            /\ \A i \in 1..(Len(s) - p) : SubSeq(s, p + 1, Len(s))[i] = s[p + i]
        BY <2>1, <3>1, SubSeqProperties
      <3> HIDE DEF w
      <3>4. /\ w \in Seq(Unlisted) /\ Len(w) = p - 1 + Len(s) - p
            /\ \A i \in 1..Len(w) : w[i] = IF i <= p - 1 THEN SubSeq(s, 1, p - 1)[i]
                                           ELSE SubSeq(s, p + 1, Len(s))[i - (p - 1)]
        <4> DEFINE a == SubSeq(s, 1, p - 1)
                   b == SubSeq(s, p + 1, Len(s))
        <4>1. a \in Seq(Unlisted) /\ b \in Seq(Unlisted) /\ Len(a) = p - 1 /\ Len(b) = Len(s) - p
          BY <3>2, <3>3
        <4>2. w = a \o b
          BY DEF w
        <4> HIDE DEF a, b
        <4>3. /\ w \in Seq(Unlisted) /\ Len(w) = Len(a) + Len(b)
              /\ \A i \in 1..Len(a) + Len(b) : w[i] = IF i <= Len(a) THEN a[i] ELSE b[i - Len(a)]
          BY <4>1, <4>2, ConcatProperties
        <4>4. /\ w \in Seq(Unlisted) /\ Len(w) = p - 1 + Len(s) - p
              /\ \A i \in 1..Len(w) : w[i] = IF i <= p - 1 THEN a[i] ELSE b[i - (p - 1)]
          BY <2>1, <4>1, <4>3
        <4> QED  BY <4>4 DEF a, b
      <3>5. ASSUME NEW i \in 1..(Len(s) - 1) PROVE w[i] = IF i < p THEN s[i] ELSE s[i + 1]
        <4>1. CASE i < p
          <5>1. i \in 1..(p - 1) /\ i \in 1..Len(w) /\ i <= p - 1
            BY <2>1, <3>4, <4>1
          <5> QED  BY <3>2, <3>4, <4>1, <5>1
        <4>2. CASE ~(i < p)
          <5>1. /\ i - (p - 1) \in 1..(Len(s) - p) /\ i \in 1..Len(w) /\ ~(i <= p - 1)
                /\ p + (i - (p - 1)) = i + 1
            BY <2>1, <3>4, <4>2
          <5> QED  BY <3>3, <3>4, <4>2, <5>1
        <4> QED  BY <4>1, <4>2
      <3> QED  BY <2>1, <3>4, <3>5
    <2> HIDE DEF w
    <2>4. DOMAIN w = 1..(Len(s) - 1)
      BY <2>3
    <2>5. IsInjective(w)
      <3> SUFFICES ASSUME NEW i \in 1..(Len(s) - 1), NEW j \in 1..(Len(s) - 1), w[i] = w[j]
                   PROVE  i = j
        BY <2>4 DEF IsInjective
      <3> DEFINE at(k) == IF k < p THEN k ELSE k + 1
      <3>1. /\ at(i) \in 1..Len(s) /\ at(j) \in 1..Len(s)
            /\ w[i] = s[at(i)] /\ w[j] = s[at(j)]
        BY <2>1, <2>3
      <3>2. at(i) = at(j)
        <4> HIDE DEF at
        <4> QED  BY <3>1, SeqShape
      <3> QED  BY <2>1, <3>2
    <2>6. ASSUME NEW v \in ToSet(s) \ {u} PROVE v \in ToSet(w)
      <3>1. PICK i \in 1..Len(s) : s[i] = v
        BY SeqShape DEF ToSet
      <3>2. i # p
        BY <2>1, <3>1
      <3>3. CASE i < p
        <4>1. i \in 1..(Len(s) - 1) /\ w[i] = v
          BY <2>1, <2>3, <3>1, <3>3
        <4> QED  BY <2>4, <4>1 DEF ToSet
      <3>4. CASE p < i
        <4>1. i - 1 \in 1..(Len(s) - 1) /\ w[i - 1] = v
          BY <2>1, <2>3, <3>1, <3>4
        <4> QED  BY <2>4, <4>1 DEF ToSet
      <3> QED  BY <2>1, <3>2, <3>3, <3>4
    <2>7. ASSUME NEW v \in ToSet(w) PROVE v \in ToSet(s) \ {u}
      <3>1. PICK i \in 1..(Len(s) - 1) : w[i] = v
        BY <2>4 DEF ToSet
      <3>2. PICK k \in 1..Len(s) : k # p /\ s[k] = v
        BY <2>1, <2>3, <3>1
      <3>3. v # u
        BY <2>1, <3>2, SeqShape
      <3> QED  BY <3>2, <3>3, SeqShape DEF ToSet
    <2>8. ToSet(w) = ToSet(s) \ {u}
      BY <2>6, <2>7
    <2> QED  BY <2>1, <2>2, <2>3, <2>5, <2>8 DEF Ordered
  <1> QED  BY <1>1, <1>2

\* Who comes last is in the order, once.
LEMMA AppendKeeps ==
    ASSUME NEW s, Ordered(s), NEW u \in Unlisted, u \notin ToSet(s)
    PROVE  /\ Ordered(Append(s, u)) /\ Len(Append(s, u)) = Len(s) + 1
           /\ ToSet(Append(s, u)) = ToSet(s) \cup {u}
  <1> DEFINE w == Append(s, u)
  <1>1. Len(s) \in Nat /\ DOMAIN s = 1..Len(s) /\ \A i \in 1..Len(s) : s[i] # u
    BY SeqShape DEF ToSet
  <1>2. /\ w \in Seq(Unlisted) /\ Len(w) = Len(s) + 1 /\ DOMAIN w = 1..(Len(s) + 1)
        /\ w[Len(s) + 1] = u /\ \A i \in 1..Len(s) : w[i] = s[i]
    BY <1>1 DEF Ordered
  <1> HIDE DEF w
  <1>3. IsInjective(w)
    BY <1>1, <1>2, SeqShape DEF IsInjective
  <1>4. ToSet(w) = ToSet(s) \cup {u}
    BY <1>1, <1>2 DEF ToSet
  <1> QED  BY <1>2, <1>3, <1>4 DEF Ordered, w

\* Who are the first go, and the others stay.
LEMMA LaterKeep ==
    ASSUME NEW s, Ordered(s), NEW k \in 0..Len(s)
    PROVE  LET w == SubSeq(s, k + 1, Len(s))
           IN  /\ Ordered(w) /\ Len(w) = Len(s) - k
               /\ ToSet(w) = {v \in ToSet(s) : ~\E i \in 1..k : s[i] = v}
  <1> DEFINE w == SubSeq(s, k + 1, Len(s))
  <1>1. Len(s) \in Nat /\ DOMAIN s = 1..Len(s)
    BY SeqShape
  <1>2. /\ w \in Seq(Unlisted) /\ Len(w) = Len(s) - k /\ DOMAIN w = 1..(Len(s) - k)
        /\ \A i \in 1..(Len(s) - k) : w[i] = s[i + k] /\ i + k \in 1..Len(s)
    <2> DEFINE m == k + 1
               n == Len(s)
    <2>1. m \in Int /\ n \in Int /\ m <= n + 1 /\ \A i \in m..n : s[i] \in Unlisted
      BY <1>1, SeqShape
    <2>2. /\ w \in Seq(Unlisted) /\ Len(w) = Len(s) - k
          /\ \A i \in 1..(Len(s) - k) : w[i] = s[k + 1 + i - 1]
      <3>1. w = SubSeq(s, m, n) /\ m = k + 1 /\ n = Len(s)
        OBVIOUS
      <3> HIDE DEF w, m, n
      <3>2. /\ w \in Seq(Unlisted) /\ Len(w) = IF m <= n THEN n - m + 1 ELSE 0
            /\ \A i \in 1..n - m + 1 : w[i] = s[m + i - 1]
        BY <2>1, <3>1, SubSeqProperties
      <3>3. n - m + 1 = Len(s) - k /\ (~(m <= n) => Len(s) - k = 0)
        <4>1. k \in Int /\ k <= Len(s) /\ Len(s) \in Int
          BY <1>1
        <4> QED  BY <3>1, <4>1
      <3>4. \A i \in 1..(Len(s) - k) : w[i] = s[k + 1 + i - 1]
        BY <3>1, <3>2, <3>3
      <3> QED  BY <3>2, <3>3, <3>4
    <2>3. \A i \in 1..(Len(s) - k) : k + 1 + i - 1 = i + k /\ i + k \in 1..Len(s)
      BY <1>1
    <2> QED  BY <2>2, <2>3
  <1> HIDE DEF w
  <1>3. IsInjective(w)
    BY <1>1, <1>2, SeqShape, SMTT(30) DEF IsInjective
  <1>4. ASSUME NEW v \in ToSet(w) PROVE v \in ToSet(s) /\ ~\E i \in 1..k : s[i] = v
    <2>1. PICK i \in 1..(Len(s) - k) : w[i] = v
      BY <1>2 DEF ToSet
    <2>2. s[i + k] = v /\ i + k \in 1..Len(s) /\ \A j \in 1..k : j # i + k /\ j \in 1..Len(s)
      BY <1>1, <1>2, <2>1
    <2> QED  BY <1>1, <2>2, SeqShape DEF ToSet
  <1>5. ASSUME NEW v \in ToSet(s), ~\E i \in 1..k : s[i] = v PROVE v \in ToSet(w)
    <2>1. PICK i \in 1..Len(s) : s[i] = v
      BY <1>1 DEF ToSet
    <2>2. i - k \in 1..(Len(s) - k) /\ i - k + k = i
      BY <1>1, <1>5, <2>1
    <2> QED  BY <1>2, <2>1, <2>2 DEF ToSet
  <1> QED  BY <1>2, <1>3, <1>4, <1>5 DEF Ordered, w

\* A caller who is in the order once counts once.
LEMMA OrderedCounts == ASSUME NEW s, Ordered(s) PROVE Len(s) = Cardinality(ToSet(s))
  <1> DEFINE length == Len(s)
  <1>1. length \in Nat /\ length \in Int /\ 1 \in Int
    BY SeqShape
  <1>2. s \in Bijection(1..length, ToSet(s))
    <2>1. s \in [1..length -> ToSet(s)]
      BY SeqShape DEF ToSet, Ordered
    <2> QED  BY <2>1, SeqShape DEF Bijection, Injection, Surjection, IsInjective, ToSet
  <1>3. ExistsBijection(1..length, ToSet(s))
    BY <1>2 DEF ExistsBijection
  <1> HIDE DEF length
  <1>4. IsFiniteSet(1..length) /\ Cardinality(1..length) = IF 1 > length THEN 0 ELSE length - 1 + 1
    BY <1>1, FS_Interval
  <1>5. IsFiniteSet(1..length) /\ Cardinality(1..length) = length
    BY <1>1, <1>4
  <1>6. Cardinality(ToSet(s)) = length
    BY <1>3, <1>5, FS_Bijection
  <1> QED  BY <1>6 DEF length

\* Order and entries are of the same callers, no more than the capacity.
CacheKept ==
    /\ Ordered(order) /\ Len(order) <= MaxEntries
    /\ ToSet(order) = {u \in Unlisted : entries[u] # None}

\* An entry that is made anew takes the place of those that went.
LEMMA SetKeeps ==
    ASSUME Shapes, CacheKept, NEW u \in Unlisted, NEW roles \in (SUBSET Roles) \ {{}}, Set(u, roles)
    PROVE  CacheKept'
  <1> DEFINE others == Without(order, u)
             k == IF Len(others) < MaxEntries THEN 0 ELSE Len(others) - MaxEntries + 1
             w == SubSeq(others, k + 1, Len(others))
  <1>1. /\ Ordered(others) /\ ToSet(others) = ToSet(order) \ {u} /\ Len(others) \in Nat
    BY WithoutKeeps, SeqShape DEF CacheKept
  <1>2. /\ order' = Append(w, u)
        /\ entries' = [v \in Unlisted |->
              IF v = u THEN [roles |-> roles, ttl |-> Ttl]
              ELSE IF \E i \in 1..k : others[i] = v THEN None ELSE entries[v]]
    BY DEF Set, SetAfter
  <1> HIDE DEF others
  <1>3. k \in 0..Len(others) /\ Len(others) - k < MaxEntries
    BY <1>1, RolesAssumption
  <1> HIDE DEF k
  <1>4. /\ Ordered(w) /\ Len(w) = Len(others) - k
        /\ ToSet(w) = {v \in ToSet(others) : ~\E i \in 1..k : others[i] = v}
    BY <1>1, <1>3, LaterKeep, ZenonT(60)
  <1> HIDE DEF w
  <1>5. u \notin ToSet(w)
    BY <1>1, <1>4
  <1>6. /\ Ordered(order') /\ Len(order') = Len(others) - k + 1
        /\ ToSet(order') = ToSet(w) \cup {u}
    BY <1>2, <1>4, <1>5, AppendKeeps
  <1>7. [roles |-> roles, ttl |-> Ttl] # None
    <2>1. [roles |-> roles, ttl |-> Ttl] \in Entry
      BY BoundTypes DEF Entry
    <2> QED  BY <2>1, EntryExists
  <1>8. ToSet(order') = {v \in Unlisted : entries'[v] # None}
    <2>1. \A v \in Unlisted : v \in ToSet(order) <=> entries[v] # None
      BY DEF CacheKept
    <2>2. ToSet(order') \subseteq Unlisted
      BY <1>6, SeqShape DEF ToSet
    <2>3. ASSUME NEW v \in Unlisted PROVE v \in ToSet(order') <=> entries'[v] # None
      <3>1. CASE v = u
        BY <1>2, <1>6, <1>7, <3>1
      <3>2. CASE v # u
        <4>1. v \in ToSet(order') <=> v \in ToSet(order) /\ ~\E i \in 1..k : others[i] = v
          BY <1>1, <1>4, <1>6, <3>2
        <4>2. entries'[v] = IF \E i \in 1..k : others[i] = v THEN None ELSE entries[v]
          BY <1>2, <3>2
        <4> QED  BY <2>1, <4>1, <4>2
      <3> QED  BY <3>1, <3>2
    <2> QED  BY <2>2, <2>3
  <1> QED  BY <1>1, <1>3, <1>6, <1>8, RolesAssumption DEF CacheKept

\* Requests and time keep the cache.
LEMMA CacheStep ==
    ASSUME Shapes, CacheKept, [Next]_vars
    PROVE  CacheKept'
  <1>1. CASE UNCHANGED cache
    BY <1>1 DEF CacheKept, cache
  <1>2. ASSUME NEW u \in Unlisted, Live(u), Refreshed(u) PROVE CacheKept'
    <2>1. u \in ToSet(order)
      BY <1>2 DEF CacheKept, Live
    <2>2. /\ Ordered(Without(order, u)) /\ ToSet(Without(order, u)) = ToSet(order) \ {u}
          /\ Len(Without(order, u)) = Len(order) - 1 /\ Len(order) \in Nat
      BY <2>1, WithoutKeeps, SeqShape DEF CacheKept
    <2>3. /\ Ordered(order') /\ Len(order') = Len(order) /\ ToSet(order') = ToSet(order)
      <3> DEFINE others == Without(order, u)
      <3>1. order' = Append(others, u)
        BY <1>2 DEF Refreshed
      <3> HIDE DEF others
      <3>2. Ordered(others) /\ u \notin ToSet(others) /\ ToSet(others) = ToSet(order) \ {u}
        BY <2>2 DEF others
      <3>3. /\ Ordered(Append(others, u)) /\ Len(Append(others, u)) = Len(others) + 1
            /\ ToSet(Append(others, u)) = ToSet(others) \cup {u}
        BY <3>2, AppendKeeps
      <3> QED  BY <2>1, <2>2, <3>1, <3>2, <3>3 DEF others
    <2> QED  BY <1>2, <2>3 DEF CacheKept, Refreshed
  <1>3. ASSUME NEW u \in Unlisted, Purged(u) PROVE CacheKept'
    <2>1. /\ Ordered(order') /\ ToSet(order') = ToSet(order) \ {u} /\ Len(order') <= Len(order)
          /\ Len(order) \in Nat /\ Len(order') \in Nat
      BY <1>3, WithoutKeeps, SeqShape DEF CacheKept, Purged
    <2>2. ToSet(order') = {v \in Unlisted : entries'[v] # None}
      BY <1>3, <2>1 DEF CacheKept, Purged, Shapes
    <2> QED  BY <2>1, <2>2, RolesAssumption DEF CacheKept
  <1>4. CASE Tick
    <2>1. ASSUME NEW u \in Unlisted PROVE entries'[u] # None <=> entries[u] # None
      <3>1. entries'[u] = IF ~Live(u) THEN entries[u] ELSE [entries[u] EXCEPT !.ttl = @ - 1]
        BY <1>4 DEF Tick
      <3>2. CASE Live(u)
        <4>1. entries[u] # None /\ entries[u] \in Entry /\ entries[u].ttl > 0
          BY <3>2 DEF Live, Shapes
        <4>2. [entries[u] EXCEPT !.ttl = @ - 1] \in Entry
          BY <4>1, BoundTypes DEF Entry
        <4> QED  BY <3>1, <3>2, <4>1, <4>2, EntryExists
      <3> QED  BY <3>1, <3>2
    <2>2. order' = order
      BY <1>4 DEF Tick
    <2> QED  BY <2>1, <2>2 DEF CacheKept
  <1>5. ASSUME NEW r \in Requests, NEW u \in Users, NEW action \in Actions,
               \/ ByAllowlist(r, u, action) \/ WithoutToken(r, u, action)
               \/ ByCache(r, u, action) \/ \E named \in BOOLEAN : Lookup(r, u, action, named)
        PROVE  CacheKept'
    BY <1>1, <1>2, <1>3, <1>5 DEF ByAllowlist, WithoutToken, ByCache, Lookup
  <1>6. ASSUME NEW r \in Requests, ScimReads(r) \/ ScimReplies(r) \/ LookupFails(r) \/ End(r)
        PROVE  CacheKept'
    <2>1. CASE ScimReplies(r)
      <3>1. requests[r] \in Told
        BY <2>1, StageTypes DEF ScimReplies, Shapes
      <3> QED  BY <1>1, <2>1, <3>1, SetKeeps DEF ScimReplies, Told
    <2> QED  BY <1>1, <1>6, <2>1 DEF ScimReads, LookupFails, End
  <1>7. CASE \E u \in Movers \cap Unlisted, role \in Roles : ChangeGroups(u, role)
    BY <1>1, <1>7 DEF ChangeGroups
  <1>8. CASE UNCHANGED vars
    BY <1>1, <1>8 DEF vars
  <1> QED  BY <1>4, <1>5, <1>6, <1>7, <1>8 DEF Next

\* What is known is recent, and the cache is kept: inductive only together, as a
\* request's answer and a cached one must be known to be entries.
RolesInv == KnownIsRecent /\ CacheKept

\* Neither a hit, a purge, an eviction nor a clock that runs ever breaks them.
LEMMA RolesKept == Spec => []RolesInv
  <1>1. Init => RolesInv
    <2> SUFFICES ASSUME Init PROVE CacheKept
      BY InitKnown DEF RolesInv
    <2>1. Ordered(order) /\ Len(order) = 0
      BY DEF Init, Ordered, IsInjective
    <2>2. ToSet(order) = {} /\ {u \in Unlisted : entries[u] # None} = {}
      BY DEF Init, ToSet
    <2> QED  BY <2>1, <2>2, RolesAssumption DEF CacheKept
  <1>2. RolesInv /\ [Next]_vars => RolesInv'
    BY StepKnown, CacheStep DEF RolesInv, KnownIsRecent
  <1> QED  BY <1>1, <1>2, PTL DEF Spec

\* Whatever lookups overlap, whoever is purged, renewed or evicted: the cache never
\* holds more callers than its capacity, its order of use names exactly those who
\* have an entry, and each of them once, so an eviction always frees a place.
THEOREM CacheAlwaysBounded == Spec => []CacheBounded
  <1>1. RolesInv => CacheBounded
    BY OrderedCounts DEF RolesInv, CacheKept, CacheBounded
  <1> QED  BY <1>1, RolesKept, PTL

\* Every variable keeps its shape, and no denial is ever in the cache.
THEOREM RolesAlwaysTyped == Spec => []TypeOK
  <1>1. RolesInv => TypeOK
    BY DEF RolesInv, KnownIsRecent, CacheKept, Ordered, TypeOK
  <1> QED  BY <1>1, RolesKept, PTL
=============================================================================
