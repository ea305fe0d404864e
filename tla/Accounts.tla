------------------------------ MODULE Accounts ------------------------------
(***************************************************************************)
(* Accounts of the dashboard: registration, login, the two tokens a login  *)
(* hands out, their refresh and the logout (internal/service/auth_service  *)
(* and internal/transport/http/auth_handler).  A registration is four      *)
(* statements without a transaction, each of which may fail; registrations *)
(* run concurrently.  Tokens are signed, never stored: a browser holds     *)
(* them in two cookies, and only their age ends them.                      *)
(***************************************************************************)
EXTENDS Naturals, FiniteSets

CONSTANTS
    Calls,        \* registrations, each from a browser of its own
    Emails,
    Email,        \* the address each registration names
    Rejected,     \* registrations whose fields or password do not pass
    RefreshedTTL, \* lifetime of an access token got by a refresh: 1 hour
    AccessTTL,    \* of one got by a login: 24 hours
    RefreshTTL,   \* of a refresh token: 7 days
    Horizon,      \* bound of the clock
    Faults        \* how many statements may fail

ASSUME AccountsAssumption ==
    /\ Email \in [Calls -> Emails]
    /\ Rejected \subseteq Calls
    /\ {RefreshedTTL, AccessTTL, RefreshTTL, Horizon, Faults} \subseteq Nat
    /\ RefreshedTTL < AccessTTL /\ AccessTTL < RefreshTTL

VARIABLES
    users,    \* users: the registrations whose row was inserted
    orgs,     \* organizations: likewise
    members,  \* memberships: likewise, always of that user as OWNER of that organization
    reg,      \* where each registration is
    jar,      \* the cookies of each browser
    now,      \* the clock
    faulted   \* statements that failed so far

accountsVars == <<users, orgs, members, reg, jar, now, faulted>>
tables == <<users, orgs, members>>

NoToken == [user |-> "none"]
Token == [user : Calls, org : Calls, role : {"OWNER"}, refresh : BOOLEAN, exp : Nat]

Cookies == [access : Token \union {NoToken}, refresh : Token \union {NoToken}]
NoCookies == [access |-> NoToken, refresh |-> NoToken]

Stages == {"unsent", "checked", "user", "org", "member", "answered", "refused"}

(* Stages after the user's row was inserted, not counting the failures. *)
Underway == {"user", "org", "member", "answered"}

AccountsTypeOK ==
    /\ users \in SUBSET Calls /\ orgs \in SUBSET Calls /\ members \in SUBSET Calls
    /\ reg \in [Calls -> Stages]
    /\ jar \in [Calls -> Cookies]
    /\ now \in Nat /\ faulted \in Nat

AccountsInit ==
    /\ users = {} /\ orgs = {} /\ members = {}
    /\ reg = [c \in Calls |-> "unsent"]
    /\ jar = [c \in Calls |-> NoCookies]
    /\ now = 0 /\ faulted = 0

-----------------------------------------------------------------------------
(* Statements. *)

GetUserByEmail(e) == {u \in users : Email[u] = e}

(* users.email is UNIQUE. *)
CanCreateUser(c) == GetUserByEmail(Email[c]) = {}

(* A user's memberships, with the names of their organizations. *)
ListUserMemberships(u) == {m \in members : m = u /\ m \in orgs}

GetUserByID(u) == users \cap {u}

(* Tokens *)

(* A lifetime above 24 hours is what tags a token as a refresh token. *)
generateToken(u, o, role, ttl) ==
    [user |-> u, org |-> o, role |-> role, refresh |-> ttl > AccessTTL, exp |-> now + ttl]

Verifies(t) == t # NoToken /\ t.exp > now

setAuthCookies(u, o) ==
    [access |-> generateToken(u, o, "OWNER", AccessTTL),
     refresh |-> generateToken(u, o, "OWNER", RefreshTTL)]

(* Middleware Auth: who a request with this browser's cookie comes from. *)
Authenticated(b) == IF Verifies(jar[b].access) THEN {jar[b].access.user} ELSE {}

(* GetMe: the account of a request, and the organizations it is shown. *)
Me(b) ==
    UNION {{<<u, ListUserMemberships(u)>> : u \in GetUserByID(id)} : id \in Authenticated(b)}

-----------------------------------------------------------------------------
(* Registration *)

Fails ==
    /\ faulted < Faults
    /\ faulted' = faulted + 1

Proceeds(c, from, to) == reg[c] = from /\ reg' = [reg EXCEPT ![c] = to]

(* The handler's validation, then the check of the address.  A check that  *)
(* fails counts as an address nobody has.                                  *)
Check(c) ==
    /\ UNCHANGED <<tables, jar, now>>
    /\ \/ /\ c \in Rejected \/ GetUserByEmail(Email[c]) # {}
          /\ Proceeds(c, "unsent", "refused") /\ UNCHANGED faulted
       \/ /\ c \notin Rejected /\ Proceeds(c, "unsent", "checked")
          /\ \/ GetUserByEmail(Email[c]) = {} /\ UNCHANGED faulted
             \/ Fails

(* A failing statement ends the registration; it may have taken effect. *)
CreateUser(c) ==
    /\ UNCHANGED <<orgs, members, jar, now>>
    /\ \/ /\ CanCreateUser(c) /\ users' = users \union {c}
          /\ \/ Proceeds(c, "checked", "user") /\ UNCHANGED faulted
             \/ Proceeds(c, "checked", "refused") /\ Fails
       \/ ~CanCreateUser(c) /\ Proceeds(c, "checked", "refused") /\ UNCHANGED <<users, faulted>>
       \/ Proceeds(c, "checked", "refused") /\ Fails /\ UNCHANGED users

CreateOrganization(c) ==
    /\ UNCHANGED <<users, members, jar, now>>
    /\ \/ orgs' = orgs \union {c} /\ Proceeds(c, "user", "org") /\ UNCHANGED faulted
       \/ orgs' \in {orgs, orgs \union {c}} /\ Proceeds(c, "user", "refused") /\ Fails

(* MUTANT: the error of the insert is ignored.                             *)
CreateMembershipUnchecked(c) ==
    /\ UNCHANGED <<users, orgs, jar, now>>
    /\ Proceeds(c, "org", "member")
    /\ \/ members' = members \union {c} /\ UNCHANGED faulted
       \/ UNCHANGED members /\ Fails

CreateMembership(c) ==
    /\ UNCHANGED <<users, orgs, jar, now>>
    /\ \/ members' = members \union {c} /\ Proceeds(c, "org", "member") /\ UNCHANGED faulted
       \/ members' \in {members, members \union {c}} /\ Proceeds(c, "org", "refused") /\ Fails

Answer(c) ==
    /\ Proceeds(c, "member", "answered")
    /\ jar' = [jar EXCEPT ![c] = setAuthCookies(c, c)]
    /\ UNCHANGED <<tables, now, faulted>>

(* Register runs these one after the other. *)
Register(c) ==
    Check(c) \/ CreateUser(c) \/ CreateOrganization(c) \/ CreateMembership(c) \/ Answer(c)

-----------------------------------------------------------------------------
(* Sessions *)

(* With the right password; a user without an organization is turned away. *)
Login(b, u) ==
    /\ u \in users
    /\ \E m \in ListUserMemberships(u) : jar' = [jar EXCEPT ![b] = setAuthCookies(u, m)]
    /\ UNCHANGED <<tables, reg, now, faulted>>

(* The token comes from the body or from the cookie.  What is refused is a *)
(* token tagged as another kind, and only refresh tokens carry a tag.      *)
RefreshAccessToken(t) == Verifies(t)

Refresh(b) ==
    /\ \E t \in {jar[b].access, jar[b].refresh} \ {NoToken} :
          jar' = [jar EXCEPT ![b] =
                    IF RefreshAccessToken(t)
                    THEN [@ EXCEPT !.access = generateToken(t.user, t.org, t.role, RefreshedTTL)]
                    ELSE NoCookies]
    /\ UNCHANGED <<tables, reg, now, faulted>>

(* The cookies are cleared; the tokens stay good until they expire. *)
Logout(b) ==
    /\ jar[b] # NoCookies
    /\ jar' = [jar EXCEPT ![b] = NoCookies]
    /\ UNCHANGED <<tables, reg, now, faulted>>

Tick ==
    /\ now < Horizon
    /\ now' = now + 1
    /\ UNCHANGED <<tables, reg, jar, faulted>>

AccountsNext ==
    \/ \E c \in Calls : Register(c) \/ Refresh(c) \/ Logout(c)
    \/ \E b, u \in Calls : Login(b, u)
    \/ Tick

AccountsSpec == AccountsInit /\ [][AccountsNext]_accountsVars

-----------------------------------------------------------------------------
(* Whoever was told that the account exists can use it: its user is the    *)
(* owner of its organization, so a login succeeds, and any token a browser *)
(* holds, refreshed ones included, names such a user.  Only a registration *)
(* that failed halfway leaves an account without an organization.  Of the  *)
(* registrations of one address at most one gets as far as that.           *)
AccountsUsable ==
    /\ \A c, d \in Calls :
          reg[c] \in Underway /\ reg[d] \in Underway /\ Email[c] = Email[d] => c = d
    /\ \A c \in Calls : reg[c] = "answered" => c \in users /\ ListUserMemberships(c) # {}
    /\ \A b \in Calls : \A t \in {jar[b].access, jar[b].refresh} \ {NoToken} :
          t.user \in users /\ t.org \in ListUserMemberships(t.user)
    /\ \A b \in Calls : Authenticated(b) # {} => Me(b) # {}
    /\ \A u \in users : ListUserMemberships(u) = {} => reg[u] \in {"user", "org", "refused"}
=============================================================================
