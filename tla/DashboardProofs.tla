--------------------------- MODULE DashboardProofs ---------------------------
(***************************************************************************)
(* Proofs about what runs behind the dashboard, for any number of          *)
(* registrations, questions, requests, rows, contracts and webhooks.       *)
(***************************************************************************)
EXTENDS Dashboard, FiniteSetTheorems, TLAPS

-----------------------------------------------------------------------------
(* Accounts. *)

(* What a registration has inserted when it is at a stage.                 *)
RowsOK(c) ==
    /\ reg[c] \in Underway => c \in users
    /\ reg[c] \in {"org", "member", "answered"} => c \in orgs
    /\ reg[c] \in {"member", "answered"} => c \in members
    /\ reg[c] \in {"unsent", "checked"} => c \notin users

EmailsUnique == \A c, d \in users : Email[c] = Email[d] => c = d

(* A token names a user and the organization it is the owner of.           *)
TokenOK(t) == t # NoToken => t.user \in users /\ t.org = t.user /\ t.org \in members \intersect orgs

AccountsInv ==
    /\ AccountsTypeOK
    /\ \A c \in Calls : RowsOK(c)
    /\ EmailsUnique
    /\ \A b \in Calls : TokenOK(jar[b].access) /\ TokenOK(jar[b].refresh)

LEMMA AccountsInvInit == AccountsInit => AccountsInv
<1> SUFFICES ASSUME AccountsInit PROVE AccountsInv
  OBVIOUS
<1>1. NoCookies \in Cookies
  BY DEF NoCookies, Cookies
<1>2. AccountsTypeOK
  BY <1>1 DEF AccountsInit, AccountsTypeOK, Stages
<1>3. \A b \in Calls : jar[b].access = NoToken /\ jar[b].refresh = NoToken
  BY DEF AccountsInit, NoCookies
<1>4. QED
  BY <1>2, <1>3 DEF AccountsInit, AccountsInv, RowsOK, Underway, EmailsUnique, TokenOK

(* A registration moves on, and at most inserts rows of its own.           *)
LEMMA RegistrationStep ==
    ASSUME AccountsInv, NEW c \in Calls, NEW s \in Stages,
           reg' = [reg EXCEPT ![c] = s],
           users' \in {users, users \union {c}}, orgs' \in {orgs, orgs \union {c}},
           members' \in {members, members \union {c}},
           UNCHANGED <<jar, now>>, faulted' \in Nat,
           RowsOK(c)', EmailsUnique'
    PROVE AccountsInv'
<1>1. AccountsTypeOK'
  BY DEF AccountsInv, AccountsTypeOK
<1>2. \A d \in Calls : RowsOK(d)'
  <2>1. ASSUME NEW d \in Calls, d # c PROVE RowsOK(d)'
    <3>1. reg'[d] = reg[d] /\ RowsOK(d)
      BY <2>1 DEF AccountsInv, AccountsTypeOK
    <3>2. (d \in users' <=> d \in users) /\ (d \in orgs => d \in orgs') /\ (d \in members => d \in members')
      BY <2>1
    <3>3. QED
      BY <3>1, <3>2 DEF RowsOK
  <2>2. QED
    BY <2>1
<1>3. \A b \in Calls : TokenOK(jar[b].access)' /\ TokenOK(jar[b].refresh)'
  BY DEF AccountsInv, TokenOK
<1>4. QED
  BY <1>1, <1>2, <1>3 DEF AccountsInv

(* A browser's cookies change, and still name users and organizations.     *)
LEMMA CookieStep ==
    ASSUME AccountsInv, NEW b \in Calls, NEW cookies \in Cookies,
           jar' = [jar EXCEPT ![b] = cookies],
           UNCHANGED <<tables, reg, now, faulted>>,
           TokenOK(cookies.access), TokenOK(cookies.refresh)
    PROVE AccountsInv'
<1>1. AccountsTypeOK'
  BY DEF AccountsInv, AccountsTypeOK, tables
<1>2. (\A d \in Calls : RowsOK(d)') /\ EmailsUnique'
  BY DEF AccountsInv, RowsOK, EmailsUnique, tables
<1>3. ASSUME NEW d \in Calls PROVE TokenOK(jar[d].access)' /\ TokenOK(jar[d].refresh)'
  <2>1. jar'[d] = jar[d] \/ jar'[d] = cookies
    BY DEF AccountsInv, AccountsTypeOK
  <2>2. TokenOK(jar[d].access) /\ TokenOK(jar[d].refresh)
    BY DEF AccountsInv
  <2>3. QED
    BY <2>1, <2>2 DEF TokenOK, tables
<1>4. QED
  BY <1>1, <1>2, <1>3 DEF AccountsInv

LEMMA TokenMade ==
    ASSUME NEW u \in Calls, NEW o \in Calls, NEW ttl \in Nat, now \in Nat, AccessTTL \in Nat
    PROVE generateToken(u, o, "OWNER", ttl) \in Token
BY DEF generateToken, Token

LEMMA AccountsInvStep == AccountsInv /\ [AccountsNext]_accountsVars => AccountsInv'
<1> SUFFICES ASSUME AccountsInv, [AccountsNext]_accountsVars PROVE AccountsInv'
  OBVIOUS
<1>0. AccountsTypeOK /\ EmailsUnique /\ \A c \in Calls : RowsOK(c)
  BY DEF AccountsInv
<1>n. /\ {RefreshedTTL, AccessTTL, RefreshTTL} \subseteq Nat /\ now \in Nat /\ faulted \in Nat
  BY <1>0, AccountsAssumption DEF AccountsTypeOK
<1>f. faulted + 1 \in Nat
  BY <1>n
<1>1. ASSUME NEW c \in Calls, Check(c) PROVE AccountsInv'
  <2>1. PICK s \in {"checked", "refused"} : reg[c] = "unsent" /\ reg' = [reg EXCEPT ![c] = s]
    BY <1>1 DEF Check, Proceeds
  <2>2. UNCHANGED <<users, orgs, members, jar, now>> /\ faulted' \in Nat
    BY <1>1, <1>n, <1>f DEF Check, Fails, tables
  <2>3. reg'[c] = s
    BY <2>1, <1>0 DEF AccountsTypeOK
  <2>4. RowsOK(c)' /\ EmailsUnique'
    BY <2>1, <2>2, <2>3, <1>0 DEF RowsOK, EmailsUnique, Underway
  <2>5. QED
    BY <2>1, <2>2, <2>4, RegistrationStep DEF Stages
<1>2. ASSUME NEW c \in Calls, CreateUser(c) PROVE AccountsInv'
  <2>1. PICK s \in {"user", "refused"} :
           /\ reg[c] = "checked" /\ reg' = [reg EXCEPT ![c] = s]
           /\ \/ CanCreateUser(c) /\ users' = users \union {c}
              \/ s = "refused" /\ UNCHANGED users
    BY <1>2 DEF CreateUser, Proceeds
  <2>2. UNCHANGED <<orgs, members, jar, now>> /\ faulted' \in Nat
    BY <1>2, <1>n, <1>f DEF CreateUser, Fails
  <2>3. reg'[c] = s
    BY <2>1, <1>0 DEF AccountsTypeOK
  <2>4. RowsOK(c)'
    BY <2>1, <2>2, <2>3, <1>0 DEF RowsOK, Underway
  <2>5. EmailsUnique'
    BY <2>1, <1>0 DEF EmailsUnique, CanCreateUser, GetUserByEmail
  <2>6. QED
    BY <2>1, <2>2, <2>4, <2>5, RegistrationStep DEF Stages
<1>3. ASSUME NEW c \in Calls, CreateOrganization(c) PROVE AccountsInv'
  <2>1. PICK s \in {"org", "refused"} :
           /\ reg[c] = "user" /\ reg' = [reg EXCEPT ![c] = s]
           /\ orgs' \in {orgs, orgs \union {c}} /\ (s = "org" => c \in orgs')
    BY <1>3 DEF CreateOrganization, Proceeds
  <2>2. UNCHANGED <<users, members, jar, now>> /\ faulted' \in Nat
    BY <1>3, <1>n, <1>f DEF CreateOrganization, Fails
  <2>3. reg'[c] = s
    BY <2>1, <1>0 DEF AccountsTypeOK
  <2>4. RowsOK(c)' /\ EmailsUnique'
    BY <2>1, <2>2, <2>3, <1>0 DEF RowsOK, Underway, EmailsUnique
  <2>5. QED
    BY <2>1, <2>2, <2>4, RegistrationStep DEF Stages
<1>4. ASSUME NEW c \in Calls, CreateMembership(c) PROVE AccountsInv'
  <2>1. PICK s \in {"member", "refused"} :
           /\ reg[c] = "org" /\ reg' = [reg EXCEPT ![c] = s]
           /\ members' \in {members, members \union {c}} /\ (s = "member" => c \in members')
    BY <1>4 DEF CreateMembership, Proceeds
  <2>2. UNCHANGED <<users, orgs, jar, now>> /\ faulted' \in Nat
    BY <1>4, <1>n, <1>f DEF CreateMembership, Fails
  <2>3. reg'[c] = s
    BY <2>1, <1>0 DEF AccountsTypeOK
  <2>4. RowsOK(c)' /\ EmailsUnique'
    BY <2>1, <2>2, <2>3, <1>0 DEF RowsOK, Underway, EmailsUnique
  <2>5. QED
    BY <2>1, <2>2, <2>4, RegistrationStep DEF Stages
<1>k. ASSUME NEW u \in users \intersect members \intersect orgs
      PROVE /\ setAuthCookies(u, u) \in Cookies
            /\ TokenOK(setAuthCookies(u, u).access) /\ TokenOK(setAuthCookies(u, u).refresh)
  <2>1. u \in Calls
    BY <1>0 DEF AccountsTypeOK
  <2>2. /\ generateToken(u, u, "OWNER", AccessTTL) \in Token
        /\ generateToken(u, u, "OWNER", RefreshTTL) \in Token
    BY <2>1, <1>n, TokenMade
  <2>3. /\ TokenOK(generateToken(u, u, "OWNER", AccessTTL))
        /\ TokenOK(generateToken(u, u, "OWNER", RefreshTTL))
    BY DEF TokenOK, generateToken
  <2>4. QED
    BY <2>2, <2>3 DEF setAuthCookies, Cookies
<1>5. ASSUME NEW c \in Calls, Answer(c) PROVE AccountsInv'
  <2>1. /\ reg[c] = "member" /\ reg' = [reg EXCEPT ![c] = "answered"]
        /\ jar' = [jar EXCEPT ![c] = setAuthCookies(c, c)]
        /\ UNCHANGED <<users, orgs, members, now, faulted>>
    BY <1>5 DEF Answer, Proceeds, tables
  <2>2. c \in users /\ c \in orgs /\ c \in members
    BY <2>1, <1>0 DEF RowsOK, Underway
  <2>3. /\ setAuthCookies(c, c) \in Cookies
        /\ TokenOK(setAuthCookies(c, c).access) /\ TokenOK(setAuthCookies(c, c).refresh)
    BY <2>2, <1>k
  <2>4. AccountsTypeOK'
    BY <2>1, <2>3, <1>0 DEF AccountsTypeOK, Stages
  <2>5. ASSUME NEW d \in Calls PROVE RowsOK(d)'
    <3>1. reg'[d] = reg[d] \/ (d = c /\ reg'[d] = "answered")
      BY <2>1, <1>0 DEF AccountsTypeOK
    <3>2. QED
      BY <3>1, <2>1, <2>2, <1>0 DEF RowsOK, Underway
  <2>6. EmailsUnique'
    BY <2>1, <1>0 DEF EmailsUnique
  <2>7. ASSUME NEW b \in Calls PROVE TokenOK(jar[b].access)' /\ TokenOK(jar[b].refresh)'
    <3>1. jar'[b] = jar[b] \/ jar'[b] = setAuthCookies(c, c)
      BY <2>1, <1>0 DEF AccountsTypeOK
    <3>2. TokenOK(jar[b].access) /\ TokenOK(jar[b].refresh)
      BY DEF AccountsInv
    <3>3. TokenOK(jar'[b].access) /\ TokenOK(jar'[b].refresh)
      BY <3>1, <3>2, <2>3
    <3>4. QED
      BY <3>3, <2>1 DEF TokenOK
  <2>8. QED
    BY <2>4, <2>5, <2>6, <2>7 DEF AccountsInv
<1>6. ASSUME NEW b \in Calls, NEW u \in Calls, Login(b, u) PROVE AccountsInv'
  <2>1. /\ u \in users /\ u \in members /\ u \in orgs
        /\ jar' = [jar EXCEPT ![b] = setAuthCookies(u, u)]
        /\ UNCHANGED <<tables, reg, now, faulted>>
    BY <1>6 DEF Login, ListUserMemberships
  <2>2. QED
    BY <2>1, <1>k, CookieStep
<1>7. ASSUME NEW b \in Calls, Refresh(b) PROVE AccountsInv'
  <2>0. jar[b] \in Cookies /\ TokenOK(jar[b].access) /\ TokenOK(jar[b].refresh)
    BY <1>0 DEF AccountsTypeOK, AccountsInv
  <2>1. PICK t \in {jar[b].access, jar[b].refresh} \ {NoToken} :
           jar' = [jar EXCEPT ![b] =
                     IF RefreshAccessToken(t)
                     THEN [jar[b] EXCEPT !.access = generateToken(t.user, t.org, t.role, RefreshedTTL)]
                     ELSE NoCookies]
    BY <1>7 DEF Refresh
  <2>2. UNCHANGED <<tables, reg, now, faulted>>
    BY <1>7 DEF Refresh
  <2>3. t \in Token /\ t.role = "OWNER" /\ TokenOK(t)
    BY <2>0 DEF Cookies, Token
  <2>4. t.user \in Calls /\ t.org \in Calls
    BY <2>3 DEF Token
  <2> DEFINE fresh == generateToken(t.user, t.org, t.role, RefreshedTTL)
  <2>5. fresh \in Token
    BY <2>3, <2>4, <1>n, TokenMade
  <2>6. TokenOK(fresh)
    BY <2>1, <2>3 DEF TokenOK, generateToken
  <2> HIDE DEF fresh
  <2>7. [jar[b] EXCEPT !.access = fresh] \in Cookies /\ NoCookies \in Cookies
    BY <2>0, <2>5 DEF Cookies, NoCookies
  <2>8. /\ [jar[b] EXCEPT !.access = fresh].access = fresh
        /\ [jar[b] EXCEPT !.access = fresh].refresh = jar[b].refresh
        /\ NoCookies.access = NoToken /\ NoCookies.refresh = NoToken
    BY <2>0 DEF Cookies, NoCookies
  <2>9. TokenOK(NoToken)
    BY DEF TokenOK
  <2>10. CASE RefreshAccessToken(t)
    <3>1. jar' = [jar EXCEPT ![b] = [jar[b] EXCEPT !.access = fresh]]
      BY <2>1, <2>10 DEF fresh
    <3>2. QED
      BY <3>1, <2>0, <2>2, <2>6, <2>7, <2>8, CookieStep
  <2>11. CASE ~RefreshAccessToken(t)
    <3>1. jar' = [jar EXCEPT ![b] = NoCookies]
      BY <2>1, <2>11
    <3>2. QED
      BY <3>1, <2>2, <2>7, <2>8, <2>9, CookieStep
  <2>12. QED
    BY <2>10, <2>11
<1>8. ASSUME NEW b \in Calls, Logout(b) PROVE AccountsInv'
  <2>1. NoCookies \in Cookies /\ TokenOK(NoCookies.access) /\ TokenOK(NoCookies.refresh)
    BY DEF NoCookies, Cookies, TokenOK
  <2>2. QED
    BY <1>8, <2>1, CookieStep DEF Logout
<1>9. CASE Tick
  BY <1>9, <1>n DEF Tick, tables, AccountsInv, AccountsTypeOK, RowsOK, EmailsUnique, TokenOK
<1>10. CASE UNCHANGED accountsVars
  BY <1>10 DEF accountsVars, AccountsInv, AccountsTypeOK, RowsOK, EmailsUnique, TokenOK
<1>11. QED
  BY <1>1, <1>2, <1>3, <1>4, <1>5, <1>6, <1>7, <1>8, <1>9, <1>10 DEF AccountsNext, Register

LEMMA AccountsInvHolds == AccountsSpec => []AccountsInv
BY AccountsInvInit, AccountsInvStep, PTL DEF AccountsSpec

(* Whoever was told that the account exists can log in and use it, whatever *)
(* statements of however many registrations fail (auth_service.Register).  *)
THEOREM AccountsUsableHolds == AccountsSpec => []AccountsUsable
<1>1. AccountsInv => AccountsUsable
  <2> SUFFICES ASSUME AccountsInv PROVE AccountsUsable
    OBVIOUS
  <2>0. AccountsTypeOK /\ EmailsUnique /\ \A c \in Calls : RowsOK(c)
    BY DEF AccountsInv
  <2>1. \A c, d \in Calls :
           reg[c] \in Underway /\ reg[d] \in Underway /\ Email[c] = Email[d] => c = d
    BY <2>0 DEF RowsOK, EmailsUnique
  <2>2. \A c \in Calls : reg[c] = "answered" => c \in users /\ ListUserMemberships(c) # {}
    BY <2>0 DEF RowsOK, Underway, ListUserMemberships
  <2>3. \A b \in Calls : \A t \in {jar[b].access, jar[b].refresh} \ {NoToken} :
           t.user \in users /\ t.org \in ListUserMemberships(t.user)
    BY DEF AccountsInv, TokenOK, ListUserMemberships
  <2>4. ASSUME NEW b \in Calls, Authenticated(b) # {} PROVE Me(b) # {}
    <3>1. Authenticated(b) = {jar[b].access.user} /\ jar[b].access # NoToken
      BY <2>4 DEF Authenticated, Verifies
    <3>2. jar[b].access.user \in users
      BY <2>3, <3>1
    <3>3. GetUserByID(jar[b].access.user) = {jar[b].access.user}
      BY <3>2 DEF GetUserByID
    <3>4. <<jar[b].access.user, ListUserMemberships(jar[b].access.user)>> \in Me(b)
      BY <3>1, <3>3 DEF Me
    <3>5. QED
      BY <3>4
  <2>5. \A u \in users : ListUserMemberships(u) = {} => reg[u] \in {"user", "org", "refused"}
    BY <2>0 DEF AccountsTypeOK, Stages, RowsOK, Underway, ListUserMemberships
  <2>6. QED
    BY <2>1, <2>2, <2>3, <2>4, <2>5 DEF AccountsUsable
<1>2. QED
  BY <1>1, AccountsInvHolds, PTL

-----------------------------------------------------------------------------
(* Explanations. *)

(* Settings under which this of a text may leave. *)
Consents(s, data, text) ==
    s.enabled /\ s.level = "SANITIZED" /\ MayBeSent(data, text, s)

QuestionOK(q) ==
    /\ asking[q] # "unsent" => question[q] \in Question
    /\ asking[q] \in {"unsent", "arrived", "policy"} => told[q] = Nothing
    /\ asking[q] = "arrived" => aiRow \in inForce[q]
    /\ asking[q] = "policy" /\ privacy[q].level = "SANITIZED" =>
          \E s \in inForce[q] : s.enabled /\ s.level = "SANITIZED" /\ s.keys = privacy[q].keys
    /\ asking[q] = "cloud" \/ told[q] # Nothing =>
          \E s \in inForce[q] : Consents(s, told[q].text, question[q].text)

AiInv == AiTypeOK /\ \A q \in Questions : QuestionOK(q)

LEMMA AiInvInit == AiInit => AiInv
BY DEF AiInit, AiInv, AiTypeOK, QuestionOK, AiSettings, Levels, OwnKeys, NoSettings, Nothing

(* What the sanitizer leaves of a text may be sent under any settings with *)
(* the keys it was given.                                                  *)
LEMMA SanitizedText ==
    ASSUME NEW text \in Texts, NEW s \in AiSettings
    PROVE /\ SanitizeForAI(text, s.keys) \subseteq Piece
          /\ MayBeSent(SanitizeForAI(text, s.keys), text, s)
<1> DEFINE data == SanitizeForAI(text, s.keys)
<1>1. text.data \subseteq Piece /\ s.keys \in OwnKeys
  BY AiAssumption DEF Text, AiSettings
<1>2. data \subseteq text.data
  BY DEF SanitizeForAI, sanitizeJSONMap
<1>3. ASSUME NEW p \in data
      PROVE /\ p.kind \notin Patterns
            /\ p.place = "member" /\ StaysObject(text) =>
                  p.kind # "sensitive key" /\ (s.keys = "exact" => p.kind # "custom key")
            /\ p.kind = "custom key" /\ s.keys # "none" =>
                  p.rest \/ p.place = "inner array" \/ s.keys = "padded"
  <2>1. p.place \in {"member", "string", "inner array"} /\ p.rest \in BOOLEAN
    BY <1>1, <1>2, <1>3 DEF Piece
  <2>2. p.kind \notin Patterns
    BY <1>3 DEF SanitizeForAI, sanitizeJSONMap
  <2>3. CASE StaysObject(text)
    <3>1. /\ p.place = "member" =>
                p.kind # "sensitive key" /\ ~(p.kind = "custom key" /\ s.keys = "exact")
          /\ p.place = "string" => ~HiddenInText(p, s.keys)
      BY <2>3, <1>3 DEF SanitizeForAI, sanitizeJSONMap
    <3>2. QED
      BY <3>1, <2>1, <2>2, <1>1 DEF HiddenInText, OwnKeys
  <2>4. CASE ~StaysObject(text)
    BY <2>4, <1>3, <2>1, <2>2 DEF SanitizeForAI, HiddenInText
  <2>5. QED
    BY <2>3, <2>4
<1>4. QED
  BY <1>1, <1>2, <1>3 DEF MayBeSent

(* A step leaves every other question alone.                               *)
SameQuestion(p) ==
    /\ asking'[p] = asking[p] /\ question'[p] = question[p] /\ privacy'[p] = privacy[p]
    /\ inForce'[p] = inForce[p] /\ told'[p] = told[p]

LEMMA SameQuestionKeeps ==
    ASSUME NEW p \in Questions, QuestionOK(p), SameQuestion(p), UNCHANGED aiRow
    PROVE QuestionOK(p)'
BY DEF QuestionOK, SameQuestion

LEMMA AiInvStep == AiInv /\ [AiNext]_aiVars => AiInv'
<1> SUFFICES ASSUME AiInv, [AiNext]_aiVars PROVE AiInv'
  OBVIOUS
<1>0. AiTypeOK /\ \A q \in Questions : QuestionOK(q)
  BY DEF AiInv
<1>1. CASE UpdateSettings
  <2>1. PICK s \in [enabled : BOOLEAN, level : Levels \union {"OTHER"}, keys : OwnKeys] :
           aiRow' = [s EXCEPT !.level = IF s.level \in Levels THEN s.level ELSE "SANITIZED"]
    BY <1>1 DEF UpdateSettings, UpdateOrganizationAISettings
  <2>2. aiRow' \in AiSettings
    BY <2>1 DEF AiSettings, Levels
  <2>c. revised \in Nat
    BY <1>0 DEF AiTypeOK
  <2>d. revised' = revised + 1
    BY <1>1 DEF UpdateSettings
  <2>a. revised' \in Nat
    BY <2>c, <2>d
  <2>b. /\ UNCHANGED <<asking, question, privacy, told, advice>>
        /\ inForce' = [q \in Questions |->
                         IF Running(q) THEN inForce[q] \union {aiRow'} ELSE inForce[q]]
    BY <1>1 DEF UpdateSettings
  <2>3. /\ UNCHANGED <<asking, question, privacy, told, advice>> /\ revised' \in Nat
        /\ inForce' = [q \in Questions |->
                         IF Running(q) THEN inForce[q] \union {aiRow'} ELSE inForce[q]]
    BY <2>a, <2>b
  <2>4. AiTypeOK'
    <3>1. inForce' \in [Questions -> SUBSET AiSettings]
      BY <2>2, <2>3, <1>0 DEF AiTypeOK
    <3>2. QED
      BY <2>2, <2>3, <3>1, <1>0 DEF AiTypeOK
  <2>5. ASSUME NEW q \in Questions PROVE QuestionOK(q)'
    <3>1. /\ inForce[q] \subseteq inForce'[q]
          /\ asking[q] = "arrived" => aiRow' \in inForce'[q]
      BY <2>3 DEF Running
    <3>2. QuestionOK(q)
      BY <1>0
    <3>3. asking'[q] = asking[q] /\ question'[q] = question[q] /\ privacy'[q] = privacy[q] /\ told'[q] = told[q]
      BY <2>3
    <3>4. QED
      BY <3>1, <3>2, <3>3 DEF QuestionOK
  <2>6. QED
    BY <2>4, <2>5 DEF AiInv
<1>2. ASSUME NEW q \in Questions, ReceiveFinding(q) \/ ReceiveIncident(q) PROVE AiInv'
  <2>1. PICK k \in Question : question' = [question EXCEPT ![q] = k]
    BY <1>2 DEF ReceiveFinding, ReceiveIncident, ReceiveQuestion, Question
  <2>2. /\ asking[q] = "unsent" /\ asking' = [asking EXCEPT ![q] = "arrived"]
        /\ inForce' = [inForce EXCEPT ![q] = {aiRow}]
        /\ UNCHANGED <<aiRow, revised, privacy, told, advice>>
    BY <1>2 DEF ReceiveFinding, ReceiveIncident, ReceiveQuestion, AiMoves
  <2>3. AiTypeOK'
    BY <2>1, <2>2, <1>0 DEF AiTypeOK
  <2>4. \A p \in Questions : p # q => SameQuestion(p)
    BY <2>1, <2>2, <1>0 DEF AiTypeOK, SameQuestion
  <2>5. QuestionOK(q)'
    <3>1. asking'[q] = "arrived" /\ question'[q] = k /\ inForce'[q] = {aiRow} /\ told'[q] = Nothing
      BY <2>1, <2>2, <1>0 DEF AiTypeOK, QuestionOK
    <3>2. QED
      BY <3>1, <2>2 DEF QuestionOK
  <2>6. QED
    BY <2>2, <2>3, <2>4, <2>5, <1>0, SameQuestionKeeps DEF AiInv
<1>3. ASSUME NEW q \in Questions, ReadPolicy(q) PROVE AiInv'
  <2> DEFINE read == IF aiRow.enabled THEN [level |-> aiRow.level, keys |-> aiRow.keys]
                     ELSE NoSettings
  <2>1. /\ asking[q] = "arrived" /\ asking' = [asking EXCEPT ![q] = "policy"]
        /\ privacy' = [privacy EXCEPT ![q] = read]
        /\ UNCHANGED <<aiRow, revised, question, inForce, told, advice>>
    BY <1>3 DEF ReadPolicy, AiMoves, GetOrganizationAISettings
  <2>2. aiRow \in AiSettings
    BY <1>0 DEF AiTypeOK
  <2>3. read \in [level : Levels, keys : OwnKeys]
    BY <2>2 DEF AiSettings, Levels, OwnKeys, NoSettings
  <2>4. read.level = "SANITIZED" =>
           aiRow.enabled /\ aiRow.level = "SANITIZED" /\ aiRow.keys = read.keys
    BY DEF NoSettings
  <2> HIDE DEF read
  <2>5. AiTypeOK'
    BY <2>1, <2>3, <1>0 DEF AiTypeOK
  <2>6. \A p \in Questions : p # q => SameQuestion(p)
    BY <2>1, <1>0 DEF AiTypeOK, SameQuestion
  <2>7. QuestionOK(q)'
    <3>1. asking'[q] = "policy" /\ privacy'[q] = read
      BY <2>1, <1>0 DEF AiTypeOK
    <3>2. aiRow \in inForce[q] /\ told[q] = Nothing /\ question[q] \in Question
      BY <2>1, <1>0 DEF QuestionOK
    <3>3. QED
      BY <3>1, <3>2, <2>1, <2>4 DEF QuestionOK
  <2>8. QED
    BY <2>1, <2>5, <2>6, <2>7, <1>0, SameQuestionKeeps DEF AiInv
<1>4. ASSUME NEW q \in Questions, callLLM(q) \/ callIncidentLLM(q) PROVE AiInv'
  <2> DEFINE data == SanitizeForAI(question[q].text, privacy[q].keys)
  <2>1. /\ Cloud(q) /\ asking[q] = "policy" /\ asking' = [asking EXCEPT ![q] = "cloud"]
        /\ UNCHANGED <<aiRow, revised, question, privacy, inForce, advice>>
    BY <1>4 DEF callLLM, callIncidentLLM, SendPrompt, AiMoves
  <2>2. question[q] \in Question /\ privacy[q] \in [level : Levels, keys : OwnKeys]
    BY <2>1, <1>0 DEF QuestionOK, AiTypeOK
  <2>3. question[q].text \in Texts /\ privacy[q].keys \in OwnKeys /\ privacy[q].level \in Levels
    BY <2>2 DEF Question
  <2>4. PICK labels \in SUBSET Kinds :
           told' = [told EXCEPT ![q] = [text |-> data, labels |-> labels]]
    <3>1. CASE callLLM(q)
      <4>1. question[q].labels \in SUBSET Kinds
        BY <3>1, <2>2, AiAssumption DEF callLLM, Question
      <4>2. QED
        BY <3>1, <4>1 DEF callLLM, SendPrompt
    <3>2. CASE callIncidentLLM(q)
      BY <3>2 DEF callIncidentLLM, SendPrompt
    <3>3. QED
      BY <1>4, <3>1, <3>2
  <2>5. privacy[q].level = "SANITIZED"
    BY <2>1, <2>3 DEF Cloud, isCloudAllowed, Levels
  <2>6. PICK s \in inForce[q] : s.enabled /\ s.level = "SANITIZED" /\ s.keys = privacy[q].keys
    BY <2>1, <2>5, <1>0 DEF QuestionOK
  <2>7. s \in AiSettings
    BY <2>6, <1>0 DEF AiTypeOK
  <2>8. data \subseteq Piece /\ MayBeSent(data, question[q].text, s)
    BY <2>3, <2>6, <2>7, SanitizedText
  <2> HIDE DEF data
  <2>9. AiTypeOK'
    <3>1. told' \in [Questions -> [text : SUBSET Piece, labels : SUBSET Kinds]]
      BY <2>4, <2>8, <1>0 DEF AiTypeOK
    <3>2. QED
      BY <2>1, <3>1, <1>0 DEF AiTypeOK
  <2>10. \A p \in Questions : p # q => SameQuestion(p)
    BY <2>1, <2>4, <1>0 DEF AiTypeOK, SameQuestion
  <2>11. QuestionOK(q)'
    <3>1. asking'[q] = "cloud" /\ told'[q] = [text |-> data, labels |-> labels]
      BY <2>1, <2>4, <1>0 DEF AiTypeOK
    <3>2. Consents(s, told'[q].text, question[q].text)
      BY <3>1, <2>6, <2>8 DEF Consents
    <3>3. QED
      BY <3>1, <3>2, <2>1, <2>2, <2>6 DEF QuestionOK
  <2>12. QED
    BY <2>1, <2>9, <2>10, <2>11, <1>0, SameQuestionKeeps DEF AiInv
<1>5. ASSUME NEW q \in Questions,
             PolicyUnread(q) \/ CloudAnswers(q) \/ localRulebook(q) \/ localIncidentRulebook(q)
      PROVE AiInv'
  <2>1. PICK s \in {"failed", "answered", "local"} :
           asking[q] # "unsent" /\ asking' = [asking EXCEPT ![q] = s]
    BY <1>5 DEF PolicyUnread, CloudAnswers, localRulebook, localIncidentRulebook, AiMoves
  <2>2. UNCHANGED <<aiRow, revised, question, privacy, inForce, told>>
    BY <1>5 DEF PolicyUnread, CloudAnswers, localRulebook, localIncidentRulebook
  <2>3. advice' \in [Questions -> {"none", "replay", "no replay"}]
    <3>1. UNCHANGED advice \/ \E a \in {"replay", "no replay"} : advice' = [advice EXCEPT ![q] = a]
      BY <1>5 DEF PolicyUnread, CloudAnswers, localRulebook, localIncidentRulebook
    <3>2. QED
      BY <3>1, <1>0 DEF AiTypeOK
  <2>4. AiTypeOK'
    BY <2>1, <2>2, <2>3, <1>0 DEF AiTypeOK
  <2>5. \A p \in Questions : p # q => SameQuestion(p)
    BY <2>1, <2>2, <1>0 DEF AiTypeOK, SameQuestion
  <2>6. QuestionOK(q)'
    BY <2>1, <2>2, <1>0 DEF QuestionOK, AiTypeOK
  <2>7. QED
    BY <2>2, <2>4, <2>5, <2>6, <1>0, SameQuestionKeeps DEF AiInv
<1>6. CASE UNCHANGED aiVars
  BY <1>6, <1>0 DEF aiVars, AiInv, AiTypeOK, QuestionOK
<1>7. QED
  BY <1>1, <1>2, <1>3, <1>4, <1>5, <1>6
     DEF AiNext, ExplainFinding, ExplainDeliveryIncident

(* Nothing of a question leaves for a provider unless the organization     *)
(* shared at some time since it arrived, and of its texts only what the    *)
(* keys it named at that time let through, which is more than nothing of   *)
(* theirs: see MayBeSent (internal/ai and ai_handler.go).                  *)
THEOREM ConsentHolds == AiSpec => []CloudNeedsConsent
<1>1. AiInv => CloudNeedsConsent
  BY DEF AiInv, QuestionOK, Consents, CloudNeedsConsent
<1>2. QED
  BY <1>1, AiInvInit, AiInvStep, PTL DEF AiSpec

-----------------------------------------------------------------------------
(* Contracts. *)

IsRow(r) ==
    r = [id |-> r.id, version |-> r.version, contract |-> r.contract, active |-> r.active]

(* Nothing is said of versions and contracts: neither property needs it.   *)
Shapes ==
    /\ DOMAIN at = Edits /\ DOMAIN edit = Edits
    /\ DOMAIN hook = Hooks /\ DOMAIN against = Hooks
    /\ slipped \in Nat

(* Identifiers are never given out twice, and what is compared was one.    *)
TableOK ==
    /\ \A r \in table : IsRow(r) /\ r.id \in taken
    /\ \A r, s \in table : r.id = s.id => r = s
AgainstOK == \A w \in Hooks : \A r \in against[w] : r.id \in taken

(* As long as nothing was crossed and no statement failed, at most one row *)
(* is active, and none while a request is about to activate its own, which *)
(* then is the only one.                                                   *)
OneOn == \A r, s \in table : r.active /\ s.active => r = s
NoneOn == \A r \in table : ~r.active
Calm ==
    /\ OneOn
    /\ (\E h \in Edits : Activating(h)) => NoneOn
    /\ \A g, h \in Edits : Activating(g) /\ Activating(h) => g = h

BaselinesInv ==
    /\ Shapes /\ TableOK /\ AgainstOK /\ RefusedOnlyIfDeleted
    /\ crossed \/ slipped > 0 \/ Calm

LEMMA BaselinesInvInit == BaselinesInit => BaselinesInv
BY DEF BaselinesInit, BaselinesInv, Shapes, TableOK, AgainstOK, RefusedOnlyIfDeleted,
       Calm, OneOn, NoneOn, Activating

(* Rows change, but none appears.                                          *)
RowsFrom(f) == \A r \in table' : \E s \in f : r.id = s.id

(* Setting the flag of a row changes nothing else of it.                   *)
LEMMA FlagSet ==
    ASSUME NEW r, IsRow(r), NEW b \in BOOLEAN
    PROVE LET s == [r EXCEPT !.active = b]
          IN IsRow(s) /\ s.id = r.id /\ s.active = b
<1> DEFINE s == [r EXCEPT !.active = b]
<1>1. r = [id |-> r.id, version |-> r.version, contract |-> r.contract, active |-> r.active]
  BY DEF IsRow
<1>2. s = [id |-> r.id, version |-> r.version, contract |-> r.contract, active |-> b]
  BY <1>1
<1>3. /\ s.id = r.id /\ s.version = r.version /\ s.contract = r.contract /\ s.active = b
  BY <1>2
<1>4. s = [id |-> s.id, version |-> s.version, contract |-> s.contract, active |-> s.active]
  BY <1>2, <1>3
<1>5. QED
  BY <1>3, <1>4 DEF IsRow

LEMMA Deactivated ==
    ASSUME TableOK, table' = DeactivateAllSchemaBaselines, UNCHANGED taken
    PROVE TableOK' /\ NoneOn' /\ RowsFrom(table)
<1> DEFINE Off(r) == [r EXCEPT !.active = FALSE]
<1>1. \A r \in table : IsRow(Off(r)) /\ Off(r).id = r.id /\ Off(r).active = FALSE
  BY FlagSet DEF TableOK
<1>2. \A r \in table' : \E s \in table : r = Off(s)
  BY DEF DeactivateAllSchemaBaselines
<1> HIDE DEF Off
<1>3. TableOK' /\ RowsFrom(table)
  BY <1>1, <1>2 DEF TableOK, RowsFrom
<1>4. NoneOn'
  BY <1>1, <1>2 DEF NoneOn
<1>5. QED
  BY <1>3, <1>4

LEMMA Activated ==
    ASSUME TableOK, NEW id, table' = ActivateSchemaBaseline(id), UNCHANGED taken
    PROVE TableOK' /\ RowsFrom(table) /\ (NoneOn => OneOn')
<1> DEFINE On(r) == [r EXCEPT !.active = TRUE]
<1>1. \A r \in table : IsRow(On(r)) /\ On(r).id = r.id /\ On(r).active = TRUE
  BY FlagSet DEF TableOK
<1>2. \A r \in table' : \E s \in table : (s.id = id /\ r = On(s)) \/ (s.id # id /\ r = s)
  BY DEF ActivateSchemaBaseline
<1> HIDE DEF On
<1>3. TableOK' /\ RowsFrom(table)
  BY <1>1, <1>2 DEF TableOK, RowsFrom
<1>4. NoneOn => \A r \in table' : r.active => r.id = id
  BY <1>1, <1>2 DEF NoneOn
<1>5. QED
  BY <1>3, <1>4 DEF TableOK, OneOn

LEMMA Rewritten ==
    ASSUME TableOK, NEW id, NEW contract, table' = UpdateSchemaBaselineContent(id, contract),
           UNCHANGED taken
    PROVE TableOK' /\ RowsFrom(table) /\ (NoneOn => NoneOn') /\ (OneOn => OneOn')
<1> DEFINE New(r) == [r EXCEPT !.contract = contract]
<1>1. \A r \in table : IsRow(New(r)) /\ New(r).id = r.id /\ New(r).active = r.active
  BY DEF TableOK, IsRow
<1>2. \A r \in table' : \E s \in table : (s.id = id /\ r = New(s)) \/ (s.id # id /\ r = s)
  BY DEF UpdateSchemaBaselineContent
<1> HIDE DEF New
<1>3. TableOK' /\ RowsFrom(table)
  BY <1>1, <1>2 DEF TableOK, RowsFrom
<1>4. NoneOn => NoneOn'
  BY <1>1, <1>2 DEF NoneOn
<1>5. \A r \in table' : \E s \in table : r.id = s.id /\ r.active = s.active
  BY <1>1, <1>2
<1>6. OneOn => OneOn'
  BY <1>3, <1>5 DEF OneOn, TableOK
<1>7. QED
  BY <1>3, <1>4, <1>6

LEMMA Created ==
    ASSUME TableOK, NEW v, NEW contract, NEW active, CreateSchemaBaseline(v, contract, active)
    PROVE /\ TableOK' /\ taken \subseteq taken'
          /\ \A r \in table' : r \in table \/ r.id \notin taken
          /\ ~active /\ NoneOn => NoneOn'
          /\ ~active /\ OneOn => OneOn'
          /\ NoneOn => OneOn'
<1>1. PICK id \in BaselineIds \ taken :
         /\ table' = table \union
               {[id |-> id, version |-> v, contract |-> contract, active |-> active]}
         /\ taken' = taken \union {id}
  BY DEF CreateSchemaBaseline
<1>2. PICK n : /\ n = [id |-> id, version |-> v, contract |-> contract, active |-> active]
               /\ table' = table \union {n}
  BY <1>1
<1>3. IsRow(n) /\ n.id = id /\ n.active = active
  BY <1>2 DEF IsRow
<1>4. QED
  BY <1>1, <1>2, <1>3 DEF TableOK, NoneOn, OneOn

(* What was refused stays so: identifiers do not come back.                *)
LEMMA RefusedKeeps ==
    ASSUME BaselinesInv, UNCHANGED receiving, taken \subseteq taken',
           \A r \in table' : (\E s \in table : r.id = s.id) \/ r.id \notin taken
    PROVE RefusedOnlyIfDeleted' /\ AgainstOK'
BY DEF BaselinesInv, RefusedOnlyIfDeleted, AgainstOK, receiving

(* A request that is not activating neither begins to nor ends it.         *)
LEMMA CalmKeeps ==
    ASSUME Calm, NEW h \in Edits, ~Activating(h), ~Activating(h)',
           \A g \in Edits : g # h => at'[g] = at[g] /\ edit'[g] = edit[g],
           OneOn => OneOn', NoneOn => NoneOn'
    PROVE Calm'
<1>1. \A g \in Edits : Activating(g)' <=> Activating(g)
  BY DEF Activating
<1>2. QED
  BY <1>1 DEF Calm

LEMMA FinishedEffect ==
    ASSUME Shapes, NEW h \in Edits, Finished(h)
    PROVE /\ \A g \in Edits : g # h => at'[g] = at[g] /\ edit'[g] = edit[g]
          /\ at'[h] = "done" /\ ~Activating(h)'
          /\ DOMAIN at' = Edits /\ DOMAIN edit' = Edits
BY DEF Shapes, Finished, Activating

LEMMA BaselinesInvStep == BaselinesInv /\ [BaselinesNext]_baselinesVars => BaselinesInv'
<1> SUFFICES ASSUME BaselinesInv, [BaselinesNext]_baselinesVars PROVE BaselinesInv'
  OBVIOUS
<1>0. Shapes /\ TableOK /\ AgainstOK /\ RefusedOnlyIfDeleted /\ slipped \in Nat
      /\ (crossed \/ slipped > 0 \/ Calm)
  BY DEF BaselinesInv, Shapes
<1>s. Slip => slipped' \in Nat /\ slipped' > 0
  BY <1>0 DEF Slip
<1>k. ASSUME NEW h \in Edits, UNCHANGED <<table, taken, receiving, crossed>>,
             Sound \/ Slip, ~Activating(h), ~Activating(h)',
             \A g \in Edits : g # h => at'[g] = at[g] /\ edit'[g] = edit[g],
             DOMAIN at' = Edits, DOMAIN edit' = Edits
      PROVE BaselinesInv'
  <2>1. Shapes'
    BY <1>k, <1>0, <1>s DEF Shapes, Sound, receiving
  <2>2. TableOK' /\ AgainstOK' /\ RefusedOnlyIfDeleted'
    BY <1>k, <1>0 DEF TableOK, AgainstOK, RefusedOnlyIfDeleted, receiving
  <2>3. Calm => Calm'
    BY <1>k, CalmKeeps DEF OneOn, NoneOn
  <2>4. crossed' \/ slipped' > 0 \/ Calm'
    BY <1>k, <1>0, <1>s, <2>3 DEF Sound
  <2>5. QED
    BY <2>1, <2>2, <2>4 DEF BaselinesInv
<1>1. ASSUME NEW h \in Edits, NEW e, Asks(h, e) PROVE BaselinesInv'
  <2>1. /\ at[h] = "unsent" /\ at' = [at EXCEPT ![h] = "asked"]
        /\ edit' = [edit EXCEPT ![h] = e]
        /\ UNCHANGED <<table, taken, receiving, crossed>> /\ Sound
    BY <1>1 DEF Asks, Sound
  <2>2. /\ ~Activating(h) /\ ~Activating(h)'
        /\ \A g \in Edits : g # h => at'[g] = at[g] /\ edit'[g] = edit[g]
        /\ DOMAIN at' = Edits /\ DOMAIN edit' = Edits
    BY <2>1, <1>0 DEF Shapes, Activating
  <2>3. QED
    BY <2>1, <2>2, <1>k
<1>2. ASSUME NEW h \in Edits, Sends(h) PROVE BaselinesInv'
  <2>1. \E e : Asks(h, e)
    BY <1>2 DEF Sends, InferBaseline, ImportOpenAPI, SaveManual, Saves, AskActivate,
                AskDeactivate, AskDelete, AskUpdate, AskDismiss, AskAccept
  <2>2. QED
    BY <2>1, <1>1
(* A statement on the rows, by a request that is not activating. *)
<1>r. ASSUME NEW h \in Edits, Finished(h), at[h] = "asked", TableOK', RowsFrom(table),
             OneOn => OneOn', NoneOn => NoneOn',
             UNCHANGED <<taken, receiving, crossed>>, Sound \/ Slip
      PROVE BaselinesInv'
  <2>1. /\ \A g \in Edits : g # h => at'[g] = at[g] /\ edit'[g] = edit[g]
        /\ ~Activating(h)' /\ DOMAIN at' = Edits /\ DOMAIN edit' = Edits
    BY <1>r, <1>0, FinishedEffect
  <2>2. ~Activating(h)
    BY <1>r DEF Activating
  <2>3. Shapes'
    BY <1>r, <1>0, <1>s, <2>1 DEF Shapes, Sound, receiving
  <2>4. RefusedOnlyIfDeleted' /\ AgainstOK'
    BY <1>r, RefusedKeeps DEF RowsFrom
  <2>5. Calm => Calm'
    BY <1>r, <2>1, <2>2, CalmKeeps
  <2>6. crossed' \/ slipped' > 0 \/ Calm'
    BY <1>r, <1>0, <1>s, <2>5 DEF Sound
  <2>7. QED
    BY <1>r, <2>3, <2>4, <2>6 DEF BaselinesInv
<1>u. UNCHANGED <<table, taken>> =>
         TableOK' /\ RowsFrom(table) /\ (OneOn => OneOn') /\ (NoneOn => NoneOn')
  BY <1>0 DEF TableOK, RowsFrom, OneOn, NoneOn
<1>3. ASSUME NEW h \in Edits, DeactivateBaseline(h) PROVE BaselinesInv'
  <2>1. /\ at[h] = "asked" /\ Finished(h) /\ UNCHANGED <<taken, receiving, crossed>>
        /\ (table' = DeactivateAllSchemaBaselines /\ Sound) \/ (UNCHANGED table /\ Slip)
    BY <1>3 DEF DeactivateBaseline
  <2>2. TableOK' /\ RowsFrom(table) /\ (OneOn => OneOn') /\ (NoneOn => NoneOn')
    <3>1. NoneOn' => OneOn'
      BY DEF NoneOn, OneOn
    <3>2. QED
      BY <2>1, <3>1, <1>0, <1>u, Deactivated
  <2>3. QED
    BY <2>1, <2>2, <1>r
<1>4. ASSUME NEW h \in Edits, DeleteBaseline(h) PROVE BaselinesInv'
  <2>1. /\ at[h] = "asked" /\ Finished(h) /\ UNCHANGED <<taken, receiving, crossed>> /\ Sound
        /\ table' \subseteq table
    BY <1>4 DEF DeleteBaseline, DeleteSchemaBaseline, Sound
  <2>2. TableOK' /\ RowsFrom(table) /\ (OneOn => OneOn') /\ (NoneOn => NoneOn')
    BY <2>1, <1>0 DEF TableOK, RowsFrom, OneOn, NoneOn
  <2>3. QED
    BY <2>1, <2>2, <1>r
<1>5. ASSUME NEW h \in Edits, UpdateBaseline(h) PROVE BaselinesInv'
  <2>1. /\ at[h] = "asked" /\ Finished(h) /\ UNCHANGED <<taken, receiving, crossed>> /\ Sound
        /\ table' = UpdateSchemaBaselineContent(edit[h].id, edit[h].contract)
    BY <1>5 DEF UpdateBaseline, Sound
  <2>2. TableOK' /\ RowsFrom(table) /\ (OneOn => OneOn') /\ (NoneOn => NoneOn')
    BY <2>1, <1>0, Rewritten
  <2>3. QED
    BY <2>1, <2>2, <1>r
<1>6. ASSUME NEW h \in Edits, DismissDrift(h) PROVE BaselinesInv'
  <2>1. /\ at[h] = "asked" /\ Finished(h) /\ UNCHANGED <<table, taken, receiving, crossed>> /\ Sound
    BY <1>6 DEF DismissDrift, Sound
  <2>2. QED
    BY <2>1, <1>u, <1>r
<1>7. ASSUME NEW h \in Edits, AcceptDrift(h) PROVE BaselinesInv'
  <2>1. /\ at[h] = "asked" /\ UNCHANGED <<table, taken, receiving, crossed>> /\ (Sound \/ Slip)
        /\ \/ Finished(h)
           \/ UNCHANGED at /\ \E e : edit' = [edit EXCEPT ![h] = e]
    BY <1>7 DEF AcceptDrift
  <2>2. /\ ~Activating(h) /\ ~Activating(h)'
        /\ \A g \in Edits : g # h => at'[g] = at[g] /\ edit'[g] = edit[g]
        /\ DOMAIN at' = Edits /\ DOMAIN edit' = Edits
    <3>1. CASE Finished(h)
      BY <2>1, <3>1, <1>0, FinishedEffect DEF Activating
    <3>2. CASE UNCHANGED at /\ \E e : edit' = [edit EXCEPT ![h] = e]
      BY <2>1, <3>2, <1>0 DEF Shapes, Activating
    <3>3. QED
      BY <2>1, <3>1, <3>2
  <2>3. QED
    BY <2>1, <2>2, <1>k
<1>8. ASSUME NEW h \in Edits, NumberBaseline(h) PROVE BaselinesInv'
  <2>1. /\ at[h] = "asked" /\ at' = [at EXCEPT ![h] = "numbered"]
        /\ UNCHANGED <<table, taken, edit, receiving, crossed>> /\ (Sound \/ Slip)
    BY <1>8 DEF NumberBaseline
  <2>2. /\ ~Activating(h) /\ ~Activating(h)'
        /\ \A g \in Edits : g # h => at'[g] = at[g] /\ edit'[g] = edit[g]
        /\ DOMAIN at' = Edits /\ DOMAIN edit' = Edits
    BY <2>1, <1>0 DEF Shapes, Activating
  <2>3. QED
    BY <2>1, <2>2, <1>k
<1>9. ASSUME NEW h \in Edits, ClearBaselines(h) PROVE BaselinesInv'
  <2>1. /\ at[h] # "cleared" /\ at' = [at EXCEPT ![h] = "cleared"]
        /\ (table' = DeactivateAllSchemaBaselines /\ Sound) \/ (UNCHANGED table /\ Slip)
        /\ crossed' = (crossed \/ \E g \in Edits : Activating(g))
        /\ UNCHANGED <<taken, edit, receiving>>
    BY <1>9 DEF ClearBaselines
  <2>2. TableOK' /\ RowsFrom(table) /\ (Sound => NoneOn')
    <3>1. Slip => ~Sound
      BY <1>0 DEF Slip, Sound
    <3>2. QED
      BY <2>1, <3>1, <1>0, <1>u, Deactivated
  <2>3. Shapes'
    BY <2>1, <1>0, <1>s DEF Shapes, Sound, receiving
  <2>4. RefusedOnlyIfDeleted' /\ AgainstOK'
    BY <2>1, <2>2, RefusedKeeps DEF RowsFrom
  <2>5. \A g \in Edits : g # h => (Activating(g)' <=> Activating(g))
    BY <2>1, <1>0 DEF Shapes, Activating
  <2>6. CASE crossed' \/ slipped' > 0
    BY <2>2, <2>3, <2>4, <2>6 DEF BaselinesInv
  <2>7. CASE ~crossed' /\ ~(slipped' > 0)
    <3>1. Sound /\ NoneOn'
      BY <2>1, <2>2, <2>7, <1>s
    <3>2. \A g \in Edits : ~Activating(g)
      BY <2>1, <2>7
    <3>3. Calm'
      BY <3>1, <3>2, <2>5 DEF Calm, NoneOn, OneOn
    <3>4. QED
      BY <2>2, <2>3, <2>4, <3>3 DEF BaselinesInv
  <2>8. QED
    BY <2>6, <2>7
(* A request that is activating, when it ends. *)
<1>e. ASSUME NEW h \in Edits, Finished(h), Activating(h), Shapes', TableOK', AgainstOK',
             RefusedOnlyIfDeleted', NoneOn => OneOn', UNCHANGED crossed, Sound
      PROVE BaselinesInv'
  <2>1. \A g \in Edits : g # h => (Activating(g)' <=> Activating(g))
    BY <1>e, <1>0, FinishedEffect DEF Activating
  <2>2. ~Activating(h)'
    BY <1>e, <1>0, FinishedEffect
  <2>3. Calm => Calm'
    BY <1>e, <2>1, <2>2 DEF Calm
  <2>4. QED
    BY <1>e, <1>0, <2>3 DEF BaselinesInv, Sound
<1>10. ASSUME NEW h \in Edits, ActivateBaseline(h) PROVE BaselinesInv'
  <2>1. /\ Activating(h) /\ Finished(h) /\ table' = ActivateSchemaBaseline(edit[h].id)
        /\ UNCHANGED <<taken, receiving, crossed>> /\ Sound
    BY <1>10 DEF ActivateBaseline, Activating, Sound
  <2>2. TableOK' /\ RowsFrom(table) /\ (NoneOn => OneOn')
    BY <2>1, <1>0, Activated
  <2>3. Shapes'
    BY <2>1, <1>0, FinishedEffect DEF Shapes, Sound, receiving
  <2>4. RefusedOnlyIfDeleted' /\ AgainstOK'
    BY <2>1, <2>2, RefusedKeeps DEF RowsFrom
  <2>5. QED
    BY <2>1, <2>2, <2>3, <2>4, <1>e
<1>11. ASSUME NEW h \in Edits, StoreBaseline(h) PROVE BaselinesInv'
  <2>1. /\ Finished(h) /\ UNCHANGED <<receiving, crossed>>
        /\ at[h] = IF edit[h].activate THEN "cleared" ELSE "numbered"
        /\ \/ CreateSchemaBaseline(version[h], edit[h].contract, edit[h].activate) /\ Sound
           \/ UNCHANGED <<table, taken>> /\ (Sound \/ Slip)
    BY <1>11 DEF StoreBaseline
  <2>2. /\ TableOK' /\ taken \subseteq taken'
        /\ \A r \in table' : (\E s \in table : r.id = s.id) \/ r.id \notin taken
        /\ ~edit[h].activate => (NoneOn => NoneOn') /\ (OneOn => OneOn')
        /\ NoneOn => OneOn'
    <3>1. CASE CreateSchemaBaseline(version[h], edit[h].contract, edit[h].activate)
      BY <3>1, <1>0, Created
    <3>2. CASE UNCHANGED <<table, taken>>
      <4>1. NoneOn => OneOn
        BY DEF NoneOn, OneOn
      <4>2. QED
        BY <3>2, <4>1, <1>u
    <3>3. QED
      BY <2>1, <3>1, <3>2
  <2>3. Shapes'
    BY <2>1, <1>0, <1>s, FinishedEffect DEF Shapes, Sound, receiving
  <2>4. RefusedOnlyIfDeleted' /\ AgainstOK'
    BY <2>1, <2>2, RefusedKeeps
  <2>5. CASE Slip
    BY <2>2, <2>3, <2>4, <2>5, <1>s DEF BaselinesInv
  <2>6. CASE Sound /\ edit[h].activate
    <3>1. Activating(h)
      BY <2>1, <2>6 DEF Activating
    <3>2. QED
      BY <2>1, <2>2, <2>3, <2>4, <2>6, <3>1, <1>e
  <2>7. CASE Sound /\ ~edit[h].activate
    <3>1. ~Activating(h)
      BY <2>1, <2>7 DEF Activating
    <3>2. /\ \A g \in Edits : g # h => at'[g] = at[g] /\ edit'[g] = edit[g]
          /\ ~Activating(h)'
      BY <2>1, <1>0, FinishedEffect
    <3>3. Calm => Calm'
      BY <2>2, <2>7, <3>1, <3>2, CalmKeeps
    <3>4. QED
      BY <2>1, <2>2, <2>3, <2>4, <2>7, <3>3, <1>0 DEF BaselinesInv, Sound
  <2>8. QED
    BY <2>1, <2>5, <2>6, <2>7
(* Webhooks. *)
<1>w. UNCHANGED <<table, at, edit, crossed, slipped>> =>
         (crossed \/ slipped > 0 \/ Calm)'
  BY <1>0 DEF Calm, OneOn, NoneOn, Activating
<1>12. ASSUME NEW w \in Hooks, validateSchemaContract(w) PROVE BaselinesInv'
  <2>1. /\ hook[w] = "unsent" /\ hook' = [hook EXCEPT ![w] = "compared"]
        /\ UNCHANGED <<table, taken, at, edit, crossed, slipped>>
        /\ \/ \E r \in table : against' = [against EXCEPT ![w] = {r}]
           \/ UNCHANGED against
    BY <1>12 DEF validateSchemaContract, GetActiveSchemaBaseline, editing
  <2>2. Shapes' /\ TableOK'
    BY <2>1, <1>0 DEF Shapes, TableOK
  <2>3. AgainstOK'
    BY <2>1, <1>0 DEF Shapes, TableOK, AgainstOK
  <2>4. \A v \in Hooks : v # w => hook'[v] = hook[v] /\ against'[v] = against[v]
    BY <2>1, <1>0 DEF Shapes
  <2>5. hook'[w] = "compared"
    BY <2>1, <1>0 DEF Shapes
  <2>6. RefusedOnlyIfDeleted'
    BY <2>1, <2>4, <2>5, <1>0 DEF RefusedOnlyIfDeleted
  <2>7. QED
    BY <2>1, <2>2, <2>3, <2>6, <1>w DEF BaselinesInv
<1>13. ASSUME NEW w \in Hooks, StoreHook(w) PROVE BaselinesInv'
  <2>1. PICK p \in {"stored", "refused"} :
           /\ hook' = [hook EXCEPT ![w] = p]
           /\ p = "refused" => \E r \in against[w] : ~References(r)
    BY <1>13 DEF StoreHook, Drifted
  <2>2. UNCHANGED <<table, taken, at, edit, against, crossed, slipped>>
    BY <1>13 DEF StoreHook, editing
  <2>3. Shapes' /\ TableOK' /\ AgainstOK'
    BY <2>1, <2>2, <1>0 DEF Shapes, TableOK, AgainstOK
  <2>4. (\A v \in Hooks : v # w => hook'[v] = hook[v]) /\ hook'[w] = p
    BY <2>1, <1>0 DEF Shapes
  <2>5. p = "refused" => \E r \in against[w] : r.id \in taken /\ \A s \in table : s.id # r.id
    BY <2>1, <1>0 DEF References, AgainstOK
  <2>6. RefusedOnlyIfDeleted'
    BY <2>2, <2>4, <2>5, <1>0 DEF RefusedOnlyIfDeleted
  <2>7. QED
    BY <2>2, <2>3, <2>6, <1>w DEF BaselinesInv
<1>14. CASE UNCHANGED baselinesVars
  <2>1. UNCHANGED <<table, taken, at, edit, hook, against, crossed, slipped>>
    BY <1>14 DEF baselinesVars, editing, receiving
  <2>2. Shapes' /\ TableOK' /\ AgainstOK' /\ RefusedOnlyIfDeleted'
    BY <2>1, <1>0 DEF Shapes, TableOK, AgainstOK, RefusedOnlyIfDeleted
  <2>3. QED
    BY <2>1, <2>2, <1>w DEF BaselinesInv
<1>15. QED
  BY <1>2, <1>3, <1>4, <1>5, <1>6, <1>7, <1>8, <1>9, <1>10, <1>11, <1>12, <1>13, <1>14
     DEF BaselinesNext, Handles

LEMMA BaselinesInvHolds == BaselinesSpec => []BaselinesInv
BY BaselinesInvInit, BaselinesInvStep, PTL DEF BaselinesSpec

(* However requests interleave, two baselines are active only after two    *)
(* activations crossed or a statement failed (schema_handler.go).          *)
THEOREM OneActive == BaselinesSpec => []OneActiveBaseline
<1>1. BaselinesInv => OneActiveBaseline
  <2> SUFFICES ASSUME BaselinesInv, ~crossed, ~(slipped > 0)
               PROVE ~(Cardinality(GetActiveSchemaBaseline) > 1)
    BY DEF OneActiveBaseline
  <2>1. \A r, s \in GetActiveSchemaBaseline : r = s
    BY DEF BaselinesInv, Calm, OneOn, GetActiveSchemaBaseline
  <2>2. GetActiveSchemaBaseline = {} \/ \E r : GetActiveSchemaBaseline = {r}
    BY <2>1
  <2>3. Cardinality(GetActiveSchemaBaseline) \in {0, 1}
    BY <2>2, FS_EmptySet, FS_Singleton
  <2>4. QED
    BY <2>3
<1>2. QED
  BY <1>1, BaselinesInvHolds, PTL

(* A webhook is lost to its own drift report only when the baseline it was *)
(* compared with was deleted meanwhile (ingestion_service.go).             *)
THEOREM OnlyDeletedRefuse == BaselinesSpec => []RefusedOnlyIfDeleted
<1>1. BaselinesInv => RefusedOnlyIfDeleted
  BY DEF BaselinesInv
<1>2. QED
  BY <1>1, BaselinesInvHolds, PTL

-----------------------------------------------------------------------------
(* Documents, and the drift between them and contracts.  Hidden and        *)
(* Compared ask about the path above: what is proved of them needs no more *)
(* than that they are fixed points, which exist.                           *)

(* A function that asks about the path above has a value: the largest set  *)
(* of paths that are in A, or in B below a path of the set.                *)
LEMMA UpwardsDefined ==
    ASSUME NEW A, NEW B
    PROVE \E f \in [Paths -> BOOLEAN] :
             \A p \in Paths : f[p] <=> (p \in A \/ (p # Top /\ p \in B /\ f[Up[p]]))
<1> DEFINE Good(S) == \A p \in S : p \in A \/ (p # Top /\ p \in B /\ Up[p] \in S)
           U == UNION {S \in SUBSET Paths : Good(S)}
           f == [p \in Paths |-> p \in U]
<1>1. \A p \in U : p \in A \/ (p # Top /\ p \in B /\ Up[p] \in U)
  <2>1. TAKE p \in U
  <2>2. PICK S \in SUBSET Paths : Good(S) /\ p \in S
    OBVIOUS
  <2>3. S \subseteq U
    BY <2>2
  <2>4. QED
    BY <2>2, <2>3
<1>2. ASSUME NEW p \in Paths, p \in A \/ (p # Top /\ p \in B /\ Up[p] \in U) PROVE p \in U
  <2>1. Good(U \union {p})
    BY <1>1, <1>2
  <2>2. U \union {p} \in SUBSET Paths
    OBVIOUS
  <2>3. QED
    BY <2>1, <2>2
<1> HIDE DEF U
<1>3. \A p \in Paths : p # Top => Up[p] \in Paths
  BY DriftAssumption
<1>4. ASSUME NEW p \in Paths PROVE f[p] <=> (p \in A \/ (p # Top /\ p \in B /\ f[Up[p]]))
  <2>2. CASE p = Top
    BY <2>2, <1>1, <1>2
  <2>3. CASE p # Top
    <3>1. f[Up[p]] <=> Up[p] \in U
      BY <2>3, <1>3
    <3>2. QED
      BY <2>3, <3>1, <1>1, <1>2
  <2>4. QED
    BY <2>2, <2>3
<1>5. f \in [Paths -> BOOLEAN]
  OBVIOUS
<1>6. QED
  BY <1>4, <1>5

(* A path is hidden if it is somewhere below a sensitive field.            *)
LEMMA HiddenIs ==
    \A p \in Paths : Hidden[p] <=> (p # Top /\ (isSensitiveKey(Up[p]) \/ Hidden[Up[p]]))
<1> DEFINE A == {p \in Paths : p # Top /\ isSensitiveKey(Up[p])}
           Is(f) == f = [p \in Paths |-> p # Top /\ (isSensitiveKey(Up[p]) \/ f[Up[p]])]
<1>1. PICK f \in [Paths -> BOOLEAN] :
         \A p \in Paths : f[p] <=> (p \in A \/ (p # Top /\ p \in Paths /\ f[Up[p]]))
  BY UpwardsDefined
<1>2. \A p \in Paths : f[p] <=> (p # Top /\ (isSensitiveKey(Up[p]) \/ f[Up[p]]))
  BY <1>1
<1>3. Is(f)
  BY <1>2
<1>4. Hidden = CHOOSE g : Is(g)
  BY DEF Hidden
<1>5. Is(Hidden)
  <2> HIDE DEF Is
  <2>1. QED
    BY <1>3, <1>4
<1>6. QED
  BY <1>5

(* A value below the top is compared only if its contract has a node.      *)
LEMMA ComparedHasNode ==
    ASSUME NEW contract, NEW doc, NEW p \in Paths, p # Top, Compared(contract, doc)[p]
    PROVE  doc[p] # "absent" /\ contract[p].type # "absent"
<1> DEFINE B == {q \in Paths : q # Top /\ Opens(contract, doc, Up[q]) /\ Descends(contract, doc, q)
                                /\ doc[q] # "absent" /\ contract[q].type # "absent"}
           Is(f) == f = [q \in Paths |->
                           \/ q = Top
                           \/ /\ f[Up[q]]
                              /\ Opens(contract, doc, Up[q]) /\ Descends(contract, doc, q)
                              /\ doc[q] # "absent" /\ contract[q].type # "absent"]
<1>1. PICK f \in [Paths -> BOOLEAN] :
         \A q \in Paths : f[q] <=> (q \in {Top} \/ (q # Top /\ q \in B /\ f[Up[q]]))
  BY UpwardsDefined
<1>2. \A q \in Paths : f[q] <=> \/ q = Top
                                \/ /\ f[Up[q]]
                                   /\ Opens(contract, doc, Up[q]) /\ Descends(contract, doc, q)
                                   /\ doc[q] # "absent" /\ contract[q].type # "absent"
  BY <1>1
<1>3. Is(f)
  BY <1>2
<1>4. Compared(contract, doc) = CHOOSE g : Is(g)
  BY DEF Compared
<1>5. Is(Compared(contract, doc))
  <2> HIDE DEF Is
  <2>1. QED
    BY <1>3, <1>4
<1>6. QED
  BY <1>5

(* What the contract inferred from a redacted document says of a path.     *)
LEMMA InferredIs ==
    ASSUME NEW doc \in Documents, NEW p \in Paths
    PROVE LET r == Redacted(doc)
              c == InferJSONSchema(r)
          IN  /\ c[p].required <=> (Field(p) /\ r[p] # "absent")
              /\ c[p].type = inferValue(r, p)
              /\ r[p] = IF Hidden[p] THEN "absent"
                        ELSE IF isSensitiveKey(p) /\ doc[p] # "absent" THEN "string" ELSE doc[p]
BY DEF InferJSONSchema, Redacted

(* Nothing below a hidden value, or of one, is looked at.                  *)
LEMMA HiddenCloses ==
    ASSUME NEW doc \in Documents, NEW p \in Paths, Hidden[p]
    PROVE ~Opens(InferJSONSchema(Redacted(doc)), doc, Up[p])
<1> DEFINE r == Redacted(doc)
           c == InferJSONSchema(r)
<1>1. p # Top /\ Up[p] \in Paths
  BY HiddenIs, DriftAssumption
<1>2. PICK q \in Paths : q = Up[p]
  BY <1>1
<1>3. isSensitiveKey(q) \/ Hidden[q]
  BY <1>2, HiddenIs
<1>4. c[q].type = inferValue(r, q) /\ r[q] \in {"absent", "string"}
  BY <1>3, InferredIs
<1>5. inferValue(r, q) \in {"absent", "string"}
  <2>1. CASE isSensitiveKey(q)
    BY <2>1, <1>4, DriftAssumption DEF inferValue, isSensitiveKey
  <2>2. CASE Hidden[q]
    <3>1. q # Top /\ Up[q] \in Paths /\ (isSensitiveKey(Up[q]) \/ Hidden[Up[q]])
      BY <2>2, HiddenIs, DriftAssumption
    <3>2. r[Up[q]] \in {"absent", "string"}
      BY <3>1, InferredIs
    <3>3. QED
      BY <3>2, <1>4 DEF inferValue
  <2>3. QED
    BY <1>3, <2>1, <2>2
<1>6. QED
  BY <1>2, <1>4, <1>5 DEF Opens

(* A document drifts from the contract of what was kept of it only for a   *)
(* null or for what redaction made of it.                                  *)
LEMMA SettledUnless ==
    ASSUME NEW doc \in Documents, DetectDrift(InferJSONSchema(Redacted(doc)), doc) # {}
    PROVE Unsettled(doc)
<1> DEFINE r == Redacted(doc)
           c == InferJSONSchema(r)
<1>1. PICK p \in Paths, change \in Changes : change \in compareNode(c, doc, p)
  <2>1. PICK d \in Paths \X Changes : d[2] \in compareNode(c, doc, d[1])
    BY DEF DetectDrift
  <2>2. QED
    BY <2>1
<1>2. /\ c[p].required <=> (Field(p) /\ r[p] # "absent")
      /\ c[p].type = inferValue(r, p)
      /\ r[p] = IF Hidden[p] THEN "absent"
                ELSE IF isSensitiveKey(p) /\ doc[p] # "absent" THEN "string" ELSE doc[p]
  BY InferredIs
<1>3. isSensitiveKey(p) => Field(p)
  BY DriftAssumption DEF isSensitiveKey, Field
<1>4. \/ change = "TYPE_MISMATCH" /\ Compared(c, doc)[p] /\ Mismatch(c, doc, p)
      \/ change = "FIELD_MISSING" /\ c[p].required /\ doc[p] \in {"absent", "null"}
      \/ /\ change = "FIELD_ADDED" /\ Field(p) /\ Opens(c, doc, Up[p])
         /\ doc[p] # "absent" /\ c[p].type = "absent"
  <2> HIDE DEF c
  <2>1. QED
    BY <1>1 DEF compareNode, Searched, Changes
<1>5. CASE change = "TYPE_MISMATCH" /\ Compared(c, doc)[p] /\ Mismatch(c, doc, p)
  <2>1. c[p].type # "any" /\ doc[p] # "null" /\ c[p].type # doc[p]
    BY <1>5 DEF Mismatch, isTypeCompatible
  <2>2. c[p].type = r[p]
    BY <1>2, <2>1 DEF inferValue
  <2>3. ~Hidden[p]
    <3>1. ASSUME Hidden[p] PROVE FALSE
      <4>1. p # Top /\ r[p] = "absent"
        BY <3>1, <1>2, HiddenIs
      <4>2. QED
        BY <4>1, <2>2, <1>5, ComparedHasNode
    <3>2. QED
      BY <3>1
  <2>4. QED
    BY <2>1, <2>2, <2>3, <1>2, <1>3 DEF Unsettled
<1>6. CASE change = "FIELD_MISSING" /\ c[p].required /\ doc[p] \in {"absent", "null"}
  BY <1>6, <1>2 DEF Unsettled
<1>7. CASE /\ change = "FIELD_ADDED" /\ Field(p) /\ Opens(c, doc, Up[p])
           /\ doc[p] # "absent" /\ c[p].type = "absent"
  <2>1. ~Hidden[p]
    BY <1>7, HiddenCloses
  <2>2. c[p].type # "absent"
    BY <2>1, <1>2, <1>7 DEF inferValue
  <2>3. QED
    BY <2>2, <1>7
<1>8. QED
  BY <1>4, <1>5, <1>6, <1>7

-----------------------------------------------------------------------------
(* What is inferred from a document, redacted or not, is a contract.       *)
LEMMA InferredContract ==
    ASSUME NEW doc \in Documents
    PROVE  InferJSONSchema(doc) \in [Paths -> Node] /\ InferJSONSchema(Redacted(doc)) \in [Paths -> Node]
<1>1. ASSUME NEW r \in [Paths -> Types \union {"absent"}]
      PROVE InferJSONSchema(r) \in [Paths -> Node]
  <2>1. ASSUME NEW p \in Paths
        PROVE [type |-> inferValue(r, p), required |-> Field(p) /\ r[p] # "absent"] \in Node
    <3>1. inferValue(r, p) \in Types \union {"any", "absent"}
      BY <1>1 DEF inferValue
    <3>2. (Field(p) /\ r[p] # "absent") \in BOOLEAN
      BY DEF Field
    <3>3. QED
      BY <3>1, <3>2 DEF Node
  <2>2. QED
    BY <2>1 DEF InferJSONSchema
<1>2. doc \in [Paths -> Types \union {"absent"}]
  BY DEF Documents
<1>3. Redacted(doc) \in [Paths -> Types \union {"absent"}]
  BY <1>2 DEF Redacted, Types
<1>4. QED
  BY <1>1, <1>2, <1>3

(* What a request of each kind carries.                                    *)
LEMMA EditParts ==
    ASSUME NEW e \in Edit
    PROVE /\ e.op = "save" => e.contract \in [Paths -> Node] /\ e.activate \in BOOLEAN
          /\ e.op \in {"activate", "delete"} => e.id \in BaselineIds
          /\ e.op = "rewrite" => e.id \in BaselineIds /\ e.contract \in [Paths -> Node]
          /\ e.op \in {"dismiss", "accept"} => e.hook \in Hooks /\ e.baseline \in BaselineIds
<1> HIDE DEF Node
<1>1. QED
  BY DEF Edit

LEMMA RowParts ==
    ASSUME NEW r \in Row
    PROVE /\ r.id \in BaselineIds /\ r.version \in Nat
          /\ r.contract \in [Paths -> Node] /\ r.active \in BOOLEAN
          /\ r = [id |-> r.id, version |-> r.version, contract |-> r.contract, active |-> r.active]
BY DEF Row

LEMMA RowMade ==
    ASSUME NEW id \in BaselineIds, NEW v \in Nat, NEW contract \in [Paths -> Node],
           NEW active \in BOOLEAN
    PROVE  [id |-> id, version |-> v, contract |-> contract, active |-> active] \in Row
BY DEF Row

(* The statements keep rows rows.                                          *)
LEMMA StatementsTyped ==
    ASSUME table \in SUBSET Row
    PROVE /\ DeactivateAllSchemaBaselines \in SUBSET Row
          /\ \A id : ActivateSchemaBaseline(id) \in SUBSET Row
          /\ \A id : \A contract \in [Paths -> Node] :
                UpdateSchemaBaselineContent(id, contract) \in SUBSET Row
<1>1. ASSUME NEW r \in table, NEW b \in BOOLEAN PROVE [r EXCEPT !.active = b] \in Row
  <2>1. r \in Row
    OBVIOUS
  <2>2. [r EXCEPT !.active = b]
           = [id |-> r.id, version |-> r.version, contract |-> r.contract, active |-> b]
    BY <2>1, RowParts
  <2>3. QED
    BY <2>1, <2>2, RowParts, RowMade
<1>2. ASSUME NEW r \in table, NEW contract \in [Paths -> Node]
      PROVE [r EXCEPT !.contract = contract] \in Row
  <2>1. r \in Row
    OBVIOUS
  <2>2. [r EXCEPT !.contract = contract]
           = [id |-> r.id, version |-> r.version, contract |-> contract, active |-> r.active]
    BY <2>1, RowParts
  <2>3. QED
    BY <2>1, <2>2, RowParts, RowMade
<1>3. DeactivateAllSchemaBaselines \in SUBSET Row
  BY <1>1 DEF DeactivateAllSchemaBaselines
<1>4. ASSUME NEW id PROVE ActivateSchemaBaseline(id) \in SUBSET Row
  BY <1>1 DEF ActivateSchemaBaseline
<1>5. ASSUME NEW id, NEW contract \in [Paths -> Node]
      PROVE UpdateSchemaBaselineContent(id, contract) \in SUBSET Row
  BY <1>2 DEF UpdateSchemaBaselineContent
<1>6. QED
  BY <1>3, <1>4, <1>5

(* A drift that was reported was found.                                    *)
DriftsFound == \A d \in drifts : DetectDrift(d.contract, Doc[d.hook]) # {}

ContractsInv == BaselinesTypeOK /\ DriftsFound

LEMMA ContractsInvInit == BaselinesInit => ContractsInv
<1>1. NoEdit \in Edit
  BY DEF NoEdit, Edit
<1>2. SUFFICES ASSUME BaselinesInit PROVE ContractsInv
  OBVIOUS
<1>3. /\ table \in SUBSET Row /\ taken \in SUBSET BaselineIds /\ drifts \in SUBSET Drift
      /\ crossed \in BOOLEAN /\ slipped \in Nat
  BY <1>2 DEF BaselinesInit
<1>4. /\ at \in [Edits -> {"unsent", "asked", "numbered", "cleared", "done"}]
      /\ edit \in [Edits -> Edit] /\ version \in [Edits -> Nat]
  BY <1>1, <1>2 DEF BaselinesInit
<1>5. /\ hook \in [Hooks -> {"unsent", "compared", "stored", "refused"}]
      /\ against \in [Hooks -> SUBSET Row]
  BY <1>2 DEF BaselinesInit
<1>6. DriftsFound
  BY <1>2 DEF BaselinesInit, DriftsFound
<1>7. QED
  BY <1>3, <1>4, <1>5, <1>6 DEF ContractsInv, BaselinesTypeOK

LEMMA DriftParts ==
    ASSUME NEW d \in Drift
    PROVE /\ d.hook \in Hooks /\ d.baseline \in BaselineIds
          /\ d.contract \in [Paths -> Node] /\ d.acknowledged \in BOOLEAN
          /\ d = [hook |-> d.hook, baseline |-> d.baseline, contract |-> d.contract,
                  acknowledged |-> d.acknowledged]
BY DEF Drift

LEMMA DriftMade ==
    ASSUME NEW w \in Hooks, NEW id \in BaselineIds, NEW contract \in [Paths -> Node],
           NEW b \in BOOLEAN
    PROVE  [hook |-> w, baseline |-> id, contract |-> contract, acknowledged |-> b] \in Drift
BY DEF Drift

(* Acknowledging a drift changes nothing else of it.                       *)
LEMMA AcknowledgedKeeps ==
    ASSUME drifts \in SUBSET Drift, DriftsFound, NEW e, AcknowledgeSchemaDrift(e)
    PROVE  drifts' \in SUBSET Drift /\ DriftsFound'
<1>1. ASSUME NEW d \in Drift
      PROVE [d EXCEPT !.acknowledged = TRUE]
               = [hook |-> d.hook, baseline |-> d.baseline, contract |-> d.contract,
                  acknowledged |-> TRUE]
  <2>1. PICK w, id, contract, b :
           d = [hook |-> w, baseline |-> id, contract |-> contract, acknowledged |-> b]
    BY <1>1, DriftParts
  <2>2. \A v \in BOOLEAN :
           [d EXCEPT !.acknowledged = v]
              = [hook |-> w, baseline |-> id, contract |-> contract, acknowledged |-> v]
    BY <2>1
  <2>3. d.hook = w /\ d.baseline = id /\ d.contract = contract
    BY <2>1
  <2>4. QED
    BY <2>2, <2>3
<1>2. \A x \in drifts' : \E d \in drifts :
         x = d \/ x = [d EXCEPT !.acknowledged = TRUE]
  BY DEF AcknowledgeSchemaDrift
<1>3. ASSUME NEW x \in drifts'
      PROVE x \in Drift /\ DetectDrift(x.contract, Doc[x.hook]) # {}
  <2>1. PICK d \in drifts : x = d \/ x = [d EXCEPT !.acknowledged = TRUE]
    BY <1>2
  <2>2. d \in Drift
    OBVIOUS
  <2>3. x \in Drift /\ x.hook = d.hook /\ x.contract = d.contract
    <3>1. CASE x = d
      BY <2>2, <3>1
    <3>2. CASE x = [d EXCEPT !.acknowledged = TRUE]
      <4>1. x = [hook |-> d.hook, baseline |-> d.baseline, contract |-> d.contract,
                 acknowledged |-> TRUE]
        BY <3>2, <1>1, <2>2
      <4>2. QED
        BY <4>1, <2>2, DriftParts, DriftMade
    <3>3. QED
      BY <2>1, <3>1, <3>2
  <2>4. DetectDrift(d.contract, Doc[d.hook]) # {}
    BY DEF DriftsFound
  <2>5. QED
    BY <2>3, <2>4
<1>4. QED
  BY <1>3 DEF DriftsFound

LEMMA FinishedTyped ==
    ASSUME BaselinesTypeOK, NEW h \in Edits, Finished(h)
    PROVE  /\ at' \in [Edits -> {"unsent", "asked", "numbered", "cleared", "done"}]
           /\ edit' \in [Edits -> Edit] /\ version' \in [Edits -> Nat]
<1>1. NoEdit \in Edit
  BY DEF NoEdit, Edit
<1> HIDE DEF Edit
<1>2. QED
  BY <1>1 DEF BaselinesTypeOK, Finished

LEMMA ContractsInvStep == ContractsInv /\ [BaselinesNext]_baselinesVars => ContractsInv'
<1> SUFFICES ASSUME ContractsInv, [BaselinesNext]_baselinesVars PROVE ContractsInv'
  OBVIOUS
<1>0. BaselinesTypeOK /\ DriftsFound
  BY DEF ContractsInv
<1>s. Sound \/ Slip => slipped' \in Nat
  BY <1>0 DEF Slip, Sound, BaselinesTypeOK
<1>d. UNCHANGED drifts => DriftsFound'
  BY <1>0 DEF DriftsFound
(* A request that changes neither the drifts nor what webhooks hold. *)
<1>r. ASSUME table' \in SUBSET Row, taken' \in SUBSET BaselineIds, UNCHANGED <<drifts, receiving>>,
             at' \in [Edits -> {"unsent", "asked", "numbered", "cleared", "done"}],
             edit' \in [Edits -> Edit], version' \in [Edits -> Nat],
             crossed' \in BOOLEAN, Sound \/ Slip
      PROVE ContractsInv'
  BY <1>r, <1>0, <1>s, <1>d DEF ContractsInv, BaselinesTypeOK, receiving
<1>1. ASSUME NEW h \in Edits, NEW e \in Edit, Asks(h, e) PROVE ContractsInv'
  <2>1. /\ at' \in [Edits -> {"unsent", "asked", "numbered", "cleared", "done"}]
        /\ edit' \in [Edits -> Edit]
    BY <1>0, <1>1 DEF Asks, BaselinesTypeOK
  <2>2. UNCHANGED <<table, taken, drifts, version, receiving, crossed>> /\ Sound
    BY <1>1 DEF Asks, Sound
  <2>3. QED
    BY <2>1, <2>2, <1>0, <1>r DEF BaselinesTypeOK
<1>2. ASSUME NEW h \in Edits, Sends(h) PROVE ContractsInv'
  <2>1. \E e \in Edit : Asks(h, e)
    <3>1. ASSUME NEW contract \in [Paths -> Node], Saves(h, contract) PROVE \E e \in Edit : Asks(h, e)
      <4>1. \A b \in BOOLEAN : [op |-> "save", contract |-> contract, activate |-> b] \in Edit
        BY <3>1 DEF Edit
      <4>2. QED
        BY <3>1, <4>1 DEF Saves
    <3>2. CASE InferBaseline(h)
      <4>1. PICK doc \in Samples : Saves(h, InferJSONSchema(doc))
        BY <3>2 DEF InferBaseline
      <4>2. InferJSONSchema(doc) \in [Paths -> Node]
        BY InferredContract, BaselinesAssumption
      <4>3. QED
        BY <4>1, <4>2, <3>1
    <3>3. CASE ImportOpenAPI(h) \/ SaveManual(h)
      BY <3>3, <3>1, BaselinesAssumption DEF ImportOpenAPI, SaveManual
    <3>4. CASE AskActivate(h) \/ AskDelete(h)
      <4>1. \A id \in taken : /\ [op |-> "activate", id |-> id] \in Edit
                              /\ [op |-> "delete", id |-> id] \in Edit
        BY <1>0 DEF BaselinesTypeOK, Edit
      <4>2. QED
        BY <3>4, <4>1 DEF AskActivate, AskDelete
    <3>5. CASE AskDeactivate(h)
      <4>1. [op |-> "deactivate"] \in Edit
        BY DEF Edit
      <4>2. QED
        BY <3>5, <4>1 DEF AskDeactivate
    <3>6. CASE AskUpdate(h)
      <4>1. \A id \in taken : \A contract \in Contracts :
               [op |-> "rewrite", id |-> id, contract |-> contract] \in Edit
        BY <1>0, BaselinesAssumption DEF BaselinesTypeOK, Edit
      <4>2. QED
        BY <3>6, <4>1 DEF AskUpdate
    <3>7. CASE AskDismiss(h) \/ AskAccept(h)
      <4>1. \A d \in drifts : d.hook \in Hooks /\ d.baseline \in BaselineIds
        BY <1>0, DriftParts DEF BaselinesTypeOK
      <4>2. \A d \in drifts :
               /\ [op |-> "dismiss", hook |-> d.hook, baseline |-> d.baseline] \in Edit
               /\ [op |-> "accept", hook |-> d.hook, baseline |-> d.baseline] \in Edit
        BY <4>1 DEF Edit
      <4>3. QED
        BY <3>7, <4>2 DEF AskDismiss, AskAccept
    <3>8. QED
      BY <1>2, <3>2, <3>3, <3>4, <3>5, <3>6, <3>7 DEF Sends
  <2>2. QED
    BY <2>1, <1>1
<1>t. /\ table \in SUBSET Row /\ taken \in SUBSET BaselineIds /\ crossed \in BOOLEAN
      /\ at \in [Edits -> {"unsent", "asked", "numbered", "cleared", "done"}]
      /\ edit \in [Edits -> Edit] /\ version \in [Edits -> Nat]
  BY <1>0 DEF BaselinesTypeOK
<1>3. ASSUME NEW h \in Edits, DeactivateBaseline(h) PROVE ContractsInv'
  <2>1. /\ Finished(h) /\ UNCHANGED <<taken, drifts, receiving, crossed>> /\ (Sound \/ Slip)
        /\ table' = DeactivateAllSchemaBaselines \/ UNCHANGED table
    BY <1>3 DEF DeactivateBaseline
  <2>2. QED
    BY <2>1, <1>0, <1>t, <1>r, FinishedTyped, StatementsTyped
<1>4. ASSUME NEW h \in Edits, DeleteBaseline(h) PROVE ContractsInv'
  <2>1. /\ Finished(h) /\ UNCHANGED <<taken, receiving, crossed>> /\ Sound
        /\ table' \subseteq table /\ drifts' \subseteq drifts
    BY <1>4 DEF DeleteBaseline, DeleteSchemaBaseline, Sound
  <2>2. DriftsFound' /\ drifts' \in SUBSET Drift
    BY <2>1, <1>0 DEF DriftsFound, BaselinesTypeOK
  <2>3. /\ at' \in [Edits -> {"unsent", "asked", "numbered", "cleared", "done"}]
        /\ edit' \in [Edits -> Edit] /\ version' \in [Edits -> Nat]
    BY <2>1, <1>0, FinishedTyped
  <2>4. QED
    BY <2>1, <2>2, <2>3, <1>0, <1>s DEF ContractsInv, BaselinesTypeOK, receiving
<1>5. ASSUME NEW h \in Edits, UpdateBaseline(h) PROVE ContractsInv'
  <2>1. /\ Finished(h) /\ UNCHANGED <<taken, drifts, receiving, crossed>> /\ Sound
        /\ edit[h].op = "rewrite"
        /\ table' = UpdateSchemaBaselineContent(edit[h].id, edit[h].contract)
    BY <1>5 DEF UpdateBaseline, Sound
  <2>2. edit[h] \in Edit
    BY <1>t
  <2>3. edit[h].contract \in [Paths -> Node]
    BY <2>1, <2>2, EditParts
  <2>4. QED
    BY <2>1, <2>3, <1>0, <1>t, <1>r, FinishedTyped, StatementsTyped
<1>6. ASSUME NEW h \in Edits, DismissDrift(h) PROVE ContractsInv'
  <2>1. /\ Finished(h) /\ UNCHANGED <<table, taken, receiving, crossed>> /\ Sound
        /\ AcknowledgeSchemaDrift(edit[h])
    BY <1>6 DEF DismissDrift, Sound
  <2>2. DriftsFound' /\ drifts' \in SUBSET Drift
    BY <2>1, <1>0, AcknowledgedKeeps DEF BaselinesTypeOK
  <2>3. /\ at' \in [Edits -> {"unsent", "asked", "numbered", "cleared", "done"}]
        /\ edit' \in [Edits -> Edit] /\ version' \in [Edits -> Nat]
    BY <2>1, <1>0, FinishedTyped
  <2>4. QED
    BY <2>1, <2>2, <2>3, <1>0, <1>s DEF ContractsInv, BaselinesTypeOK, receiving
<1>7. ASSUME NEW h \in Edits, AcceptDrift(h) PROVE ContractsInv'
  <2>1. /\ edit[h].op = "accept" /\ UNCHANGED <<table, taken, receiving, crossed>>
        /\ Sound \/ Slip
        /\ AcknowledgeSchemaDrift(edit[h]) \/ UNCHANGED drifts
        /\ \/ Finished(h)
           \/ /\ edit' = [edit EXCEPT ![h] =
                    [op |-> "save", activate |-> TRUE,
                     contract |-> InferJSONSchema(Redacted(Doc[edit[h].hook]))]]
              /\ UNCHANGED <<at, version>>
    BY <1>7 DEF AcceptDrift
  <2>2. DriftsFound' /\ drifts' \in SUBSET Drift
    BY <2>1, <1>0, <1>d, AcknowledgedKeeps DEF BaselinesTypeOK
  <2>3. edit[h] \in Edit
    BY <1>t
  <2>4. Doc[edit[h].hook] \in Documents
    BY <2>1, <2>3, EditParts, BaselinesAssumption
  <2>5. InferJSONSchema(Redacted(Doc[edit[h].hook])) \in [Paths -> Node]
    BY <2>4, InferredContract
  <2>6. [op |-> "save", activate |-> TRUE,
         contract |-> InferJSONSchema(Redacted(Doc[edit[h].hook]))] \in Edit
    BY <2>5 DEF Edit
  <2>7. /\ at' \in [Edits -> {"unsent", "asked", "numbered", "cleared", "done"}]
        /\ edit' \in [Edits -> Edit] /\ version' \in [Edits -> Nat]
    BY <2>1, <2>6, <1>0, <1>t, FinishedTyped
  <2>8. QED
    BY <2>1, <2>2, <2>7, <1>0, <1>s DEF ContractsInv, BaselinesTypeOK, receiving
<1>8. ASSUME NEW h \in Edits, NumberBaseline(h) PROVE ContractsInv'
  <2>1. /\ at' = [at EXCEPT ![h] = "numbered"]
        /\ UNCHANGED <<table, taken, drifts, edit, receiving, crossed>> /\ (Sound \/ Slip)
        /\ \/ \E v \in GetNextSchemaVersion : version' = [version EXCEPT ![h] = v]
           \/ version' = [version EXCEPT ![h] = 1]
    BY <1>8 DEF NumberBaseline
  <2>2. Versions \subseteq Nat
    BY <1>t, RowParts DEF Versions
  <2>3. ASSUME NEW v \in GetNextSchemaVersion PROVE v \in Nat
    <3>1. PICK last \in Versions \union {0} : v = last + 1
      BY DEF GetNextSchemaVersion
    <3>2. QED
      BY <3>1, <2>2
  <2>4. version' \in [Edits -> Nat]
    BY <2>1, <2>3, <1>t
  <2>5. at' \in [Edits -> {"unsent", "asked", "numbered", "cleared", "done"}]
    BY <2>1, <1>t
  <2>6. QED
    BY <2>1, <2>4, <2>5, <1>t, <1>r
<1>9. ASSUME NEW h \in Edits, ClearBaselines(h) PROVE ContractsInv'
  <2>1. /\ at' = [at EXCEPT ![h] = "cleared"]
        /\ table' = DeactivateAllSchemaBaselines \/ UNCHANGED table
        /\ crossed' = (crossed \/ \E g \in Edits : Activating(g))
        /\ UNCHANGED <<taken, drifts, edit, version, receiving>> /\ (Sound \/ Slip)
    BY <1>9 DEF ClearBaselines
  <2>2. at' \in [Edits -> {"unsent", "asked", "numbered", "cleared", "done"}]
    BY <2>1, <1>t
  <2>3. crossed' \in BOOLEAN
    BY <2>1, <1>t
  <2>4. QED
    BY <2>1, <2>2, <2>3, <1>t, <1>r, StatementsTyped
<1>10. ASSUME NEW h \in Edits, ActivateBaseline(h) PROVE ContractsInv'
  <2>1. /\ Finished(h) /\ table' = ActivateSchemaBaseline(edit[h].id)
        /\ UNCHANGED <<taken, drifts, receiving, crossed>> /\ Sound
    BY <1>10 DEF ActivateBaseline, Sound
  <2>2. QED
    BY <2>1, <1>0, <1>t, <1>r, FinishedTyped, StatementsTyped
<1>11. ASSUME NEW h \in Edits, StoreBaseline(h) PROVE ContractsInv'
  <2>1. /\ Finished(h) /\ UNCHANGED <<drifts, receiving, crossed>> /\ (Sound \/ Slip)
        /\ edit[h].op = "save"
        /\ \/ CreateSchemaBaseline(version[h], edit[h].contract, edit[h].activate)
           \/ UNCHANGED <<table, taken>>
    BY <1>11 DEF StoreBaseline
  <2>2. edit[h] \in Edit /\ version[h] \in Nat
    BY <1>t
  <2>3. edit[h].contract \in [Paths -> Node] /\ edit[h].activate \in BOOLEAN
    BY <2>1, <2>2, EditParts
  <2>4. table' \in SUBSET Row /\ taken' \in SUBSET BaselineIds
    BY <2>1, <2>2, <2>3, <1>t, RowMade DEF CreateSchemaBaseline
  <2>5. QED
    BY <2>1, <2>4, <1>0, <1>t, <1>r, FinishedTyped
<1>12. ASSUME NEW w \in Hooks, validateSchemaContract(w) PROVE ContractsInv'
  <2>1. /\ hook' = [hook EXCEPT ![w] = "compared"]
        /\ \/ \E r \in GetActiveSchemaBaseline : against' = [against EXCEPT ![w] = {r}]
           \/ UNCHANGED against
        /\ UNCHANGED <<table, taken, drifts, editing, crossed, slipped>>
    BY <1>12 DEF validateSchemaContract
  <2>2. /\ hook \in [Hooks -> {"unsent", "compared", "stored", "refused"}]
        /\ against \in [Hooks -> SUBSET Row]
    BY <1>0 DEF BaselinesTypeOK
  <2>3. hook' \in [Hooks -> {"unsent", "compared", "stored", "refused"}]
    BY <2>1, <2>2
  <2>4. against' \in [Hooks -> SUBSET Row]
    BY <2>1, <2>2, <1>t DEF GetActiveSchemaBaseline
  <2>5. QED
    BY <2>1, <2>3, <2>4, <1>0, <1>d DEF ContractsInv, BaselinesTypeOK, editing
<1>13. ASSUME NEW w \in Hooks, StoreHook(w) PROVE ContractsInv'
  <2>1. /\ hook' = [hook EXCEPT ![w] = "stored"] \/ hook' = [hook EXCEPT ![w] = "refused"]
        /\ \/ UNCHANGED drifts
           \/ drifts' = drifts \union
                 {[hook |-> w, baseline |-> r.id, contract |-> r.contract,
                   acknowledged |-> FALSE] : r \in Drifted(w)}
        /\ UNCHANGED <<table, taken, editing, against, crossed, slipped>>
    BY <1>13 DEF StoreHook
  <2>2. /\ hook \in [Hooks -> {"unsent", "compared", "stored", "refused"}]
        /\ against \in [Hooks -> SUBSET Row]
    BY <1>0 DEF BaselinesTypeOK
  <2>3. hook' \in [Hooks -> {"unsent", "compared", "stored", "refused"}]
    BY <2>1, <2>2
  <2>4. ASSUME NEW r \in Drifted(w)
        PROVE LET d == [hook |-> w, baseline |-> r.id, contract |-> r.contract,
                        acknowledged |-> FALSE]
              IN  d \in Drift /\ DetectDrift(d.contract, Doc[d.hook]) # {}
    <3>1. r \in Row /\ DetectDrift(r.contract, Doc[w]) # {}
      BY <2>2 DEF Drifted
    <3>2. QED
      BY <3>1, RowParts, DriftMade
  <2>5. drifts' \in SUBSET Drift /\ DriftsFound'
    <3>1. CASE UNCHANGED drifts
      BY <3>1, <1>0, <1>d DEF BaselinesTypeOK
    <3>2. CASE drifts' = drifts \union
                 {[hook |-> w, baseline |-> r.id, contract |-> r.contract,
                   acknowledged |-> FALSE] : r \in Drifted(w)}
      BY <3>2, <2>4, <1>0 DEF BaselinesTypeOK, DriftsFound
    <3>3. QED
      BY <2>1, <3>1, <3>2
  <2>6. QED
    BY <2>1, <2>3, <2>5, <1>0 DEF ContractsInv, BaselinesTypeOK, editing
<1>14. ASSUME UNCHANGED baselinesVars PROVE ContractsInv'
  BY <1>14, <1>0, <1>d DEF ContractsInv, BaselinesTypeOK, baselinesVars, editing, receiving
<1>15. QED
  BY <1>2, <1>3, <1>4, <1>5, <1>6, <1>7, <1>8, <1>9, <1>10, <1>11, <1>12, <1>13, <1>14
     DEF BaselinesNext, Handles

LEMMA ContractsInvHolds == BaselinesSpec => []ContractsInv
BY ContractsInvInit, ContractsInvStep, PTL DEF BaselinesSpec

(* Rows, drift events and requests are what the handlers take them for:    *)
(* versions are numbers, whatever contract is stored describes every path. *)
THEOREM BaselinesTyped == BaselinesSpec => []BaselinesTypeOK
<1>1. ContractsInv => BaselinesTypeOK
  BY DEF ContractsInv
<1>2. QED
  BY <1>1, ContractsInvHolds, PTL

(* A webhook drifts from what was made of itself only for a null or for    *)
(* what redaction replaced: every other acceptance settles its drift.      *)
THEOREM AcceptanceSettles == BaselinesSpec => []DriftSettles
<1>1. ContractsInv => DriftSettles
  <2>1. SUFFICES ASSUME ContractsInv, NEW d \in drifts,
                        d.contract = InferJSONSchema(Redacted(Doc[d.hook]))
                 PROVE Unsettled(Doc[d.hook])
    BY DEF DriftSettles
  <2>2. d.hook \in Hooks
    <3>1. d \in Drift
      BY <2>1 DEF ContractsInv, BaselinesTypeOK
    <3>2. QED
      BY <3>1, DriftParts
  <2>3. Doc[d.hook] \in Documents
    BY <2>2, BaselinesAssumption
  <2>4. DetectDrift(InferJSONSchema(Redacted(Doc[d.hook])), Doc[d.hook]) # {}
    BY <2>1 DEF ContractsInv, DriftsFound
  <2>5. QED
    BY <2>3, <2>4, SettledUnless
<1>2. QED
  BY <1>1, ContractsInvHolds, PTL

-----------------------------------------------------------------------------
(* The rows of an organization. *)

LEMMA KindsDiffer ==
    /\ Orgs \intersect Ids = {} /\ Projects \intersect Endpoints = {}
    /\ (Projects \union Endpoints) \intersect
          (Rules \union Keys \union Channels \union Suites \union Findings \union Captured) = {}
    /\ (Rules \union Captured) \intersect (Keys \union Channels \union Suites \union Findings) = {}
    /\ Channels \intersect Suites = {} /\ Captured \intersect (Channels \union Suites) = {}
<1> DEFINE kinds == <<Orgs, Projects, Endpoints, Rules, Keys, Channels, Suites, Findings, Captured>>
<1>1. \A i, j \in 1 .. 9 : i # j => kinds[i] \intersect kinds[j] = {}
  BY TenantAssumption
<1>2. /\ kinds[1] = Orgs /\ kinds[2] = Projects /\ kinds[3] = Endpoints /\ kinds[4] = Rules
      /\ kinds[5] = Keys /\ kinds[6] = Channels /\ kinds[7] = Suites /\ kinds[8] = Findings
      /\ kinds[9] = Captured
  OBVIOUS
<1> HIDE DEF kinds
<1>3. \A j \in 2 .. 9 : Orgs \intersect kinds[j] = {}
  BY <1>1, <1>2
<1>4. \A j \in 3 .. 9 : Projects \intersect kinds[j] = {}
  BY <1>1, <1>2
<1>5. \A j \in 4 .. 9 : Endpoints \intersect kinds[j] = {}
  BY <1>1, <1>2
<1>6. \A j \in 5 .. 8 : Rules \intersect kinds[j] = {} /\ Captured \intersect kinds[j] = {}
  BY <1>1, <1>2
<1>7. kinds[6] \intersect kinds[7] = {}
  BY <1>1
<1>8. QED
  BY <1>2, <1>3, <1>4, <1>5, <1>6, <1>7 DEF Ids

LEMMA ParentsAreRows ==
    Parents \subseteq Orgs \union Ids /\ {"unborn", "gone"} \intersect (Parents \union Ids) = {}
<1>1. Parents \subseteq Orgs \union Ids
  BY DEF Parents, Ids
<1>2. QED
  BY <1>1, TenantAssumption

(* A row is below the table its foreign key names, and its parent exists.  *)
Placed == \A id \in Ids : parent[id] \in ParentTable(id) \union {"unborn", "gone"}
Rooted == \A id \in Ids : parent[id] \in Ids => Live(parent[id])
MarksLive == \A m \in marks : Live(m[1])
AuditsOwn == \A a \in audits : a.project # None => parent[a.project] = a.org

RowsTyped ==
    /\ parent \in [Ids -> Parents \union {"unborn", "gone"}]
    /\ settings \in [Endpoints -> Columns]
    /\ flag \in [Rules \union Keys \union Projects -> BOOLEAN]
    /\ marks \in SUBSET (Endpoints \X Marks)
    /\ audits \in SUBSET Audit

RowsInv == RowsTyped /\ Placed /\ Rooted /\ MarksLive /\ AuditsOwn

(* Three generations: projects, what is in a project, what is in an endpoint. *)
LEMMA Generations ==
    ASSUME Placed, Rooted, NEW id \in Ids, Live(id)
    PROVE  /\ id \in Projects => parent[id] \in Orgs /\ OrgOf(id) = parent[id]
           /\ id \notin Projects => /\ parent[id] \in Projects \union Endpoints
                                    /\ parent[id] \in Ids /\ Live(parent[id])
                                    /\ OrgOf(id) = OrgOf(parent[id])
           /\ OrgOf(id) \in Orgs
<1>0. \A i \in Ids : Live(i) => parent[i] \in ParentTable(i)
  BY ParentsAreRows DEF Placed, Live
<1>1. ASSUME NEW p \in Projects, Live(p)
      PROVE  parent[p] \in Orgs /\ Above(p) = p /\ OrgOf(p) = parent[p]
  BY <1>0, <1>1 DEF ParentTable, Ids, Above, OrgOf
<1>2. ASSUME NEW i \in Ids, Live(i), parent[i] \in Projects
      PROVE  /\ Live(parent[i]) /\ Above(i) = parent[i]
             /\ OrgOf(i) = OrgOf(parent[i]) /\ OrgOf(i) \in Orgs
  <2>1. parent[i] \in Ids /\ parent[i] \notin Orgs
    BY <1>2, KindsDiffer DEF Ids
  <2>2. Live(parent[i])
    BY <2>1 DEF Rooted
  <2>3. Above(i) = parent[i]
    BY <1>2, <2>1 DEF Above
  <2>4. QED
    BY <1>1, <1>2, <2>2, <2>3 DEF OrgOf
<1>3. ASSUME NEW i \in Ids, Live(i), parent[i] \in Endpoints
      PROVE  /\ Live(parent[i])
             /\ OrgOf(i) = OrgOf(parent[i]) /\ OrgOf(i) \in Orgs
  <2>1. parent[i] \in Ids /\ parent[i] \notin Orgs
    BY <1>3, KindsDiffer DEF Ids
  <2>2. Live(parent[i])
    BY <2>1 DEF Rooted
  <2>3. Above(i) = parent[i]
    BY <1>3, <2>1 DEF Above
  <2>4. parent[parent[i]] \in Projects
    BY <1>0, <1>3, <2>1, <2>2, KindsDiffer DEF ParentTable
  <2>5. OrgOf(i) = parent[parent[parent[i]]]
    BY <1>2, <2>1, <2>2, <2>3, <2>4 DEF OrgOf
  <2>6. QED
    BY <1>1, <1>2, <2>1, <2>2, <2>4, <2>5
<1>4. CASE id \in Projects
  BY <1>1, <1>4
<1>5. CASE id \notin Projects
  <2>1. parent[id] \in Projects \union Endpoints
    BY <1>0, <1>5 DEF ParentTable
  <2>2. QED
    BY <1>2, <1>3, <1>5, <2>1 DEF Ids
<1>6. QED
  BY <1>4, <1>5

(* What a handler of the organization o may do to the rows.                *)
NewRow(o) ==
    \E id \in Ids : \E under \in ParentTable(id) :
        /\ parent[id] = "unborn" /\ parent' = [parent EXCEPT ![id] = under]
        /\ under = o \/ (under \in Ids /\ Live(under) /\ OrgOf(under) = o)
        /\ \/ UNCHANGED settings
           \/ \E c \in Columns : id \in Endpoints /\ settings' = [settings EXCEPT ![id] = c]
        /\ UNCHANGED <<flag, marks, audits>>

Removal(o) ==
    \E gone \in SUBSET Ids :
        /\ \A id \in gone : Live(id) /\ OrgOf(id) = o
        /\ \A id \in Ids : parent[id] \in gone => id \in gone
        /\ Delete(gone)

FlagStep(o) ==
    \E id \in Rules \union Keys \union Projects, b \in BOOLEAN :
        /\ Live(id) /\ OrgOf(id) = o
        /\ flag' = [flag EXCEPT ![id] = b] /\ UNCHANGED <<parent, settings, marks, audits>>

ColumnStep(o) ==
    \E e \in Endpoints, c \in Columns :
        /\ Live(e) /\ OrgOf(e) = o
        /\ settings' = [settings EXCEPT ![e] = c] /\ UNCHANGED <<parent, flag, marks, audits>>

MarkStep(o) ==
    \E e \in Endpoints, k \in Marks :
        /\ Live(e) /\ OrgOf(e) = o
        /\ marks' \in {marks \union {<<e, k>>}, marks \ {<<e, k>>}}
        /\ UNCHANGED <<parent, settings, flag, audits>>

AuditStep(o) ==
    \E a \in Audit :
        /\ a.org = o /\ (a.project # None => parent[a.project] = o)
        /\ audits' = audits \union {a} /\ UNCHANGED <<parent, settings, flag, marks>>

RowStep(o) ==
    \/ UNCHANGED rows \/ NewRow(o) \/ Removal(o) \/ FlagStep(o) \/ ColumnStep(o)
    \/ MarkStep(o) \/ AuditStep(o)

(* Rows are born and deleted, never moved. *)
Steady ==
    \A id \in Ids : /\ parent'[id] = "unborn" => parent[id] = "unborn"
                    /\ parent[id] # "unborn" => parent'[id] \in {parent[id], "gone"}

LEMMA IdParents ==
    ASSUME RowsTyped, Placed, NEW id \in Ids
    PROVE  /\ parent[id] \notin {"unborn", "gone"} <=> Live(id)
           /\ ParentTable(id) \subseteq Parents
<1>1. ParentTable(id) \subseteq Parents
  BY DEF ParentTable, Parents
<1>2. QED
  BY <1>1, ParentsAreRows DEF Live, RowsTyped

LEMMA StepKeepsRows ==
    ASSUME RowsInv, NEW o \in Orgs, RowStep(o)
    PROVE  RowsInv' /\ Steady
<1>0. /\ Ids \intersect Orgs = {} /\ {"unborn", "gone"} \intersect (Parents \union Ids) = {}
      /\ Parents \subseteq Ids \union Orgs
  BY KindsDiffer, TenantAssumption DEF Parents, Ids
<1>t. /\ parent \in [Ids -> Parents \union {"unborn", "gone"}] /\ settings \in [Endpoints -> Columns]
      /\ flag \in [Rules \union Keys \union Projects -> BOOLEAN]
      /\ marks \in SUBSET (Endpoints \X Marks) /\ audits \in SUBSET Audit
  BY DEF RowsInv, RowsTyped
<1>k. Projects \subseteq Ids /\ Endpoints \subseteq Ids
  BY DEF Ids
<1>a. \A a \in audits : a \in Audit /\ a.project \in Projects \union {None} /\ a.org \in Orgs
  BY <1>t DEF Audit
<1>1. CASE UNCHANGED rows
  <2>1. UNCHANGED <<parent, settings, flag, marks, audits>>
    BY <1>1 DEF rows
  <2>2. RowsInv'
    BY <2>1 DEF RowsInv, RowsTyped, Placed, Rooted, MarksLive, AuditsOwn, Live
  <2>3. QED
    BY <2>1, <2>2, <1>t DEF Steady
<1>2. CASE NewRow(o)
  <2>1. PICK id \in Ids : \E under \in ParentTable(id) :
        /\ parent[id] = "unborn" /\ parent' = [parent EXCEPT ![id] = under]
        /\ under = o \/ (under \in Ids /\ Live(under) /\ OrgOf(under) = o)
        /\ \/ UNCHANGED settings
           \/ \E c \in Columns : id \in Endpoints /\ settings' = [settings EXCEPT ![id] = c]
        /\ UNCHANGED <<flag, marks, audits>>
    BY <1>2 DEF NewRow
  <2>2. PICK under \in ParentTable(id) :
        /\ parent[id] = "unborn" /\ parent' = [parent EXCEPT ![id] = under]
        /\ under = o \/ (under \in Ids /\ Live(under) /\ OrgOf(under) = o)
    BY <2>1
  <2>3. under \in Parents
    BY DEF ParentTable, Parents
  <2>4. /\ parent' \in [Ids -> Parents \union {"unborn", "gone"}] /\ parent'[id] = under
        /\ \A i \in Ids : i # id => parent'[i] = parent[i]
    BY <2>2, <2>3, <1>t
  <2>5. settings' \in [Endpoints -> Columns] /\ UNCHANGED <<flag, marks, audits>>
    BY <2>1, <1>t
  <2>6. Steady
    BY <2>2, <2>3, <2>4, <1>0 DEF Steady
  <2>7. \A i \in Ids : Live(i) => Live(i)' /\ i # id
    BY <2>2, <2>4, <1>0 DEF Live
  <2>8. Placed'
    BY <2>2, <2>4 DEF RowsInv, Placed, ParentTable
  <2>9. Rooted'
    <3>1. ASSUME NEW i \in Ids, parent'[i] \in Ids PROVE parent'[parent'[i]] \in Parents
      <4>1. CASE i = id
        BY <3>1, <4>1, <2>2, <2>4, <2>7, <1>0 DEF Live
      <4>2. CASE i # id
        BY <3>1, <4>2, <2>4, <2>7 DEF RowsInv, Rooted, Live
      <4>3. QED
        BY <4>1, <4>2
    <3>2. QED
      BY <3>1 DEF Rooted, Live
  <2>10. MarksLive' /\ AuditsOwn'
    <3>1. \A m \in marks : m[1] \in Ids
      BY <1>t, <1>k
    <3>2. \A a \in audits : a.project # None => a.project \in Ids /\ a.project # id
      <4>1. \A a \in audits : a.project # None => a.project \in Ids /\ parent[a.project] \in Orgs
        BY <1>a, <1>k DEF RowsInv, AuditsOwn
      <4>2. "unborn" \notin Orgs
        BY TenantAssumption
      <4>3. QED
        BY <4>1, <4>2, <2>2
    <3>3. QED
      BY <3>1, <3>2, <2>4, <2>5, <2>7 DEF RowsInv, MarksLive, AuditsOwn
  <2>11. QED
    BY <2>4, <2>5, <2>6, <2>8, <2>9, <2>10, <1>t DEF RowsInv, RowsTyped
<1>3. CASE Removal(o)
  <2>1. PICK gone \in SUBSET Ids :
        /\ \A id \in gone : Live(id) /\ OrgOf(id) = o
        /\ \A id \in Ids : parent[id] \in gone => id \in gone
        /\ Delete(gone)
    BY <1>3 DEF Removal
  <2>2. /\ parent' = [id \in Ids |-> IF id \in gone THEN "gone" ELSE parent[id]]
        /\ marks' = {m \in marks : m[1] \notin gone}
        /\ audits' = {IF a.project \in gone THEN [a EXCEPT !.project = None] ELSE a : a \in audits}
        /\ UNCHANGED <<settings, flag>>
    BY <2>1 DEF Delete
  <2>3. /\ parent' \in [Ids -> Parents \union {"unborn", "gone"}]
        /\ \A i \in gone : parent'[i] = "gone"
        /\ \A i \in Ids : i \notin gone => parent'[i] = parent[i]
    BY <2>2, <1>t
  <2>4. audits' \in SUBSET Audit
    <3>1. \A a \in Audit : [a EXCEPT !.project = None] \in Audit
      BY DEF Audit
    <3>2. QED
      BY <2>2, <1>t, <3>1
  <2>5. Steady
    BY <2>1, <2>3, <1>0 DEF Steady, Live
  <2>6. \A i \in Ids : Live(i) /\ i \notin gone => Live(i)'
    BY <2>3 DEF Live
  <2>7. Placed'
    BY <2>3 DEF RowsInv, Placed, ParentTable
  <2>8. Rooted'
    <3>1. ASSUME NEW i \in Ids, parent'[i] \in Ids PROVE parent'[parent'[i]] \in Parents
      <4>1. i \notin gone
        BY <3>1, <2>3, <1>0
      <4>2. QED
        BY <3>1, <4>1, <2>1, <2>3, <2>6 DEF RowsInv, Rooted, Live
    <3>2. QED
      BY <3>1 DEF Rooted, Live
  <2>9. MarksLive'
    <3>1. \A m \in marks : m[1] \in Ids
      BY <1>t, <1>k
    <3>2. QED
      BY <3>1, <2>2, <2>6 DEF RowsInv, MarksLive
  <2>10. AuditsOwn'
    <3>1. ASSUME NEW b \in audits', b.project # None PROVE parent'[b.project] = b.org
      <4>1. PICK a \in audits : b = IF a.project \in gone THEN [a EXCEPT !.project = None] ELSE a
        BY <2>2, <3>1
      <4>2. a.project \notin gone
        BY <3>1, <4>1, <1>a DEF Audit
      <4>3. b = a /\ a.project \in Ids
        BY <3>1, <4>1, <4>2, <1>a, <1>k
      <4>4. QED
        BY <3>1, <4>2, <4>3, <2>3 DEF RowsInv, AuditsOwn
    <3>2. QED
      BY <3>1 DEF AuditsOwn
  <2>11. QED
    BY <2>2, <2>3, <2>4, <2>5, <2>7, <2>8, <2>9, <2>10, <1>t DEF RowsInv, RowsTyped
<1>4. CASE UNCHANGED parent /\ (FlagStep(o) \/ ColumnStep(o) \/ MarkStep(o) \/ AuditStep(o))
  <2>1. Placed' /\ Rooted' /\ Steady
    BY <1>4, <1>t DEF RowsInv, Placed, Rooted, Steady, Live
  <2>2. RowsTyped'
    <3>1. CASE FlagStep(o)
      BY <3>1, <1>t DEF FlagStep, RowsTyped
    <3>2. CASE ColumnStep(o)
      BY <3>2, <1>t DEF ColumnStep, RowsTyped
    <3>3. CASE MarkStep(o)
      BY <3>3, <1>t DEF MarkStep, RowsTyped
    <3>4. CASE AuditStep(o)
      BY <3>4, <1>t DEF AuditStep, RowsTyped
    <3>5. QED
      BY <1>4, <3>1, <3>2, <3>3, <3>4
  <2>3. MarksLive'
    BY <1>4 DEF FlagStep, ColumnStep, MarkStep, AuditStep, RowsInv, MarksLive, Live
  <2>4. AuditsOwn'
    BY <1>4 DEF FlagStep, ColumnStep, MarkStep, AuditStep, RowsInv, AuditsOwn
  <2>5. QED
    BY <2>1, <2>2, <2>3, <2>4 DEF RowsInv
<1>5. FlagStep(o) \/ ColumnStep(o) \/ MarkStep(o) \/ AuditStep(o) => UNCHANGED parent
  BY DEF FlagStep, ColumnStep, MarkStep, AuditStep
<1>8. QED
  BY <1>1, <1>2, <1>3, <1>4, <1>5 DEF RowStep

(* What a request may reach: a row of its organization, as long as there   *)
(* is one.                                                                 *)
Belongs(id, o) == parent[id] # "unborn" /\ (Live(id) => OrgOf(id) = o)

LEMMA OrgStays ==
    ASSUME RowsInv, RowsInv', Steady, NEW id \in Ids, parent[id] # "unborn"
    PROVE  /\ parent'[id] # "unborn"
           /\ Live(id)' => Live(id) /\ parent'[id] = parent[id] /\ OrgOf(id)' = OrgOf(id)
<1>1. \A i \in Ids : parent[i] # "unborn" =>
         parent'[i] # "unborn" /\ (Live(i)' => Live(i) /\ parent'[i] = parent[i])
  <2>1. "gone" \notin Parents
    BY TenantAssumption DEF Parents, Ids
  <2>2. QED
    BY <2>1 DEF Steady, Live
<1>2. ASSUME NEW i \in Ids, parent[i] # "unborn", Live(i)'
      PROVE  /\ Above(i)' = Above(i) /\ Above(i) \in Ids
             /\ parent[Above(i)] # "unborn" /\ Live(Above(i))'
  <2>1. Live(i) /\ parent'[i] = parent[i]
    BY <1>1, <1>2
  <2>2. Above(i)' = Above(i)
    BY <1>2, <2>1 DEF Above
  <2>3. CASE parent[i] \in Orgs
    BY <1>2, <2>1, <2>2, <2>3 DEF Above
  <2>4. CASE parent[i] \notin Orgs
    <3>1. parent[i] \in Ids
      BY <2>1, <2>4 DEF Live, Parents, Ids
    <3>2. Live(parent[i])' /\ Live(parent[i])
      BY <2>1, <3>1 DEF RowsInv, Rooted
    <3>3. parent[parent[i]] # "unborn"
      BY <3>2, TenantAssumption DEF Live, Parents, Ids
    <3>4. QED
      BY <2>1, <2>2, <2>4, <3>1, <3>2, <3>3 DEF Above
  <2>5. QED
    BY <2>3, <2>4
<1>3. ASSUME Live(id)' PROVE OrgOf(id)' = OrgOf(id)
  <2> DEFINE up == Above(id)
  <2>1. up' = up /\ up \in Ids /\ parent[up] # "unborn" /\ Live(up)'
    BY <1>2, <1>3
  <2>2. Above(up)' = Above(up) /\ Above(up) \in Ids /\ parent[Above(up)] # "unborn" /\ Live(Above(up))'
    <3> HIDE DEF up
    <3>1. \A i \in Ids : parent[i] # "unborn" /\ Live(i)' =>
            Above(i)' = Above(i) /\ Above(i) \in Ids /\ parent[Above(i)] # "unborn" /\ Live(Above(i))'
      BY <1>2
    <3>2. QED
      BY <2>1, <3>1
  <2>3. parent'[Above(up)] = parent[Above(up)]
    BY <1>1, <2>2
  <2>4. QED
    BY <2>1, <2>2, <2>3 DEF OrgOf
<1>4. QED
  BY <1>1, <1>3

LEMMA GenerationsAll ==
    Placed /\ Rooted => \A id \in Ids : Live(id) =>
        /\ id \in Projects => parent[id] \in Orgs /\ OrgOf(id) = parent[id]
        /\ id \notin Projects => OrgOf(id) = OrgOf(parent[id])
BY Generations

LEMMA GenerationsNext ==
    (Placed /\ Rooted => \A id \in Ids : Live(id) =>
        /\ id \in Projects => parent[id] \in Orgs /\ OrgOf(id) = parent[id]
        /\ id \notin Projects => OrgOf(id) = OrgOf(parent[id]))'
BY GenerationsAll, PTL

(* Whatever a handler does to the rows, it does to those of its own        *)
(* organization.                                                           *)
LEMMA StepIsolated ==
    ASSUME RowsInv, NEW o \in Orgs, RowStep(o), NEW i \in Ids
    PROVE  Untouched(i) \/ Owner(i) = o
<1>t. /\ parent \in [Ids -> Parents \union {"unborn", "gone"}] /\ settings \in [Endpoints -> Columns]
      /\ flag \in [Rules \union Keys \union Projects -> BOOLEAN]
  BY DEF RowsInv, RowsTyped
<1>1. CASE UNCHANGED rows
  BY <1>1 DEF rows, Untouched
<1>2. CASE NewRow(o)
  <2>1. PICK id \in Ids : \E under \in ParentTable(id) :
        /\ parent[id] = "unborn" /\ parent' = [parent EXCEPT ![id] = under]
        /\ under = o \/ (under \in Ids /\ Live(under) /\ OrgOf(under) = o)
        /\ \/ UNCHANGED settings
           \/ \E c \in Columns : id \in Endpoints /\ settings' = [settings EXCEPT ![id] = c]
        /\ UNCHANGED <<flag, marks, audits>>
    BY <1>2 DEF NewRow
  <2>2. PICK under \in ParentTable(id) :
        /\ parent[id] = "unborn" /\ parent' = [parent EXCEPT ![id] = under]
        /\ under = o \/ (under \in Ids /\ Live(under) /\ OrgOf(under) = o)
    BY <2>1
  <2>3. CASE i # id
    BY <2>1, <2>2, <2>3, <1>t DEF Untouched
  <2>4. CASE i = id
    <3>1. ~Live(id) /\ parent'[id] = under /\ under \in Parents
      BY <2>2, <1>t, ParentsAreRows DEF Live, ParentTable, Parents
    <3>2. RowsInv' /\ Steady
      BY StepKeepsRows
    <3>3. Live(id)'
      BY <3>1 DEF Live
    <3>4. OrgOf(id)' = o
      <4>1. CASE id \in Projects
        <5>1. OrgOf(id)' = under
          BY <3>1, <3>2, <3>3, <4>1, GenerationsNext DEF RowsInv
        <5>2. under \notin Ids
          BY <4>1, KindsDiffer DEF ParentTable
        <5>3. QED
          BY <5>1, <5>2, <2>2
      <4>2. CASE id \notin Projects
        <5>1. OrgOf(id)' = OrgOf(parent[id])'
          BY <3>2, <3>3, <4>2, GenerationsNext DEF RowsInv
        <5>2. under \in Ids /\ Live(under) /\ OrgOf(under) = o
          BY <4>2, <2>2, KindsDiffer DEF ParentTable, Ids
        <5>3. Live(under)'
          BY <3>1, <3>2, <5>2 DEF RowsInv, Rooted, Live
        <5>4. OrgOf(under)' = o
          BY <3>2, <5>2, <5>3, OrgStays, ParentsAreRows DEF Live
        <5>5. QED
          BY <5>1, <5>4, <3>1 DEF OrgOf, Above, Live
      <4>3. QED
        BY <4>1, <4>2
    <3>5. QED
      BY <3>1, <3>4, <2>4 DEF Owner
  <2>5. QED
    BY <2>3, <2>4
<1>3. CASE Removal(o)
  <2>1. PICK gone \in SUBSET Ids :
        /\ \A id \in gone : Live(id) /\ OrgOf(id) = o
        /\ Delete(gone)
    BY <1>3 DEF Removal
  <2>2. CASE i \in gone
    BY <2>1, <2>2 DEF Owner
  <2>3. CASE i \notin gone
    BY <2>1, <2>3, <1>t DEF Delete, Untouched
  <2>4. QED
    BY <2>2, <2>3
<1>4. CASE FlagStep(o)
  BY <1>4, <1>t DEF FlagStep, Untouched, Owner
<1>5. CASE ColumnStep(o)
  BY <1>5, <1>t DEF ColumnStep, Untouched, Owner
<1>6. CASE MarkStep(o)
  BY <1>6 DEF MarkStep, Untouched, Owner
<1>7. CASE AuditStep(o)
  BY <1>7 DEF AuditStep, Untouched
<1>8. QED
  BY <1>1, <1>2, <1>3, <1>4, <1>5, <1>6, <1>7 DEF RowStep

LEMMA ChildOf ==
    ASSUME RowsInv, NEW o, NEW id \in Ids, NEW p \in Projects \union Endpoints,
           parent[id] = p, Belongs(p, o)
    PROVE  Live(id) /\ Live(p) /\ OrgOf(id) = o /\ OrgOf(p) = o
<1>1. Live(id) /\ p \in Ids /\ p \notin Orgs
  BY KindsDiffer DEF Live, Parents, Ids
<1>2. Live(p) /\ OrgOf(p) = o
  BY <1>1 DEF RowsInv, Rooted, Belongs
<1>3. OrgOf(id) = OrgOf(p)
  BY <1>1, Generations DEF RowsInv
<1>4. QED
  BY <1>1, <1>2, <1>3

LEMMA InsertStep ==
    ASSUME RowsInv, NEW o, NEW under \in Ids, Live(under), Belongs(under, o),
           NEW kind, \A id \in kind : id \in Ids /\ under \in ParentTable(id),
           Insert(kind, under)
    PROVE  NewRow(o)
BY DEF Insert, NewRow, Belongs

LEMMA DeleteNothing == ASSUME NEW o, Delete({}) PROVE Removal(o)
BY DEF Removal

LEMMA DeleteOne ==
    ASSUME RowsInv, NEW o, NEW id \in Ids, id \notin Projects \union Endpoints,
           Live(id), OrgOf(id) = o, Delete({id})
    PROVE  Removal(o)
<1>1. id \notin Parents
  BY KindsDiffer DEF Parents
<1>2. \A i \in Ids : parent[i] # id
  BY <1>1, ParentsAreRows DEF RowsInv, RowsTyped
<1>3. {id} \in SUBSET Ids
  OBVIOUS
<1>4. QED
  BY <1>2, <1>3 DEF Removal

LEMMA DeleteBelow ==
    ASSUME RowsInv, NEW o, NEW id \in Projects \union Endpoints,
           Live(id), OrgOf(id) = o, Delete(Below(id))
    PROVE  Removal(o)
<1>0. id \in Ids /\ Below(id) \in SUBSET Ids
  BY DEF Ids, Below
<1>i. \A i \in Ids : parent[i] \in Parents \union {"unborn", "gone"}
  BY DEF RowsInv, RowsTyped
<1>b. Belongs(id, o)
  BY <1>0, ParentsAreRows DEF Belongs, Live
<1>1. ASSUME NEW i \in Ids, Child(i, id) PROVE Live(i) /\ OrgOf(i) = o
  BY <1>1, <1>b, ChildOf DEF Child
<1>2. ASSUME NEW i \in Ids, NEW e \in Endpoints, Child(e, id), parent[i] = e
      PROVE  Live(i) /\ OrgOf(i) = o
  <2>1. e \in Ids
    BY DEF Ids
  <2>2. Live(e) /\ OrgOf(e) = o
    BY <1>1, <1>2, <2>1
  <2>3. Belongs(e, o)
    BY <2>1, <2>2, ParentsAreRows DEF Belongs, Live
  <2>4. QED
    BY <1>2, <2>3, ChildOf
<1>3. \A i \in Below(id) : Live(i) /\ OrgOf(i) = o
  BY <1>1, <1>2 DEF Below, Ids
<1>4. ASSUME NEW i \in Ids, parent[i] \in Below(id) PROVE i \in Below(id)
  <2> DEFINE p == parent[i]
  <2>1. p \in Ids /\ Live(i)
    BY <1>0, <1>4, <1>i, ParentsAreRows DEF Live
  <2>2. CASE p = id
    BY <2>1, <2>2 DEF Below, Child
  <2>3. CASE p # id
    <3>1. p \in Projects \union Endpoints
      BY <2>1, KindsDiffer DEF Live, Parents
    <3>2. p \in Endpoints /\ Child(p, id)
      <4>1. Child(p, id) \/ \E e \in Endpoints : Child(e, id) /\ parent[p] = e
        BY <1>4 DEF Below
      <4>2. Live(p)
        BY <2>1 DEF RowsInv, Rooted
      <4>3. parent[p] \in ParentTable(p)
        BY <2>1, <4>2, ParentsAreRows DEF RowsInv, Placed, Live
      <4>4. parent[p] \notin Endpoints
        BY <4>3, <3>1, KindsDiffer DEF ParentTable, Ids
      <4>5. Child(p, id) /\ parent[p] = id
        BY <4>1, <4>4, <2>3 DEF Child
      <4>6. p \notin Projects
        BY <4>3, <4>5, <1>0, KindsDiffer DEF ParentTable
      <4>7. QED
        BY <4>5, <4>6, <3>1
    <3>3. QED
      BY <3>2 DEF Below
  <2>4. QED
    BY <2>2, <2>3
<1>5. QED
  BY <1>0, <1>3, <1>4 DEF Removal

-----------------------------------------------------------------------------
(* Requests. *)

LEMMA OrderParts ==
    ASSUME NEW o \in Orders
    PROVE  /\ o.route \in Routes /\ o.user \in Users /\ o.org \in Orgs
           /\ "project" \in Guards(o.route) \/ o.route = "suite" => o.project \in Projects
           /\ "endpoint" \in Guards(o.route) => o.endpoint \in Endpoints
           /\ o.item \in Items(o.route)
           /\ o.route = "project endpoint" => o.names \in Named
           /\ o # NoOrder
<1>1. PICK r \in Routes :
        o \in [route : {r}, user : Users, org : Orgs,
              project : IF "project" \in Guards(r) \/ r = "suite" THEN Known(Projects) ELSE {None},
              endpoint : IF "endpoint" \in Guards(r) THEN Known(Endpoints) ELSE {None},
              item : Known(Items(r)),
              names : IF r = "project endpoint" THEN Named ELSE {None}]
  BY DEF Orders
<1>2. \A S : Known(S) \subseteq S
  BY DEF Known
<1>3. /\ o.route = r /\ o.user \in Users /\ o.org \in Orgs
      /\ "project" \in Guards(r) \/ r = "suite" => o.project \in Known(Projects)
      /\ "endpoint" \in Guards(r) => o.endpoint \in Known(Endpoints)
      /\ o.item \in Known(Items(r))
      /\ r = "project endpoint" => o.names \in Named
  BY <1>1
<1>4. o # NoOrder
  <2>1. r # "none"
    BY DEF Routes
  <2>2. NoOrder.route = "none"
    BY DEF NoOrder
  <2>3. QED
    BY <1>3, <2>1, <2>2
<1>5. QED
  BY <1>2, <1>3, <1>4

LEMMA RouteGuards ==
    /\ \A r \in {"project", "key", "slug", "suite request", "project endpoint"} :
          "project" \in Guards(r)
    /\ \A r \in {"endpoint", "rule", "project endpoint"} : "endpoint" \in Guards(r)
    /\ \A r \in {"channel", "suite", "request"} : "item" \in Guards(r)
    /\ Items("rule") = Rules /\ Items("key") = Keys /\ Items("channel") = Channels
    /\ Items("suite") = Suites /\ Items("request") = Captured /\ Items("suite request") = Captured
    /\ Items("slug") = Slugs
BY DEF Guards, Items, Routes

LEMMA GuardsAre ==
    ASSUME NEW r \in Routes, NEW g \in Guards(r)
    PROVE  /\ g \in {"project", "endpoint", "item"}
           /\ g = "item" => r \in {"channel", "suite", "request"}
BY DEF Guards, Routes

(* What a guard of a request is about.                                     *)
Subject(q, guard) ==
    CASE guard = "project" -> order[q].project
      [] guard = "endpoint" -> order[q].endpoint
      [] OTHER -> order[q].item

(* A request that was let in acts for its sender's organization, and what  *)
(* the guards it passed are about belongs to that organization, or is gone. *)
Answered(q) == pc[q] \in {"unsent", "done"} /\ order[q] = NoOrder
Serving(q) ==
    /\ pc[q] \in {"guarded", "loaded", "written"}
    /\ order[q] \in Orders /\ Home[order[q].user] = order[q].org
    /\ \A g \in Guards(order[q].route) \ todo[q] : Belongs(Subject(q, g), order[q].org)
    /\ pc[q] # "guarded" => todo[q] = {}
    /\ pc[q] = "loaded" => order[q].route \in {"slug", "suite request", "project endpoint"}
    /\ pc[q] = "loaded" /\ order[q].route = "project endpoint" => existing[q] \in Columns
    /\ pc[q] = "written" => order[q].route \in {"endpoint", "project endpoint"}

RequestsTyped ==
    /\ pc \in [Requests -> {"unsent", "guarded", "loaded", "written", "done"}]
    /\ order \in [Requests -> Orders \union {NoOrder}]
    /\ todo \in [Requests -> SUBSET {"project", "endpoint", "item"}]
    /\ existing \in [Requests -> Columns \union {None}]
    /\ got \in [Requests -> SUBSET Orgs]

RequestsInv == RequestsTyped /\ \A q \in Requests : Answered(q) \/ Serving(q)

(* What a request whose guards are all passed can reach.                   *)
Reaches(q) ==
    LET o == order[q] IN
    /\ o.org \in Orgs /\ o.user \in Users /\ Home[o.user] = o.org
    /\ o.route \in {"project", "key", "slug", "suite request", "project endpoint"} =>
          o.project \in Projects /\ o.project \in Ids /\ Belongs(o.project, o.org)
    /\ o.route \in {"endpoint", "rule", "project endpoint"} =>
          o.endpoint \in Endpoints /\ o.endpoint \in Ids /\ Belongs(o.endpoint, o.org)
    /\ o.route \in {"channel", "suite", "request"} => o.item \in Ids /\ Belongs(o.item, o.org)
    /\ o.route = "rule" => o.item \in Rules
    /\ o.route = "key" => o.item \in Keys
    /\ o.route = "channel" => o.item \in Channels
    /\ o.route = "suite" => o.item \in Suites /\ o.project \in Projects
    /\ o.route = "request" => o.item \in Captured
    /\ o.route = "suite request" => o.item \in Captured
    /\ o.route = "slug" => o.item \in Slugs
    /\ o.route = "project endpoint" => o.names \in Named

LEMMA GuardsPassed ==
    ASSUME RequestsInv, NEW q \in Requests, todo[q] = {}, pc[q] \in {"guarded", "loaded", "written"}
    PROVE  Reaches(q) /\ Serving(q)
<1>1. Serving(q)
  BY DEF RequestsInv, Answered
<1> DEFINE o == order[q]
<1>2. o \in Orders /\ Home[o.user] = o.org
  BY <1>1 DEF Serving
<1>3. \A g \in Guards(o.route) : Belongs(Subject(q, g), o.org)
  BY <1>1 DEF Serving
<1>4. /\ "project" \in Guards(o.route) => Belongs(o.project, o.org)
      /\ "endpoint" \in Guards(o.route) => Belongs(o.endpoint, o.org)
      /\ "item" \in Guards(o.route) => Belongs(o.item, o.org)
  BY <1>3 DEF Subject
<1>5. Projects \subseteq Ids /\ Endpoints \subseteq Ids /\ Channels \union Suites \union Captured \subseteq Ids
  BY DEF Ids
<1>6. Reaches(q)
  BY <1>2, <1>4, <1>5, OrderParts, RouteGuards DEF Reaches
<1>7. QED
  BY <1>1, <1>6

(* A handler acts for its request: it ends it or takes it a step further,  *)
(* and reaches only rows of the request's organization.                    *)
Further(q) ==
    /\ todo[q] = {} /\ UNCHANGED <<order, todo>>
    /\ \/ /\ pc' = [pc EXCEPT ![q] = "loaded"] /\ pc[q] = "guarded"
          /\ order[q].route \in {"slug", "suite request", "project endpoint"}
          /\ IF order[q].route = "project endpoint"
             THEN existing' = [existing EXCEPT ![q] = settings[order[q].endpoint]]
             ELSE UNCHANGED existing
       \/ /\ pc' = [pc EXCEPT ![q] = "written"] /\ pc[q] \in {"guarded", "loaded"}
          /\ order[q].route \in {"endpoint", "project endpoint"}
          /\ UNCHANGED existing

Acts(q) ==
    /\ Serving(q) /\ order[q].org \in Orgs
    /\ RowStep(order[q].org)
    /\ Forgets(q) \/ Further(q)
    /\ UNCHANGED got \/ \E G \in SUBSET {order[q].org} : got' = [got EXCEPT ![q] = G]

LEMMA ShowsActs ==
    ASSUME NEW q \in Requests, Serving(q), order[q].org \in Orgs,
           NEW ids, \A id \in ids : OrgOf(id) = order[q].org, Shows(q, ids)
    PROVE  Acts(q)
<1>1. OrgsOf(ids) \in SUBSET {order[q].org}
  BY DEF OrgsOf
<1>2. QED
  BY <1>1 DEF Shows, Acts, RowStep

LEMMA RunsActs ==
    ASSUME NEW q \in Requests, Serving(q), order[q].org \in Orgs,
           NEW statement, Runs(q, statement), statement => RowStep(order[q].org)
    PROVE  Acts(q)
BY DEF Runs, Ends, Acts

LEMMA ProjectActs ==
    ASSUME RowsInv, RequestsInv, NEW q \in Requests, ProjectHandler(q)
    PROVE  Acts(q)
<1> DEFINE o == order[q].org
<1>0. Reaches(q) /\ Serving(q)
  BY GuardsPassed DEF ProjectHandler, ListProjectsRequest, CreateProjectRequest, GetProjectRequest,
     UpdateProjectRequest, DeleteProjectRequest, Admitted
<1>1. o \in Orgs
  BY <1>0 DEF Reaches
<1>2. ASSUME NEW p \in Projects, parent[p] = o
      PROVE  p \in Ids /\ Live(p) /\ OrgOf(p) = o
  <2>1. p \in Ids /\ Live(p)
    BY <1>1, <1>2 DEF Ids, Live, Parents
  <2>2. QED
    BY <1>2, <2>1, Generations DEF RowsInv
<1>3. CASE ListProjectsRequest(q)
  <2>1. \A id \in ListProjectsByOrg(o) : OrgOf(id) = o
    BY <1>2 DEF ListProjectsByOrg
  <2>2. QED
    BY <2>1, <1>0, <1>1, <1>3, ShowsActs DEF ListProjectsRequest
<1>4. CASE CreateProjectRequest(q)
  <2>1. ASSUME CreateProject(o) PROVE RowStep(o)
    <3>1. PICK id \in Projects : parent[id] = "unborn" /\ parent' = [parent EXCEPT ![id] = o]
                               /\ UNCHANGED <<settings, flag, marks, audits>>
      BY <2>1 DEF CreateProject, Insert
    <3>2. id \in Ids /\ o \in ParentTable(id)
      BY <1>1 DEF Ids, ParentTable
    <3>3. NewRow(o)
      BY <3>1, <3>2 DEF NewRow
    <3>4. QED
      BY <3>3 DEF RowStep
  <2>2. QED
    BY <2>1, <1>0, <1>1, <1>4, RunsActs DEF CreateProjectRequest
<1>5. CASE GetProjectRequest(q)
  <2>1. \A id \in GetProjectByID(order[q].project, o) : OrgOf(id) = o
    BY <1>2 DEF GetProjectByID, ListProjectsByOrg
  <2>2. QED
    BY <2>1, <1>0, <1>1, <1>5, ShowsActs DEF GetProjectRequest
<1>6. CASE UpdateProjectRequest(q)
  <2>0. order[q].project \in Projects
    BY <1>0, <1>6 DEF UpdateProjectRequest, Admitted, Reaches
  <2>1. ASSUME UpdateProject(order[q].project, o) PROVE RowStep(o)
    BY <2>0, <2>1, <1>2 DEF UpdateProject, RowStep, FlagStep, rows
  <2>2. QED
    BY <2>1, <1>0, <1>1, <1>6, RunsActs DEF UpdateProjectRequest
<1>7. CASE DeleteProjectRequest(q)
  <2>0. order[q].project \in Projects
    BY <1>0, <1>7 DEF DeleteProjectRequest, Admitted, Reaches
  <2>1. ASSUME DeleteProject(order[q].project, o) PROVE RowStep(o)
    BY <2>0, <2>1, <1>2, DeleteBelow, DeleteNothing DEF DeleteProject, RowStep
  <2>2. QED
    BY <2>1, <1>0, <1>1, <1>7, RunsActs DEF DeleteProjectRequest
<1>8. QED
  BY <1>3, <1>4, <1>5, <1>6, <1>7 DEF ProjectHandler

LEMMA MockActs ==
    ASSUME RowsInv, RequestsInv, NEW q \in Requests, MockHandler(q)
    PROVE  Acts(q)
<1> DEFINE o == order[q].org  e == order[q].endpoint
<1>0. Reaches(q) /\ Serving(q)
  BY GuardsPassed DEF MockHandler, ListMocks, CreateMock, DeleteMock, ToggleMock, Admitted
<1>1. o \in Orgs /\ e \in Endpoints /\ e \in Ids /\ Belongs(e, o) /\ (order[q].route = "rule" => order[q].item \in Rules)
  BY <1>0 DEF Reaches, MockHandler, ListMocks, CreateMock, DeleteMock, ToggleMock, Admitted
<1>2. ASSUME NEW r \in Rules, parent[r] = e
      PROVE  r \in Ids /\ Live(r) /\ OrgOf(r) = o
  BY <1>1, <1>2, ChildOf DEF Ids
<1>3. CASE ListMocks(q)
  <2>1. \A id \in ListMockRulesByEndpoint(e) : OrgOf(id) = o
    BY <1>2 DEF ListMockRulesByEndpoint
  <2>2. QED
    BY <2>1, <1>0, <1>1, <1>3, ShowsActs DEF ListMocks
<1>4. CASE CreateMock(q)
  <2>1. ASSUME IF InsertsUnder(e) THEN CreateMockRule(e) ELSE UNCHANGED rows PROVE RowStep(o)
    <3>1. InsertsUnder(e) => Live(e)
      BY <1>1, KindsDiffer DEF InsertsUnder
    <3>2. \A id \in Rules : id \in Ids /\ e \in ParentTable(id)
      BY <1>1, KindsDiffer DEF Ids, ParentTable
    <3>3. CASE InsertsUnder(e)
      BY <2>1, <3>1, <3>2, <3>3, <1>1, InsertStep DEF CreateMockRule, RowStep
    <3>4. QED
      BY <2>1, <3>3 DEF RowStep
  <2>2. QED
    BY <2>1, <1>0, <1>1, <1>4, RunsActs DEF CreateMock, Inserts
<1>5. CASE DeleteMock(q)
  <2>0. order[q].item \in Rules
    BY <1>1, <1>5 DEF DeleteMock, Admitted
  <2>1. ASSUME DeleteMockRule(order[q].item, e) PROVE RowStep(o)
    BY <2>0, <2>1, <1>2, KindsDiffer, DeleteOne, DeleteNothing DEF DeleteMockRule, RowStep
  <2>2. QED
    BY <2>1, <1>0, <1>1, <1>5, RunsActs DEF DeleteMock
<1>6. CASE ToggleMock(q)
  <2>0. order[q].item \in Rules
    BY <1>1, <1>6 DEF ToggleMock, Admitted
  <2>1. ASSUME ToggleMockRule(order[q].item, e) PROVE RowStep(o)
    <3>1. flag[order[q].item] \in BOOLEAN
      BY <2>0 DEF RowsInv, RowsTyped
    <3>2. CASE parent[order[q].item] = e
      <4>1. flag' = [flag EXCEPT ![order[q].item] = ~flag[order[q].item]]
            /\ UNCHANGED <<parent, settings, marks, audits>>
        BY <2>1, <3>2 DEF ToggleMockRule
      <4>2. Live(order[q].item) /\ OrgOf(order[q].item) = o
        BY <2>0, <3>2, <1>2
      <4>3. FlagStep(o)
        BY <2>0, <3>1, <4>1, <4>2 DEF FlagStep
      <4>4. QED
        BY <4>3 DEF RowStep
    <3>3. CASE parent[order[q].item] # e
      BY <2>1, <3>3 DEF ToggleMockRule, RowStep, rows
    <3>4. QED
      BY <3>2, <3>3
  <2>2. QED
    BY <2>1, <1>0, <1>1, <1>6, RunsActs DEF ToggleMock
<1>7. QED
  BY <1>3, <1>4, <1>5, <1>6 DEF MockHandler

LEMMA KeyActs ==
    ASSUME RowsInv, RequestsInv, NEW q \in Requests, APIKeyHandler(q)
    PROVE  Acts(q)
<1> DEFINE o == order[q].org  p == order[q].project
<1>0. Reaches(q) /\ Serving(q)
  BY GuardsPassed DEF APIKeyHandler, GenerateAPIKey, ListKeys, RevokeKey, Admitted
<1>1. o \in Orgs /\ p \in Projects /\ p \in Ids /\ Belongs(p, o) /\ (order[q].route = "key" => order[q].item \in Keys)
  BY <1>0 DEF Reaches, APIKeyHandler, GenerateAPIKey, ListKeys, RevokeKey, Admitted
<1>2. ASSUME NEW k \in Keys, parent[k] = p
      PROVE  k \in Ids /\ Live(k) /\ OrgOf(k) = o
  BY <1>1, <1>2, ChildOf DEF Ids
<1>3. CASE GenerateAPIKey(q)
  <2>1. ASSUME IF InsertsUnder(p) THEN CreateAPIKey(p) ELSE UNCHANGED rows PROVE RowStep(o)
    <3>1. InsertsUnder(p) => Live(p)
      BY <1>1, KindsDiffer DEF InsertsUnder
    <3>2. \A id \in Keys : id \in Ids /\ p \in ParentTable(id)
      BY <1>1, KindsDiffer DEF Ids, ParentTable
    <3>3. CASE InsertsUnder(p)
      BY <2>1, <3>1, <3>2, <3>3, <1>1, InsertStep DEF CreateAPIKey, RowStep
    <3>4. QED
      BY <2>1, <3>3 DEF RowStep
  <2>2. QED
    BY <2>1, <1>0, <1>1, <1>3, RunsActs DEF GenerateAPIKey, Inserts
<1>4. CASE ListKeys(q)
  <2>1. \A id \in ListAPIKeysByProject(p) : OrgOf(id) = o
    BY <1>2 DEF ListAPIKeysByProject
  <2>2. QED
    BY <2>1, <1>0, <1>1, <1>4, ShowsActs DEF ListKeys
<1>5. CASE RevokeKey(q)
  <2>0. order[q].item \in Keys
    BY <1>1, <1>5 DEF RevokeKey, Admitted
  <2>1. ASSUME RevokeAPIKey(order[q].item, p) PROVE RowStep(o)
    BY <2>0, <2>1, <1>2 DEF RevokeAPIKey, RowStep, FlagStep, rows
  <2>2. QED
    BY <2>1, <1>0, <1>1, <1>5, RunsActs DEF RevokeKey
<1>6. QED
  BY <1>3, <1>4, <1>5 DEF APIKeyHandler

LEMMA AlertActs ==
    ASSUME RowsInv, RequestsInv, NEW q \in Requests, AlertHandler(q)
    PROVE  Acts(q)
<1> DEFINE o == order[q].org  p == order[q].project  c == order[q].item
<1>0. Reaches(q) /\ Serving(q)
  BY GuardsPassed DEF AlertHandler, CreateChannel, ListChannels, DeleteChannel, SendTestAlert, Admitted
<1>1. /\ o \in Orgs
      /\ order[q].route = "project" => p \in Projects /\ p \in Ids /\ Belongs(p, o)
      /\ order[q].route = "channel" => c \in Channels /\ c \in Ids /\ Belongs(c, o)
  BY <1>0 DEF Reaches
<1>3. CASE CreateChannel(q)
  <2>0. p \in Projects /\ p \in Ids /\ Belongs(p, o)
    BY <1>1, <1>3 DEF CreateChannel, Admitted
  <2>1. ASSUME IF InsertsUnder(p) THEN CreateAlertChannel(p) ELSE UNCHANGED rows PROVE RowStep(o)
    <3>1. InsertsUnder(p) => Live(p)
      BY <2>0, KindsDiffer DEF InsertsUnder
    <3>2. \A id \in Channels : id \in Ids /\ p \in ParentTable(id)
      BY <2>0, KindsDiffer DEF Ids, ParentTable
    <3>3. CASE InsertsUnder(p)
      BY <2>1, <3>1, <3>2, <3>3, <2>0, InsertStep DEF CreateAlertChannel, RowStep
    <3>4. QED
      BY <2>1, <3>3 DEF RowStep
  <2>2. QED
    BY <2>1, <1>0, <1>1, <1>3, RunsActs DEF CreateChannel, Inserts
<1>4. CASE ListChannels(q)
  <2>0. p \in Projects /\ p \in Ids /\ Belongs(p, o)
    BY <1>1, <1>4 DEF ListChannels, Admitted
  <2>1. \A id \in ListAlertChannelsByProject(p) : OrgOf(id) = o
    BY <2>0, ChildOf DEF ListAlertChannelsByProject, Ids
  <2>2. QED
    BY <2>1, <1>0, <1>1, <1>4, ShowsActs DEF ListChannels
<1>5. CASE DeleteChannel(q)
  <2>0. c \in Channels /\ c \in Ids /\ Belongs(c, o)
    BY <1>1, <1>5 DEF DeleteChannel, Admitted
  <2>1. ASSUME DeleteAlertChannel(c) PROVE RowStep(o)
    <3>1. CASE Live(c)
      <4>1. Delete({c})
        <5>1. GetAlertChannelByID(c) = {c}
          BY <2>0, <3>1 DEF GetAlertChannelByID
        <5>2. QED
          BY <2>1, <5>1 DEF DeleteAlertChannel
      <4>2. QED
        BY <2>0, <3>1, <4>1, KindsDiffer, DeleteOne DEF Belongs, RowStep
    <3>2. CASE ~Live(c)
      <4>1. GetAlertChannelByID(c) = {}
        BY <3>2 DEF GetAlertChannelByID
      <4>2. QED
        BY <2>1, <4>1, DeleteNothing DEF DeleteAlertChannel, RowStep
    <3>3. QED
      BY <3>1, <3>2
  <2>2. QED
    BY <2>1, <1>0, <1>1, <1>5, RunsActs DEF DeleteChannel
<1>6. CASE SendTestAlert(q)
  <2>0. c \in Ids /\ Belongs(c, o)
    BY <1>1, <1>6 DEF SendTestAlert, Admitted
  <2>1. \A id \in GetAlertChannelByID(c) : OrgOf(id) = o
    BY <2>0 DEF GetAlertChannelByID, Belongs
  <2>2. QED
    BY <2>1, <1>0, <1>1, <1>6, ShowsActs DEF SendTestAlert
<1>7. QED
  BY <1>3, <1>4, <1>5, <1>6 DEF AlertHandler

LEMMA SettingsActs ==
    ASSUME RowsInv, RequestsInv, NEW q \in Requests, SettingsHandlers(q)
    PROVE  Acts(q)
<1> DEFINE o == order[q].org  e == order[q].endpoint
<1>a. Admitted(q, "endpoint", "ANY") \/ Admitted(q, "endpoint", "DEVELOPER") \/ Admitted(q, "endpoint", "OWNER")
  BY DEF SettingsHandlers, SaveSchema, GetSchema, DeleteSchema, SaveConfig, GetConfig, GetSecurity,
     DeleteSecurity
<1>0. Reaches(q) /\ Serving(q)
  BY <1>a, GuardsPassed DEF Admitted
<1>1. o \in Orgs /\ e \in Endpoints /\ e \in Ids /\ Belongs(e, o)
  BY <1>0, <1>a DEF Reaches, Admitted
<1>2. ASSUME NEW k \in Marks,
             IF InsertsUnder(e) THEN UpsertMark(<<e, k>>) ELSE UNCHANGED rows
      PROVE  RowStep(o)
  <2>1. InsertsUnder(e) => Live(e)
    BY <1>1, KindsDiffer DEF InsertsUnder
  <2>2. CASE InsertsUnder(e)
    BY <1>1, <1>2, <2>1, <2>2 DEF UpsertMark, MarkStep, RowStep, Belongs
  <2>3. QED
    BY <1>2, <2>2 DEF RowStep
<1>3. ASSUME NEW k \in Marks, RemoveMark(<<e, k>>) PROVE RowStep(o)
  <2>1. CASE Live(e)
    BY <1>1, <1>3, <2>1 DEF RemoveMark, MarkStep, RowStep, Belongs
  <2>2. CASE ~Live(e)
    <3>1. <<e, k>> \notin marks
      BY <2>2 DEF RowsInv, MarksLive
    <3>2. QED
      BY <1>3, <3>1 DEF RemoveMark, RowStep, rows
  <2>3. QED
    BY <2>1, <2>2
<1>4. ASSUME NEW k \in Marks PROVE \A id \in Marked(e, k) : OrgOf(id) = o
  <2>1. Marked(e, k) \subseteq {e} /\ (Marked(e, k) # {} => Live(e))
    BY DEF Marked, RowsInv, MarksLive
  <2>2. QED
    BY <1>1, <2>1 DEF Belongs
<1>m. "schema" \in Marks /\ "security" \in Marks /\ "forwarding" \in Marks
  BY DEF Marks
<1>5. CASE SaveSchema(q)
  BY <1>0, <1>1, <1>2, <1>m, <1>5, RunsActs DEF SaveSchema, Inserts, UpsertEndpointSchema
<1>6. CASE SaveConfig(q)
  BY <1>0, <1>1, <1>2, <1>m, <1>6, RunsActs DEF SaveConfig, Inserts, UpsertForwardingConfig
<1>7. CASE DeleteSchema(q)
  BY <1>0, <1>1, <1>3, <1>m, <1>7, RunsActs DEF DeleteSchema, DeleteEndpointSchema
<1>8. CASE DeleteSecurity(q)
  BY <1>0, <1>1, <1>3, <1>m, <1>8, RunsActs DEF DeleteSecurity, DeleteEndpointWebhookSecurity
<1>9. CASE GetSchema(q)
  BY <1>0, <1>1, <1>4, <1>m, <1>9, ShowsActs DEF GetSchema, GetEndpointSchema
<1>10. CASE GetConfig(q)
  BY <1>0, <1>1, <1>4, <1>m, <1>10, ShowsActs DEF GetConfig, GetForwardingConfigByEndpoint
<1>11. CASE GetSecurity(q)
  BY <1>0, <1>1, <1>4, <1>m, <1>11, ShowsActs DEF GetSecurity, GetEndpointWebhookSecurity
<1>12. QED
  BY <1>5, <1>6, <1>7, <1>8, <1>9, <1>10, <1>11 DEF SettingsHandlers

LEMMA ListingActs ==
    ASSUME RowsInv, RequestsInv, NEW q \in Requests, Listings(q)
    PROVE  Acts(q)
<1> DEFINE o == order[q].org  p == order[q].project  c == order[q].item
<1>0. Reaches(q) /\ Serving(q)
  BY GuardsPassed DEF Listings, ListRequests, ListFindings, ListAuditLogs, ReplayRequest, Admitted
<1>1. /\ o \in Orgs
      /\ order[q].route = "project" => p \in Projects /\ p \in Ids /\ Belongs(p, o)
      /\ order[q].route = "request" => c \in Ids /\ Belongs(c, o)
  BY <1>0 DEF Reaches
<1>2. CASE ListRequests(q)
  <2>0. p \in Projects /\ p \in Ids /\ Belongs(p, o)
    BY <1>1, <1>2 DEF ListRequests, Admitted
  <2>1. ASSUME NEW id \in ListRequestsByProject(p) PROVE OrgOf(id) = o
    <3>1. id \in Ids /\ parent[id] \in Endpoints /\ parent[id] \in Ids /\ parent[parent[id]] = p
      BY <2>1 DEF ListRequestsByProject, ListEndpointsByProject, Ids
    <3>2. Live(parent[id]) /\ OrgOf(parent[id]) = o
      BY <2>0, <3>1, ChildOf
    <3>3. Belongs(parent[id], o)
      BY <3>1, <3>2, ParentsAreRows DEF Belongs, Live
    <3>4. QED
      BY <3>1, <3>3, ChildOf
  <2>2. QED
    BY <2>1, <1>0, <1>1, <1>2, ShowsActs DEF ListRequests
<1>3. CASE ListFindings(q)
  <2>0. p \in Projects /\ p \in Ids /\ Belongs(p, o)
    BY <1>1, <1>3 DEF ListFindings, Admitted
  <2>1. \A id \in ListSecurityFindingsByProject(p) : OrgOf(id) = o
    BY <2>0, ChildOf DEF ListSecurityFindingsByProject, Ids
  <2>2. QED
    BY <2>1, <1>0, <1>1, <1>3, ShowsActs DEF ListFindings
<1>4. CASE ListAuditLogs(q)
  <2>0. p \in Projects /\ p \in Ids /\ Belongs(p, o)
    BY <1>1, <1>4 DEF ListAuditLogs, Admitted
  <2>1. ASSUME NEW a \in audits, a.project = p PROVE a.org = o
    <3>1. p # None /\ parent[p] = a.org /\ a.org \in Orgs
      BY <2>0, <2>1, TenantAssumption DEF RowsInv, AuditsOwn, RowsTyped, Audit
    <3>2. Live(p)
      BY <3>1 DEF Live, Parents
    <3>3. QED
      BY <2>0, <3>1, <3>2, Generations DEF RowsInv, Belongs
  <2>2. {a.org : a \in ListAuditLogsByProjectOrOrg(p, o)} \in SUBSET {o}
    BY <2>1 DEF ListAuditLogsByProjectOrOrg
  <2>3. UNCHANGED rows /\ Forgets(q)
        /\ \E G \in SUBSET {o} : got' = [got EXCEPT ![q] = G]
    BY <2>2, <1>4 DEF ListAuditLogs
  <2>4. QED
    BY <2>3, <1>0, <1>1 DEF Acts, RowStep
<1>5. CASE ReplayRequest(q)
  <2>0. c \in Ids /\ Belongs(c, o)
    BY <1>1, <1>5 DEF ReplayRequest, Admitted
  <2>1. \A id \in GetCapturedRequestByID(c) : OrgOf(id) = o
    BY <2>0 DEF GetCapturedRequestByID, Belongs
  <2>2. QED
    BY <2>1, <1>0, <1>1, <1>5, ShowsActs DEF ReplayRequest
<1>6. QED
  BY <1>2, <1>3, <1>4, <1>5 DEF Listings

LEMMA SuiteActs ==
    ASSUME RowsInv, RequestsInv, NEW q \in Requests, TestSuiteHandler(q)
    PROVE  Acts(q)
<1> DEFINE o == order[q].org  p == order[q].project  t == order[q].item
<1>0. Reaches(q) /\ Serving(q)
  <2>1. pc[q] \in {"guarded", "loaded"} /\ (pc[q] = "guarded" => todo[q] = {})
    BY DEF TestSuiteHandler, CreateSuite, CheckSuite, StoreSuite, ListSuites, GetSuite, DeleteSuite, Admitted
  <2>2. Serving(q)
    BY <2>1 DEF RequestsInv, Answered
  <2>3. QED
    BY <2>1, <2>2, GuardsPassed DEF Serving
<1>1. /\ o \in Orgs
      /\ order[q].route \in {"project", "suite request"} => p \in Projects /\ p \in Ids /\ Belongs(p, o)
      /\ order[q].route = "suite" => t \in Suites /\ t \in Ids /\ Belongs(t, o) /\ p \in Projects
  BY <1>0 DEF Reaches
<1>2. CASE CheckSuite(q)
  <2>1. /\ UNCHANGED <<rows, got>> /\ pc[q] = "guarded" /\ todo[q] = {}
        /\ order[q].route = "suite request"
        /\ \/ pc' = [pc EXCEPT ![q] = "loaded"] /\ UNCHANGED <<order, todo, existing>>
           \/ Forgets(q)
    BY <1>2 DEF CheckSuite, Admitted, Moves, Stage, Ends
  <2>2. Forgets(q) \/ Further(q)
    BY <2>1 DEF Further
  <2>3. QED
    BY <2>1, <2>2, <1>0, <1>1 DEF Acts, RowStep
<1>3. CASE StoreSuite(q)
  <2>0. p \in Projects /\ p \in Ids /\ Belongs(p, o)
    BY <1>1, <1>3 DEF StoreSuite
  <2>1. RowStep(o)
    <3>2. \A id \in Suites : id \in Ids /\ p \in ParentTable(id)
      BY <2>0, KindsDiffer DEF Ids, ParentTable
    <3>3. CASE Live(p)
      BY <1>3, <3>2, <3>3, <2>0, InsertStep DEF StoreSuite, CreateReplayTestSuite, RowStep
    <3>4. QED
      BY <1>3, <3>3 DEF StoreSuite, RowStep
  <2>2. QED
    BY <2>1, <1>0, <1>1, <1>3 DEF StoreSuite, Ends, Acts
<1>4. CASE ListSuites(q)
  <2>0. p \in Projects /\ p \in Ids /\ Belongs(p, o)
    BY <1>1, <1>4 DEF ListSuites, Admitted
  <2>1. \A id \in ListReplayTestSuitesByProject(p) : OrgOf(id) = o
    BY <2>0, ChildOf DEF ListReplayTestSuitesByProject, Ids
  <2>2. QED
    BY <2>1, <1>0, <1>1, <1>4, ShowsActs DEF ListSuites
<1>5. CASE GetSuite(q)
  <2>0. t \in Ids /\ Belongs(t, o)
    BY <1>1, <1>5 DEF GetSuite, Admitted
  <2>1. \A id \in GetReplayTestSuiteByID(t) : OrgOf(id) = o
    BY <2>0 DEF GetReplayTestSuiteByID, Belongs
  <2>2. QED
    BY <2>1, <1>0, <1>1, <1>5, ShowsActs DEF GetSuite
<1>6. CASE DeleteSuite(q)
  <2>0. t \in Suites /\ t \in Ids /\ Belongs(t, o) /\ p \in Projects
    BY <1>1, <1>6 DEF DeleteSuite, Admitted
  <2>1. ASSUME DeleteReplayTestSuite(t, p) PROVE RowStep(o)
    <3>1. parent[t] = p => Live(t) /\ OrgOf(t) = o
      BY <2>0 DEF Live, Parents, Belongs
    <3>2. QED
      BY <2>0, <2>1, <3>1, KindsDiffer, DeleteOne, DeleteNothing DEF DeleteReplayTestSuite, RowStep
  <2>2. QED
    BY <2>1, <1>0, <1>1, <1>6, RunsActs DEF DeleteSuite
<1>7. QED
  BY <1>2, <1>3, <1>4, <1>5, <1>6 DEF TestSuiteHandler, CreateSuite

LEMMA EffectiveColumns ==
    ASSUME NEW names \in Named, NEW read \in Columns
    PROVE  Effective(names, read) \in Columns
BY DEF Effective, Named, Columns

LEMMA EndpointActs ==
    ASSUME RowsInv, RequestsInv, NEW q \in Requests, EndpointHandler(q)
    PROVE  Acts(q)
<1> DEFINE o == order[q].org  p == order[q].project  e == order[q].endpoint
<1>0. Reaches(q) /\ Serving(q)
  <2>1. pc[q] \in {"guarded", "loaded"} /\ (pc[q] = "guarded" => todo[q] = {})
    BY DEF EndpointHandler, ListEndpoints, LoadSlug, StoreEndpoint, LoadEndpoint, WriteEndpoint,
       RemoveEndpoint, Admitted
  <2>2. Serving(q)
    BY <2>1 DEF RequestsInv, Answered
  <2>3. QED
    BY <2>1, <2>2, GuardsPassed DEF Serving
<1>p. order[q].route \in {"project", "slug", "project endpoint"}
  BY DEF EndpointHandler, ListEndpoints, LoadSlug, StoreEndpoint, LoadEndpoint, WriteEndpoint,
     RemoveEndpoint, Admitted
<1>1. /\ o \in Orgs /\ p \in Projects /\ p \in Ids /\ Belongs(p, o)
      /\ order[q].route = "project endpoint" =>
            e \in Endpoints /\ e \in Ids /\ Belongs(e, o) /\ order[q].names \in Named
      /\ order[q].route = "slug" => order[q].item \in Slugs
  BY <1>0, <1>p DEF Reaches
<1>2. CASE ListEndpoints(q)
  <2>1. \A id \in ListEndpointsByProject(p) : OrgOf(id) = o
    BY <1>1, ChildOf DEF ListEndpointsByProject, Ids
  <2>2. QED
    BY <2>1, <1>0, <1>1, <1>2, ShowsActs DEF ListEndpoints
<1>3. CASE LoadSlug(q)
  <2>1. /\ UNCHANGED <<rows, got>> /\ pc[q] = "guarded" /\ todo[q] = {} /\ order[q].route = "slug"
        /\ \/ pc' = [pc EXCEPT ![q] = "loaded"] /\ UNCHANGED <<order, todo, existing>>
           \/ Forgets(q)
    BY <1>3 DEF LoadSlug, Admitted, Moves, Stage, Ends
  <2>2. Forgets(q) \/ Further(q)
    BY <2>1 DEF Further
  <2>3. QED
    BY <2>1, <2>2, <1>0, <1>1 DEF Acts, RowStep
<1>4. CASE StoreEndpoint(q)
  <2>1. RowStep(o)
    <3>1. CASE Live(p) /\ GetEndpointBySlug(order[q].item) = {}
      <4>1. PICK n \in Endpoints :
              /\ parent[n] = "unborn" /\ parent' = [parent EXCEPT ![n] = p]
              /\ settings' = [settings EXCEPT ![n] = Fresh(order[q].item)]
              /\ UNCHANGED <<flag, marks, audits>>
        BY <1>4, <3>1 DEF StoreEndpoint, CreateEndpoint
      <4>2. Fresh(order[q].item) \in Columns
        BY <1>1, <1>4 DEF StoreEndpoint, Fresh, Columns
      <4>3. n \in Ids /\ p \in ParentTable(n)
        BY <1>1, KindsDiffer DEF Ids, ParentTable
      <4>4. NewRow(o)
        BY <1>1, <3>1, <4>1, <4>2, <4>3 DEF NewRow, Belongs
      <4>5. QED
        BY <4>4 DEF RowStep
    <3>2. QED
      BY <1>4, <3>1 DEF StoreEndpoint, RowStep
  <2>2. QED
    BY <2>1, <1>0, <1>1, <1>4 DEF StoreEndpoint, Ends, Acts
<1>5. CASE LoadEndpoint(q)
  <2>1. /\ UNCHANGED <<rows, got>> /\ pc[q] = "guarded" /\ todo[q] = {} /\ order[q].route = "project endpoint"
        /\ \/ /\ pc' = [pc EXCEPT ![q] = "loaded"] /\ UNCHANGED <<order, todo>>
              /\ existing' = [existing EXCEPT ![q] = settings[e]]
           \/ Forgets(q)
    BY <1>5 DEF LoadEndpoint, Admitted, Stage, Ends
  <2>2. Forgets(q) \/ Further(q)
    BY <2>1 DEF Further
  <2>3. QED
    BY <2>1, <2>2, <1>0, <1>1 DEF Acts, RowStep
<1>6. CASE WriteEndpoint(q)
  <2>0. /\ pc[q] = "loaded" /\ order[q].route = "project endpoint" /\ todo[q] = {}
        /\ existing[q] \in Columns
    BY <1>0, <1>6 DEF WriteEndpoint, Serving
  <2>1. CASE GetEndpointByID(e, p)
    <3>1. UpdateEndpoint(e, Effective(order[q].names, existing[q]))
      BY <1>6, <2>1 DEF WriteEndpoint
    <3>2. Live(e) /\ OrgOf(e) = o
      BY <2>0, <2>1, <1>1, ChildOf DEF GetEndpointByID
    <3>3. Effective(order[q].names, existing[q]) \in Columns
      BY <2>0, <1>1, EffectiveColumns
    <3>4. RowStep(o)
      BY <2>0, <1>1, <3>1, <3>2, <3>3 DEF UpdateEndpoint, ColumnStep, RowStep
    <3>5. UNCHANGED got /\ (Forgets(q) \/ Further(q))
      BY <1>6, <2>0, <2>1 DEF WriteEndpoint, Moves, Stage, Ends, Further
    <3>6. QED
      BY <3>4, <3>5, <1>0, <1>1 DEF Acts
  <2>2. CASE ~GetEndpointByID(e, p)
    BY <1>0, <1>1, <1>6, <2>2 DEF WriteEndpoint, Ends, Acts, RowStep
  <2>3. QED
    BY <2>1, <2>2
<1>7. CASE RemoveEndpoint(q)
  <2>0. order[q].route = "project endpoint"
    BY <1>7 DEF RemoveEndpoint, Admitted
  <2>1. ASSUME DeleteEndpoint(e, p) PROVE RowStep(o)
    <3>1. parent[e] = p => Live(e) /\ OrgOf(e) = o
      BY <2>0, <1>1, ChildOf
    <3>2. QED
      BY <2>0, <1>1, <2>1, <3>1, DeleteBelow, DeleteNothing DEF DeleteEndpoint, RowStep
  <2>2. QED
    BY <2>1, <1>0, <1>1, <1>7, RunsActs DEF RemoveEndpoint
<1>8. QED
  BY <1>2, <1>3, <1>4, <1>5, <1>6, <1>7 DEF EndpointHandler

LEMMA SecurityActs ==
    ASSUME RowsInv, RequestsInv, NEW q \in Requests, SaveSecurity(q)
    PROVE  Acts(q)
<1> DEFINE o == order[q].org  e == order[q].endpoint
<1>0. Reaches(q) /\ Serving(q)
  BY GuardsPassed DEF SaveSecurity, Admitted
<1>1. o \in Orgs /\ e \in Endpoints /\ e \in Ids /\ Belongs(e, o) /\ order[q].route = "endpoint"
  BY <1>0 DEF Reaches, SaveSecurity, Admitted
<1>2. RowStep(o)
  <2>1. CASE Live(e)
    <3>1. UpsertMark(<<e, "security">>)
      BY <2>1 DEF SaveSecurity, UpsertEndpointWebhookSecurity
    <3>2. "security" \in Marks
      BY DEF Marks
    <3>3. MarkStep(o)
      BY <1>1, <2>1, <3>1, <3>2 DEF UpsertMark, MarkStep, Belongs
    <3>4. QED
      BY <3>3 DEF RowStep
  <2>2. QED
    BY <2>1 DEF SaveSecurity, RowStep
<1>3. UNCHANGED got /\ (Forgets(q) \/ Further(q))
  BY <1>1 DEF SaveSecurity, Moves, Stage, Ends, Further, Admitted
<1>4. QED
  BY <1>0, <1>1, <1>2, <1>3 DEF Acts

LEMMA AuditActs ==
    ASSUME RowsInv, RequestsInv, NEW q \in Requests, WriteAudit(q)
    PROVE  Acts(q)
<1> DEFINE o == order[q].org  e == order[q].endpoint
           update == order[q].route = "project endpoint"
           project == IF update THEN order[q].project ELSE IF Live(e) THEN parent[e] ELSE None
           entry == [org |-> o, user |-> order[q].user, project |-> project, endpoint |-> e,
                     action |-> IF update THEN "UPSTREAM_URL_CHANGED" ELSE "SECRET_UPDATED"]
<1>0. Reaches(q) /\ Serving(q)
  <2>1. Serving(q) /\ pc[q] = "written"
    BY DEF WriteAudit, RequestsInv, Answered
  <2>2. QED
    BY <2>1, GuardsPassed DEF Serving
<1>1. /\ o \in Orgs /\ order[q].user \in Users
      /\ e \in Endpoints /\ e \in Ids /\ Belongs(e, o)
      /\ update => order[q].project \in Projects /\ order[q].project \in Ids /\ Belongs(order[q].project, o)
  <2>1. order[q].route \in {"endpoint", "project endpoint"}
    BY <1>0 DEF Serving, WriteAudit
  <2>2. QED
    BY <1>0, <2>1 DEF Reaches
<1>2. project # None => project \in Projects /\ (Live(project) => parent[project] = o)
  <2>1. CASE update
    BY <1>1, <2>1, Generations DEF RowsInv, Belongs
  <2>2. CASE ~update /\ Live(e)
    <3>1. parent[e] \in Projects
      BY <2>2, <1>1, KindsDiffer, ParentsAreRows DEF RowsInv, Placed, ParentTable, Live, Ids
    <3>2. parent[e] \in Ids /\ OrgOf(parent[e]) = o
      BY <1>1, <2>2, <3>1, KindsDiffer, Generations DEF RowsInv, Belongs
    <3>3. QED
      BY <2>2, <3>1, <3>2, Generations DEF RowsInv
  <2>3. QED
    BY <2>1, <2>2
<1>3. RowStep(o)
  <2>1. CASE (project # None => Live(project)) /\ CreateAuditLog(entry)
    <3>1. entry \in Audit
      BY <1>1, <1>2 DEF Audit
    <3>2. entry.org = o /\ entry.project = project
      OBVIOUS
    <3> HIDE DEF entry, project
    <3>3. AuditStep(o)
      BY <2>1, <3>1, <3>2, <1>2 DEF CreateAuditLog, AuditStep
    <3>4. QED
      BY <3>3 DEF RowStep
  <2>2. CASE UNCHANGED rows
    BY <2>2 DEF RowStep
  <2>3. QED
    BY <2>1, <2>2 DEF WriteAudit
<1>4. QED
  BY <1>0, <1>1, <1>3 DEF WriteAudit, Ends, Acts

LEMMA SubjectStays ==
    ASSUME RowsInv, RowsInv', Steady, NEW q \in Requests, order[q] \in Orders, UNCHANGED order[q],
           NEW g \in Guards(order[q].route), Belongs(Subject(q, g), order[q].org)
    PROVE  Belongs(Subject(q, g), order[q].org)'
<1>1. Subject(q, g) \in Ids
  <2>0. order[q].route \in Routes
    BY OrderParts
  <2> DEFINE r == order[q].route
  <2>1. r \in Routes /\ g \in Guards(r)
    BY <2>0
  <2> HIDE DEF r
  <2>r. g \in {"project", "endpoint", "item"} /\ (g = "item" => r \in {"channel", "suite", "request"})
    BY <2>1, GuardsAre
  <2> USE DEF r
  <2>2. CASE g = "project"
    BY <2>2, OrderParts DEF Subject, Ids
  <2>3. CASE g = "endpoint"
    BY <2>3, OrderParts DEF Subject, Ids
  <2>4. CASE g = "item"
    <3>1. order[q].route \in {"channel", "suite", "request"}
      BY <2>r, <2>4
    <3>2. order[q].item \in Channels \union Suites \union Captured
      BY <3>1, OrderParts, RouteGuards
    <3>3. QED
      BY <2>4, <3>2 DEF Subject, Ids
  <2>5. QED
    BY <2>r, <2>2, <2>3, <2>4
<1>2. Subject(q, g)' = Subject(q, g)
  BY DEF Subject
<1> DEFINE s == Subject(q, g)
<1>3. parent'[s] # "unborn" /\ (Live(s)' => Live(s) /\ OrgOf(s)' = OrgOf(s))
  <2>1. \A i \in Ids : parent[i] # "unborn" => parent'[i] # "unborn" /\ (Live(i)' => Live(i) /\ OrgOf(i)' = OrgOf(i))
    BY OrgStays
  <2>2. s' = s
    BY <1>2
  <2> HIDE DEF s
  <2>3. parent[s] # "unborn"
    BY DEF Belongs, s
  <2>4. s \in Ids
    BY <1>1 DEF s
  <2>5. QED
    BY <2>1, <2>2, <2>3, <2>4 DEF Live, OrgOf, Above
<1>4. QED
  BY <1>2, <1>3 DEF Belongs

LEMMA ServingStays ==
    ASSUME RowsInv, RowsInv', Steady, NEW q \in Requests, Serving(q),
           UNCHANGED <<order[q], pc[q], todo[q], existing[q]>>
    PROVE  Serving(q)'
<1>1. order[q] \in Orders
  BY DEF Serving
<1>2. \A g \in Guards(order[q].route) \ todo[q] : Belongs(Subject(q, g), order[q].org)'
  BY <1>1, SubjectStays DEF Serving
<1>3. QED
  BY <1>2 DEF Serving

LEMMA OthersStay ==
    ASSUME RowsInv, RowsInv', Steady, RequestsInv, NEW q \in Requests,
           RequestsTyped', Answered(q)' \/ Serving(q)',
           \A r \in Requests : r # q => UNCHANGED <<order[r], pc[r], todo[r], existing[r]>>
    PROVE  RequestsInv'
<1>1. ASSUME NEW r \in Requests, r # q PROVE Answered(r)' \/ Serving(r)'
  BY <1>1, ServingStays DEF RequestsInv, Answered
<1>2. QED
  BY <1>1 DEF RequestsInv

LEMMA ForgetsAnswers ==
    ASSUME RequestsTyped, NEW q \in Requests, Forgets(q), got' \in [Requests -> SUBSET Orgs]
    PROVE  /\ RequestsTyped' /\ Answered(q)'
           /\ \A r \in Requests : r # q => UNCHANGED <<order[r], pc[r], todo[r], existing[r]>>
BY DEF RequestsTyped, Forgets, Answered

LEMMA ActsKeep ==
    ASSUME RowsInv, RequestsInv, NEW q \in Requests, Acts(q)
    PROVE  RowsInv' /\ RequestsInv'
<1>1. RowsInv' /\ Steady
  BY StepKeepsRows DEF Acts
<1>2. got' \in [Requests -> SUBSET Orgs]
  BY DEF Acts, RequestsInv, RequestsTyped
<1>3. CASE Forgets(q)
  BY <1>1, <1>2, <1>3, ForgetsAnswers, OthersStay DEF RequestsInv
<1>4. CASE Further(q)
  <2>0. Serving(q) /\ order[q] \in Orders
    BY DEF Acts, Serving
  <2>1. /\ todo[q] = {} /\ UNCHANGED <<order, todo>> /\ pc'[q] \in {"loaded", "written"}
        /\ pc' = [pc EXCEPT ![q] = pc'[q]]
        /\ pc'[q] = "loaded" => order[q].route \in {"slug", "suite request", "project endpoint"}
        /\ pc'[q] = "written" => order[q].route \in {"endpoint", "project endpoint"}
    BY <1>4 DEF Further, RequestsInv, RequestsTyped
  <2>2. order[q].route = "project endpoint" => settings[order[q].endpoint] \in Columns
    BY <2>0, OrderParts, RouteGuards DEF RowsInv, RowsTyped
  <2>3. /\ existing' \in [Requests -> Columns \union {None}]
        /\ \A r \in Requests : r # q => existing'[r] = existing[r]
        /\ pc'[q] = "loaded" /\ order[q].route = "project endpoint" => existing'[q] \in Columns
    BY <1>4, <2>2 DEF Further, RequestsInv, RequestsTyped
  <2>4. RequestsTyped'
    BY <1>2, <2>1, <2>3 DEF RequestsInv, RequestsTyped
  <2>5. \A r \in Requests : r # q => UNCHANGED <<order[r], pc[r], todo[r], existing[r]>>
    BY <2>1, <2>3 DEF RequestsInv, RequestsTyped
  <2>6. \A g \in Guards(order[q].route) : Belongs(Subject(q, g), order[q].org)'
    BY <1>1, <2>0, <2>1, SubjectStays DEF Serving
  <2>7. Serving(q)'
    BY <2>0, <2>1, <2>3, <2>6 DEF Serving
  <2>8. QED
    BY <1>1, <2>4, <2>5, <2>7, OthersStay
<1>5. QED
  BY <1>3, <1>4 DEF Acts

LEMMA OwnedBelongs ==
    ASSUME RowsInv, NEW q \in Requests, order[q] \in Orders, NEW g \in Guards(order[q].route), Owns(q, g)
    PROVE  Belongs(Subject(q, g), order[q].org)
<1> DEFINE o == order[q].org  r == order[q].route
<1>0. /\ o \in Orgs /\ r \in Routes /\ g \in Guards(r)
      /\ "project" \in Guards(r) => order[q].project \in Projects
      /\ "endpoint" \in Guards(r) => order[q].endpoint \in Endpoints
      /\ order[q].item \in Items(r)
  BY OrderParts
<1> HIDE DEF r
<1>1. g \in {"project", "endpoint", "item"} /\ (g = "item" => r \in {"channel", "suite", "request"})
  BY <1>0, GuardsAre
<1>p. ASSUME NEW p \in Projects, VerifyProjectOwnership(p, o)
      PROVE  p \in Ids /\ Live(p) /\ OrgOf(p) = o
  <2>1. p \in Ids /\ Live(p)
    BY <1>0, <1>p DEF VerifyProjectOwnership, Live, Parents, Ids
  <2>2. QED
    BY <2>1, <1>p, Generations DEF RowsInv, VerifyProjectOwnership
<1>b. ASSUME NEW i \in Ids, Live(i) PROVE parent[i] # "unborn"
  BY <1>b, ParentsAreRows DEF Live
<1>u. ASSUME NEW i \in Ids, parent[i] \in Projects \union Endpoints, OrgOf(parent[i]) = o
      PROVE  Live(i) /\ OrgOf(i) = o /\ Belongs(i, o)
  <2>1. Live(i)
    BY <1>u DEF Live, Parents
  <2>2. i \notin Projects
    BY <1>u, <2>1, Generations, KindsDiffer DEF RowsInv, Ids
  <2>3. QED
    BY <1>u, <1>b, <2>1, <2>2, Generations DEF RowsInv, Belongs
<1>e. ASSUME NEW e \in Endpoints, GetEndpointWithOwnership(e, o) PROVE OrgOf(e) = o /\ Belongs(e, o)
  BY <1>e, <1>p, <1>u DEF GetEndpointWithOwnership, Ids
<1>2. CASE g = "project"
  <2>1. VerifyProjectOwnership(order[q].project, o)
    BY <1>2 DEF Owns
  <2>2. QED
    BY <1>0, <1>2, <1>p, <1>b, <2>1 DEF Subject, Belongs
<1>3. CASE g = "endpoint"
  <2>1. GetEndpointWithOwnership(order[q].endpoint, o)
    BY <1>3 DEF Owns
  <2>2. QED
    BY <1>0, <1>3, <1>e, <2>1 DEF Subject
<1>4. CASE g = "item"
  <2> DEFINE id == order[q].item
  <2>0. Subject(q, g) = id /\ id \in Channels \union Suites \union Captured
    BY <1>0, <1>1, <1>4, RouteGuards DEF Subject
  <2>t. id \in Ids /\ (Live(id) => parent[id] \in ParentTable(id))
    BY <2>0, ParentsAreRows DEF Ids, RowsInv, Placed, Live
  <2>1. CASE id \in Channels \union Suites
    <3>1. Live(id) /\ VerifyProjectOwnership(parent[id], o)
      <4>1. CASE id \in Channels
        BY <1>4, <4>1, KindsDiffer DEF Owns, VerifyAlertChannelOwnership
      <4>2. CASE id \in Suites
        BY <1>4, <4>2, KindsDiffer DEF Owns, VerifyTestSuiteOwnership
      <4>3. QED
        BY <2>1, <4>1, <4>2
    <3>2. parent[id] \in Projects
      BY <2>1, <2>t, <3>1, KindsDiffer DEF ParentTable
    <3>3. QED
      BY <2>0, <2>t, <3>1, <3>2, <1>p, <1>u
  <2>2. CASE id \in Captured
    <3>1. Live(id) /\ GetEndpointWithOwnership(parent[id], o)
      BY <1>4, <2>2, KindsDiffer DEF Owns, VerifyRequestOwnership
    <3>2. parent[id] \in Endpoints
      BY <2>2, <2>t, <3>1, KindsDiffer DEF ParentTable
    <3>3. QED
      BY <2>0, <2>t, <3>1, <3>2, <1>e, <1>u
  <2>3. QED
    BY <2>0, <2>1, <2>2
<1>5. QED
  BY <1>1, <1>2, <1>3, <1>4

LEMMA AuthKeeps ==
    ASSUME RowsInv, RequestsInv, NEW q \in Requests, Auth(q)
    PROVE  RowsInv' /\ Steady /\ RequestsInv'
<1>0. UNCHANGED rows /\ UNCHANGED got
  BY DEF Auth, RequireTenant, Stage, Ends
<1>1. RowsInv' /\ Steady
  <2>1. UNCHANGED <<parent, settings, flag, marks, audits>>
    BY <1>0 DEF rows
  <2>2. QED
    BY <2>1 DEF RowsInv, RowsTyped, Placed, Rooted, MarksLive, AuditsOwn, Live, Steady
<1>2. PICK o \in Orders : RequireTenant(q, o)
  BY DEF Auth
<1>t. RequestsTyped /\ got' \in [Requests -> SUBSET Orgs]
  BY <1>0 DEF RequestsInv, RequestsTyped
<1>3. CASE GetMembership(o.org, o.user)
  <2>1. /\ pc' = [pc EXCEPT ![q] = "guarded"] /\ order' = [order EXCEPT ![q] = o]
        /\ todo' = [todo EXCEPT ![q] = Guards(o.route)] /\ UNCHANGED <<existing, got>>
    BY <1>2, <1>3 DEF RequireTenant, Stage
  <2>2. Guards(o.route) \in SUBSET {"project", "endpoint", "item"}
    <3>1. o.route \in Routes
      BY OrderParts
    <3>2. QED
      BY <3>1, GuardsAre
  <2>3. RequestsTyped'
    BY <1>t, <2>1, <2>2 DEF RequestsTyped
  <2>4. pc'[q] = "guarded" /\ order'[q] = o /\ todo'[q] = Guards(o.route)
    BY <1>t, <2>1 DEF RequestsTyped
  <2>5. Serving(q)'
    BY <1>3, <2>4 DEF Serving, GetMembership
  <2>6. \A r \in Requests : r # q => UNCHANGED <<order[r], pc[r], todo[r], existing[r]>>
    BY <1>t, <2>1 DEF RequestsTyped
  <2>7. QED
    BY <1>1, <2>3, <2>5, <2>6, OthersStay
<1>4. CASE ~GetMembership(o.org, o.user)
  <2>1. Forgets(q)
    BY <1>2, <1>4 DEF RequireTenant, Ends
  <2>2. QED
    BY <1>1, <1>t, <2>1, ForgetsAnswers, OthersStay
<1>5. QED
  BY <1>3, <1>4

LEMMA GuardKeeps ==
    ASSUME RowsInv, RequestsInv, NEW q \in Requests, requireResourceOwnership(q)
    PROVE  RowsInv' /\ Steady /\ RequestsInv'
<1>1. PICK g \in todo[q] :
         /\ IF Owns(q, g)
            THEN /\ Stage(q, "guarded", "guarded") /\ todo' = [todo EXCEPT ![q] = @ \ {g}]
                 /\ UNCHANGED <<order, existing>>
            ELSE Ends(q, "guarded")
         /\ UNCHANGED <<rows, history>>
  BY DEF requireResourceOwnership
<1>0. UNCHANGED <<parent, settings, flag, marks, audits>> /\ UNCHANGED got /\ pc[q] = "guarded"
  BY <1>1 DEF Stage, Ends, rows
<1>2. RowsInv' /\ Steady
  BY <1>0 DEF RowsInv, RowsTyped, Placed, Rooted, MarksLive, AuditsOwn, Live, Steady
<1>t. RequestsTyped /\ got' \in [Requests -> SUBSET Orgs]
  BY <1>0 DEF RequestsInv, RequestsTyped
<1>s. Serving(q)
  BY <1>0 DEF RequestsInv, Answered
<1>3. CASE Owns(q, g)
  <2>1. /\ pc' = [pc EXCEPT ![q] = "guarded"] /\ todo' = [todo EXCEPT ![q] = todo[q] \ {g}]
        /\ UNCHANGED <<order, existing>>
    BY <1>1, <1>3 DEF Stage
  <2>2. RequestsTyped'
    BY <1>t, <1>0, <2>1 DEF RequestsTyped
  <2>3. pc'[q] = "guarded" /\ todo'[q] = todo[q] \ {g}
    BY <1>t, <2>1 DEF RequestsTyped
  <2>4. \A h \in Guards(order[q].route) \ todo'[q] : Belongs(Subject(q, h), order[q].org)
    BY <1>s, <1>3, <2>3, OwnedBelongs DEF Serving
  <2>5. Serving(q)'
    <3>1. \A h \in Guards(order[q].route) \ todo'[q] : Belongs(Subject(q, h), order[q].org)'
      BY <1>2, <1>s, <2>1, <2>4, SubjectStays DEF Serving
    <3>2. QED
      BY <1>s, <2>1, <2>3, <3>1 DEF Serving
  <2>6. \A r \in Requests : r # q => UNCHANGED <<order[r], pc[r], todo[r], existing[r]>>
    BY <1>t, <2>1 DEF RequestsTyped
  <2>7. QED
    BY <1>2, <2>2, <2>5, <2>6, OthersStay
<1>4. CASE ~Owns(q, g)
  BY <1>1, <1>2, <1>4, <1>t, ForgetsAnswers, OthersStay DEF Ends
<1>5. QED
  BY <1>3, <1>4

-----------------------------------------------------------------------------
(* What the updates of an endpoint wrote.                                  *)

Updating(q, e) == pc[q] = "loaded" /\ order[q].route = "project endpoint" /\ order[q].endpoint = e

(* Unless two updates worked on an endpoint at once, its columns are those *)
(* last named, and the update that is under way read them.                 *)
ColumnsOK(e) ==
    e \notin overlapped =>
        /\ Live(e) => settings[e] = newest[e]
        /\ \A q \in Requests : Updating(q, e) => existing[q] = settings[e]
        /\ \A q, r \in Requests : Updating(q, e) /\ Updating(r, e) => q = r

ColumnsInv ==
    /\ newest \in [Endpoints -> Columns] /\ overlapped \in SUBSET Endpoints
    /\ \A e \in Endpoints : ColumnsOK(e)

(* No endpoint is changed or made.                                         *)
Still == UNCHANGED settings /\ \A e \in Endpoints : Live(e)' => Live(e)

LEMMA DeleteStill == ASSUME NEW S, Delete(S) PROVE Still
<1>1. \A e \in Endpoints : parent'[e] \in {"gone", parent[e]}
  BY DEF Delete, Ids
<1>2. QED
  BY <1>1, ParentsAreRows DEF Delete, Still, Live

LEMMA InsertStill ==
    ASSUME RowsTyped, NEW kind, NEW under, kind \intersect Endpoints = {}, Insert(kind, under) PROVE Still
BY DEF RowsTyped, Insert, Still, Live, Ids

LEMMA RowsStill == ASSUME UNCHANGED rows PROVE Still
BY DEF rows, Still, Live

(* The steps that are not about endpoints.                                 *)
Plain(q) ==
    /\ Still /\ UNCHANGED history
    /\ Forgets(q) \/ (Further(q) /\ (pc'[q] # "loaded" \/ order[q].route # "project endpoint"))

LEMMA ShowsPlain == ASSUME NEW q, NEW ids, Shows(q, ids) PROVE Plain(q)
BY RowsStill DEF Shows, Plain

LEMMA RunsPlain == ASSUME NEW q, NEW statement, Runs(q, statement), statement => Still PROVE Plain(q)
BY DEF Runs, Ends, Plain

LEMMA InsertsPlain ==
    ASSUME NEW q, NEW under, NEW statement, Inserts(q, under, statement), statement => Still PROVE Plain(q)
BY RunsPlain, RowsStill DEF Inserts

LEMMA HandlersPlain ==
    ASSUME RowsInv, RequestsInv, NEW q \in Requests,
           \/ ProjectHandler(q) \/ MockHandler(q) \/ APIKeyHandler(q) \/ AlertHandler(q)
           \/ SettingsHandlers(q) \/ Listings(q)
    PROVE  Plain(q)
<1>t. RowsTyped
  BY DEF RowsInv
<1>1. CASE ProjectHandler(q)
  <2>1. \A o : CreateProject(o) => Still
    BY <1>t, InsertStill, KindsDiffer DEF CreateProject
  <2>2. \A p, o : /\ UpdateProject(p, o) => Still
                  /\ DeleteProject(p, o) => Still
    BY DeleteStill DEF UpdateProject, DeleteProject, Still, Live
  <2>3. QED
    BY <1>1, <2>1, <2>2, ShowsPlain, RunsPlain DEF ProjectHandler, ListProjectsRequest,
       CreateProjectRequest, GetProjectRequest, UpdateProjectRequest, DeleteProjectRequest
<1>2. CASE MockHandler(q)
  <2>1. \A e : CreateMockRule(e) => Still
    BY <1>t, InsertStill, KindsDiffer DEF CreateMockRule
  <2>2. \A r, e : /\ DeleteMockRule(r, e) => Still
                  /\ ToggleMockRule(r, e) => Still
    BY DeleteStill DEF DeleteMockRule, ToggleMockRule, Still, Live
  <2>3. QED
    BY <1>2, <2>1, <2>2, ShowsPlain, RunsPlain, InsertsPlain DEF MockHandler, ListMocks, CreateMock,
       DeleteMock, ToggleMock
<1>3. CASE APIKeyHandler(q)
  <2>1. \A p : CreateAPIKey(p) => Still
    BY <1>t, InsertStill, KindsDiffer DEF CreateAPIKey
  <2>2. \A k, p : RevokeAPIKey(k, p) => Still
    BY DEF RevokeAPIKey, Still, Live
  <2>3. QED
    BY <1>3, <2>1, <2>2, ShowsPlain, RunsPlain, InsertsPlain DEF APIKeyHandler, GenerateAPIKey,
       ListKeys, RevokeKey
<1>4. CASE AlertHandler(q)
  <2>1. \A p : CreateAlertChannel(p) => Still
    BY <1>t, InsertStill, KindsDiffer DEF CreateAlertChannel
  <2>2. \A c : DeleteAlertChannel(c) => Still
    BY DeleteStill DEF DeleteAlertChannel
  <2>3. QED
    BY <1>4, <2>1, <2>2, ShowsPlain, RunsPlain, InsertsPlain DEF AlertHandler, CreateChannel,
       ListChannels, DeleteChannel, SendTestAlert
<1>5. CASE SettingsHandlers(q)
  <2>3. CASE SaveSchema(q) \/ SaveConfig(q)
    BY <2>3, RowsStill DEF SaveSchema, SaveConfig, Inserts, Runs, Ends, Plain, UpsertEndpointSchema,
       UpsertForwardingConfig, UpsertMark, Still, Live
  <2>4. CASE DeleteSchema(q) \/ DeleteSecurity(q)
    BY <2>4 DEF DeleteSchema, DeleteSecurity, Runs, Ends, Plain, DeleteEndpointSchema,
       DeleteEndpointWebhookSecurity, RemoveMark, Still, Live
  <2>5. CASE GetSchema(q) \/ GetConfig(q) \/ GetSecurity(q)
    BY <2>5, ShowsPlain DEF GetSchema, GetConfig, GetSecurity
  <2>6. QED
    BY <1>5, <2>3, <2>4, <2>5 DEF SettingsHandlers
<1>6. CASE Listings(q)
  <2>1. ListAuditLogs(q) => Plain(q)
    BY RowsStill DEF ListAuditLogs, Plain
  <2>2. QED
    BY <1>6, <2>1, ShowsPlain DEF Listings, ListRequests, ListFindings, ReplayRequest
<1>7. QED
  BY <1>1, <1>2, <1>3, <1>4, <1>5, <1>6

LEMMA OthersPlain ==
    ASSUME RowsInv, RequestsInv, NEW q \in Requests,
           \/ TestSuiteHandler(q) \/ SaveSecurity(q) \/ WriteAudit(q)
           \/ ListEndpoints(q) \/ LoadSlug(q) \/ RemoveEndpoint(q)
    PROVE  Plain(q)
<1>t. RowsTyped /\ RequestsTyped
  BY DEF RowsInv, RequestsInv
<1>1. CASE CheckSuite(q) \/ LoadSlug(q)
  <2>1. /\ UNCHANGED rows /\ UNCHANGED history /\ todo[q] = {} /\ pc[q] = "guarded"
        /\ order[q].route \in {"suite request", "slug"}
        /\ \/ pc' = [pc EXCEPT ![q] = "loaded"] /\ UNCHANGED <<order, todo, existing>>
           \/ Forgets(q)
    BY <1>1 DEF CheckSuite, LoadSlug, Admitted, Moves, Stage, Ends
  <2>2. Forgets(q) \/ (Further(q) /\ order[q].route # "project endpoint")
    BY <2>1 DEF Further
  <2>3. QED
    BY <2>1, <2>2, RowsStill DEF Plain
<1>2. CASE StoreSuite(q)
  <2>1. \A p : CreateReplayTestSuite(p) => Still
    BY <1>t, InsertStill, KindsDiffer DEF CreateReplayTestSuite
  <2>2. QED
    BY <1>2, <2>1, RowsStill DEF StoreSuite, Ends, Plain
<1>3. CASE ListSuites(q) \/ GetSuite(q) \/ ListEndpoints(q)
  BY <1>3, ShowsPlain DEF ListSuites, GetSuite, ListEndpoints
<1>4. CASE DeleteSuite(q)
  <2>1. \A t, p : DeleteReplayTestSuite(t, p) => Still
    BY DeleteStill DEF DeleteReplayTestSuite
  <2>2. QED
    BY <1>4, <2>1, RunsPlain DEF DeleteSuite
<1>5. CASE RemoveEndpoint(q)
  <2>1. \A e, p : DeleteEndpoint(e, p) => Still
    BY DeleteStill DEF DeleteEndpoint
  <2>2. QED
    BY <1>5, <2>1 DEF RemoveEndpoint, Runs, Ends, Plain
<1>6. CASE SaveSecurity(q)
  <2>1. Still
    BY <1>6, RowsStill DEF SaveSecurity, UpsertEndpointWebhookSecurity, UpsertMark, Still, Live
  <2>2. \/ Forgets(q)
        \/ Further(q) /\ pc' = [pc EXCEPT ![q] = "written"]
    BY <1>6 DEF SaveSecurity, Moves, Stage, Ends, Further, Admitted
  <2>3. QED
    BY <1>6, <1>t, <2>1, <2>2 DEF SaveSecurity, Plain, RequestsTyped
<1>7. CASE WriteAudit(q)
  <2>1. Still
    BY <1>7, RowsStill DEF WriteAudit, CreateAuditLog, Still, Live
  <2>2. QED
    BY <1>7, <2>1 DEF WriteAudit, Ends, Plain
<1>8. QED
  BY <1>1, <1>2, <1>3, <1>4, <1>5, <1>6, <1>7 DEF TestSuiteHandler, CreateSuite

LEMMA PlainKeeps ==
    ASSUME RequestsTyped, ColumnsInv, NEW q \in Requests, Plain(q)
    PROVE  ColumnsInv'
<1>1. UNCHANGED <<newest, overlapped, settings>> /\ \A e \in Endpoints : Live(e)' => Live(e)
  BY DEF Plain, Still, history
<1>2. \A r \in Requests, e \in Endpoints :
        Updating(r, e)' => r # q /\ Updating(r, e) /\ existing'[r] = existing[r]
  <2>1. CASE Forgets(q)
    BY <2>1 DEF RequestsTyped, Forgets, Updating, NoOrder
  <2>2. CASE Further(q) /\ (pc'[q] # "loaded" \/ order[q].route # "project endpoint")
    <3>1. UNCHANGED order /\ \A r \in Requests : r # q => pc'[r] = pc[r] /\ existing'[r] = existing[r]
      BY <2>2 DEF Further, RequestsTyped
    <3>2. QED
      BY <2>2, <3>1 DEF Updating
  <2>3. QED
    BY <2>1, <2>2 DEF Plain
<1>3. ASSUME NEW e \in Endpoints PROVE ColumnsOK(e)'
  BY <1>1, <1>2 DEF ColumnsInv, ColumnsOK
<1>4. QED
  BY <1>1, <1>3 DEF ColumnsInv

(* Updating concerns endpoints that exist or are gone.                     *)
LEMMA UpdatingBorn ==
    ASSUME RequestsInv, NEW q \in Requests, NEW e \in Endpoints, Updating(q, e)
    PROVE  parent[e] # "unborn" /\ existing[q] \in Columns /\ order[q].names \in Named
<1>1. Serving(q)
  BY DEF Updating, RequestsInv, Answered
<1>2. todo[q] = {}
  BY <1>1 DEF Serving, Updating
<1>3. Reaches(q)
  BY <1>1, <1>2, GuardsPassed DEF Updating
<1>4. QED
  BY <1>1, <1>3 DEF Updating, Reaches, Belongs, Serving

LEMMA StoreKeeps ==
    ASSUME RowsInv, RowsInv', RequestsInv, ColumnsInv, NEW q \in Requests, StoreEndpoint(q)
    PROVE  ColumnsInv'
<1>1. /\ newest' = [e \in Endpoints |-> IF Live(e) THEN newest[e] ELSE settings'[e]]
      /\ UNCHANGED overlapped /\ Forgets(q)
  BY DEF StoreEndpoint, Ends
<1>2. newest' \in [Endpoints -> Columns] /\ overlapped' \in SUBSET Endpoints
  BY <1>1 DEF ColumnsInv, RowsInv, RowsTyped
<1>3. \A e \in Endpoints : parent[e] # "unborn" => settings'[e] = settings[e]
  BY DEF StoreEndpoint, CreateEndpoint, RowsInv, RowsTyped, rows
<1>4. \A r \in Requests, e \in Endpoints :
        Updating(r, e)' => Updating(r, e) /\ existing'[r] = existing[r]
  BY <1>1 DEF RequestsInv, RequestsTyped, Forgets, Updating, NoOrder
<1>5. ASSUME NEW e \in Endpoints PROVE ColumnsOK(e)'
  <2>1. Live(e) => parent[e] # "unborn"
    BY ParentsAreRows DEF Live
  <2>2. e \notin overlapped /\ Live(e)' => settings'[e] = newest'[e]
    BY <1>1, <1>3, <2>1 DEF ColumnsInv, ColumnsOK
  <2>3. \A r \in Requests : Updating(r, e)' => settings'[e] = settings[e]
    BY <1>3, <1>4, UpdatingBorn
  <2>4. QED
    BY <1>1, <1>4, <2>2, <2>3 DEF ColumnsInv, ColumnsOK
<1>6. QED
  BY <1>2, <1>5 DEF ColumnsInv

LEMMA LoadKeeps ==
    ASSUME RowsInv, RequestsInv, ColumnsInv, NEW q \in Requests, LoadEndpoint(q)
    PROVE  ColumnsInv'
<1> DEFINE e == order[q].endpoint
<1>0. /\ UNCHANGED <<parent, settings, newest>> /\ pc[q] = "guarded"
      /\ overlapped' = overlapped \union {order[r].endpoint : r \in {r \in Requests :
           order[r].route = "project endpoint" /\ pc[r] = "loaded" /\ order[r].endpoint = e}}
  BY DEF LoadEndpoint, rows, Admitted
<1>e. e \in Endpoints
  BY GuardsPassed DEF LoadEndpoint, Admitted, Reaches
<1>1. overlapped' = overlapped \union (IF \E r \in Requests : Updating(r, e) THEN {e} ELSE {})
  BY <1>0 DEF Updating
<1>2. newest' \in [Endpoints -> Columns] /\ overlapped' \in SUBSET Endpoints
  BY <1>0, <1>1, <1>e DEF ColumnsInv
<1>3. ASSUME NEW r \in Requests, NEW d \in Endpoints, Updating(r, d)'
      PROVE  \/ r # q /\ Updating(r, d) /\ existing'[r] = existing[r]
             \/ r = q /\ d = e /\ existing'[r] = settings[e]
  <2>t. RequestsTyped
    BY DEF RequestsInv
  <2>u. pc'[r] = "loaded" /\ order'[r].route = "project endpoint" /\ order'[r].endpoint = d
    BY <1>3 DEF Updating
  <2>1. CASE Forgets(q)
    <3>1. /\ pc'[q] = "done"
          /\ r # q => order'[r] = order[r] /\ pc'[r] = pc[r] /\ existing'[r] = existing[r]
      BY <2>t, <2>1 DEF Forgets, RequestsTyped
    <3>2. QED
      BY <3>1, <2>u DEF Updating
  <2>2. CASE Stage(q, "guarded", "loaded") /\ UNCHANGED order /\ existing' = [existing EXCEPT ![q] = settings[e]]
    <3>1. /\ UNCHANGED order /\ existing'[q] = settings[e]
          /\ r # q => pc'[r] = pc[r] /\ existing'[r] = existing[r]
      BY <2>t, <2>2 DEF Stage, RequestsTyped
    <3>2. QED
      BY <3>1, <2>u DEF Updating
  <2>3. QED
    BY <2>1, <2>2 DEF LoadEndpoint, Ends
<1>4. ASSUME NEW d \in Endpoints PROVE ColumnsOK(d)'
  <2>1. CASE d # e
    BY <1>0, <1>1, <1>3, <2>1 DEF ColumnsInv, ColumnsOK, Live
  <2>2. CASE d = e
    <3>1. e \notin overlapped' => \A r \in Requests : ~Updating(r, e)
      BY <1>1
    <3>2. QED
      BY <1>0, <1>1, <1>3, <2>2, <3>1 DEF ColumnsInv, ColumnsOK, Live
  <2>3. QED
    BY <2>1, <2>2
<1>5. QED
  BY <1>2, <1>4 DEF ColumnsInv

LEMMA WriteKeeps ==
    ASSUME RowsInv, RequestsInv, ColumnsInv, NEW q \in Requests, WriteEndpoint(q)
    PROVE  ColumnsInv'
<1> DEFINE e == order[q].endpoint  names == order[q].names
<1>0. /\ UNCHANGED <<parent, overlapped>>
      /\ pc[q] = "loaded" /\ order[q].route = "project endpoint" /\ Updating(q, e)
  BY DEF WriteEndpoint, UpdateEndpoint, rows, Updating
<1>e. e \in Endpoints
  <2>1. Serving(q) /\ todo[q] = {}
    BY <1>0 DEF RequestsInv, Answered, Serving
  <2>2. QED
    BY <1>0, <2>1, GuardsPassed DEF Reaches
<1>n. existing[q] \in Columns /\ names \in Named
  BY <1>0, <1>e, UpdatingBorn
<1>3. \A r \in Requests, d \in Endpoints :
        Updating(r, d)' => r # q /\ Updating(r, d) /\ existing'[r] = existing[r]
  BY DEF WriteEndpoint, Moves, Stage, Ends, Forgets, Updating, RequestsInv, RequestsTyped, NoOrder
<1>1. CASE GetEndpointByID(e, order[q].project)
  <2>1. /\ settings' = [settings EXCEPT ![e] = Effective(names, existing[q])]
        /\ newest' = [newest EXCEPT ![e] = Effective(names, newest[e])]
    BY <1>1, <1>e DEF WriteEndpoint, UpdateEndpoint, ColumnsInv
  <2>2. newest' \in [Endpoints -> Columns]
    <3>1. newest[e] \in Columns
      BY <1>e DEF ColumnsInv
    <3>2. Effective(names, newest[e]) \in Columns
      BY <1>n, <3>1, EffectiveColumns
    <3>3. QED
      BY <2>1, <3>2 DEF ColumnsInv
  <2>3. ASSUME NEW d \in Endpoints PROVE ColumnsOK(d)'
    <3>1. CASE d # e
      <4>1. settings'[d] = settings[d] /\ newest'[d] = newest[d]
        BY <2>1, <3>1 DEF ColumnsInv, RowsInv, RowsTyped
      <4>2. QED
        BY <1>0, <1>3, <4>1 DEF ColumnsInv, ColumnsOK, Live
    <3>2. CASE d = e
      <4>1. settings'[e] = Effective(names, existing[q]) /\ newest'[e] = Effective(names, newest[e])
        BY <2>1, <1>e DEF ColumnsInv, RowsInv, RowsTyped
      <4>2. ASSUME d \notin overlapped
            PROVE  /\ \A r \in Requests : ~Updating(r, d)'
                   /\ Live(d) => settings'[d] = newest'[d]
        <5>1. ColumnsOK(d) /\ Updating(q, d)
          BY <1>0, <3>2 DEF ColumnsInv
        <5>2. \A r \in Requests : ~Updating(r, d)'
          BY <1>3, <4>2, <5>1 DEF ColumnsOK
        <5>3. Live(d) => existing[q] = newest[d]
          BY <4>2, <5>1 DEF ColumnsOK
        <5>4. QED
          BY <3>2, <4>1, <5>2, <5>3
      <4>3. QED
        BY <1>0, <3>2, <4>2 DEF ColumnsOK, Live
    <3>3. QED
      BY <3>1, <3>2
  <2>4. QED
    BY <1>0, <2>2, <2>3 DEF ColumnsInv
<1>2. CASE ~GetEndpointByID(e, order[q].project)
  <2>1. UNCHANGED <<settings, newest>>
    BY <1>2 DEF WriteEndpoint, rows
  <2>2. ASSUME NEW d \in Endpoints PROVE ColumnsOK(d)'
    BY <1>0, <1>3, <2>1 DEF ColumnsInv, ColumnsOK, Live
  <2>3. QED
    BY <1>0, <2>1, <2>2 DEF ColumnsInv
<1>4. QED
  BY <1>1, <1>2

-----------------------------------------------------------------------------
TenantInv == RowsInv /\ RequestsInv /\ ColumnsInv

LEMMA TenantInvInit == TenantInit => TenantInv
<1> SUFFICES ASSUME TenantInit PROVE TenantInv
  OBVIOUS
<1>1. \A e \in Endpoints : Fresh(SlugOf[e]) \in Columns
  BY TenantAssumption DEF Fresh, Columns
<1>2. RowsTyped
  BY <1>1, TenantAssumption DEF TenantInit, RowsTyped
<1>3. Placed /\ Rooted /\ MarksLive /\ AuditsOwn
  <2>1. \A id \in Ids : parent[id] # "unborn" =>
           parent[id] \in ParentTable(id) /\ (parent[id] \in Ids => parent[parent[id]] # "unborn")
    BY TenantAssumption DEF TenantInit
  <2>2. \A id \in Ids : parent[id] \in Ids => parent[parent[id]] \in Parents
    BY <2>1, ParentsAreRows, TenantAssumption DEF TenantInit
  <2>3. QED
    BY <2>1, <2>2 DEF TenantInit, Placed, Rooted, MarksLive, AuditsOwn, Live
<1>4. RequestsInv
  BY DEF TenantInit, RequestsInv, RequestsTyped, Answered
<1>5. ColumnsInv
  BY <1>1, <1>4 DEF TenantInit, ColumnsInv, ColumnsOK, Updating
<1>6. QED
  BY <1>2, <1>3, <1>4, <1>5 DEF TenantInv, RowsInv

(* After the guards, whichever handler it is.                              *)
Handled(q) ==
    \/ ProjectHandler(q) \/ EndpointHandler(q) \/ MockHandler(q) \/ APIKeyHandler(q)
    \/ AlertHandler(q) \/ SettingsHandlers(q) \/ TestSuiteHandler(q) \/ Listings(q)
    \/ SaveSecurity(q) \/ WriteAudit(q)

LEMMA HandledActs ==
    ASSUME RowsInv, RequestsInv, NEW q \in Requests, Handled(q)
    PROVE  Acts(q)
BY ProjectActs, EndpointActs, MockActs, KeyActs, AlertActs, SettingsActs, SuiteActs, ListingActs,
   SecurityActs, AuditActs DEF Handled

LEMMA HandledColumns ==
    ASSUME TenantInv, NEW q \in Requests, Handled(q), RowsInv'
    PROVE  ColumnsInv'
<1>1. RowsInv /\ RequestsInv /\ ColumnsInv /\ RequestsTyped
  BY DEF TenantInv, RequestsInv
<1>2. CASE StoreEndpoint(q)
  BY <1>1, <1>2, StoreKeeps
<1>3. CASE LoadEndpoint(q)
  BY <1>1, <1>3, LoadKeeps
<1>4. CASE WriteEndpoint(q)
  BY <1>1, <1>4, WriteKeeps
<1>5. CASE ~(StoreEndpoint(q) \/ LoadEndpoint(q) \/ WriteEndpoint(q))
  <2>1. Plain(q)
    BY <1>1, <1>5, HandlersPlain, OthersPlain DEF Handled, EndpointHandler
  <2>2. QED
    BY <1>1, <2>1, PlainKeeps
<1>6. QED
  BY <1>2, <1>3, <1>4, <1>5

LEMMA EntryColumns ==
    ASSUME TenantInv, NEW q \in Requests, Auth(q) \/ requireResourceOwnership(q)
    PROVE  ColumnsInv'
<1>0. RequestsTyped /\ ColumnsInv
  BY DEF TenantInv, RequestsInv
<1>1. UNCHANGED <<parent, settings, newest, overlapped>>
  BY DEF Auth, requireResourceOwnership, rows, history
<1>2. /\ pc'[q] \in {"guarded", "done"}
      /\ \A r \in Requests : r # q => order'[r] = order[r] /\ pc'[r] = pc[r] /\ existing'[r] = existing[r]
  BY <1>0 DEF RequestsTyped, Auth, RequireTenant, requireResourceOwnership, Stage, Ends, Forgets
<1>3. ASSUME NEW e \in Endpoints PROVE ColumnsOK(e)'
  <2>1. \A r \in Requests : Updating(r, e)' => Updating(r, e) /\ existing'[r] = existing[r]
    BY <1>2 DEF Updating
  <2>2. QED
    BY <1>0, <1>1, <2>1 DEF ColumnsInv, ColumnsOK, Live
<1>4. QED
  BY <1>0, <1>1, <1>3 DEF ColumnsInv

LEMMA TenantInvStep == TenantInv /\ [TenantNext]_tenantVars => TenantInv'
<1> SUFFICES ASSUME TenantInv, [TenantNext]_tenantVars PROVE TenantInv'
  OBVIOUS
<1>0. RowsInv /\ RequestsInv /\ ColumnsInv
  BY DEF TenantInv
<1>1. ASSUME NEW q \in Requests, Auth(q) PROVE TenantInv'
  BY <1>0, <1>1, AuthKeeps, EntryColumns DEF TenantInv
<1>2. ASSUME NEW q \in Requests, requireResourceOwnership(q) PROVE TenantInv'
  BY <1>0, <1>2, GuardKeeps, EntryColumns DEF TenantInv
<1>3. ASSUME NEW q \in Requests, Handled(q) PROVE TenantInv'
  <2>1. RowsInv' /\ RequestsInv'
    BY <1>0, <1>3, HandledActs, ActsKeep
  <2>2. QED
    BY <1>3, <2>1, HandledColumns DEF TenantInv
<1>4. CASE UNCHANGED tenantVars
  <2>1. /\ UNCHANGED <<parent, settings, flag, marks, audits>>
        /\ UNCHANGED <<pc, order, todo, existing, got, newest, overlapped>>
    BY <1>4 DEF tenantVars, rows
  <2>2. RowsInv' /\ Steady
    BY <1>0, <2>1 DEF RowsInv, RowsTyped, Placed, Rooted, MarksLive, AuditsOwn, Live, Steady
  <2>3. RequestsTyped' /\ \A q \in Requests : Answered(q)' \/ Serving(q)'
    BY <1>0, <2>1, <2>2, ServingStays DEF RequestsInv, RequestsTyped, Answered
  <2>4. \A e \in Endpoints : ColumnsOK(e)'
    BY <1>0, <2>1 DEF ColumnsInv, ColumnsOK, Updating, Live
  <2>5. QED
    BY <1>0, <2>1, <2>2, <2>3, <2>4 DEF TenantInv, RequestsInv, ColumnsInv
<1>5. QED
  BY <1>1, <1>2, <1>3, <1>4 DEF TenantNext, Handled

LEMMA TenantInvHolds == TenantSpec => []TenantInv
BY TenantInvInit, TenantInvStep, PTL DEF TenantSpec

(* Rows, requests and what they hold have their types.                     *)
THEOREM TenantTyped == TenantSpec => []TenantTypeOK
<1>1. TenantInv => TenantTypeOK
  BY DEF TenantInv, RowsInv, RowsTyped, RequestsInv, RequestsTyped, ColumnsInv, TenantTypeOK
<1>2. QED
  BY <1>1, TenantInvHolds, PTL

(* A column keeps what the last update that named it wrote, unless two     *)
(* updates worked on the endpoint at once (endpoint_service.go).           *)
THEOREM NamedStick == TenantSpec => []NamedColumnsStick
<1>1. TenantInv => NamedColumnsStick
  BY DEF TenantInv, ColumnsInv, ColumnsOK, NamedColumnsStick
<1>2. QED
  BY <1>1, TenantInvHolds, PTL

LEMMA ActsIsolated ==
    ASSUME RowsInv, RequestsInv, NEW q \in Requests, Acts(q)
    PROVE  /\ \A id \in Ids : Untouched(id) \/ \E r \in Requests : pc'[r] # pc[r] /\ Owner(id) \in Own(r)
           /\ \A r \in Requests : got'[r] # got[r] => got'[r] \subseteq Own(r)
<1> DEFINE o == order[q].org
<1>1. o \in Orgs /\ order[q] \in Orders /\ Home[order[q].user] = o
  BY DEF Acts, Serving
<1>2. Own(q) = {o}
  BY <1>1, OrderParts DEF Own
<1>3. pc'[q] # pc[q]
  BY DEF Acts, Serving, Forgets, Further, RequestsInv, RequestsTyped
<1>4. \A id \in Ids : Untouched(id) \/ Owner(id) = o
  BY <1>1, StepIsolated DEF Acts
<1>5. \A r \in Requests : got'[r] # got[r] => r = q /\ got'[r] \subseteq {o}
  BY DEF Acts, RequestsInv, RequestsTyped
<1>6. QED
  BY <1>2, <1>3, <1>4, <1>5

(* A request reaches only the rows of the organization it acts for, which  *)
(* is its sender's, whatever identifiers it mixes and whatever is deleted  *)
(* between its guards and its handler (auth.go, router.go).                *)
THEOREM RequestsIsolated == TenantSpec => TenantIsolation
<1>1. ASSUME TenantInv, [TenantNext]_tenantVars
      PROVE  [/\ \A id \in Ids : Untouched(id)
                    \/ \E q \in Requests : pc'[q] # pc[q] /\ Owner(id) \in Own(q)
              /\ \A q \in Requests : got'[q] # got[q] => got'[q] \subseteq Own(q)]_tenantVars
  <2>0. RowsInv /\ RequestsInv
    BY <1>1 DEF TenantInv
  <2>1. CASE UNCHANGED tenantVars
    BY <2>1
  <2>2. ASSUME NEW q \in Requests, Handled(q)
        PROVE  /\ \A id \in Ids : Untouched(id)
                    \/ \E r \in Requests : pc'[r] # pc[r] /\ Owner(id) \in Own(r)
               /\ \A r \in Requests : got'[r] # got[r] => got'[r] \subseteq Own(r)
    BY <2>0, <2>2, HandledActs, ActsIsolated
  <2>3. ASSUME NEW q \in Requests, Auth(q) \/ requireResourceOwnership(q)
        PROVE  UNCHANGED <<rows, got>>
    BY <2>3 DEF Auth, RequireTenant, requireResourceOwnership, Stage, Ends
  <2>4. UNCHANGED rows => \A id \in Ids : Untouched(id)
    BY DEF rows, Untouched
  <2>5. QED
    BY <1>1, <2>1, <2>2, <2>3, <2>4 DEF TenantNext, Handled
<1>2. QED
  BY <1>1, TenantInvHolds, PTL DEF TenantSpec, TenantIsolation

-----------------------------------------------------------------------------
(* A behaviour of the dashboard is one of each of its parts, of which all  *)
(* but one stay as they were: what holds of a part holds of the dashboard. *)
THEOREM DashboardParts == DashboardSpec => AccountsSpec /\ TenantSpec /\ BaselinesSpec /\ AiSpec
<1>1. DashboardInit => AccountsInit /\ TenantInit /\ BaselinesInit /\ AiInit
  BY DEF DashboardInit
<1>2. [DashboardNext]_dashboardVars =>
         /\ [AccountsNext]_accountsVars /\ [TenantNext]_tenantVars
         /\ [BaselinesNext]_baselinesVars /\ [AiNext]_aiVars
  BY DEF DashboardNext, dashboardVars
<1>3. QED
  BY <1>1, <1>2, PTL DEF DashboardSpec, AccountsSpec, TenantSpec, BaselinesSpec, AiSpec

(* Every row and every handler's local state has its type, whichever part  *)
(* of the dashboard a behaviour is of.                                     *)
THEOREM DashboardTyped == DashboardSpec => []DashboardTypeOK
<1>1. AccountsInv => AccountsTypeOK
  BY DEF AccountsInv
<1>2. AiSpec => []AiInv
  BY AiInvInit, AiInvStep, PTL DEF AiSpec
<1>3. AiInv => AiTypeOK
  BY DEF AiInv
<1>4. AccountsTypeOK /\ TenantTypeOK /\ BaselinesTypeOK /\ AiTypeOK => DashboardTypeOK
  BY DEF DashboardTypeOK
<1>5. QED
  BY <1>1, <1>2, <1>3, <1>4, DashboardParts, AccountsInvHolds, TenantTyped, BaselinesTyped, PTL

(* Behind the dashboard, with its parts together: accounts usable, tenants *)
(* apart, no update undone by another it did not overlap, one active       *)
(* contract, accepted drifts settled, no webhook lost to its drift, and    *)
(* nothing sent to a language model without consent.                       *)
THEOREM DashboardKeeps ==
    DashboardSpec => /\ []AccountsUsable /\ []CloudNeedsConsent
                     /\ TenantIsolation /\ []NamedColumnsStick
                     /\ []OneActiveBaseline /\ []DriftSettles /\ []RefusedOnlyIfDeleted
BY DashboardParts, AccountsUsableHolds, ConsentHolds, RequestsIsolated, NamedStick, OneActive,
   AcceptanceSettles, OnlyDeletedRefuse, PTL

=============================================================================
