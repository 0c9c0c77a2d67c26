------------------------ MODULE OidcProviderProofs ------------------------
(***************************************************************************)
(* What the OpenID provider promises, for any number of clients, accounts,  *)
(* organizations, browser sessions, codes and concurrent requests.          *)
(*                                                                          *)
(* The inductive invariant OidcInv adds to the properties what a request    *)
(* holds between two of its statements: a login the present password, a     *)
(* consent a request its client may make, unless a change overtook them; a  *)
(* token request the present secret of the client as long as its code is    *)
(* pending; an INSERT the tenant its SELECT read, unless a change missed it;*)
(* and one request at most has consumed a code and not answered.            *)
(*                                                                          *)
(* The transactions of administrators only take codes and browser sessions  *)
(* away (CodesFade, CookiesFade) and reach every request that relied on     *)
(* what they change (AccountsAreCut, ClientsAreCut); TransactionKeeps is    *)
(* proved once of all of them.                                              *)
(***************************************************************************)
EXTENDS OidcProvider, TLAPS

-----------------------------------------------------------------------------
(* The invariant *)

ClientRow == [status : {"absent", "active", "disabled"}, grants : SUBSET Grants, secret : Nat]
CookieRow == [state : {"unused", "open", "revoked"}, user : Users \cup {None}, password : Nat, expires : Nat, overtaken : BOOLEAN]
CodeRow ==
    [state : {"unused", "pending", "consumed", "deleted"}, client : Clients \cup {None}, user : Users \cup {None},
     grant : Grants \cup {None}, expires : Nat, overtaken : BOOLEAN, kept : BOOLEAN]
RequestRow ==
    [step : {"idle", "checkLogin", "open", "validate", "checkConsent", "insert", "commit", "lookup", "consume", "issue"},
     client : Clients \cup {None}, user : Users \cup {None}, grant : Grants \cup {None}, code : Codes \cup {None},
     version : Nat, overtaken : BOOLEAN, missed : BOOLEAN]

OidcTypes ==
    /\ DirectoryTypeOK /\ now \in Nat
    /\ clients \in [Clients -> ClientRow]
    /\ passwords \in [Users -> Nat]
    /\ cookies \in [Cookies -> CookieRow]
    /\ codes \in [Codes -> CodeRow]
    /\ requests \in [Slots -> RequestRow]
    /\ tokens \in [Codes -> Nat]

\* A login knows the present password of an active account, unless overtaken.
LoginIsGood(q) ==
    q.step \in {"checkLogin", "open"} =>
        /\ q.client \in Clients /\ q.user \in Users
        /\ ~q.overtaken => users[q.user] = "active" /\ q.version = passwords[q.user]

\* A consent is for something the client may ask for, unless overtaken.
ConsentIsGood(q) ==
    /\ q.step \in {"validate", "checkConsent", "insert", "commit"} => q.client \in Clients /\ q.user \in Users
    /\ q.step \in {"checkConsent", "insert", "commit"} => q.grant \in Grants /\ (~q.overtaken => Allows(q.client, q.grant))

\* A token request whose code is still pending has proved the present secret of
\* the code's client.
ExchangeIsGood(q) ==
    /\ q.step \in {"lookup", "consume"} =>
          /\ q.client \in Clients /\ q.code \in Codes
          /\ codes[q.code].state # "unused" /\ clients[q.client].status # "absent"
          /\ Pending(q.code) /\ codes[q.code].client = q.client => q.version = clients[q.client].secret
    /\ q.step = "consume" => q.user \in Users /\ (Pending(q.code) => codes[q.code].client = q.client)

\* A request that is about to answer has consumed its code, and nobody has
\* answered for it.
IssueIsGood(q) ==
    q.step = "issue" => q.code \in Codes /\ q.user \in Users /\ codes[q.code].state = "consumed" /\ tokens[q.code] = 0

GoodRequest(q) == LoginIsGood(q) /\ ConsentIsGood(q) /\ ExchangeIsGood(q) /\ IssueIsGood(q)

\* An INSERT that has read its SELECT still has the tenant it read, unless a
\* change missed it; without the account it fails.
TenantIsGood(q) ==
    q.step = "commit" /\ ~q.missed /\ users[q.user] # "deleted" /\ ClientOrg[q.client] # None =>
        /\ orgs[ClientOrg[q.client]] = "active"
        /\ members[ClientOrg[q.client]][q.user].status = "active"

InsertsHaveTenant == \A r \in Slots : TenantIsGood(requests[r])

OneIssuer ==
    \A r, s \in Slots :
        requests[r].step = "issue" /\ requests[s].step = "issue" /\ requests[r].code = requests[s].code => r = s

CodesAreTyped ==
    \A k \in Codes : Pending(k) => codes[k].client \in Clients /\ codes[k].user \in Users /\ codes[k].grant \in Grants

CookiesAreTyped == \A b \in Cookies : cookies[b].state = "open" => cookies[b].user \in Users

Redeemed == \A k \in Codes : tokens[k] <= 1 /\ (tokens[k] # 0 => codes[k].state = "consumed")

OidcInv ==
    /\ OidcTypes
    /\ \A r \in Slots : GoodRequest(requests[r])
    /\ OneIssuer /\ Redeemed
    /\ CodesAreTyped /\ CodesMatchRegistration /\ PendingCodesHaveTenant /\ InsertsHaveTenant
    /\ CookiesAreTyped /\ CookiesMatchAccount

-----------------------------------------------------------------------------
(* One slot changes *)

\* An empty slot promises nothing.
LEMMA IdleIsGood == Idle \in RequestRow /\ GoodRequest(Idle) /\ Idle.step = "idle"
BY DEF Idle, RequestRow, GoodRequest, LoginIsGood, ConsentIsGood, ExchangeIsGood, IssueIsGood

\* What is good stays good while the tables it is about stay.
LEMMA GoodFrame ==
    ASSUME NEW q, GoodRequest(q), UNCHANGED <<users, passwords, clients, codes, tokens>>
    PROVE  GoodRequest(q)'
BY DEF GoodRequest, LoginIsGood, ConsentIsGood, ExchangeIsGood, IssueIsGood, Allows, Pending

\* Only requests[r] changes.
LEMMA SlotFacts ==
    ASSUME OidcInv, NEW r \in Slots, NEW q \in RequestRow, requests' = [requests EXCEPT ![r] = q], GoodRequest(q)',
           UNCHANGED <<users, passwords, clients, codes, tokens>>, q.step # "issue"
    PROVE  /\ requests' \in [Slots -> RequestRow] /\ \A s \in Slots : GoodRequest(requests[s])'
           /\ OneIssuer'
<1>1. requests' \in [Slots -> RequestRow] /\ requests'[r] = q /\ \A s \in Slots \ {r} : requests'[s] = requests[s]
  BY DEF OidcInv, OidcTypes
<1>2. ASSUME NEW s \in Slots
      PROVE  GoodRequest(requests[s])'
  <2>1. CASE s = r
    BY <1>1, <2>1
  <2>2. CASE s # r
    <3>1. PICK p : p = requests[s] /\ p = requests'[s] /\ GoodRequest(p)
      BY <1>1, <2>2 DEF OidcInv
    <3>2. GoodRequest(p)'
      BY <3>1, GoodFrame
    <3> QED BY <3>1, <3>2
  <2> QED BY <2>1, <2>2
<1>3. OneIssuer'
  BY <1>1 DEF OidcInv, OneIssuer
<1> QED BY <1>1, <1>2, <1>3

\* The requests that are inserting keep their tenant when another goes on.
LEMMA InsertsStay ==
    ASSUME OidcInv, NEW r \in Slots, NEW q \in RequestRow, requests' = [requests EXCEPT ![r] = q],
           q.step = "commit" => TenantIsGood(q), UNCHANGED <<users, orgs, members>>
    PROVE  InsertsHaveTenant'
<1>1. requests'[r] = q /\ \A s \in Slots \ {r} : requests'[s] = requests[s]
  BY DEF OidcInv, OidcTypes
<1> SUFFICES ASSUME NEW s \in Slots PROVE TenantIsGood(requests[s])'
  BY DEF InsertsHaveTenant
<1>2. PICK p : p = requests'[s] /\ (p.step = "commit" => TenantIsGood(p))
  BY <1>1 DEF OidcInv, InsertsHaveTenant
<1>3. TenantIsGood(p)'
  BY <1>2 DEF TenantIsGood
<1> QED BY <1>2, <1>3

\* A step of one request that writes no table.
LEMMA SlotStep ==
    ASSUME OidcInv, NEW r \in Slots, NEW q \in RequestRow, requests' = [requests EXCEPT ![r] = q], GoodRequest(q), q.step # "issue",
           q.step = "commit" => TenantIsGood(q),
           UNCHANGED <<directoryVars, now, clients, passwords, cookies, codes, tokens>>
    PROVE  OidcInv'
<1>1. UNCHANGED <<users, principals, orgs, members>>
  BY DEF directoryVars
<1>2. GoodRequest(q)'
  BY <1>1, GoodFrame
<1>3. requests' \in [Slots -> RequestRow] /\ (\A s \in Slots : GoodRequest(requests[s])') /\ OneIssuer'
  BY <1>1, <1>2, SlotFacts
<1>4. OidcTypes'
  BY <1>1, <1>3 DEF OidcInv, OidcTypes, DirectoryTypeOK
<1>5. CodesAreTyped' /\ Redeemed' /\ CookiesAreTyped'
  BY DEF OidcInv, CodesAreTyped, Redeemed, CookiesAreTyped, Pending
<1>6. CodesMatchRegistration' /\ PendingCodesHaveTenant' /\ CookiesMatchAccount'
  BY <1>1 DEF OidcInv, CodesMatchRegistration, PendingCodesHaveTenant, CookiesMatchAccount, Pending, Allows
<1>7. InsertsHaveTenant'
  BY <1>1, InsertsStay
<1> QED BY <1>3, <1>4, <1>5, <1>6, <1>7 DEF OidcInv

\* A request may end anywhere.
LEMMA EndRequestKeeps ==
    ASSUME OidcInv, NEW r \in Slots, EndRequest(r)
    PROVE  OidcInv'
BY IdleIsGood, SlotStep DEF EndRequest

\* The context is tested; nothing is promised about it.
LEMMA CheckContextKeeps ==
    ASSUME OidcInv, NEW r \in Slots, CheckContext(r)
    PROVE  OidcInv'
<1> DEFINE q == [requests[r] EXCEPT !.step = IF requests[r].step = "checkLogin" THEN "open" ELSE "insert"]
<1>1. requests' = [requests EXCEPT ![r] = q] /\ requests[r].step \in {"checkLogin", "checkConsent"}
      /\ UNCHANGED <<directoryVars, now, clients, passwords, cookies, codes, tokens>>
  BY DEF CheckContext
<1>2. requests[r] \in RequestRow /\ GoodRequest(requests[r])
  BY DEF OidcInv, OidcTypes
<1>3. /\ q \in RequestRow /\ q.client = requests[r].client /\ q.user = requests[r].user /\ q.grant = requests[r].grant
      /\ q.version = requests[r].version /\ q.overtaken = requests[r].overtaken
      /\ q.step = IF requests[r].step = "checkLogin" THEN "open" ELSE "insert"
  BY <1>2 DEF RequestRow
<1> HIDE DEF q
<1>4. GoodRequest(q)
  BY <1>1, <1>2, <1>3 DEF GoodRequest, LoginIsGood, ConsentIsGood, ExchangeIsGood, IssueIsGood
<1>5. q.step # "issue" /\ q.step # "commit"
  BY <1>3
<1> QED BY <1>1, <1>3, <1>4, <1>5, SlotStep

\* The SELECT of the INSERT reads the tenant it relies on.
LEMMA SelectContextKeeps ==
    ASSUME OidcInv, NEW r \in Slots, SelectContext(r)
    PROVE  OidcInv'
<1> DEFINE q == [requests[r] EXCEPT !.step = "commit"]
<1>1. requests' = [requests EXCEPT ![r] = q] /\ requests[r].step = "insert"
      /\ ContextIsActive(requests[r].client, requests[r].user)
      /\ UNCHANGED <<directoryVars, now, clients, passwords, cookies, codes, tokens>>
  BY DEF SelectContext
<1>2. requests[r] \in RequestRow /\ GoodRequest(requests[r])
  BY DEF OidcInv, OidcTypes
<1>3. /\ q \in RequestRow /\ q.client = requests[r].client /\ q.user = requests[r].user /\ q.grant = requests[r].grant
      /\ q.overtaken = requests[r].overtaken /\ q.step = "commit"
  BY <1>2 DEF RequestRow
<1> HIDE DEF q
<1>4. GoodRequest(q) /\ q.step # "issue"
  BY <1>1, <1>2, <1>3 DEF GoodRequest, LoginIsGood, ConsentIsGood, ExchangeIsGood, IssueIsGood
<1>5. TenantIsGood(q)
  BY <1>1, <1>3 DEF TenantIsGood, ContextIsActive
<1> QED BY <1>1, <1>3, <1>4, <1>5, SlotStep

\* A login reads the password and the state of the account together.
LEMMA StartLoginKeeps ==
    ASSUME OidcInv, NEW r \in Slots, NEW c \in Clients, NEW u \in Users, StartLogin(r, c, u)
    PROVE  OidcInv'
<1> DEFINE q == [Idle EXCEPT !.step = "checkLogin", !.client = c, !.user = u, !.version = passwords[u]]
<1>1. requests' = [requests EXCEPT ![r] = q] /\ users[u] = "active"
      /\ UNCHANGED <<directoryVars, now, clients, passwords, cookies, codes, tokens>>
  BY DEF StartLogin
<1>2. passwords[u] \in Nat
  BY DEF OidcInv, OidcTypes
<1>3. q \in RequestRow /\ q.step = "checkLogin" /\ q.client = c /\ q.user = u /\ q.version = passwords[u]
  BY <1>2, IdleIsGood DEF RequestRow
<1> HIDE DEF q
<1>4. GoodRequest(q) /\ q.step # "issue" /\ q.step # "commit"
  BY <1>1, <1>3 DEF GoodRequest, LoginIsGood, ConsentIsGood, ExchangeIsGood, IssueIsGood
<1> QED BY <1>1, <1>3, <1>4, SlotStep

\* A consent takes its user from an open browser session.
LEMMA StartConsentKeeps ==
    ASSUME OidcInv, NEW r \in Slots, NEW b \in Cookies, NEW c \in Clients, StartConsent(r, b, c)
    PROVE  OidcInv'
<1> DEFINE q == [Idle EXCEPT !.step = "validate", !.client = c, !.user = cookies[b].user]
<1>1. requests' = [requests EXCEPT ![r] = q] /\ cookies[b].state = "open"
      /\ UNCHANGED <<directoryVars, now, clients, passwords, cookies, codes, tokens>>
  BY DEF StartConsent, Resolves
<1>2. cookies[b].user \in Users
  BY <1>1 DEF OidcInv, CookiesAreTyped
<1>4. q \in RequestRow /\ q.step = "validate" /\ q.client = c /\ q.user = cookies[b].user
  BY <1>2, IdleIsGood DEF RequestRow
<1> HIDE DEF q
<1>5. GoodRequest(q) /\ q.step # "issue" /\ q.step # "commit"
  BY <1>2, <1>4 DEF GoodRequest, LoginIsGood, ConsentIsGood, ExchangeIsGood, IssueIsGood
<1> QED BY <1>1, <1>4, <1>5, SlotStep

\* The request is compared with the registration as it is.
LEMMA ValidateRequestKeeps ==
    ASSUME OidcInv, NEW r \in Slots, NEW g \in Grants, ValidateRequest(r, g)
    PROVE  OidcInv'
<1> DEFINE q == [requests[r] EXCEPT !.step = "checkConsent", !.grant = g]
<1>1. requests[r].step = "validate" /\ Allows(requests[r].client, g)
      /\ requests' = [requests EXCEPT ![r].step = "checkConsent", ![r].grant = g]
      /\ UNCHANGED <<directoryVars, now, clients, passwords, cookies, codes, tokens>>
  BY DEF ValidateRequest
<1>2. requests \in [Slots -> RequestRow] /\ requests[r] \in RequestRow /\ GoodRequest(requests[r])
  BY DEF OidcInv, OidcTypes
<1>3. requests' = [requests EXCEPT ![r] = q]
  BY <1>1, <1>2 DEF RequestRow
<1>4. /\ q \in RequestRow /\ q.client = requests[r].client /\ q.user = requests[r].user /\ q.grant = g /\ q.step = "checkConsent"
  BY <1>2 DEF RequestRow
<1> HIDE DEF q
<1>5. GoodRequest(q) /\ q.step # "issue" /\ q.step # "commit"
  BY <1>1, <1>2, <1>4 DEF GoodRequest, LoginIsGood, ConsentIsGood, ExchangeIsGood, IssueIsGood
<1> QED BY <1>1, <1>3, <1>4, <1>5, SlotStep

\* A token request proves the secret in force.
LEMMA StartTokenKeeps ==
    ASSUME OidcInv, NEW r \in Slots, NEW c \in Clients, NEW k \in Codes, StartToken(r, c, k)
    PROVE  OidcInv'
<1> DEFINE q == [Idle EXCEPT !.step = "lookup", !.client = c, !.code = k, !.version = clients[c].secret]
<1>1. requests' = [requests EXCEPT ![r] = q] /\ codes[k].state # "unused" /\ clients[c].status = "active"
      /\ UNCHANGED <<directoryVars, now, clients, passwords, cookies, codes, tokens>>
  BY DEF StartToken
<1>3. clients[c].secret \in Nat
  BY DEF OidcInv, OidcTypes, ClientRow
<1>4. q \in RequestRow /\ q.step = "lookup" /\ q.client = c /\ q.code = k /\ q.version = clients[c].secret
  BY <1>3, IdleIsGood DEF RequestRow
<1> HIDE DEF q
<1>5. GoodRequest(q) /\ q.step # "issue" /\ q.step # "commit"
  BY <1>1, <1>4 DEF GoodRequest, LoginIsGood, ConsentIsGood, ExchangeIsGood, IssueIsGood
<1> QED BY <1>1, <1>4, <1>5, SlotStep

\* The code belongs to the client whose secret was proved.
LEMMA LookUpCodeKeeps ==
    ASSUME OidcInv, NEW r \in Slots, LookUpCode(r)
    PROVE  OidcInv'
<1> DEFINE k == requests[r].code
           q == [requests[r] EXCEPT !.step = "consume", !.user = codes[k].user]
<1>1. requests[r].step = "lookup" /\ Pending(k) /\ codes[k].client = requests[r].client
      /\ requests' = [requests EXCEPT ![r].step = "consume", ![r].user = codes[k].user]
      /\ UNCHANGED <<directoryVars, now, clients, passwords, cookies, codes, tokens>>
  BY DEF LookUpCode
<1>2. requests \in [Slots -> RequestRow] /\ requests[r] \in RequestRow /\ GoodRequest(requests[r])
  BY DEF OidcInv, OidcTypes
<1>3. k \in Codes /\ codes[k].user \in Users
  BY <1>1, <1>2 DEF GoodRequest, ExchangeIsGood, OidcInv, CodesAreTyped
<1>4. requests' = [requests EXCEPT ![r] = q]
  BY <1>1, <1>2 DEF RequestRow
<1>5. /\ q \in RequestRow /\ q.client = requests[r].client /\ q.user = codes[k].user /\ q.code = k /\ q.step = "consume"
      /\ q.version = requests[r].version
  BY <1>2, <1>3 DEF RequestRow
<1> HIDE DEF q
<1>6. GoodRequest(q) /\ q.step # "issue" /\ q.step # "commit"
  BY <1>1, <1>2, <1>3, <1>5 DEF GoodRequest, LoginIsGood, ConsentIsGood, ExchangeIsGood, IssueIsGood
<1> QED BY <1>1, <1>4, <1>5, <1>6, SlotStep

-----------------------------------------------------------------------------
(* The tables change under the requests *)

\* The same request, perhaps overtaken or missed by now.
SameRequest(q, p) ==
    /\ p.step = q.step /\ p.client = q.client /\ p.user = q.user /\ p.grant = q.grant /\ p.code = q.code /\ p.version = q.version
    /\ ~p.overtaken => ~q.overtaken
    /\ ~p.missed => ~q.missed

\* Every code stays as it is, is marked, or is deleted while it is pending.
CodesFade ==
    /\ codes' \in [Codes -> CodeRow]
    /\ \A k \in Codes :
          \/ Pending(k) /\ codes'[k].state = "deleted"
          \/ /\ codes'[k].state = codes[k].state /\ codes'[k].client = codes[k].client /\ codes'[k].user = codes[k].user
             /\ codes'[k].grant = codes[k].grant /\ codes'[k].overtaken = codes[k].overtaken
             /\ ~codes'[k].kept => ~codes[k].kept

\* Every open browser session was open before.
CookiesFade ==
    /\ cookies' \in [Cookies -> CookieRow]
    /\ \A b \in Cookies : cookies'[b].state = "open" => cookies'[b] = cookies[b]

\* An account that changes loses its logins and browser sessions.
AccountsAreCut(rs) ==
    \A u \in Users :
        \/ users[u] = "active" => users'[u] = "active" /\ passwords'[u] = passwords[u]
        \/ LoginsOf(u) \subseteq rs /\ \A b \in Cookies : ~(cookies'[b].state = "open" /\ cookies'[b].user = u)

\* A client that changes what it may ask for loses its consents and codes; one
\* that changes its secret loses its codes.
ClientsAreCut(rs) ==
    \A c \in Clients :
        /\ clients[c].status # "absent" => clients'[c].status # "absent"
        /\ \/ clients'[c].status = clients[c].status /\ clients'[c].grants = clients[c].grants
           \/ clients[c].status # "active"
           \/ ConsentsFor(c) \subseteq rs /\ \A k \in Codes : ~(codes'[k].state = "pending" /\ codes'[k].client = c)
        /\ \/ clients'[c].secret = clients[c].secret \/ clients[c].status = "absent"
           \/ \A k \in Codes : ~(codes'[k].state = "pending" /\ codes'[k].client = c)

\* A request that was reached is excused; the others keep what they hold.
LEMMA FadingKeepsRequests ==
    ASSUME OidcInv, NEW rs, AccountsAreCut(rs), ClientsAreCut(rs), CodesFade, UNCHANGED tokens,
           NEW r \in Slots, NEW p, SameRequest(requests[r], p), r \in rs => p.overtaken
    PROVE  GoodRequest(p)'
<1>1. PICK q : q = requests[r] /\ GoodRequest(q) /\ SameRequest(q, p)
  BY DEF OidcInv
<1>2. LoginIsGood(p)'
  <2> SUFFICES ASSUME p.step \in {"checkLogin", "open"}
               PROVE  /\ p.client \in Clients /\ p.user \in Users
                      /\ ~p.overtaken => users'[p.user] = "active" /\ p.version = passwords'[p.user]
    BY DEF LoginIsGood
  <2>1. q.user \in Users /\ q.client \in Clients /\ p.user = q.user /\ p.client = q.client /\ p.version = q.version /\ q.step \in {"checkLogin", "open"}
    BY <1>1 DEF GoodRequest, LoginIsGood, SameRequest
  <2>2. ASSUME ~p.overtaken
        PROVE  users'[p.user] = "active" /\ p.version = passwords'[p.user]
    <3>1. r \notin rs /\ users[q.user] = "active" /\ q.version = passwords[q.user]
      BY <1>1, <2>1, <2>2 DEF GoodRequest, LoginIsGood, SameRequest
    <3>2. r \in LoginsOf(q.user)
      BY <1>1, <2>1 DEF LoginsOf
    <3> QED BY <2>1, <3>1, <3>2 DEF AccountsAreCut
  <2> QED BY <2>1, <2>2
<1>3. ConsentIsGood(p)'
  <2>1. p.step \in {"validate", "checkConsent", "insert", "commit"} => p.client \in Clients /\ p.user \in Users
    BY <1>1 DEF GoodRequest, ConsentIsGood, SameRequest
  <2>2. ASSUME p.step \in {"checkConsent", "insert", "commit"}
        PROVE  p.grant \in Grants /\ (~p.overtaken => Allows(p.client, p.grant)')
    <3>1. /\ q.client \in Clients /\ q.grant \in Grants /\ p.client = q.client /\ p.grant = q.grant
          /\ q.step \in {"checkConsent", "insert", "commit"}
      BY <1>1, <2>2 DEF GoodRequest, ConsentIsGood, SameRequest
    <3>2. ASSUME ~p.overtaken
          PROVE  Allows(p.client, p.grant)'
      <4>1. r \notin rs /\ Allows(q.client, q.grant)
        BY <1>1, <3>1, <3>2 DEF GoodRequest, ConsentIsGood, SameRequest
      <4>2. r \in ConsentsFor(q.client)
        BY <1>1, <3>1 DEF ConsentsFor
      <4>3. clients'[q.client].status = clients[q.client].status /\ clients'[q.client].grants = clients[q.client].grants
        BY <3>1, <4>1, <4>2 DEF ClientsAreCut, Allows
      <4> QED BY <3>1, <4>1, <4>3 DEF Allows
    <3> QED BY <3>1, <3>2
  <2> QED BY <2>1, <2>2 DEF ConsentIsGood
<1>4. ExchangeIsGood(p)'
  <2> SUFFICES ASSUME p.step \in {"lookup", "consume"}
               PROVE  ExchangeIsGood(p)'
    BY DEF ExchangeIsGood
  <2>1. /\ q.client \in Clients /\ q.code \in Codes /\ p.client = q.client /\ p.code = q.code /\ p.version = q.version
        /\ p.step = q.step /\ p.user = q.user
        /\ codes[q.code].state # "unused" /\ clients[q.client].status # "absent"
        /\ Pending(q.code) /\ codes[q.code].client = q.client => q.version = clients[q.client].secret
        /\ q.step = "consume" => q.user \in Users /\ (Pending(q.code) => codes[q.code].client = q.client)
    BY <1>1 DEF GoodRequest, ExchangeIsGood, SameRequest
  <2>2. /\ codes'[q.code].state # "unused" /\ clients'[q.client].status # "absent"
        /\ codes'[q.code].state = "pending" => Pending(q.code) /\ codes'[q.code].client = codes[q.code].client
    BY <2>1 DEF CodesFade, ClientsAreCut, Pending
  <2>3. codes'[q.code].state = "pending" /\ codes'[q.code].client = q.client => q.version = clients'[q.client].secret
    BY <2>1, <2>2 DEF ClientsAreCut
  <2> QED BY <2>1, <2>2, <2>3 DEF ExchangeIsGood, Pending
<1>5. IssueIsGood(p)'
  <2> SUFFICES ASSUME p.step = "issue"
               PROVE  p.code \in Codes /\ p.user \in Users /\ codes'[p.code].state = "consumed" /\ tokens'[p.code] = 0
    BY DEF IssueIsGood
  <2>1. q.code \in Codes /\ q.user \in Users /\ codes[q.code].state = "consumed" /\ tokens[q.code] = 0 /\ p.code = q.code /\ p.user = q.user
    BY <1>1 DEF GoodRequest, IssueIsGood, SameRequest
  <2> QED BY <2>1 DEF CodesFade, Pending
<1> QED BY <1>2, <1>3, <1>4, <1>5 DEF GoodRequest

\* What a transaction does to the requests: nothing, or a mark.
Marks(rs) ==
    \/ requests' = Overtake(rs)
    \/ rs = {} /\ UNCHANGED requests
    \/ rs = {} /\ \E ms : requests' = Miss(ms)

\* It changes nothing else of them.
LEMMA MarkFacts ==
    ASSUME OidcTypes, NEW rs, Marks(rs)
    PROVE  /\ requests' \in [Slots -> RequestRow]
           /\ \A r \in Slots : SameRequest(requests[r], requests'[r]) /\ (r \in rs => requests'[r].overtaken)
<1>1. CASE UNCHANGED requests /\ rs = {}
  BY <1>1 DEF OidcTypes, SameRequest
<1>2. CASE requests' = Overtake(rs)
  <2>1. ASSUME NEW r \in Slots
        PROVE  /\ requests'[r] \in RequestRow /\ SameRequest(requests[r], requests'[r])
               /\ (r \in rs => requests'[r].overtaken)
    <3> DEFINE o == requests[r].overtaken \/ r \in rs
               p == [requests[r] EXCEPT !.overtaken = o]
    <3>1. requests[r] \in RequestRow
      BY DEF OidcTypes
    <3>2. requests'[r] = p
      BY <1>2 DEF Overtake
    <3>3. o \in BOOLEAN /\ (~o => ~requests[r].overtaken) /\ (r \in rs => o)
      OBVIOUS
    <3> HIDE DEF o
    <3>4. /\ p \in RequestRow /\ p.step = requests[r].step /\ p.client = requests[r].client /\ p.user = requests[r].user
          /\ p.grant = requests[r].grant /\ p.code = requests[r].code /\ p.version = requests[r].version
          /\ p.overtaken = o /\ p.missed = requests[r].missed
      BY <3>1, <3>3 DEF RequestRow
    <3> HIDE DEF p
    <3> QED BY <3>2, <3>3, <3>4 DEF SameRequest
  <2>2. requests' = [r \in Slots |-> requests'[r]]
    BY <1>2 DEF Overtake
  <2> QED BY <2>1, <2>2
<1>3. CASE rs = {} /\ \E ms : requests' = Miss(ms)
  <2>1. PICK ms : requests' = Miss(ms)
    BY <1>3
  <2>2. ASSUME NEW r \in Slots
        PROVE  requests'[r] \in RequestRow /\ SameRequest(requests[r], requests'[r])
    <3> DEFINE m == requests[r].missed \/ r \in ms
               p == [requests[r] EXCEPT !.missed = m]
    <3>1. requests[r] \in RequestRow
      BY DEF OidcTypes
    <3>2. requests'[r] = p
      BY <2>1 DEF Miss
    <3>3. m \in BOOLEAN /\ (~m => ~requests[r].missed)
      OBVIOUS
    <3> HIDE DEF m
    <3>4. /\ p \in RequestRow /\ p.step = requests[r].step /\ p.client = requests[r].client /\ p.user = requests[r].user
          /\ p.grant = requests[r].grant /\ p.code = requests[r].code /\ p.version = requests[r].version
          /\ p.overtaken = requests[r].overtaken /\ p.missed = m
      BY <3>1, <3>3 DEF RequestRow
    <3> HIDE DEF p
    <3> QED BY <3>2, <3>3, <3>4 DEF SameRequest
  <2>3. requests' = [r \in Slots |-> requests'[r]]
    BY <2>1 DEF Miss
  <2> QED BY <1>3, <2>2, <2>3
<1> QED BY <1>1, <1>2, <1>3 DEF Marks

\* An inserting request that was missed says so.
LEMMA MissFacts ==
    ASSUME OidcTypes, NEW ms, requests' = Miss(ms)
    PROVE  Marks({}) /\ \A r \in Slots : r \in ms => requests'[r].missed
<1>1. ASSUME NEW r \in Slots, r \in ms
      PROVE  requests'[r].missed
  <2>1. requests[r] \in RequestRow /\ requests'[r] = [requests[r] EXCEPT !.missed = requests[r].missed \/ r \in ms]
    BY DEF OidcTypes, Miss
  <2>2. requests'[r] = [requests[r] EXCEPT !.missed = TRUE]
    BY <1>1, <2>1
  <2> QED BY <2>1, <2>2 DEF RequestRow
<1> QED BY <1>1 DEF Marks

\* The tenants of the codes and of the requests that insert one stay.
TenantsAreKept == PendingCodesHaveTenant' /\ InsertsHaveTenant'

\* A transaction on the accounts, the clients or the tenants.
LEMMA TransactionKeeps ==
    ASSUME OidcInv, DirectoryTypeOK', now' \in Nat, clients' \in [Clients -> ClientRow], passwords' \in [Users -> Nat],
           NEW rs, Marks(rs), CodesFade, CookiesFade, AccountsAreCut(rs), ClientsAreCut(rs), UNCHANGED tokens, TenantsAreKept
    PROVE  OidcInv'
<1>1. /\ requests' \in [Slots -> RequestRow]
      /\ \A r \in Slots : SameRequest(requests[r], requests'[r]) /\ (r \in rs => requests'[r].overtaken)
  BY MarkFacts DEF OidcInv
<1>2. OidcTypes'
  BY <1>1 DEF OidcInv, OidcTypes, CodesFade, CookiesFade
<1>3. ASSUME NEW r \in Slots
      PROVE  GoodRequest(requests[r])'
  <2>1. PICK p : p = requests'[r] /\ SameRequest(requests[r], p) /\ (r \in rs => p.overtaken)
    BY <1>1
  <2>2. GoodRequest(p)'
    BY <2>1, FadingKeepsRequests
  <2> QED BY <2>1, <2>2
<1>4. OneIssuer'
  BY <1>1 DEF OidcInv, OneIssuer, SameRequest
<1>5. Redeemed'
  BY DEF OidcInv, Redeemed, CodesFade, Pending
<1>6. \A k \in Codes : codes'[k].state = "pending" =>
          /\ Pending(k) /\ codes'[k].client = codes[k].client /\ codes'[k].user = codes[k].user
          /\ codes'[k].grant = codes[k].grant /\ codes'[k].overtaken = codes[k].overtaken
  BY DEF CodesFade, Pending
<1>7. CodesAreTyped'
  BY <1>6 DEF OidcInv, CodesAreTyped, Pending
<1>8. CodesMatchRegistration'
  <2> SUFFICES ASSUME NEW k \in Codes, codes'[k].state = "pending", ~codes'[k].overtaken
               PROVE  clients'[codes'[k].client].status = "active" /\ codes'[k].grant \in clients'[codes'[k].client].grants
    BY DEF CodesMatchRegistration, Pending, Allows
  <2>1. codes[k].client \in Clients /\ Allows(codes[k].client, codes[k].grant)
    BY <1>6 DEF OidcInv, CodesMatchRegistration, CodesAreTyped
  <2>2. clients'[codes[k].client].status = clients[codes[k].client].status /\ clients'[codes[k].client].grants = clients[codes[k].client].grants
    BY <1>6, <2>1 DEF ClientsAreCut, Allows
  <2> QED BY <1>6, <2>1, <2>2 DEF Allows
<1>9. CookiesAreTyped'
  BY DEF OidcInv, CookiesAreTyped, CookiesFade
<1>10. CookiesMatchAccount'
  <2> SUFFICES ASSUME NEW b \in Cookies, cookies'[b].state = "open", ~cookies'[b].overtaken
               PROVE  users'[cookies'[b].user] = "active" /\ cookies'[b].password = passwords'[cookies'[b].user]
    BY DEF CookiesMatchAccount
  <2>1. cookies'[b] = cookies[b]
    BY DEF CookiesFade
  <2>2. cookies[b].user \in Users /\ users[cookies[b].user] = "active" /\ cookies[b].password = passwords[cookies[b].user]
    BY <2>1 DEF OidcInv, CookiesAreTyped, CookiesMatchAccount
  <2> QED BY <2>1, <2>2 DEF AccountsAreCut
<1> QED BY <1>2, <1>3, <1>4, <1>5, <1>7, <1>8, <1>9, <1>10 DEF OidcInv, TenantsAreKept

\* What a transaction does not write stays: the codes.
LEMMA CodesStay ==
    ASSUME OidcTypes, UNCHANGED codes
    PROVE  CodesFade
BY DEF OidcTypes, CodesFade

\* The browser sessions stay.
LEMMA CookiesStay ==
    ASSUME OidcTypes, UNCHANGED cookies
    PROVE  CookiesFade
BY DEF OidcTypes, CookiesFade

\* The accounts stay.
LEMMA AccountsStay ==
    ASSUME UNCHANGED <<users, passwords>>, NEW rs
    PROVE  AccountsAreCut(rs)
BY DEF AccountsAreCut

\* The clients stay.
LEMMA ClientsStay ==
    ASSUME UNCHANGED clients, NEW rs
    PROVE  ClientsAreCut(rs)
BY DEF ClientsAreCut

\* DELETE of pending codes.
LEMMA WithoutFacts ==
    ASSUME OidcTypes, NEW ks, codes' = CodesWithout(ks)
    PROVE  /\ CodesFade
           /\ \A k \in Codes : codes'[k].state = "pending" => k \notin ks /\ codes'[k] = codes[k]
<1> DEFINE gone == [NoCode EXCEPT !.state = "deleted"]
<1>1. gone \in CodeRow /\ gone.state = "deleted"
  BY DEF NoCode, CodeRow
<1>2. codes' = [k \in Codes |-> IF k \in ks /\ Pending(k) THEN gone ELSE codes[k]]
  BY DEF CodesWithout
<1> HIDE DEF gone
<1> QED BY <1>1, <1>2 DEF OidcTypes, CodesFade, Pending

\* Deleted accounts stay deleted.
DeletedStay == \A u \in Users : users[u] = "deleted" => users'[u] = "deleted"

\* A transaction that leaves the tenants alone leaves those of its codes.
LEMMA TenantsStay ==
    ASSUME OidcInv, UNCHANGED <<orgs, members>>, CodesFade, DeletedStay, NEW rs, Marks(rs)
    PROVE  TenantsAreKept
<1>1. \A k \in Codes : codes'[k].state = "pending" =>
          /\ Pending(k) /\ codes'[k].client = codes[k].client /\ codes'[k].user = codes[k].user
          /\ ~codes'[k].kept => ~codes[k].kept
  BY DEF CodesFade, Pending
<1>2. PendingCodesHaveTenant'
  BY <1>1 DEF OidcInv, PendingCodesHaveTenant, Pending
<1>3. \A r \in Slots : SameRequest(requests[r], requests'[r])
  BY MarkFacts DEF OidcInv
<1>4. ASSUME NEW r \in Slots
      PROVE  TenantIsGood(requests[r])'
  <2>1. PICK q, p : q = requests[r] /\ p = requests'[r] /\ SameRequest(q, p) /\ TenantIsGood(q) /\ GoodRequest(q)
    BY <1>3 DEF OidcInv, InsertsHaveTenant
  <2>2. p.step = "commit" => p.user \in Users
    BY <2>1 DEF SameRequest, GoodRequest, ConsentIsGood
  <2>3. TenantIsGood(p)'
    BY <2>1, <2>2 DEF TenantIsGood, SameRequest, DeletedStay
  <2> QED BY <2>1, <2>3
<1> QED BY <1>2, <1>4 DEF TenantsAreKept, InsertsHaveTenant

\* UPDATE that revokes the browser sessions of a user.
LEMMA RevokedFacts ==
    ASSUME OidcTypes, NEW u \in Users, cookies' = CookiesRevoked(u)
    PROVE  /\ CookiesFade
           /\ \A b \in Cookies : ~(cookies'[b].state = "open" /\ cookies'[b].user = u)
<1>1. RevokedCookie \in CookieRow /\ RevokedCookie.state = "revoked"
  BY DEF RevokedCookie, NoCookie, CookieRow
<1> QED BY <1>1 DEF OidcTypes, CookiesFade, CookiesRevoked

-----------------------------------------------------------------------------
(* Clients *)

\* A transaction on clients leaves the directory alone.
LEMMA ClientFrame ==
    ASSUME OidcInv, UNCHANGED directoryVars
    PROVE  DirectoryTypeOK' /\ UNCHANGED <<users, principals, orgs, members>>
BY DEF OidcInv, OidcTypes, DirectoryTypeOK, directoryVars

\* A new client has no codes.
LEMMA CreateClientKeeps ==
    ASSUME OidcInv, NEW c \in Clients, NEW grants \in SUBSET Grants, CreateClient(c, grants)
    PROVE  OidcInv'
<1> DEFINE row == [status |-> "active", grants |-> grants, secret |-> 0]
<1>1. clients[c].status = "absent" /\ clients' = [clients EXCEPT ![c] = row]
      /\ UNCHANGED <<directoryVars, now, passwords, cookies, codes, requests, tokens>>
  BY DEF CreateClient
<1>2. OidcTypes /\ row \in ClientRow /\ row.status = "active"
  BY DEF OidcInv, ClientRow
<1> HIDE DEF row
<1>3. clients' \in [Clients -> ClientRow] /\ clients'[c] = row /\ \A d \in Clients \ {c} : clients'[d] = clients[d]
  BY <1>1, <1>2 DEF OidcTypes
<1>4. DirectoryTypeOK' /\ UNCHANGED <<users, principals, orgs, members>>
  BY <1>1, ClientFrame
<1>5. CodesFade /\ CookiesFade /\ AccountsAreCut({}) /\ Marks({}) /\ DeletedStay
  BY <1>1, <1>2, <1>4, CodesStay, CookiesStay, AccountsStay DEF Marks, DeletedStay
<1>6. passwords' \in [Users -> Nat] /\ now' \in Nat
  BY <1>1, <1>2 DEF OidcTypes
<1>7. ClientsAreCut({})
  BY <1>1, <1>2, <1>3 DEF ClientsAreCut
<1>8. TenantsAreKept
  BY <1>4, <1>5, TenantsStay
<1> QED BY <1>1, <1>3, <1>4, <1>5, <1>6, <1>7, <1>8, TransactionKeeps

\* A client that stops being active or changes its registration loses its codes.
LEMMA UpdateClientKeeps ==
    ASSUME OidcInv, NEW c \in Clients, NEW status \in {"active", "disabled"}, NEW grants \in SUBSET Grants,
           UpdateClient(c, status, grants)
    PROVE  OidcInv'
<1> DEFINE row == [clients[c] EXCEPT !.status = status, !.grants = grants]
           ends == clients[c].status = "active" /\ (status = "disabled" \/ grants # clients[c].grants)
<1>1. /\ clients[c].status # "absent" /\ clients' = [clients EXCEPT ![c].status = status, ![c].grants = grants]
      /\ codes' = IF ends THEN CodesWithout(CodesOfClient(c)) ELSE codes
      /\ requests' = Overtake(ConsentsFor(c))
      /\ UNCHANGED <<directoryVars, now, passwords, cookies, tokens>>
  BY DEF UpdateClient
<1>2. OidcTypes /\ clients \in [Clients -> ClientRow] /\ clients[c] \in ClientRow
  BY DEF OidcInv, OidcTypes
<1>3. clients' = [clients EXCEPT ![c] = row]
  BY <1>1, <1>2 DEF ClientRow
<1>4. row \in ClientRow /\ row.status = status /\ row.grants = grants /\ row.secret = clients[c].secret
  BY <1>2 DEF ClientRow
<1> HIDE DEF row
<1>5. clients' \in [Clients -> ClientRow] /\ clients'[c] = row /\ \A d \in Clients \ {c} : clients'[d] = clients[d]
  BY <1>2, <1>3, <1>4
<1>6. DirectoryTypeOK' /\ UNCHANGED <<users, principals, orgs, members>> /\ passwords' \in [Users -> Nat] /\ now' \in Nat
  BY <1>1, <1>2, ClientFrame DEF OidcTypes
<1> HIDE DEF ends
<1>7. CodesFade
  BY <1>1, <1>2, CodesStay, WithoutFacts
<1>8. CookiesFade /\ AccountsAreCut(ConsentsFor(c)) /\ Marks(ConsentsFor(c)) /\ DeletedStay
  BY <1>1, <1>2, <1>6, CookiesStay, AccountsStay DEF Marks, DeletedStay
<1>9. ends => \A k \in Codes : ~(codes'[k].state = "pending" /\ codes'[k].client = c)
  BY <1>1, <1>2, WithoutFacts DEF CodesOfClient
<1>10. ClientsAreCut(ConsentsFor(c))
  <2> SUFFICES ASSUME NEW d \in Clients
               PROVE  /\ clients[d].status # "absent" => clients'[d].status # "absent"
                      /\ \/ clients'[d].status = clients[d].status /\ clients'[d].grants = clients[d].grants
                         \/ clients[d].status # "active"
                         \/ /\ ConsentsFor(d) \subseteq ConsentsFor(c)
                            /\ \A k \in Codes : ~(codes'[k].state = "pending" /\ codes'[k].client = d)
                      /\ clients'[d].secret = clients[d].secret
    BY DEF ClientsAreCut
  <2>1. CASE d # c
    BY <1>5, <2>1
  <2>2. CASE d = c /\ ends
    BY <1>4, <1>5, <1>9, <2>2
  <2>3. CASE d = c /\ ~ends
    BY <1>4, <1>5, <2>3 DEF ends
  <2> QED BY <2>1, <2>2, <2>3
<1>11. TenantsAreKept
  BY <1>6, <1>7, <1>8, TenantsStay
<1> QED BY <1>1, <1>5, <1>6, <1>7, <1>8, <1>10, <1>11, TransactionKeeps

\* A new secret discards the codes that were issued before it.
LEMMA RotateSecretKeeps ==
    ASSUME OidcInv, NEW c \in Clients, RotateSecret(c)
    PROVE  OidcInv'
<1> DEFINE row == [clients[c] EXCEPT !.secret = clients[c].secret + 1]
<1>1. /\ clients' = [clients EXCEPT ![c] = row] /\ clients[c].status = "active"
      /\ codes' = CodesWithout(CodesOfClient(c))
      /\ UNCHANGED <<directoryVars, now, passwords, cookies, requests, tokens>>
  BY DEF RotateSecret
<1>2. OidcTypes /\ clients \in [Clients -> ClientRow] /\ clients[c] \in ClientRow
  BY DEF OidcInv, OidcTypes
<1>3. row \in ClientRow /\ row.status = clients[c].status /\ row.grants = clients[c].grants
  BY <1>2 DEF ClientRow
<1> HIDE DEF row
<1>4. clients' \in [Clients -> ClientRow] /\ clients'[c] = row /\ \A d \in Clients \ {c} : clients'[d] = clients[d]
  BY <1>1, <1>2, <1>3
<1>5. DirectoryTypeOK' /\ UNCHANGED <<users, principals, orgs, members>> /\ passwords' \in [Users -> Nat] /\ now' \in Nat
  BY <1>1, <1>2, ClientFrame DEF OidcTypes
<1>6. CodesFade /\ \A k \in Codes : ~(codes'[k].state = "pending" /\ codes'[k].client = c)
  BY <1>1, <1>2, WithoutFacts DEF CodesOfClient
<1>7. CookiesFade /\ AccountsAreCut({}) /\ Marks({}) /\ DeletedStay
  BY <1>1, <1>2, <1>5, CookiesStay, AccountsStay DEF Marks, DeletedStay
<1>8. ClientsAreCut({})
  BY <1>1, <1>3, <1>4, <1>6 DEF ClientsAreCut
<1>9. TenantsAreKept
  BY <1>5, <1>6, <1>7, TenantsStay
<1> QED BY <1>1, <1>4, <1>5, <1>6, <1>7, <1>8, <1>9, TransactionKeeps

-----------------------------------------------------------------------------
(* Accounts *)

\* A disabled account loses its browser sessions.
LEMMA SetAccountActiveKeeps ==
    ASSUME OidcInv, NEW u \in Users, NEW a \in BOOLEAN, SetAccountActive(u, a)
    PROVE  OidcInv'
<1>1. /\ users' = [users EXCEPT ![u] = IF a THEN "active" ELSE "disabled"] /\ UNCHANGED <<principals, orgs, members>>
      /\ users[u] # "deleted"
      /\ cookies' = (IF a THEN cookies ELSE CookiesRevoked(u)) /\ requests' = Overtake(LoginsOf(u))
      /\ UNCHANGED <<now, clients, passwords, codes, tokens>>
  BY DEF SetAccountActive, WriteUserActive
<1>2. OidcTypes
  BY DEF OidcInv
<1>3. /\ DirectoryTypeOK' /\ users'[u] = (IF a THEN "active" ELSE "disabled")
      /\ \A v \in Users \ {u} : users'[v] = users[v]
  BY <1>1, <1>2 DEF OidcTypes, DirectoryTypeOK, UserStates
<1>4. clients' \in [Clients -> ClientRow] /\ passwords' \in [Users -> Nat] /\ now' \in Nat
  BY <1>1, <1>2 DEF OidcTypes
<1>5. CodesFade /\ ClientsAreCut(LoginsOf(u)) /\ Marks(LoginsOf(u)) /\ DeletedStay
  BY <1>1, <1>2, <1>3, CodesStay, ClientsStay DEF Marks, DeletedStay
<1>6. CookiesFade
  BY <1>1, <1>2, CookiesStay, RevokedFacts
<1>7. AccountsAreCut(LoginsOf(u))
  <2>1. ~a => \A b \in Cookies : ~(cookies'[b].state = "open" /\ cookies'[b].user = u)
    BY <1>1, <1>2, RevokedFacts
  <2> QED BY <1>1, <1>3, <2>1 DEF AccountsAreCut
<1>8. TenantsAreKept
  BY <1>1, <1>5, TenantsStay
<1> QED BY <1>1, <1>3, <1>4, <1>5, <1>6, <1>7, <1>8, TransactionKeeps

\* A new password ends the browser sessions of the old one.
LEMMA ReplacePasswordKeeps ==
    ASSUME OidcInv, NEW u \in Users, ReplacePassword(u)
    PROVE  OidcInv'
<1>1. /\ passwords' = [passwords EXCEPT ![u] = passwords[u] + 1] /\ cookies' = CookiesRevoked(u) /\ requests' = Overtake(LoginsOf(u))
      /\ UNCHANGED <<directoryVars, now, clients, codes, tokens>>
  BY DEF ReplacePassword
<1>2. OidcTypes
  BY DEF OidcInv
<1>3. DirectoryTypeOK' /\ UNCHANGED <<users, principals, orgs, members>>
  BY <1>1, ClientFrame
<1>4. clients' \in [Clients -> ClientRow] /\ passwords' \in [Users -> Nat] /\ now' \in Nat
      /\ \A v \in Users \ {u} : passwords'[v] = passwords[v]
  BY <1>1, <1>2 DEF OidcTypes
<1>5. CodesFade /\ ClientsAreCut(LoginsOf(u)) /\ Marks(LoginsOf(u)) /\ DeletedStay
  BY <1>1, <1>2, <1>3, CodesStay, ClientsStay DEF Marks, DeletedStay
<1>6. CookiesFade /\ AccountsAreCut(LoginsOf(u))
  BY <1>1, <1>2, <1>3, <1>4, RevokedFacts DEF AccountsAreCut
<1>7. TenantsAreKept
  BY <1>3, <1>5, TenantsStay
<1> QED BY <1>1, <1>3, <1>4, <1>5, <1>6, <1>7, TransactionKeeps

\* A deleted account takes its memberships, its codes and its sessions with it.
LEMMA DeleteAccountKeeps ==
    ASSUME OidcInv, NEW u \in Users, DeleteAccount(u)
    PROVE  OidcInv'
<1> DEFINE ks == {k \in Codes : codes[k].user = u}
<1>1. /\ users' = [users EXCEPT ![u] = "deleted"] /\ principals' = [principals EXCEPT ![u] = "absent"]
      /\ members' = [o \in Orgs |-> [members[o] EXCEPT ![u] = NoMembership]] /\ UNCHANGED orgs
      /\ cookies' = CookiesRevoked(u) /\ codes' = CodesWithout(ks) /\ requests' = Overtake(LoginsOf(u))
      /\ UNCHANGED <<now, clients, passwords, tokens>>
  BY DEF DeleteAccount, DeleteUserRows
<1>2. OidcTypes /\ DirectoryTypeOK
  BY DEF OidcInv, OidcTypes
<1>3. /\ users' \in [Users -> UserStates] /\ principals' \in [Users -> PrincipalStates]
      /\ \A v \in Users \ {u} : users'[v] = users[v]
  BY <1>1, <1>2 DEF DirectoryTypeOK, UserStates, PrincipalStates
<1>4. /\ members' \in [Orgs -> [Users -> Membership]]
      /\ \A o \in Orgs : \A v \in Users \ {u} : members'[o][v] = members[o][v]
  <2>1. NoMembership \in Membership
    BY DEF NoMembership, Membership, ManagementRoles
  <2>2. \A o \in Orgs : members[o] \in [Users -> Membership]
    BY <1>2 DEF DirectoryTypeOK
  <2> QED BY <1>1, <2>1, <2>2
<1>5. DirectoryTypeOK'
  BY <1>1, <1>2, <1>3, <1>4 DEF DirectoryTypeOK
<1>6. clients' \in [Clients -> ClientRow] /\ passwords' \in [Users -> Nat] /\ now' \in Nat
  BY <1>1, <1>2 DEF OidcTypes
<1>7. CodesFade /\ \A k \in Codes : codes'[k].state = "pending" => codes'[k] = codes[k] /\ codes[k].user # u
  BY <1>1, <1>2, WithoutFacts
<1>8. CookiesFade /\ AccountsAreCut(LoginsOf(u)) /\ ClientsAreCut(LoginsOf(u))
  BY <1>1, <1>2, <1>3, RevokedFacts, ClientsStay DEF AccountsAreCut
<1>9. PendingCodesHaveTenant'
  <2> SUFFICES ASSUME NEW k \in Codes, codes'[k].state = "pending", ClientOrg[codes'[k].client] # None, ~codes'[k].kept
               PROVE  /\ orgs'[ClientOrg[codes'[k].client]] = "active"
                      /\ members'[ClientOrg[codes'[k].client]][codes'[k].user].status = "active"
    BY DEF PendingCodesHaveTenant, Pending
  <2>1. codes'[k] = codes[k] /\ codes[k].user # u /\ Pending(k)
    BY <1>7 DEF Pending
  <2>2. codes[k].user \in Users \ {u} /\ codes[k].client \in Clients
    BY <2>1 DEF OidcInv, CodesAreTyped
  <2>3. ClientOrg[codes[k].client] \in Orgs
    BY <2>1, <2>2, OidcAssumption
  <2>4. orgs[ClientOrg[codes[k].client]] = "active" /\ members[ClientOrg[codes[k].client]][codes[k].user].status = "active"
    BY <2>1 DEF OidcInv, PendingCodesHaveTenant
  <2> QED BY <1>1, <1>4, <2>1, <2>2, <2>3, <2>4
<1>10. Marks(LoginsOf(u))
  BY <1>1 DEF Marks
<1>11. ASSUME NEW r \in Slots
       PROVE  TenantIsGood(requests[r])'
  <2>1. PICK q, p : q = requests[r] /\ p = requests'[r] /\ SameRequest(q, p) /\ TenantIsGood(q) /\ GoodRequest(q)
    BY <1>2, <1>10, MarkFacts DEF OidcInv, InsertsHaveTenant
  <2>2. p.step = "commit" => p.user \in Users /\ p.client \in Clients
    BY <2>1 DEF SameRequest, GoodRequest, ConsentIsGood
  <2>3. users'[u] = "deleted"
    BY <1>1, <1>2 DEF DirectoryTypeOK
  <2>4. TenantIsGood(p)'
    BY <1>1, <1>3, <1>4, <2>1, <2>2, <2>3, OidcAssumption DEF TenantIsGood, SameRequest
  <2> QED BY <2>1, <2>4
<1>12. TenantsAreKept
  BY <1>9, <1>11 DEF TenantsAreKept, InsertsHaveTenant
<1> QED BY <1>1, <1>5, <1>6, <1>7, <1>8, <1>10, <1>12, TransactionKeeps

\* No code or browser session depends on the Principal.
LEMMA SynchronisePrincipalKeeps ==
    ASSUME OidcInv, NEW u \in Users, SynchronisePrincipal(u)
    PROVE  OidcInv'
<1>1. /\ \E a \in BOOLEAN : principals' = [principals EXCEPT ![u] = IF a THEN "active" ELSE "inactive"]
      /\ UNCHANGED <<users, orgs, members, now, clients, passwords, cookies, codes, requests, tokens>>
  BY DEF SynchronisePrincipal, UpsertPrincipal, oidcVars
<1>2. OidcTypes /\ DirectoryTypeOK /\ DirectoryTypeOK'
  BY <1>1 DEF OidcInv, OidcTypes, DirectoryTypeOK, PrincipalStates
<1>3. clients' \in [Clients -> ClientRow] /\ passwords' \in [Users -> Nat] /\ now' \in Nat
  BY <1>1, <1>2 DEF OidcTypes
<1>4. CodesFade /\ CookiesFade /\ AccountsAreCut({}) /\ ClientsAreCut({}) /\ Marks({}) /\ DeletedStay
  BY <1>1, <1>2, CodesStay, CookiesStay, AccountsStay, ClientsStay DEF Marks, DeletedStay
<1>5. TenantsAreKept
  BY <1>1, <1>4, TenantsStay
<1> QED BY <1>1, <1>2, <1>3, <1>4, <1>5, TransactionKeeps

\* Logout and the clock.
LEMMA QuietStepKeeps ==
    ASSUME OidcInv, OidcTick \/ \E b \in Cookies : Logout(b)
    PROVE  OidcInv'
<1>1. UNCHANGED <<directoryVars, clients, passwords, codes, requests, tokens>>
  BY DEF OidcTick, Logout
<1>2. OidcTypes /\ now \in Nat
  BY DEF OidcInv, OidcTypes
<1>3. now' \in Nat
  BY <1>2 DEF OidcTick, Logout
<1>4. CookiesFade
  <2>1. RevokedCookie \in CookieRow /\ RevokedCookie.state = "revoked"
    BY DEF RevokedCookie, NoCookie, CookieRow
  <2>2. CASE OidcTick
    BY <1>2, <2>2, CookiesStay DEF OidcTick
  <2>3. CASE \E b \in Cookies : Logout(b)
    BY <1>2, <2>1, <2>3 DEF Logout, OidcTypes, CookiesFade
  <2> QED BY <2>2, <2>3
<1>5. DirectoryTypeOK' /\ UNCHANGED <<users, principals, orgs, members>>
  BY <1>1, ClientFrame
<1>6. clients' \in [Clients -> ClientRow] /\ passwords' \in [Users -> Nat]
  BY <1>1, <1>2 DEF OidcTypes
<1>7. CodesFade /\ AccountsAreCut({}) /\ ClientsAreCut({}) /\ Marks({}) /\ DeletedStay
  BY <1>1, <1>2, <1>5, CodesStay, AccountsStay, ClientsStay DEF Marks, DeletedStay
<1>8. TenantsAreKept
  BY <1>5, <1>7, TenantsStay
<1> QED BY <1>1, <1>3, <1>4, <1>5, <1>6, <1>7, <1>8, TransactionKeeps

-----------------------------------------------------------------------------
(* Tenants *)

\* An organization that stops being active takes the codes of its clients.
LEMMA SetOrganizationStatusKeeps ==
    ASSUME OidcInv, NEW o \in Orgs, NEW st \in OrgStatusArgs, SetOrganizationStatus(o, st)
    PROVE  OidcInv'
<1> DEFINE ks == {k \in Codes : codes[k].client # None /\ ClientOrg[codes[k].client] = o}
<1>1. /\ orgs' = [orgs EXCEPT ![o] = st] /\ UNCHANGED <<users, principals, members, now, clients, passwords, cookies, tokens>>
      /\ requests' = (IF st = "active" THEN requests ELSE Miss(InsertsFor(o)))
      /\ codes' = IF orgs[o] = "active" /\ st # "active" THEN CodesWithout(ks) ELSE codes
  BY DEF SetOrganizationStatus, WriteOrgStatus
<1>2. OidcTypes /\ DirectoryTypeOK
  BY DEF OidcInv, OidcTypes
<1>3. DirectoryTypeOK' /\ orgs'[o] = st /\ \A p \in Orgs \ {o} : orgs'[p] = orgs[p]
  BY <1>1, <1>2, OidcAssumption DEF DirectoryTypeOK
<1>4. clients' \in [Clients -> ClientRow] /\ passwords' \in [Users -> Nat] /\ now' \in Nat
  BY <1>1, <1>2 DEF OidcTypes
<1>5. /\ CodesFade
      /\ \A k \in Codes : codes'[k].state = "pending" => codes'[k] = codes[k] /\ (orgs[o] = "active" /\ st # "active" => k \notin ks)
  BY <1>1, <1>2, CodesStay, WithoutFacts
<1>6. CookiesFade /\ AccountsAreCut({}) /\ ClientsAreCut({})
  BY <1>1, <1>2, CookiesStay, AccountsStay, ClientsStay
<1> HIDE DEF ks
<1>7. PendingCodesHaveTenant'
  <2> SUFFICES ASSUME NEW k \in Codes, codes'[k].state = "pending", ClientOrg[codes'[k].client] # None, ~codes'[k].kept
               PROVE  /\ orgs'[ClientOrg[codes'[k].client]] = "active"
                      /\ members'[ClientOrg[codes'[k].client]][codes'[k].user].status = "active"
    BY DEF PendingCodesHaveTenant, Pending
  <2>1. codes'[k] = codes[k] /\ Pending(k) /\ (orgs[o] = "active" /\ st # "active" => k \notin ks)
    BY <1>5 DEF Pending
  <2>2. k \in ks <=> ClientOrg[codes[k].client] = o
    BY <2>1, OidcAssumption DEF OidcInv, CodesAreTyped, ks
  <2>3. ClientOrg[codes[k].client] \in Orgs
    BY <2>1, OidcAssumption DEF OidcInv, CodesAreTyped
  <2>4. orgs[ClientOrg[codes[k].client]] = "active" /\ members[ClientOrg[codes[k].client]][codes[k].user].status = "active"
    BY <2>1 DEF OidcInv, PendingCodesHaveTenant
  <2> QED BY <1>1, <1>3, <2>1, <2>2, <2>3, <2>4
<1>8. Marks({}) /\ (st = "active" \/ \A r \in InsertsFor(o) : requests'[r].missed)
  <2>1. CASE st = "active"
    BY <1>1, <2>1 DEF Marks
  <2>2. CASE st # "active"
    BY <1>1, <1>2, <2>2, MissFacts DEF InsertsFor
  <2> QED BY <2>1, <2>2
<1>9. ASSUME NEW r \in Slots
      PROVE  TenantIsGood(requests[r])'
  <2>1. PICK q, p : q = requests[r] /\ p = requests'[r] /\ SameRequest(q, p) /\ TenantIsGood(q) /\ GoodRequest(q)
    BY <1>2, <1>8, MarkFacts DEF OidcInv, InsertsHaveTenant
  <2>2. q.step = "commit" => ClientOrg[q.client] \in Orgs \cup {None}
    BY <2>1, OidcAssumption DEF GoodRequest, ConsentIsGood
  <2>3. q.step = "commit" /\ ClientOrg[q.client] = o => st = "active" \/ p.missed
    BY <1>8, <2>1 DEF InsertsFor
  <2>4. TenantIsGood(p)'
    BY <1>1, <1>3, <2>1, <2>2, <2>3 DEF TenantIsGood, SameRequest
  <2> QED BY <2>1, <2>4
<1>10. TenantsAreKept
  BY <1>7, <1>9 DEF TenantsAreKept, InsertsHaveTenant
<1> QED BY <1>1, <1>3, <1>4, <1>5, <1>6, <1>8, <1>10, TransactionKeeps

\* One membership is written, and every pending code of it is discarded or
\* marked, and every request that inserts one is marked, unless the membership
\* is active.
LEMMA MembershipKeeps ==
    ASSUME OidcInv, NEW o \in Orgs, NEW u \in Users, NEW row \in Membership,
           members' = [members EXCEPT ![o] = [members[o] EXCEPT ![u] = row]],
           UNCHANGED <<users, principals, orgs, now, clients, passwords, cookies, tokens>>,
           CodesFade, Marks({}),
           row.status = "active" \/ \A k \in Codes : codes'[k].state = "pending" => k \notin CodesOfMember(o, u) \/ codes'[k].kept,
           row.status = "active" \/ \A r \in InsertsOfMember(o, u) : requests'[r].missed
    PROVE  OidcInv'
<1>1. OidcTypes /\ DirectoryTypeOK
  BY DEF OidcInv, OidcTypes
<1>2. /\ members' \in [Orgs -> [Users -> Membership]] /\ members'[o][u] = row
      /\ \A p \in Orgs, v \in Users : <<p, v>> # <<o, u>> => members'[p][v] = members[p][v]
  <2>1. members \in [Orgs -> [Users -> Membership]] /\ members[o] \in [Users -> Membership]
    BY <1>1 DEF DirectoryTypeOK
  <2> QED BY <2>1
<1>3. DirectoryTypeOK'
  BY <1>1, <1>2 DEF DirectoryTypeOK
<1>4. clients' \in [Clients -> ClientRow] /\ passwords' \in [Users -> Nat] /\ now' \in Nat
  BY <1>1 DEF OidcTypes
<1>5. CookiesFade /\ AccountsAreCut({}) /\ ClientsAreCut({})
  BY <1>1, CookiesStay, AccountsStay, ClientsStay
<1>6. PendingCodesHaveTenant'
  <2> SUFFICES ASSUME NEW k \in Codes, codes'[k].state = "pending", ClientOrg[codes'[k].client] # None, ~codes'[k].kept
               PROVE  /\ orgs'[ClientOrg[codes'[k].client]] = "active"
                      /\ members'[ClientOrg[codes'[k].client]][codes'[k].user].status = "active"
    BY DEF PendingCodesHaveTenant, Pending
  <2>1. codes'[k].client = codes[k].client /\ codes'[k].user = codes[k].user /\ Pending(k) /\ ~codes[k].kept
    BY DEF CodesFade, Pending
  <2>2. codes[k].client \in Clients /\ codes[k].user \in Users /\ ClientOrg[codes[k].client] \in Orgs
    BY <2>1, OidcAssumption DEF OidcInv, CodesAreTyped
  <2>3. orgs[ClientOrg[codes[k].client]] = "active" /\ members[ClientOrg[codes[k].client]][codes[k].user].status = "active"
    BY <2>1 DEF OidcInv, PendingCodesHaveTenant
  <2>4. CASE <<ClientOrg[codes[k].client], codes[k].user>> # <<o, u>>
    BY <1>2, <2>1, <2>2, <2>3, <2>4
  <2>5. CASE <<ClientOrg[codes[k].client], codes[k].user>> = <<o, u>>
    <3>1. k \in CodesOfMember(o, u)
      BY <2>5 DEF CodesOfMember
    <3> QED BY <1>2, <2>1, <2>3, <2>5, <3>1
  <2> QED BY <2>4, <2>5
<1>7. ASSUME NEW r \in Slots
      PROVE  TenantIsGood(requests[r])'
  <2>1. PICK q, p : q = requests[r] /\ p = requests'[r] /\ SameRequest(q, p) /\ TenantIsGood(q) /\ GoodRequest(q)
    BY <1>1, MarkFacts DEF OidcInv, InsertsHaveTenant
  <2>2. q.step = "commit" => q.user \in Users /\ ClientOrg[q.client] \in Orgs \cup {None}
    BY <2>1, OidcAssumption DEF GoodRequest, ConsentIsGood
  <2>3. q.step = "commit" /\ ClientOrg[q.client] = o /\ q.user = u => row.status = "active" \/ p.missed
    BY <2>1 DEF InsertsOfMember, InsertsFor
  <2>4. TenantIsGood(p)'
    BY <1>2, <2>1, <2>2, <2>3 DEF TenantIsGood, SameRequest
  <2> QED BY <2>1, <2>4
<1>8. TenantsAreKept
  BY <1>6, <1>7 DEF TenantsAreKept, InsertsHaveTenant
<1> QED BY <1>3, <1>4, <1>5, <1>8, TransactionKeeps

\* The requests that insert a code of the membership are marked.
LEMMA MemberMissed ==
    ASSUME OidcInv, NEW o \in Orgs, NEW u \in Users, NEW st \in StatusArgs,
           st = "active" => UNCHANGED requests, st # "active" => requests' = Miss(InsertsOfMember(o, u))
    PROVE  Marks({}) /\ (st = "active" \/ \A r \in InsertsOfMember(o, u) : requests'[r].missed)
<1>1. CASE st = "active"
  BY <1>1 DEF Marks
<1>2. CASE st # "active"
  BY <1>2, MissFacts DEF OidcInv, InsertsOfMember, InsertsFor
<1> QED BY <1>1, <1>2

\* What WriteMembership stores.
LEMMA WrittenMembership ==
    ASSUME OidcInv, NEW o \in Orgs, NEW u \in Users, NEW st \in StatusArgs, NEW role \in RoleArgs, WriteMembership(o, u, st, role)
    PROVE  \E row \in Membership : row.status = st /\ members' = [members EXCEPT ![o] = [members[o] EXCEPT ![u] = row]]
<1> DEFINE row == [status |-> st, role |-> IF role = None THEN members[o][u].role ELSE role]
<1>1. members[o][u] \in Membership
  BY DEF OidcInv, OidcTypes, DirectoryTypeOK
<1>2. row \in Membership /\ row.status = st
  BY <1>1, OidcAssumption DEF Membership
<1>3. members' = [members EXCEPT ![o] = [members[o] EXCEPT ![u] = row]]
  BY DEF WriteMembership
<1> HIDE DEF row
<1> QED BY <1>2, <1>3

\* The platform discards the codes of a membership it ends.
LEMMA PutMembershipKeeps ==
    ASSUME OidcInv, NEW o \in Orgs, NEW u \in Users, NEW st \in StatusArgs, NEW role \in RoleArgs, PutMembership(o, u, st, role)
    PROVE  OidcInv'
<1>1. /\ UNCHANGED <<users, principals, orgs, now, clients, passwords, cookies, tokens>>
      /\ WriteMembership(o, u, st, role)
      /\ requests' = (IF st = "active" THEN requests ELSE Miss(InsertsOfMember(o, u)))
      /\ codes' = IF st = "active" THEN codes ELSE CodesWithout(CodesOfMember(o, u))
  BY DEF PutMembership, PlatformPutMembership
<1>2. PICK row \in Membership : row.status = st /\ members' = [members EXCEPT ![o] = [members[o] EXCEPT ![u] = row]]
  BY <1>1, WrittenMembership
<1>3. CodesFade /\ (st = "active" \/ \A k \in Codes : codes'[k].state = "pending" => k \notin CodesOfMember(o, u))
  BY <1>1, CodesStay, WithoutFacts DEF OidcInv
<1>4. Marks({}) /\ (st = "active" \/ \A r \in InsertsOfMember(o, u) : requests'[r].missed)
  BY <1>1, MemberMissed
<1> QED BY <1>1, <1>2, <1>3, <1>4, MembershipKeeps

\* A manager leaves them, which is recorded in the code.
LEMMA PutMembershipAsManagerKeeps ==
    ASSUME OidcInv, NEW o \in Orgs, NEW actor \in Users, NEW u \in Users, NEW st \in StatusArgs, NEW role \in RoleArgs,
           PutMembershipAsManager(o, actor, u, st, role)
    PROVE  OidcInv'
<1> DEFINE marked(k) == st # "active" /\ Pending(k) /\ k \in CodesOfMember(o, u)
<1>1. /\ UNCHANGED <<users, principals, orgs, now, clients, passwords, cookies, tokens>>
      /\ WriteMembership(o, u, st, role)
      /\ requests' = (IF st = "active" THEN requests ELSE Miss(InsertsOfMember(o, u)))
      /\ codes' = [k \in Codes |-> IF marked(k) THEN [codes[k] EXCEPT !.kept = TRUE] ELSE codes[k]]
  BY DEF PutMembershipAsManager, ManagerPutMembership
<1>2. PICK row \in Membership : row.status = st /\ members' = [members EXCEPT ![o] = [members[o] EXCEPT ![u] = row]]
  BY <1>1, WrittenMembership
<1>3. ASSUME NEW k \in Codes
      PROVE  /\ codes'[k] \in CodeRow
             /\ codes'[k].state = codes[k].state /\ codes'[k].client = codes[k].client /\ codes'[k].user = codes[k].user
             /\ codes'[k].grant = codes[k].grant /\ codes'[k].overtaken = codes[k].overtaken
             /\ ~codes'[k].kept => ~codes[k].kept
             /\ marked(k) => codes'[k].kept
  <2>1. codes[k] \in CodeRow
    BY DEF OidcInv, OidcTypes
  <2>2. CASE marked(k)
    <3>1. codes'[k] = [codes[k] EXCEPT !.kept = TRUE]
      BY <1>1, <2>2
    <3> QED BY <2>1, <3>1 DEF CodeRow
  <2>3. CASE ~marked(k)
    <3>1. codes'[k] = codes[k]
      BY <1>1, <2>3
    <3> QED BY <2>1, <2>3, <3>1
  <2> QED BY <2>2, <2>3
<1>4. CodesFade
  <2>1. codes' = [k \in Codes |-> codes'[k]]
    BY <1>1
  <2>2. codes' \in [Codes -> CodeRow]
    BY <1>3, <2>1
  <2> QED BY <1>3, <2>2 DEF CodesFade
<1>5. st = "active" \/ \A k \in Codes : codes'[k].state = "pending" => k \notin CodesOfMember(o, u) \/ codes'[k].kept
  BY <1>3 DEF Pending
<1>6. Marks({}) /\ (st = "active" \/ \A r \in InsertsOfMember(o, u) : requests'[r].missed)
  BY <1>1, MemberMissed
<1> QED BY <1>1, <1>2, <1>4, <1>5, <1>6, MembershipKeeps

\* A membership becomes active.
LEMMA AcceptInvitationKeeps ==
    ASSUME OidcInv, NEW o \in Orgs, NEW u \in Users, AcceptInvitation(o, u)
    PROVE  OidcInv'
<1> DEFINE row == [members[o][u] EXCEPT !.status = "active"]
<1>1. /\ members' = [members EXCEPT ![o][u].status = "active"]
      /\ UNCHANGED <<users, principals, orgs, now, clients, passwords, cookies, codes, requests, tokens>>
  BY DEF AcceptInvitation, JoinOrganization, oidcVars
<1>2. members' = [members EXCEPT ![o] = [members[o] EXCEPT ![u] = row]]
  BY <1>1
<1>3. members[o][u] \in Membership /\ OidcTypes
  BY DEF OidcInv, OidcTypes, DirectoryTypeOK
<1>4. row \in Membership /\ row.status = "active"
  BY <1>3 DEF Membership, MemberStatuses
<1> HIDE DEF row
<1>5. CodesFade /\ Marks({})
  BY <1>1, <1>3, CodesStay DEF Marks
<1> QED BY <1>1, <1>2, <1>4, <1>5, MembershipKeeps

-----------------------------------------------------------------------------
(* A login, a consent and a token request end *)

\* The login still knows the password, or was overtaken.
LEMMA OpenBrowserSessionKeeps ==
    ASSUME OidcInv, NEW r \in Slots, NEW b \in Cookies, OpenBrowserSession(r, b)
    PROVE  OidcInv'
<1> DEFINE row == [state |-> "open", user |-> requests[r].user, password |-> requests[r].version,
                   expires |-> now + CookieLife, overtaken |-> requests[r].overtaken]
<1>1. /\ requests[r].step = "open" /\ cookies' = [cookies EXCEPT ![b] = row] /\ requests' = [requests EXCEPT ![r] = Idle]
      /\ UNCHANGED <<directoryVars, now, clients, passwords, codes, tokens>>
  BY DEF OpenBrowserSession
<1>2. OidcTypes /\ requests[r] \in RequestRow /\ GoodRequest(requests[r]) /\ now \in Nat
  BY DEF OidcInv, OidcTypes
<1>3. UNCHANGED <<users, principals, orgs, members>>
  BY <1>1 DEF directoryVars
<1>4. /\ requests[r].user \in Users
      /\ ~requests[r].overtaken => users[requests[r].user] = "active" /\ requests[r].version = passwords[requests[r].user]
  BY <1>1, <1>2 DEF GoodRequest, LoginIsGood
<1>5. now + CookieLife \in Nat /\ requests[r].version \in Nat /\ requests[r].overtaken \in BOOLEAN
  BY <1>2, OidcAssumption DEF RequestRow
<1>6. row \in CookieRow /\ row.user = requests[r].user /\ row.password = requests[r].version /\ row.overtaken = requests[r].overtaken
  BY <1>4, <1>5 DEF CookieRow
<1> HIDE DEF row
<1>7. cookies' \in [Cookies -> CookieRow] /\ cookies'[b] = row /\ \A d \in Cookies \ {b} : cookies'[d] = cookies[d]
  BY <1>1, <1>2, <1>6 DEF OidcTypes
<1>8. GoodRequest(Idle)'
  BY <1>1, <1>3, IdleIsGood, GoodFrame
<1>9. requests' \in [Slots -> RequestRow] /\ (\A s \in Slots : GoodRequest(requests[s])') /\ OneIssuer'
  BY <1>1, <1>3, <1>8, IdleIsGood, SlotFacts
<1>10. OidcTypes'
  BY <1>1, <1>2, <1>3, <1>7, <1>9 DEF OidcTypes, DirectoryTypeOK
<1>11. CodesAreTyped' /\ Redeemed'
  BY <1>1 DEF OidcInv, CodesAreTyped, Redeemed, Pending
<1>12. CodesMatchRegistration' /\ PendingCodesHaveTenant'
  BY <1>1, <1>3 DEF OidcInv, CodesMatchRegistration, PendingCodesHaveTenant, Pending, Allows
<1>13. CookiesAreTyped' /\ CookiesMatchAccount'
  BY <1>1, <1>3, <1>4, <1>6, <1>7 DEF OidcInv, CookiesAreTyped, CookiesMatchAccount
<1>14. InsertsHaveTenant'
  BY <1>1, <1>3, IdleIsGood, InsertsStay
<1> QED BY <1>9, <1>10, <1>11, <1>12, <1>13, <1>14 DEF OidcInv

\* The SELECT has tested the context again, so the new code has its tenant,
\* unless a change missed it.
LEMMA InsertCodeKeeps ==
    ASSUME OidcInv, NEW r \in Slots, NEW k \in Codes, InsertCode(r, k)
    PROVE  OidcInv'
<1> DEFINE row == [state |-> "pending", client |-> requests[r].client, user |-> requests[r].user,
                   grant |-> requests[r].grant, expires |-> now + CodeLife,
                   overtaken |-> requests[r].overtaken, kept |-> requests[r].missed]
<1>1. /\ requests[r].step = "commit" /\ users[requests[r].user] # "deleted" /\ codes[k].state = "unused"
      /\ codes' = [codes EXCEPT ![k] = row] /\ requests' = [requests EXCEPT ![r] = Idle]
      /\ UNCHANGED <<directoryVars, now, clients, passwords, cookies, tokens>>
  BY DEF InsertCode
<1>2. OidcTypes /\ requests[r] \in RequestRow /\ GoodRequest(requests[r]) /\ now \in Nat
  BY DEF OidcInv, OidcTypes
<1>3. UNCHANGED <<users, principals, orgs, members>>
  BY <1>1 DEF directoryVars
<1>4. /\ requests[r].user \in Users /\ requests[r].client \in Clients /\ requests[r].grant \in Grants
      /\ ~requests[r].overtaken => Allows(requests[r].client, requests[r].grant)
  BY <1>1, <1>2 DEF GoodRequest, ConsentIsGood
<1>5. now + CodeLife \in Nat /\ requests[r].overtaken \in BOOLEAN /\ requests[r].missed \in BOOLEAN
  BY <1>2, OidcAssumption DEF RequestRow
<1>6. row \in CodeRow /\ row.state = "pending" /\ row.user = requests[r].user /\ row.client = requests[r].client
      /\ row.grant = requests[r].grant /\ row.overtaken = requests[r].overtaken /\ row.kept = requests[r].missed
  BY <1>4, <1>5 DEF CodeRow
<1> HIDE DEF row
<1>7. codes' \in [Codes -> CodeRow] /\ codes'[k] = row /\ \A j \in Codes \ {k} : codes'[j] = codes[j]
  BY <1>1, <1>2, <1>6 DEF OidcTypes
<1>8. /\ requests' \in [Slots -> RequestRow] /\ requests'[r] = Idle
      /\ \A s \in Slots \ {r} : requests'[s] = requests[s]
  BY <1>1, <1>2, IdleIsGood DEF OidcTypes
<1>9. ASSUME NEW s \in Slots
      PROVE  GoodRequest(requests[s])'
  <2>1. PICK q : q = requests'[s] /\ GoodRequest(q)
    BY <1>8, IdleIsGood DEF OidcInv
  <2>2. q.step \in {"lookup", "consume", "issue"} => q.code # k /\ codes'[q.code] = codes[q.code]
    BY <1>1, <1>7, <2>1 DEF GoodRequest, ExchangeIsGood, IssueIsGood
  <2>3. LoginIsGood(q)' /\ ConsentIsGood(q)'
    BY <1>1, <1>3, <2>1 DEF GoodRequest, LoginIsGood, ConsentIsGood, Allows
  <2>4. ExchangeIsGood(q)' /\ IssueIsGood(q)'
    BY <1>1, <2>1, <2>2 DEF GoodRequest, ExchangeIsGood, IssueIsGood, Pending
  <2> QED BY <2>1, <2>3, <2>4 DEF GoodRequest
<1>10. OneIssuer'
  BY <1>8, IdleIsGood DEF OidcInv, OneIssuer
<1>11. OidcTypes'
  BY <1>1, <1>2, <1>3, <1>7, <1>8 DEF OidcTypes, DirectoryTypeOK
<1>12. CodesAreTyped' /\ Redeemed'
  BY <1>1, <1>4, <1>6, <1>7 DEF OidcInv, CodesAreTyped, Redeemed, Pending
<1>13. CodesMatchRegistration'
  BY <1>1, <1>4, <1>6, <1>7 DEF OidcInv, CodesMatchRegistration, Pending, Allows
<1>14. PendingCodesHaveTenant'
  <2>1. TenantIsGood(requests[r])
    BY DEF OidcInv, InsertsHaveTenant
  <2> QED BY <1>1, <1>3, <1>6, <1>7, <2>1 DEF OidcInv, PendingCodesHaveTenant, Pending, TenantIsGood
<1>15. CookiesAreTyped' /\ CookiesMatchAccount'
  BY <1>1, <1>3 DEF OidcInv, CookiesAreTyped, CookiesMatchAccount
<1>16. InsertsHaveTenant'
  BY <1>1, <1>3, IdleIsGood, InsertsStay
<1> QED BY <1>9, <1>10, <1>11, <1>12, <1>13, <1>14, <1>15, <1>16 DEF OidcInv

\* The statement marks a pending code only, so no other request has it.
LEMMA ConsumeCodeKeeps ==
    ASSUME OidcInv, NEW r \in Slots, ConsumeCode(r)
    PROVE  OidcInv'
<1>0. PICK k : k = requests[r].code
  OBVIOUS
<1> DEFINE row == [NoCode EXCEPT !.state = "consumed"]
           q == [requests[r] EXCEPT !.step = "issue"]
<1>1. /\ requests[r].step = "consume" /\ Pending(k)
      /\ codes' = [codes EXCEPT ![k] = row] /\ requests' = [requests EXCEPT ![r] = q]
      /\ UNCHANGED <<directoryVars, now, clients, passwords, cookies, tokens>>
  BY <1>0 DEF ConsumeCode
<1>2. OidcTypes /\ requests[r] \in RequestRow /\ GoodRequest(requests[r])
  BY DEF OidcInv, OidcTypes
<1>3. UNCHANGED <<users, principals, orgs, members>>
  BY <1>1 DEF directoryVars
<1>4. k \in Codes /\ requests[r].user \in Users /\ codes[k] \in CodeRow
  BY <1>0, <1>1, <1>2 DEF GoodRequest, ExchangeIsGood, OidcTypes
<1>5. row \in CodeRow /\ row.state = "consumed"
  BY DEF NoCode, CodeRow
<1>6. q \in RequestRow /\ q.step = "issue" /\ q.code = k /\ q.user = requests[r].user
  BY <1>0, <1>2 DEF RequestRow
<1> HIDE DEF row, q
<1>7. codes' \in [Codes -> CodeRow] /\ codes'[k] = row /\ \A j \in Codes \ {k} : codes'[j] = codes[j]
  BY <1>1, <1>2, <1>4, <1>5 DEF OidcTypes
<1>8. requests' \in [Slots -> RequestRow] /\ requests'[r] = q /\ \A s \in Slots \ {r} : requests'[s] = requests[s]
  BY <1>1, <1>2, <1>6 DEF OidcTypes
<1>9. tokens[k] = 0 /\ \A s \in Slots : requests[s].step = "issue" => requests[s].code # k
  <2>1. codes[k].state # "consumed"
    BY <1>1 DEF Pending
  <2> QED BY <1>4, <2>1 DEF OidcInv, Redeemed, GoodRequest, IssueIsGood
<1>10. ASSUME NEW s \in Slots
       PROVE  GoodRequest(requests[s])'
  <2>1. CASE s = r
    <3>1. PICK p : p = requests'[s] /\ p = q
      BY <1>8, <2>1
    <3>2. IssueIsGood(p)'
      BY <1>1, <1>4, <1>5, <1>6, <1>7, <1>9, <3>1 DEF IssueIsGood
    <3>3. LoginIsGood(p)' /\ ConsentIsGood(p)' /\ ExchangeIsGood(p)'
      BY <1>6, <3>1 DEF LoginIsGood, ConsentIsGood, ExchangeIsGood
    <3> QED BY <3>1, <3>2, <3>3 DEF GoodRequest
  <2>2. CASE s # r
    <3>1. PICK p : p = requests'[s] /\ p = requests[s] /\ GoodRequest(p)
      BY <1>8, <2>2 DEF OidcInv
    <3>2. LoginIsGood(p)' /\ ConsentIsGood(p)'
      BY <1>1, <1>3, <3>1 DEF GoodRequest, LoginIsGood, ConsentIsGood, Allows
    <3>3. ExchangeIsGood(p)'
      BY <1>1, <1>5, <1>7, <3>1 DEF GoodRequest, ExchangeIsGood, Pending
    <3>4. IssueIsGood(p)'
      BY <1>1, <1>5, <1>7, <3>1 DEF GoodRequest, IssueIsGood
    <3> QED BY <3>1, <3>2, <3>3, <3>4 DEF GoodRequest
  <2> QED BY <2>1, <2>2
<1>11. OneIssuer'
  BY <1>6, <1>8, <1>9 DEF OidcInv, OneIssuer
<1>12. OidcTypes'
  BY <1>1, <1>2, <1>3, <1>7, <1>8 DEF OidcTypes, DirectoryTypeOK
<1>13. CodesAreTyped' /\ Redeemed'
  BY <1>1, <1>5, <1>7 DEF OidcInv, CodesAreTyped, Redeemed, Pending
<1>14. CodesMatchRegistration' /\ PendingCodesHaveTenant'
  BY <1>1, <1>3, <1>5, <1>7 DEF OidcInv, CodesMatchRegistration, PendingCodesHaveTenant, Pending, Allows
<1>15. CookiesAreTyped' /\ CookiesMatchAccount'
  BY <1>1, <1>3 DEF OidcInv, CookiesAreTyped, CookiesMatchAccount
<1>16. InsertsHaveTenant'
  BY <1>1, <1>3, <1>6, InsertsStay
<1> QED BY <1>10, <1>11, <1>12, <1>13, <1>14, <1>15, <1>16 DEF OidcInv

\* The only request that holds the consumed code answers, once.
LEMMA IssueTokensKeeps ==
    ASSUME OidcInv, NEW r \in Slots, IssueTokens(r)
    PROVE  OidcInv'
<1>0. PICK k : k = requests[r].code
  OBVIOUS
<1>1. /\ requests[r].step = "issue" /\ tokens' = [tokens EXCEPT ![k] = tokens[k] + 1]
      /\ requests' = [requests EXCEPT ![r] = Idle]
      /\ UNCHANGED <<directoryVars, now, clients, passwords, cookies, codes>>
  BY <1>0 DEF IssueTokens
<1>2. OidcTypes /\ GoodRequest(requests[r])
  BY DEF OidcInv, OidcTypes
<1>3. UNCHANGED <<users, principals, orgs, members>>
  BY <1>1 DEF directoryVars
<1>4. k \in Codes /\ codes[k].state = "consumed" /\ tokens[k] = 0
  BY <1>0, <1>1, <1>2 DEF GoodRequest, IssueIsGood
<1>5. tokens' \in [Codes -> Nat] /\ tokens'[k] = 1 /\ \A j \in Codes \ {k} : tokens'[j] = tokens[j]
  BY <1>1, <1>2, <1>4 DEF OidcTypes
<1>6. requests' \in [Slots -> RequestRow] /\ requests'[r] = Idle /\ \A s \in Slots \ {r} : requests'[s] = requests[s]
  BY <1>1, <1>2, IdleIsGood DEF OidcTypes
<1>7. ASSUME NEW s \in Slots
      PROVE  GoodRequest(requests[s])'
  <2>1. PICK p : p = requests'[s] /\ GoodRequest(p) /\ (p.step = "issue" => p.code # k)
    BY <1>0, <1>1, <1>6, IdleIsGood DEF OidcInv, OneIssuer
  <2>2. LoginIsGood(p)' /\ ConsentIsGood(p)' /\ ExchangeIsGood(p)'
    BY <1>1, <1>3, <2>1 DEF GoodRequest, LoginIsGood, ConsentIsGood, ExchangeIsGood, Allows, Pending
  <2>3. IssueIsGood(p)'
    BY <1>1, <1>5, <2>1 DEF GoodRequest, IssueIsGood
  <2> QED BY <2>1, <2>2, <2>3 DEF GoodRequest
<1>8. OneIssuer'
  BY <1>6, IdleIsGood DEF OidcInv, OneIssuer
<1>9. OidcTypes'
  BY <1>1, <1>2, <1>3, <1>5, <1>6 DEF OidcTypes, DirectoryTypeOK
<1>10. CodesAreTyped' /\ Redeemed'
  BY <1>1, <1>4, <1>5 DEF OidcInv, CodesAreTyped, Redeemed, Pending
<1>11. CodesMatchRegistration' /\ PendingCodesHaveTenant'
  BY <1>1, <1>3 DEF OidcInv, CodesMatchRegistration, PendingCodesHaveTenant, Pending, Allows
<1>12. CookiesAreTyped' /\ CookiesMatchAccount'
  BY <1>1, <1>3 DEF OidcInv, CookiesAreTyped, CookiesMatchAccount
<1>13. InsertsHaveTenant'
  BY <1>1, <1>3, IdleIsGood, InsertsStay
<1> QED BY <1>7, <1>8, <1>9, <1>10, <1>11, <1>12, <1>13 DEF OidcInv

-----------------------------------------------------------------------------
(* The invariant holds *)

\* Every step keeps the invariant.
LEMMA OidcStep ==
    ASSUME OidcInv, [OidcNext]_<<directoryVars, oidcVars>>
    PROVE  OidcInv'
<1>1. CASE ClientNext
  <2>1. ASSUME NEW c \in Clients, NEW grants \in SUBSET Grants \ {{}},
               CreateClient(c, grants) \/ \E status \in {"active", "disabled"} : UpdateClient(c, status, grants)
        PROVE  OidcInv'
    BY <2>1, CreateClientKeeps, UpdateClientKeeps
  <2> QED BY <1>1, <2>1, RotateSecretKeeps, Zenon DEF ClientNext
<1>2. CASE RequestNext
  BY <1>2, StartLoginKeeps, StartConsentKeeps, StartTokenKeeps, OpenBrowserSessionKeeps, ValidateRequestKeeps, InsertCodeKeeps,
     CheckContextKeeps, SelectContextKeeps, LookUpCodeKeeps, ConsumeCodeKeeps, IssueTokensKeeps, EndRequestKeeps, Zenon DEF RequestNext
<1>3. CASE AccountNext
  BY <1>3, SetAccountActiveKeeps, ReplacePasswordKeeps, DeleteAccountKeeps, SynchronisePrincipalKeeps, Zenon DEF AccountNext
<1>4. CASE TenantNext
  BY <1>4, SetOrganizationStatusKeeps, PutMembershipKeeps, PutMembershipAsManagerKeeps, AcceptInvitationKeeps, Zenon DEF TenantNext
<1>5. CASE OidcTick \/ \E b \in Cookies : Logout(b)
  BY <1>5, QuietStepKeeps
<1>6. CASE UNCHANGED <<directoryVars, oidcVars>>
  <2>1. UNCHANGED <<users, principals, orgs, members, now, clients, passwords, cookies, codes, requests, tokens>>
    BY <1>6 DEF directoryVars, oidcVars
  <2>2. OidcTypes /\ OidcTypes' /\ DirectoryTypeOK' /\ now' \in Nat /\ clients' \in [Clients -> ClientRow] /\ passwords' \in [Users -> Nat]
    BY <2>1 DEF OidcInv, OidcTypes, DirectoryTypeOK
  <2>3. CodesFade /\ CookiesFade /\ AccountsAreCut({}) /\ ClientsAreCut({}) /\ Marks({}) /\ DeletedStay
    BY <2>1, <2>2, CodesStay, CookiesStay, AccountsStay, ClientsStay DEF Marks, DeletedStay
  <2>4. TenantsAreKept
    BY <2>1, <2>3, TenantsStay
  <2> QED BY <2>1, <2>2, <2>3, <2>4, TransactionKeeps
<1> QED BY <1>1, <1>2, <1>3, <1>4, <1>5, <1>6, Zenon DEF OidcNext

\* The invariant holds before the first client.
LEMMA OidcStart ==
    ASSUME OidcInit
    PROVE  OidcInv
<1>1. DirectoryTypeOK /\ now = 0
  BY DEF OidcInit, DirectoryInit, DirectoryTypeOK, UserStates, PrincipalStates, OrgStatuses, NoMembership, Membership, ManagementRoles
<1>2. clients \in [Clients -> ClientRow] /\ passwords \in [Users -> Nat] /\ tokens \in [Codes -> Nat] /\ (\A k \in Codes : tokens[k] = 0)
  BY DEF OidcInit, NoClient, ClientRow
<1>3. cookies \in [Cookies -> CookieRow] /\ \A b \in Cookies : cookies[b].state = "unused"
  BY DEF OidcInit, NoCookie, CookieRow
<1>4. codes \in [Codes -> CodeRow] /\ \A k \in Codes : codes[k].state = "unused"
  BY DEF OidcInit, NoCode, CodeRow
<1>5. requests \in [Slots -> RequestRow] /\ \A r \in Slots : requests[r] = Idle
  BY IdleIsGood DEF OidcInit
<1>6. OidcTypes
  BY <1>1, <1>2, <1>3, <1>4, <1>5 DEF OidcTypes
<1>7. (\A r \in Slots : GoodRequest(requests[r])) /\ OneIssuer
  BY <1>5, IdleIsGood DEF OneIssuer
<1>10. InsertsHaveTenant
  BY <1>5, IdleIsGood DEF InsertsHaveTenant, TenantIsGood
<1>8. Redeemed /\ CodesAreTyped /\ CodesMatchRegistration /\ PendingCodesHaveTenant
  BY <1>2, <1>4 DEF Redeemed, CodesAreTyped, CodesMatchRegistration, PendingCodesHaveTenant, Pending
<1>9. CookiesAreTyped /\ CookiesMatchAccount
  BY <1>3 DEF CookiesAreTyped, CookiesMatchAccount
<1> QED BY <1>6, <1>7, <1>8, <1>9, <1>10 DEF OidcInv

\* Hence it holds always.
LEMMA OidcInvariant == OidcSpec => []OidcInv
<1>1. OidcInit => OidcInv
  BY OidcStart
<1>2. OidcInv /\ [OidcNext]_<<directoryVars, oidcVars>> => OidcInv'
  BY OidcStep
<1> QED BY <1>1, <1>2, PTL DEF OidcSpec

\* A code is redeemed once, however many token requests present it and however
\* their statements interleave: consume_authorization_code_for_client marks a
\* pending row, and only the request that marked it answers.
THEOREM CodesAreSafe == OidcSpec => []CodeRedeemedOnce
<1>1. OidcInv => CodeRedeemedOnce
  BY DEF OidcInv, Redeemed, CodeRedeemedOnce
<1> QED BY <1>1, OidcInvariant, PTL

\* A pending code is for what its client may ask for: update_oidc_client_scoped
\* discards the codes of a client that is disabled or changes its registration,
\* and only a consent that the change overtook can insert another.
THEOREM RegistrationSafe == OidcSpec => []CodesMatchRegistration
<1>1. OidcInv => CodesMatchRegistration
  BY DEF OidcInv
<1> QED BY <1>1, OidcInvariant, PTL

\* A pending code of a tenant's client has an active member of an active
\* organization, unless a manager ended the membership or the change committed
\* between the SELECT and the commit of the INSERT: set_organization_status and
\* upsert_organization_membership delete the codes that are there, and
\* create_authorization_code selects the tenant again.
THEOREM TenantSafe == OidcSpec => []PendingCodesHaveTenant
<1>1. OidcInv => PendingCodesHaveTenant
  BY DEF OidcInv
<1> QED BY <1>1, OidcInvariant, PTL

\* A browser session belongs to an active account and its present password,
\* unless the change overtook the login.
THEOREM BrowserSessionsSafe == OidcSpec => []CookiesMatchAccount
<1>1. OidcInv => CookiesMatchAccount
  BY DEF OidcInv
<1> QED BY <1>1, OidcInvariant, PTL

-----------------------------------------------------------------------------
(* Only a request that proved the present secret redeems a code *)

\* A pending code is consumed by a request that has looked it up, and by nothing else.
LEMMA OnlyConsumption ==
    ASSUME OidcInv, [OidcNext]_<<directoryVars, oidcVars>>, NEW k \in Codes, Pending(k), codes'[k].state = "consumed"
    PROVE  \E r \in Slots : requests[r].step = "consume" /\ requests[r].code = k
<1> DEFINE Goal == \E r \in Slots : requests[r].step = "consume" /\ requests[r].code = k
<1>1. codes'[k].state # codes[k].state /\ ~UNCHANGED codes /\ OidcTypes
  BY DEF Pending, OidcInv
<1>2. \A ks : codes' # CodesWithout(ks)
  BY <1>1, WithoutFacts DEF CodesFade, Pending
<1>3. ~ClientNext
  <2>1. ASSUME NEW c, NEW grants, NEW status, CreateClient(c, grants) \/ UpdateClient(c, status, grants) \/ RotateSecret(c)
        PROVE  FALSE
    BY <1>1, <1>2, <2>1 DEF CreateClient, UpdateClient, RotateSecret
  <2> QED BY <2>1 DEF ClientNext
<1>4. ~AccountNext
  <2>1. ASSUME NEW u, NEW a, SetAccountActive(u, a) \/ ReplacePassword(u) \/ DeleteAccount(u) \/ SynchronisePrincipal(u)
        PROVE  FALSE
    BY <1>1, <1>2, <2>1 DEF SetAccountActive, ReplacePassword, DeleteAccount, SynchronisePrincipal, oidcVars
  <2> QED BY <2>1 DEF AccountNext
<1>5. ~TenantNext
  <2>1. ASSUME NEW o, NEW st, NEW u, NEW role,
               SetOrganizationStatus(o, st) \/ PutMembership(o, u, st, role) \/ AcceptInvitation(o, u)
        PROVE  FALSE
    BY <1>1, <1>2, <2>1 DEF SetOrganizationStatus, PutMembership, AcceptInvitation, oidcVars
  <2>2. ASSUME NEW o, NEW actor, NEW u, NEW st, NEW role, PutMembershipAsManager(o, actor, u, st, role)
        PROVE  FALSE
    <3>1. codes'[k] = codes[k] \/ codes'[k] = [codes[k] EXCEPT !.kept = TRUE]
      BY <2>2 DEF PutMembershipAsManager
    <3>2. codes[k] \in CodeRow
      BY <1>1 DEF OidcTypes
    <3> QED BY <1>1, <3>1, <3>2 DEF CodeRow
  <2> QED BY <2>1, <2>2 DEF TenantNext
<1>6. ~(OidcTick \/ \E b \in Cookies : Logout(b)) /\ ~UNCHANGED <<directoryVars, oidcVars>>
  BY <1>1 DEF OidcTick, Logout, oidcVars
<1>7. RequestNext
  BY <1>3, <1>4, <1>5, <1>6 DEF OidcNext
<1>8. ASSUME NEW r \in Slots, NEW c, NEW u, NEW b, NEW j \in Codes, NEW g,
             \/ StartLogin(r, c, u) \/ StartConsent(r, b, c) \/ StartToken(r, c, j) \/ OpenBrowserSession(r, b)
             \/ ValidateRequest(r, g) \/ CheckContext(r) \/ SelectContext(r) \/ LookUpCode(r) \/ IssueTokens(r) \/ EndRequest(r)
      PROVE  FALSE
  BY <1>1, <1>8 DEF StartLogin, StartConsent, StartToken, OpenBrowserSession, ValidateRequest, CheckContext, SelectContext, LookUpCode, IssueTokens, EndRequest
<1>9. ASSUME NEW r \in Slots, NEW j \in Codes, InsertCode(r, j)
      PROVE  FALSE
  <2>1. /\ codes[j].state = "unused"
        /\ codes' = [codes EXCEPT ![j] = [state |-> "pending", client |-> requests[r].client, user |-> requests[r].user,
                                          grant |-> requests[r].grant, expires |-> now + CodeLife,
                                          overtaken |-> requests[r].overtaken, kept |-> requests[r].missed]]
    BY <1>9 DEF InsertCode
  <2>2. j # k
    BY <2>1 DEF Pending
  <2>3. codes'[k] = codes[k]
    BY <1>1, <2>1, <2>2 DEF OidcTypes
  <2> QED BY <1>1, <2>3
<1>10. ASSUME NEW r \in Slots, ConsumeCode(r)
       PROVE  Goal
  <2>1. requests[r].step = "consume" /\ codes' = [codes EXCEPT ![requests[r].code] = [NoCode EXCEPT !.state = "consumed"]]
    BY <1>10 DEF ConsumeCode
  <2>2. requests[r].code = k
    BY <1>1, <2>1 DEF OidcTypes
  <2> QED BY <2>1, <2>2
<1> QED BY <1>7, <1>8, <1>9, <1>10, Zenon DEF RequestNext

\* No request that proved an old secret redeems a code: rotate_oidc_client_secret
\* discards the pending codes in its own transaction, so the code of a request
\* that read the old hash is gone when the request comes to consume it.
THEOREM SecretsAreSafe == OidcSpec => RedeemedWithCurrentSecret
<1>1. ASSUME OidcInv, [OidcNext]_<<directoryVars, oidcVars>>
      PROVE  [\A k \in Codes :
                 Pending(k) /\ codes'[k].state = "consumed" =>
                     \E r \in Slots :
                         /\ requests[r].step = "consume" /\ requests[r].code = k
                         /\ requests[r].client = codes[k].client
                         /\ requests[r].version = clients[codes[k].client].secret]_<<directoryVars, oidcVars>>
  <2> SUFFICES ASSUME NEW k \in Codes, Pending(k), codes'[k].state = "consumed"
               PROVE  \E r \in Slots :
                         /\ requests[r].step = "consume" /\ requests[r].code = k
                         /\ requests[r].client = codes[k].client
                         /\ requests[r].version = clients[codes[k].client].secret
    OBVIOUS
  <2>1. PICK r \in Slots : requests[r].step = "consume" /\ requests[r].code = k
    BY <1>1, OnlyConsumption
  <2>2. ExchangeIsGood(requests[r])
    BY <1>1 DEF OidcInv, GoodRequest
  <2> QED BY <2>1, <2>2 DEF ExchangeIsGood
<1> QED BY <1>1, OidcInvariant, PTL DEF OidcSpec, RedeemedWithCurrentSecret
=============================================================================
