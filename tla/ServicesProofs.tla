---------------------------- MODULE ServicesProofs ----------------------------
(***************************************************************************)
(* What users, tokens and API keys keep, for any number of users, names,   *)
(* passwords and keys, any life of tokens and any sequence of calls; what  *)
(* the gateway grants, to whom and how often; what the REST server keeps,  *)
(* for any routes, clients and starts; what the account of the clearing    *)
(* engine does with its money; how many orders the rate limiters let       *)
(* through; what positions, the fixed-point calculator and the funding     *)
(* loop compute, for integers of any width.                                *)
(***************************************************************************)
EXTENDS ApiGateway, RestServer, ClearingAccount, Admission, Positions, DeterministicCalculator,
        FundingRates, FiniteSetTheorems, SequenceTheorems, WellFoundedInduction, TLAPS
-----------------------------------------------------------------------------
(* AuthManager *)

\* Users are numbered below the next number, and none changes what it is made of.
UserType ==
    /\ time \in 0 .. MaxTime
    /\ next_user_id_ \in Nat \ {0, 1}
    /\ DOMAIN users_ \subseteq 1 .. next_user_id_ - 1
    /\ \A i \in DOMAIN users_ :
          /\ DOMAIN users_[i] = {"username", "email", "password", "roles"}
          /\ users_[i].password \in Passwords \cup {AdminPassword}

\* The indexes lead to users only, to each of them, and have as many entries as there
\* are users.
IndexOK ==
    /\ \A n \in DOMAIN username_to_id_ : username_to_id_[n] \in DOMAIN users_
    /\ \A n \in DOMAIN email_to_id_ : email_to_id_[n] \in DOMAIN users_
    /\ IndexesAgree
    /\ \A S \in {DOMAIN username_to_id_, DOMAIN email_to_id_, DOMAIN users_} : IsFiniteSet(S)

\* Each token was given out to the user it names, and lives from then on.
Issued ==
    \A t \in jwts :
        /\ t.user_id \in DOMAIN users_ /\ users_[t.user_id].username = t.username
        /\ \E r \in issued : r.token = t /\ r.at \in Nat /\ t.exp = r.at + TokenLife

\* Only an active key can be the last one verified.
KeysActive ==
    /\ DOMAIN api_keys_ \subseteq Keys
    /\ \A k \in DOMAIN api_keys_ :
          /\ DOMAIN api_keys_[k] = {"user_id", "is_active", "last_used_at"}
          /\ verified = k => api_keys_[k].is_active

AuthInv == UserType /\ IndexOK /\ Issued /\ KeysActive

LEMMA AuthInitial == AuthInit => AuthInv
<1> SUFFICES ASSUME AuthInit PROVE AuthInv
  OBVIOUS
<1>1. /\ DOMAIN users_ = {1} /\ DOMAIN username_to_id_ = {Admin} /\ DOMAIN email_to_id_ = {Admin}
      /\ users_[1].username = Admin /\ users_[1].email = Admin /\ users_[1].password = AdminPassword
      /\ DOMAIN users_[1] = {"username", "email", "password", "roles"}
      /\ username_to_id_[Admin] = 1 /\ email_to_id_[Admin] = 1
  BY DEF AuthInit
<1>2. /\ IsFiniteSet({1}) /\ IsFiniteSet({Admin})
      /\ Cardinality({1}) = 1 /\ Cardinality({Admin}) = 1
  BY FS_Singleton
<1>3. UserType
  BY <1>1, AuthAssumption DEF UserType, AuthInit
<1>4. IndexOK
  BY <1>1, <1>2 DEF IndexOK, IndexesAgree
<1>5. Issued /\ KeysActive
  BY DEF AuthInit, Issued, KeysActive
<1> QED BY <1>3, <1>4, <1>5 DEF AuthInv

\* A new user adds to each map one entry that was not there.
LEMMA RegisterStep ==
    ASSUME AuthInv, NEW name, NEW email, NEW password \in Passwords, Register(name, email, password)
    PROVE  AuthInv'
<1> DEFINE id == next_user_id_
           newcomer == [username |-> name, email |-> email, password |-> password, roles |-> {"user"}]
<1>1. UserType /\ IndexOK /\ Issued /\ KeysActive
  BY DEF AuthInv
<1>2. /\ users_' = Put(users_, id, newcomer)
      /\ username_to_id_' = Put(username_to_id_, name, id)
      /\ email_to_id_' = Put(email_to_id_, email, id)
      /\ next_user_id_' = id + 1
      /\ name \notin DOMAIN username_to_id_ /\ email \notin DOMAIN email_to_id_
      /\ UNCHANGED <<time, jwts, issued, api_keys_, verified>>
  BY DEF Register, Unused, tokenVars, keyVars
<1>3. id \notin DOMAIN users_ /\ id \in Nat \ {0, 1}
  BY <1>1 DEF UserType
<1>4. /\ newcomer.username = name /\ newcomer.email = email /\ newcomer.password = password
      /\ DOMAIN newcomer = {"username", "email", "password", "roles"}
  OBVIOUS
<1> HIDE DEF newcomer
<1>5. /\ DOMAIN users_' = DOMAIN users_ \cup {id} /\ users_'[id] = newcomer
      /\ \A i \in DOMAIN users_ : users_'[i] = users_[i]
  BY <1>2, <1>3 DEF Put
<1>6. /\ DOMAIN username_to_id_' = DOMAIN username_to_id_ \cup {name} /\ username_to_id_'[name] = id
      /\ \A n \in DOMAIN username_to_id_ : username_to_id_'[n] = username_to_id_[n]
  BY <1>2 DEF Put
<1>7. /\ DOMAIN email_to_id_' = DOMAIN email_to_id_ \cup {email} /\ email_to_id_'[email] = id
      /\ \A n \in DOMAIN email_to_id_ : email_to_id_'[n] = email_to_id_[n]
  BY <1>2 DEF Put
<1>8. UserType'
  <2>1. DOMAIN users_' \subseteq 1 .. next_user_id_' - 1 /\ next_user_id_' \in Nat \ {0, 1}
    BY <1>1, <1>2, <1>3, <1>5 DEF UserType
  <2>2. \A i \in DOMAIN users_' :
          /\ DOMAIN users_'[i] = {"username", "email", "password", "roles"}
          /\ users_'[i].password \in Passwords \cup {AdminPassword}
    BY <1>1, <1>4, <1>5 DEF UserType
  <2> QED BY <1>1, <1>2, <2>1, <2>2 DEF UserType
<1>9. IsFiniteSet(DOMAIN users_') /\ Cardinality(DOMAIN users_') = Cardinality(DOMAIN users_) + 1
  BY <1>1, <1>3, <1>5, FS_AddElement DEF IndexOK
<1>10. /\ IsFiniteSet(DOMAIN username_to_id_')
       /\ Cardinality(DOMAIN username_to_id_') = Cardinality(DOMAIN username_to_id_) + 1
  BY <1>1, <1>2, <1>6, FS_AddElement DEF IndexOK
<1>11. /\ IsFiniteSet(DOMAIN email_to_id_')
       /\ Cardinality(DOMAIN email_to_id_') = Cardinality(DOMAIN email_to_id_) + 1
  BY <1>1, <1>2, <1>7, FS_AddElement DEF IndexOK
<1>12. \A i \in DOMAIN users_' :
          /\ users_'[i].username \in DOMAIN username_to_id_' /\ username_to_id_'[users_'[i].username] = i
          /\ users_'[i].email \in DOMAIN email_to_id_' /\ email_to_id_'[users_'[i].email] = i
  BY <1>1, <1>4, <1>5, <1>6, <1>7 DEF IndexOK, IndexesAgree
<1>13. /\ \A n \in DOMAIN username_to_id_' : username_to_id_'[n] \in DOMAIN users_'
       /\ \A n \in DOMAIN email_to_id_' : email_to_id_'[n] \in DOMAIN users_'
  BY <1>1, <1>5, <1>6, <1>7 DEF IndexOK
<1>14. IndexOK'
  BY <1>1, <1>9, <1>10, <1>11, <1>12, <1>13 DEF IndexOK, IndexesAgree
<1>15. Issued'
  BY <1>1, <1>2, <1>5 DEF Issued
<1>16. KeysActive'
  BY <1>1, <1>2 DEF KeysActive
<1> QED BY <1>8, <1>14, <1>15, <1>16 DEF AuthInv

\* A login adds a token of a user that exists, whatever it was looked up by.
LEMMA LoginStep == ASSUME AuthInv, NEW name, NEW password, Login(name, password) PROVE AuthInv'
<1>1. UserType /\ IndexOK /\ Issued /\ KeysActive
  BY DEF AuthInv
<1>2. PICK user_id \in Resolve(name) :
        LET token == [user_id |-> user_id, username |-> users_[user_id].username, exp |-> time + TokenLife]
        IN  /\ jwts' = jwts \cup {token}
            /\ issued' = issued \cup {[token |-> token, at |-> time]}
            /\ UNCHANGED <<time, userVars, keyVars>>
  BY DEF Login
<1>3. user_id \in DOMAIN users_
  BY <1>1, <1>2 DEF Resolve, IndexOK
<1>4. /\ UNCHANGED <<time, users_, username_to_id_, email_to_id_, next_user_id_>>
      /\ UNCHANGED <<api_keys_, key_to_secret_, verified>>
  BY <1>2 DEF userVars, keyVars
<1>5. UserType' /\ IndexOK' /\ KeysActive'
  BY <1>1, <1>4 DEF UserType, IndexOK, IndexesAgree, KeysActive
<1>6. Issued'
  <2> DEFINE token == [user_id |-> user_id, username |-> users_[user_id].username, exp |-> time + TokenLife]
             record == [token |-> token, at |-> time]
  <2>1. /\ token.user_id = user_id /\ token.username = users_[user_id].username
        /\ token.exp = time + TokenLife
        /\ record.token = token /\ record.at = time /\ time \in Nat
    BY <1>1 DEF UserType
  <2>2. jwts' = jwts \cup {token} /\ issued' = issued \cup {record}
    BY <1>2
  <2> HIDE DEF token, record
  <2> QED BY <1>1, <1>3, <1>4, <2>1, <2>2 DEF Issued
<1> QED BY <1>5, <1>6 DEF AuthInv

\* A new password is all that changes.
LEMMA PasswordStep ==
    ASSUME AuthInv, NEW i \in DOMAIN users_, NEW old \in Passwords, NEW new \in Passwords,
           ChangePassword(i, old, new)
    PROVE  AuthInv'
<1>1. UserType /\ IndexOK /\ Issued /\ KeysActive
  BY DEF AuthInv
<1>2. /\ DOMAIN users_' = DOMAIN users_
      /\ \A j \in DOMAIN users_ :
            /\ DOMAIN users_'[j] = DOMAIN users_[j]
            /\ users_'[j].username = users_[j].username /\ users_'[j].email = users_[j].email
            /\ users_'[j].password \in Passwords \cup {AdminPassword}
  BY <1>1 DEF ChangePassword, UserType
<1>3. UNCHANGED <<time, username_to_id_, email_to_id_, next_user_id_, jwts, issued, api_keys_, verified>>
  BY DEF ChangePassword, tokenVars, keyVars
<1>4. UserType' /\ Issued'
  BY <1>1, <1>2, <1>3 DEF UserType, Issued
<1>5. IndexOK'
  BY <1>1, <1>2, <1>3 DEF IndexOK, IndexesAgree
<1>6. KeysActive'
  BY <1>1, <1>3 DEF KeysActive
<1> QED BY <1>4, <1>5, <1>6 DEF AuthInv

\* API keys and the clock touch neither users nor tokens.
LEMMA OthersStay ==
    ASSUME AuthInv, UNCHANGED <<userVars, tokenVars>>, time' \in 0 .. MaxTime, KeysActive'
    PROVE  AuthInv'
<1>1. UNCHANGED <<users_, username_to_id_, email_to_id_, next_user_id_, jwts, issued>>
  BY DEF userVars, tokenVars
<1>2. UserType' /\ Issued'
  BY <1>1 DEF AuthInv, UserType, Issued
<1>3. IndexOK'
  BY <1>1 DEF AuthInv, IndexOK, IndexesAgree
<1> QED BY <1>2, <1>3 DEF AuthInv

LEMMA KeyStep == ASSUME AuthInv, KeyNext PROVE AuthInv'
<1>1. KeysActive /\ time \in 0 .. MaxTime
  BY DEF AuthInv, UserType
<1>2. UNCHANGED <<userVars, tokenVars>> /\ time' = time
  BY DEF KeyNext, CreateAPIKey, VerifySignature, RevokeAPIKey
<1>3. ASSUME NEW i \in DOMAIN users_, NEW k \in Keys, CreateAPIKey(i, k) PROVE KeysActive'
  <2> DEFINE entry == [user_id |-> i, is_active |-> TRUE, last_used_at |-> 0]
  <2>1. entry.is_active /\ DOMAIN entry = {"user_id", "is_active", "last_used_at"}
    OBVIOUS
  <2>2. api_keys_' = Put(api_keys_, k, entry) /\ verified' = verified /\ k \notin DOMAIN api_keys_
    BY <1>3 DEF CreateAPIKey
  <2> HIDE DEF entry
  <2>3. /\ DOMAIN api_keys_' = DOMAIN api_keys_ \cup {k} /\ api_keys_'[k] = entry
        /\ \A j \in DOMAIN api_keys_ : api_keys_'[j] = api_keys_[j]
    BY <2>2 DEF Put
  <2> QED BY <1>1, <2>1, <2>2, <2>3 DEF KeysActive
<1>4. ASSUME NEW k \in Keys, NEW s \in Keys, VerifySignature(k, s) PROVE KeysActive'
  <2>1. /\ k \in DOMAIN api_keys_ /\ api_keys_[k].is_active
        /\ api_keys_' = [api_keys_ EXCEPT ![k].last_used_at = time]
        /\ verified' \in {k, Nothing}
    BY <1>4 DEF VerifySignature, Usable
  <2>2. /\ DOMAIN api_keys_' = DOMAIN api_keys_
        /\ \A j \in DOMAIN api_keys_ : /\ DOMAIN api_keys_'[j] = DOMAIN api_keys_[j]
                                       /\ api_keys_'[j].is_active = api_keys_[j].is_active
    BY <1>1, <2>1 DEF KeysActive
  <2> QED BY <1>1, <2>1, <2>2, AuthAssumption DEF KeysActive
<1>5. ASSUME NEW k \in Keys, RevokeAPIKey(k) PROVE KeysActive'
  <2>1. /\ k \in DOMAIN api_keys_
        /\ api_keys_' = [api_keys_ EXCEPT ![k].is_active = FALSE]
        /\ verified' = IF verified = k THEN Nothing ELSE verified
    BY <1>5 DEF RevokeAPIKey
  <2>2. /\ DOMAIN api_keys_' = DOMAIN api_keys_
        /\ \A j \in DOMAIN api_keys_ : /\ DOMAIN api_keys_'[j] = DOMAIN api_keys_[j]
                                       /\ j # k => api_keys_'[j] = api_keys_[j]
    BY <1>1, <2>1 DEF KeysActive
  <2>3. verified' # k /\ \A j \in Keys : verified' = j => verified = j
    BY <2>1, AuthAssumption
  <2> QED BY <1>1, <2>1, <2>2, <2>3 DEF KeysActive
<1> QED BY <1>1, <1>2, <1>3, <1>4, <1>5, OthersStay DEF KeyNext

LEMMA AuthStep == AuthInv /\ [UserNext \/ KeyNext]_authVars => AuthInv'
<1> SUFFICES ASSUME AuthInv, [UserNext \/ KeyNext]_authVars PROVE AuthInv'
  OBVIOUS
<1>1. CASE UNCHANGED authVars
  <2>1. UNCHANGED <<userVars, tokenVars>> /\ UNCHANGED <<time, api_keys_, verified>>
    BY <1>1 DEF authVars, keyVars
  <2> QED BY <2>1, OthersStay DEF AuthInv, UserType, KeysActive
<1>2. CASE KeyNext
  BY <1>2, KeyStep
<1>3. ASSUME NEW n \in Names, NEW e \in Emails, NEW p \in Passwords, Register(n, e, p) PROVE AuthInv'
  BY <1>3, RegisterStep
<1>4. ASSUME NEW n, NEW p \in Passwords, Login(n, p) PROVE AuthInv'
  BY <1>4, LoginStep
<1>5. ASSUME NEW i \in DOMAIN users_, NEW old \in Passwords, NEW new \in Passwords,
             ChangePassword(i, old, new)
      PROVE  AuthInv'
  BY <1>5, PasswordStep
<1>6. CASE PassTime
  <2>1. UNCHANGED <<userVars, tokenVars>> /\ UNCHANGED <<api_keys_, verified>> /\ time' \in 0 .. MaxTime
    BY <1>6, AuthAssumption DEF PassTime, keyVars, AuthInv, UserType
  <2> QED BY <2>1, OthersStay DEF AuthInv, KeysActive
<1> QED BY <1>1, <1>2, <1>3, <1>4, <1>5, <1>6 DEF UserNext

\* Whatever is registered, logged in, changed and revoked, in any order: every user is
\* found under both of its names and shares neither, a token that is accepted was given
\* to the user it names within its life, and a revoked key is accepted no more.
THEOREM AccountsSound == AuthSpec => []UsersSound
<1>1. ASSUME AuthInv PROVE UsersSound
  <2>1. AuthTypeOK
    <3>1. \A t \in jwts : t.user_id \in DOMAIN users_ /\ t.exp \in Nat
      BY <1>1, AuthAssumption DEF AuthInv, Issued
    <3> QED BY <1>1, <3>1 DEF AuthInv, UserType, KeysActive, AuthTypeOK
  <2>2. TokensTellUser
    <3> SUFFICES ASSUME NEW t \in jwts, VerifyToken(t)
                 PROVE  /\ users_[t.user_id].username = t.username
                        /\ \E r \in issued : r.token = t /\ time <= r.at + TokenLife
      BY DEF TokensTellUser
    <3>1. PICK r \in issued : r.token = t /\ r.at \in Nat /\ t.exp = r.at + TokenLife
      BY <1>1 DEF AuthInv, Issued
    <3>2. ~(t.exp < time) /\ time \in Nat /\ t.exp \in Nat
      BY <1>1, <3>1, AuthAssumption DEF VerifyToken, Expired, AuthInv, UserType
    <3> QED BY <1>1, <3>1, <3>2, AuthAssumption DEF AuthInv, Issued
  <2>3. RevokedStaysRevoked
    BY <1>1 DEF AuthInv, KeysActive, RevokedStaysRevoked, Usable
  <2> QED BY <1>1, <2>1, <2>2, <2>3 DEF UsersSound, AuthInv, IndexOK
<1> QED BY <1>1, AuthInitial, AuthStep, PTL DEF AuthSpec
-----------------------------------------------------------------------------
(* APIGateway *)

\* A set of numbers has a smallest one.
LEMMA MinIn ==
    ASSUME NEW S, S \subseteq Nat, S # {}
    PROVE  Min(S) \in S
<1>1. PICK x \in S : \A y \in S : ~(<<y, x>> \in OpToRel(<, Nat))
  BY NatLessThanWellFounded, WFMin
<1>2. ASSUME NEW y \in S PROVE x <= y
  <2>1. <<y, x>> \in Nat \X Nat /\ x \in Nat /\ y \in Nat
    OBVIOUS
  <2>2. ~(y < x)
    BY <1>1, <2>1 DEF OpToRel
  <2> QED BY <2>1, <2>2
<1> QED BY <1>2 DEF Min

\* Users are added and keep their roles, and tokens stay.
UsersStay ==
    /\ time \in Nat /\ time' \in Nat /\ time <= time' /\ jwts \subseteq jwts'
    /\ DOMAIN users_ \subseteq DOMAIN users_'
    /\ \A i \in DOMAIN users_ : users_'[i].roles = users_[i].roles

LEMMA UsersGrow ==
    ASSUME AuthInv, UserNext
    PROVE  UsersStay
<1>1. /\ time \in Nat /\ DOMAIN users_ \subseteq 1 .. next_user_id_ - 1 /\ next_user_id_ \in Nat \ {0, 1}
      /\ \A i \in DOMAIN users_ : DOMAIN users_[i] = {"username", "email", "password", "roles"}
  BY AuthAssumption DEF AuthInv, UserType
<1>2. ASSUME NEW n \in Names, NEW e \in Emails, NEW p \in Passwords, Register(n, e, p) PROVE UsersStay
  <2>1. PICK newcomer : users_' = Put(users_, next_user_id_, newcomer)
    BY <1>2 DEF Register
  <2>2. next_user_id_ \notin DOMAIN users_
    BY <1>1
  <2>3. /\ DOMAIN users_ \subseteq DOMAIN users_'
        /\ \A i \in DOMAIN users_ : users_'[i] = users_[i]
    BY <2>1, <2>2 DEF Put
  <2>4. UNCHANGED <<time, jwts>>
    BY <1>2 DEF Register, tokenVars
  <2> QED BY <1>1, <2>3, <2>4 DEF UsersStay
<1>3. ASSUME NEW n, NEW p \in Passwords, Login(n, p) PROVE UsersStay
  <2>1. UNCHANGED <<time, users_>> /\ jwts \subseteq jwts'
    BY <1>3 DEF Login, userVars
  <2> QED BY <1>1, <2>1 DEF UsersStay
<1>4. ASSUME NEW i \in DOMAIN users_, NEW old \in Passwords, NEW new \in Passwords,
             ChangePassword(i, old, new)
      PROVE  UsersStay
  <2>1. UNCHANGED <<time, jwts>> /\ users_' = [users_ EXCEPT ![i].password = new]
    BY <1>4 DEF ChangePassword, tokenVars
  <2>2. \A j \in DOMAIN users_ : j \in DOMAIN users_' /\ users_'[j].roles = users_[j].roles
    BY <1>1, <2>1
  <2> QED BY <1>1, <2>1, <2>2 DEF UsersStay
<1>5. CASE PassTime
  BY <1>1, <1>5 DEF PassTime, userVars, tokenVars, UsersStay
<1> QED BY <1>2, <1>3, <1>4, <1>5 DEF UserNext

\* What a request has, step by step.
RequestsOK ==
    \A c \in Callers :
        /\ DOMAIN request[c] = {"at", "token", "ip", "route", "user_id", "status"}
        /\ request[c].at \in {"idle", "authenticate", "authorize", "limit"}
        /\ request[c].at # "idle" => request[c].route \in DOMAIN Routes
        /\ request[c].route \in DOMAIN Routes \cup {0}
        /\ request[c].user_id \in DOMAIN users_ \cup {0}
        /\ request[c].status \in {0, 200, 401, 403, 404, 429}
        /\ request[c].at \in {"authorize", "limit"} /\ RouteOf(c).require_auth =>
              request[c].token \in jwts /\ request[c].user_id = request[c].token.user_id
        /\ request[c].at = "limit" /\ RouteOf(c).permissions # {} =>
              request[c].user_id \in DOMAIN users_ /\ "admin" \in users_[request[c].user_id].roles

\* What a second has let through is in the count, as long as the second lasts.
LimitsOK ==
    /\ \A k \in DOMAIN rate_limit_map_ :
          /\ rate_limit_map_[k].count \in Nat /\ rate_limit_map_[k].reset_time \in Nat
          /\ DOMAIN rate_limit_map_[k] = {"count", "reset_time"}
    /\ \A slot \in DOMAIN forwarded :
          /\ slot = <<slot[1], slot[2], slot[3]>> /\ slot[3] \in Nat /\ slot[3] <= time
          /\ forwarded[slot] \in Nat /\ forwarded[slot] <= Routes[slot[2]].rate_limit
          /\ slot[3] = time =>
                /\ slot[1] \in DOMAIN rate_limit_map_ /\ time < rate_limit_map_[slot[1]].reset_time
                /\ forwarded[slot] <= rate_limit_map_[slot[1]].count

GateInv == AuthInv /\ RequestsOK /\ LimitsOK /\ DOMAIN request = Callers

LEMMA GateInitial == AuthInit /\ GatewayInit => GateInv
<1> SUFFICES ASSUME AuthInit, GatewayInit PROVE GateInv
  OBVIOUS
<1>1. AuthInv
  BY AuthInitial
<1>2. DOMAIN request = Callers /\ \A c \in Callers : request[c] = NoRequest
  BY DEF GatewayInit
<1>3. /\ DOMAIN NoRequest = {"at", "token", "ip", "route", "user_id", "status"}
      /\ NoRequest.at = "idle" /\ NoRequest.route = 0 /\ NoRequest.user_id = 0 /\ NoRequest.status = 0
  BY DEF NoRequest
<1>4. RequestsOK
  BY <1>2, <1>3 DEF RequestsOK
<1>5. LimitsOK
  BY DEF GatewayInit, LimitsOK
<1> QED BY <1>1, <1>2, <1>4, <1>5 DEF GateInv

\* The users may move on under a request: what it has stays good.
LEMMA UsersUnderRequests ==
    ASSUME GateInv, UserNext, UNCHANGED gatewayVars
    PROVE  GateInv'
<1>1. AuthInv /\ RequestsOK /\ LimitsOK
  BY DEF GateInv
<1>2. AuthInv'
  BY <1>1, AuthStep
<1>3. UsersStay
  BY <1>1, UsersGrow
<1>4. UNCHANGED <<request, rate_limit_map_, forwarded>>
  BY DEF gatewayVars
<1>5. RequestsOK'
  <2> SUFFICES ASSUME NEW c \in Callers
               PROVE  /\ request[c].user_id \in DOMAIN users_' \cup {0}
                      /\ request[c].at \in {"authorize", "limit"} /\ RouteOf(c).require_auth =>
                           request[c].token \in jwts' /\ request[c].user_id = request[c].token.user_id
                      /\ request[c].at = "limit" /\ RouteOf(c).permissions # {} =>
                           request[c].user_id \in DOMAIN users_' /\ "admin" \in users_'[request[c].user_id].roles
    BY <1>1, <1>4 DEF RequestsOK, RouteOf
  <2> QED BY <1>1, <1>3 DEF RequestsOK, UsersStay
<1>6. LimitsOK'
  <2> SUFFICES ASSUME NEW slot \in DOMAIN forwarded
               PROVE  /\ slot[3] <= time'
                      /\ slot[3] = time' =>
                           /\ slot[1] \in DOMAIN rate_limit_map_ /\ time' < rate_limit_map_[slot[1]].reset_time
                           /\ forwarded[slot] <= rate_limit_map_[slot[1]].count
    BY <1>1, <1>4 DEF LimitsOK
  <2>1. slot[3] \in Nat /\ slot[3] <= time /\ time <= time' /\ time \in Nat /\ time' \in Nat
    BY <1>1, <1>3 DEF LimitsOK, UsersStay
  <2>2. slot[3] <= time' /\ (slot[3] = time' => time' = time)
    BY <2>1
  <2> QED BY <1>1, <2>2 DEF LimitsOK
<1> QED BY <1>2, <1>4, <1>5, <1>6 DEF GateInv

\* A record that a request may be.
RequestOK(r) ==
    /\ DOMAIN r = {"at", "token", "ip", "route", "user_id", "status"}
    /\ r.at \in {"idle", "authenticate", "authorize", "limit"}
    /\ r.at # "idle" => r.route \in DOMAIN Routes
    /\ r.route \in DOMAIN Routes \cup {0}
    /\ r.user_id \in DOMAIN users_ \cup {0}
    /\ r.status \in {0, 200, 401, 403, 404, 429}
    /\ r.at \in {"authorize", "limit"} /\ Routes[r.route].require_auth =>
          r.token \in jwts /\ r.user_id = r.token.user_id
    /\ r.at = "limit" /\ Routes[r.route].permissions # {} =>
          r.user_id \in DOMAIN users_ /\ "admin" \in users_[r.user_id].roles

\* One request moves, to a record of which the invariant holds.
LEMMA RequestMoves ==
    ASSUME GateInv, UNCHANGED authVars, LimitsOK', NEW c \in Callers, NEW r,
           request' = [request EXCEPT ![c] = r], RequestOK(r)
    PROVE  GateInv'
<1>1. AuthInv /\ RequestsOK /\ LimitsOK /\ DOMAIN request = Callers
  BY DEF GateInv
<1>2. UNCHANGED <<users_, jwts>>
  BY DEF authVars, userVars, tokenVars
<1>3. AuthInv'
  BY <1>1, AuthStep
<1>4. DOMAIN request' = Callers /\ request'[c] = r /\ \A d \in Callers \ {c} : request'[d] = request[d]
  BY <1>1
<1>5. RequestsOK'
  <2> SUFFICES ASSUME NEW d \in Callers PROVE RequestOK(request'[d])
    BY <1>2 DEF RequestsOK, RequestOK, RouteOf
  <2> QED BY <1>1, <1>4 DEF RequestsOK, RequestOK, RouteOf
<1> QED BY <1>3, <1>4, <1>5 DEF GateInv

LEMMA HandleKeeps ==
    ASSUME GateInv, NEW c \in Callers, NEW path, NEW token, NEW ip, HandleRequest(c, path, token, ip)
    PROVE  GateInv'
<1>1. DOMAIN NoRequest = {"at", "token", "ip", "route", "user_id", "status"}
      /\ NoRequest.at = "idle" /\ NoRequest.route = 0 /\ NoRequest.user_id = 0 /\ NoRequest.status = 0
  BY DEF NoRequest
<1>2. PICK found : found = MatchingRoutes(path)
  OBVIOUS
<1>3. PICK r : /\ request' = [request EXCEPT ![c] = r]
               /\ \/ r = [NoRequest EXCEPT !.status = 404]
                  \/ /\ found # {}
                     /\ r = [NoRequest EXCEPT !.at = "authenticate", !.token = token, !.ip = ip, !.route = Min(found)]
  BY <1>2 DEF HandleRequest
<1>4. UNCHANGED <<authVars, rate_limit_map_, forwarded>>
  BY DEF HandleRequest
<1>5. LimitsOK'
  BY <1>4 DEF GateInv, LimitsOK, authVars
<1>6. CASE r = [NoRequest EXCEPT !.status = 404]
  <2>1. DOMAIN r = {"at", "token", "ip", "route", "user_id", "status"} /\ r.at = "idle" /\ r.route = 0
        /\ r.user_id = 0 /\ r.status = 404
    BY <1>1, <1>6
  <2>2. RequestOK(r)
    BY <2>1 DEF RequestOK
  <2> QED BY <1>3, <1>4, <1>5, <2>2, RequestMoves
<1>7. CASE /\ found # {}
           /\ r = [NoRequest EXCEPT !.at = "authenticate", !.token = token, !.ip = ip, !.route = Min(found)]
  <2>1. found \subseteq DOMAIN Routes /\ found \subseteq Nat
    BY <1>2, RouteAssumption DEF MatchingRoutes
  <2>2. Min(found) \in DOMAIN Routes
    BY <1>7, <2>1, MinIn
  <2>3. DOMAIN r = {"at", "token", "ip", "route", "user_id", "status"} /\ r.at = "authenticate"
        /\ r.route = Min(found) /\ r.user_id = 0 /\ r.status = 0
    BY <1>1, <1>7
  <2>4. RequestOK(r)
    BY <2>2, <2>3 DEF RequestOK
  <2> QED BY <1>3, <1>4, <1>5, <2>4, RequestMoves
<1> QED BY <1>3, <1>6, <1>7

\* The answer ends the request.
LEMMA Responds ==
    ASSUME GateInv, UNCHANGED authVars, LimitsOK', NEW c \in Callers,
           NEW status \in {200, 401, 403, 404, 429}, Respond(c, status)
    PROVE  GateInv'
<1>1. PICK r : r = [NoRequest EXCEPT !.status = status]
  OBVIOUS
<1>2. DOMAIN r = {"at", "token", "ip", "route", "user_id", "status"} /\ r.at = "idle" /\ r.route = 0
      /\ r.user_id = 0 /\ r.status = status
  BY <1>1 DEF NoRequest
<1>3. request' = [request EXCEPT ![c] = r]
  BY <1>1 DEF Respond
<1>4. RequestOK(r)
  BY <1>2 DEF RequestOK
<1> QED BY <1>3, <1>4, RequestMoves

LEMMA AuthenticateKeeps ==
    ASSUME GateInv, NEW c \in Callers, Authenticate(c)
    PROVE  GateInv'
<1>1. AuthInv /\ RequestsOK /\ DOMAIN request = Callers
  BY DEF GateInv
<1>2. UNCHANGED <<authVars, rate_limit_map_, forwarded>> /\ request[c].at = "authenticate"
  BY DEF Authenticate
<1>3. LimitsOK'
  BY <1>2 DEF GateInv, LimitsOK, authVars
<1>4. /\ DOMAIN request[c] = {"at", "token", "ip", "route", "user_id", "status"}
      /\ request[c].route \in DOMAIN Routes /\ request[c].user_id \in DOMAIN users_ \cup {0}
      /\ request[c].status \in {0, 200, 401, 403, 404, 429}
  BY <1>1, <1>2 DEF RequestsOK
<1>5. CASE ~RouteOf(c).require_auth /\ Move(c, "authorize")
  <2>1. PICK r : r = [request[c] EXCEPT !.at = "authorize"]
    OBVIOUS
  <2>2. DOMAIN r = {"at", "token", "ip", "route", "user_id", "status"} /\ r.at = "authorize"
        /\ r.route = request[c].route /\ r.user_id = request[c].user_id /\ r.status = request[c].status
        /\ r.token = request[c].token
    BY <1>4, <2>1
  <2>3. request' = [request EXCEPT ![c] = r]
    BY <1>1, <1>5, <2>1 DEF Move
  <2>4. ~Routes[r.route].require_auth
    BY <1>5, <2>2 DEF RouteOf
  <2>5. RequestOK(r)
    BY <1>4, <2>2, <2>4 DEF RequestOK
  <2> QED BY <1>2, <1>3, <2>3, <2>5, RequestMoves
<1>6. CASE /\ VerifyToken(request[c].token)
           /\ request' = [request EXCEPT ![c].at = "authorize", ![c].user_id = request[c].token.user_id]
  <2>1. PICK r : r = [request[c] EXCEPT !.at = "authorize", !.user_id = request[c].token.user_id]
    OBVIOUS
  <2>2. DOMAIN r = {"at", "token", "ip", "route", "user_id", "status"} /\ r.at = "authorize"
        /\ r.route = request[c].route /\ r.user_id = request[c].token.user_id /\ r.status = request[c].status
        /\ r.token = request[c].token
    BY <1>4, <2>1
  <2>3. request' = [request EXCEPT ![c] = r]
    BY <1>1, <1>6, <2>1
  <2>4. r.token \in jwts /\ r.user_id = r.token.user_id /\ r.user_id \in DOMAIN users_
    BY <1>1, <1>6, <2>2 DEF VerifyToken, AuthInv, Issued
  <2>5. RequestOK(r)
    BY <1>4, <2>2, <2>4 DEF RequestOK
  <2> QED BY <1>2, <1>3, <2>3, <2>5, RequestMoves
<1>7. CASE Respond(c, 401)
  BY <1>2, <1>3, <1>7, Responds
<1> QED BY <1>5, <1>6, <1>7 DEF Authenticate

LEMMA AuthorizeKeeps ==
    ASSUME GateInv, NEW c \in Callers, Authorize(c)
    PROVE  GateInv'
<1>1. AuthInv /\ RequestsOK /\ DOMAIN request = Callers
  BY DEF GateInv
<1>2. UNCHANGED <<authVars, rate_limit_map_, forwarded>> /\ request[c].at = "authorize"
  BY DEF Authorize
<1>3. LimitsOK'
  BY <1>2 DEF GateInv, LimitsOK, authVars
<1>4. /\ DOMAIN request[c] = {"at", "token", "ip", "route", "user_id", "status"}
      /\ request[c].route \in DOMAIN Routes /\ request[c].user_id \in DOMAIN users_ \cup {0}
      /\ request[c].status \in {0, 200, 401, 403, 404, 429}
      /\ RouteOf(c).require_auth => request[c].token \in jwts /\ request[c].user_id = request[c].token.user_id
  BY <1>1, <1>2 DEF RequestsOK
<1>5. CASE Authorized(request[c].user_id, RouteOf(c).permissions) /\ Move(c, "limit")
  <2>1. PICK r : r = [request[c] EXCEPT !.at = "limit"]
    OBVIOUS
  <2>2. DOMAIN r = {"at", "token", "ip", "route", "user_id", "status"} /\ r.at = "limit"
        /\ r.route = request[c].route /\ r.user_id = request[c].user_id /\ r.status = request[c].status
        /\ r.token = request[c].token
    BY <1>4, <2>1
  <2>3. request' = [request EXCEPT ![c] = r]
    BY <1>1, <1>5, <2>1 DEF Move
  <2>4. Routes[r.route].require_auth => r.token \in jwts /\ r.user_id = r.token.user_id
    BY <1>4, <2>2 DEF RouteOf
  <2>5. Routes[r.route].permissions # {} => r.user_id \in DOMAIN users_ /\ "admin" \in users_[r.user_id].roles
    BY <1>5, <2>2 DEF RouteOf, Authorized, HasPermission
  <2>6. RequestOK(r)
    BY <1>4, <2>2, <2>4, <2>5 DEF RequestOK
  <2> QED BY <1>2, <1>3, <2>3, <2>6, RequestMoves
<1>6. CASE Respond(c, 403)
  BY <1>2, <1>3, <1>6, Responds
<1> QED BY <1>5, <1>6 DEF Authorize

\* The count of a fresh window starts at the first request, and each one in it is counted.
LEMMA ForwardKeeps ==
    ASSUME GateInv, NEW c \in Callers, request[c].at = "limit", NEW key, Forward(c, key), UNCHANGED authVars,
           RouteOf(c).rate_limit > 0, NEW entry, rate_limit_map_' = Put(rate_limit_map_, key, entry),
           DOMAIN entry = {"count", "reset_time"}, entry.count \in Nat, entry.reset_time \in Nat,
           \/ FreshWindow(key) /\ entry.count = 1 /\ entry.reset_time = time + 1
           \/ /\ ~FreshWindow(key) /\ rate_limit_map_[key].count < RouteOf(c).rate_limit
              /\ entry.count = rate_limit_map_[key].count + 1
              /\ entry.reset_time = rate_limit_map_[key].reset_time
    PROVE  LimitsOK'
<1>1. LimitsOK /\ RequestsOK /\ AuthInv
  BY DEF GateInv
<1>2. time \in Nat /\ time' = time
  BY <1>1, AuthAssumption DEF AuthInv, UserType, authVars
<1>3. PICK s : s = <<key, request[c].route, time>>
  OBVIOUS
<1>4. s = <<s[1], s[2], s[3]>> /\ s[1] = key /\ s[2] = request[c].route /\ s[3] = time
  BY <1>3
<1>5. forwarded' = Put(forwarded, s, IF s \in DOMAIN forwarded THEN forwarded[s] + 1 ELSE 1)
  BY <1>3 DEF Forward
<1>6. /\ DOMAIN forwarded' = DOMAIN forwarded \cup {s}
      /\ forwarded'[s] = IF s \in DOMAIN forwarded THEN forwarded[s] + 1 ELSE 1
      /\ \A o \in DOMAIN forwarded \ {s} : forwarded'[o] = forwarded[o]
  BY <1>5 DEF Put
<1>7. /\ DOMAIN rate_limit_map_' = DOMAIN rate_limit_map_ \cup {key}
      /\ rate_limit_map_'[key] = entry
      /\ \A k \in DOMAIN rate_limit_map_ \ {key} : rate_limit_map_'[k] = rate_limit_map_[k]
  BY DEF Put
<1>8. PICK limit : limit = RouteOf(c).rate_limit
  OBVIOUS
<1>9. limit \in Int /\ limit > 0 /\ Routes[s[2]].rate_limit = limit
  <2>1. request[c].route \in DOMAIN Routes
    BY <1>1 DEF RequestsOK
  <2> QED BY <1>4, <1>8, <2>1, RouteAssumption DEF RouteOf
<1>10. CASE FreshWindow(key) /\ entry.count = 1 /\ entry.reset_time = time + 1
  <2>1. \A o \in DOMAIN forwarded : o[1] = key => o[3] # time
    <3> SUFFICES ASSUME NEW o \in DOMAIN forwarded, o[1] = key, o[3] = time PROVE FALSE
      OBVIOUS
    <3>1. key \in DOMAIN rate_limit_map_ /\ time < rate_limit_map_[key].reset_time
          /\ rate_limit_map_[key].reset_time \in Nat
      BY <1>1 DEF LimitsOK
    <3>2. time >= rate_limit_map_[key].reset_time
      BY <1>10, <3>1 DEF FreshWindow
    <3> QED BY <1>2, <3>1, <3>2
  <2>2. s \notin DOMAIN forwarded /\ forwarded'[s] = 1
    BY <1>4, <1>6, <2>1
  <2>3. ASSUME NEW o \in DOMAIN forwarded, o # s
        PROVE  o[3] = time => o[1] # key
    BY <2>1, <2>3
  <2> QED BY <1>1, <1>2, <1>4, <1>6, <1>7, <1>9, <1>10, <2>1, <2>2 DEF LimitsOK
<1>11. CASE /\ ~FreshWindow(key) /\ rate_limit_map_[key].count < RouteOf(c).rate_limit
            /\ entry.count = rate_limit_map_[key].count + 1
            /\ entry.reset_time = rate_limit_map_[key].reset_time
  <2>1. PICK n, w : n = rate_limit_map_[key].count /\ w = rate_limit_map_[key].reset_time
    OBVIOUS
  <2>2. key \in DOMAIN rate_limit_map_ /\ n \in Nat /\ w \in Nat /\ time < w /\ n < limit
    BY <1>1, <1>2, <1>8, <1>11, <2>1 DEF FreshWindow, LimitsOK
  <2>3. entry.count = n + 1 /\ entry.reset_time = w
    BY <1>11, <2>1
  <2>4. \A o \in DOMAIN forwarded : o[1] = key /\ o[3] = time => forwarded[o] \in Nat /\ forwarded[o] <= n
    BY <1>1, <2>1 DEF LimitsOK
  <2>5. forwarded'[s] \in Nat /\ forwarded'[s] <= n + 1 /\ forwarded'[s] <= limit
    BY <1>4, <1>6, <1>9, <2>2, <2>4
  <2>6. ASSUME NEW o \in DOMAIN forwarded'
        PROVE  /\ o = <<o[1], o[2], o[3]>> /\ o[3] \in Nat /\ o[3] <= time
               /\ forwarded'[o] \in Nat /\ forwarded'[o] <= Routes[o[2]].rate_limit
               /\ o[3] = time =>
                     /\ o[1] \in DOMAIN rate_limit_map_' /\ time < rate_limit_map_'[o[1]].reset_time
                     /\ forwarded'[o] <= rate_limit_map_'[o[1]].count
    <3>1. CASE o = s
      <4>1. rate_limit_map_'[o[1]] = entry /\ o[1] \in DOMAIN rate_limit_map_'
        BY <1>4, <1>7, <3>1
      <4>2. time < rate_limit_map_'[o[1]].reset_time /\ forwarded'[o] <= rate_limit_map_'[o[1]].count
        BY <2>2, <2>3, <2>5, <3>1, <4>1
      <4> QED BY <1>2, <1>4, <1>9, <2>5, <3>1, <4>1, <4>2
    <3>2. CASE o # s
      <4>1. o \in DOMAIN forwarded /\ forwarded'[o] = forwarded[o]
        BY <1>6, <3>2
      <4>2. CASE o[1] = key
        <5>1. rate_limit_map_'[o[1]] = entry /\ o[1] \in DOMAIN rate_limit_map_'
          BY <1>7, <4>2
        <5>2. o[3] = time => forwarded[o] <= n + 1
          BY <2>2, <2>4, <4>1, <4>2
        <5> QED BY <1>1, <2>2, <2>3, <4>1, <5>1, <5>2 DEF LimitsOK
      <4>3. CASE o[1] # key
        BY <1>1, <1>7, <4>1, <4>3 DEF LimitsOK
      <4> QED BY <4>2, <4>3
    <3> QED BY <3>1, <3>2
  <2>7. ASSUME NEW k \in DOMAIN rate_limit_map_'
        PROVE  /\ rate_limit_map_'[k].count \in Nat /\ rate_limit_map_'[k].reset_time \in Nat
               /\ DOMAIN rate_limit_map_'[k] = {"count", "reset_time"}
    BY <1>1, <1>7 DEF LimitsOK
  <2> QED BY <1>2, <2>6, <2>7 DEF LimitsOK
<1> QED BY <1>10, <1>11

LEMMA LimitKeeps ==
    ASSUME GateInv, NEW c \in Callers, CheckRateLimit(c)
    PROVE  GateInv'
<1>1. LimitsOK /\ RequestsOK /\ AuthInv
  BY DEF GateInv
<1>2. UNCHANGED authVars /\ request[c].at = "limit" /\ time \in Nat
  BY <1>1, AuthAssumption DEF CheckRateLimit, AuthInv, UserType
<1>3. PICK key, limit : key = LimitKey(c) /\ limit = RouteOf(c).rate_limit
  OBVIOUS
<1>4. CASE \E status \in {200, 429} : Respond(c, status) /\ UNCHANGED <<rate_limit_map_, forwarded>>
  <2>1. LimitsOK'
    BY <1>1, <1>2, <1>4 DEF LimitsOK, authVars
  <2> QED BY <1>2, <1>4, <2>1, Responds
<1>5. CASE /\ limit > 0 /\ FreshWindow(key)
           /\ rate_limit_map_' = Put(rate_limit_map_, key, [count |-> 1, reset_time |-> time + 1])
           /\ Forward(c, key)
  <2>1. PICK entry : entry = [count |-> 1, reset_time |-> time + 1]
    OBVIOUS
  <2>2. DOMAIN entry = {"count", "reset_time"} /\ entry.count = 1 /\ entry.reset_time = time + 1
        /\ entry.count \in Nat /\ entry.reset_time \in Nat
    BY <1>2, <2>1
  <2>3. LimitsOK'
    BY <1>2, <1>3, <1>5, <2>1, <2>2, ForwardKeeps
  <2> QED BY <1>2, <1>5, <2>3, Responds DEF Forward
<1>6. CASE /\ limit > 0 /\ ~FreshWindow(key) /\ WithinLimit(key, limit)
           /\ rate_limit_map_' = [rate_limit_map_ EXCEPT ![key].count = @ + 1]
           /\ Forward(c, key)
  <2>1. PICK entry : entry = [rate_limit_map_[key] EXCEPT !.count = @ + 1]
    OBVIOUS
  <2>2. key \in DOMAIN rate_limit_map_ /\ DOMAIN rate_limit_map_[key] = {"count", "reset_time"}
        /\ rate_limit_map_[key].count \in Nat /\ rate_limit_map_[key].reset_time \in Nat
    BY <1>1, <1>6 DEF FreshWindow, LimitsOK
  <2>3. DOMAIN entry = {"count", "reset_time"} /\ entry.count = rate_limit_map_[key].count + 1
        /\ entry.reset_time = rate_limit_map_[key].reset_time
    BY <2>1, <2>2
  <2>4. rate_limit_map_' = Put(rate_limit_map_, key, entry)
    BY <1>6, <2>1, <2>2 DEF Put
  <2>5. LimitsOK'
    <3>1. entry.count \in Nat /\ entry.reset_time \in Nat
      BY <2>2, <2>3
    <3>2. rate_limit_map_[key].count < RouteOf(c).rate_limit /\ RouteOf(c).rate_limit > 0
      BY <1>3, <1>6 DEF WithinLimit
    <3> QED BY <1>2, <1>6, <2>3, <2>4, <3>1, <3>2, ForwardKeeps
  <2> QED BY <1>2, <1>6, <2>5, Responds DEF Forward
<1> QED BY <1>3, <1>4, <1>5, <1>6 DEF CheckRateLimit

\* Any number of threads in handleRequest, with users and passwords changing under
\* them: in no second does a route let a user or an address through more often than its
\* limit, and what passes the checks has a token of this program where one is asked for,
\* and is an administrator's where permissions are.
THEOREM RequestsEntitled == GatewaySpec => []GatewaySound
<1>1. GateInv => GatewaySound
  <2> SUFFICES ASSUME GateInv PROVE GatewaySound
    OBVIOUS
  <2>1. RequestsOK /\ LimitsOK
    BY DEF GateInv
  <2>2. GatewayTypeOK
    BY <2>1 DEF RequestsOK, GatewayTypeOK
  <2>3. RouteLimitKept
    BY <2>1 DEF LimitsOK, RouteLimitKept
  <2>4. ForwardedIsEntitled
    BY <2>1 DEF RequestsOK, ForwardedIsEntitled
  <2> QED BY <2>2, <2>3, <2>4 DEF GatewaySound
<1>2. GateInv /\ [GatewayNext \/ (UserNext /\ UNCHANGED gatewayVars)]_<<authVars, gatewayVars>> => GateInv'
  <2> SUFFICES ASSUME GateInv, [GatewayNext \/ (UserNext /\ UNCHANGED gatewayVars)]_<<authVars, gatewayVars>>
               PROVE  GateInv'
    OBVIOUS
  <2>1. CASE UNCHANGED <<authVars, gatewayVars>>
    <3>1. AuthInv'
      BY <2>1, AuthStep DEF GateInv
    <3>2. UNCHANGED <<request, rate_limit_map_, forwarded, users_, jwts, time>>
      BY <2>1 DEF authVars, userVars, tokenVars, gatewayVars
    <3>3. RequestsOK'
      BY <3>2 DEF GateInv, RequestsOK, RouteOf
    <3>4. LimitsOK'
      BY <3>2 DEF GateInv, LimitsOK
    <3> QED BY <3>1, <3>2, <3>3, <3>4 DEF GateInv
  <2> QED BY <2>1, UsersUnderRequests, HandleKeeps, AuthenticateKeeps, AuthorizeKeeps, LimitKeeps DEF GatewayNext
<1> QED BY <1>1, <1>2, GateInitial, PTL DEF GatewaySpec
-----------------------------------------------------------------------------
(* RESTAPIServer *)

Places == {"out", "backlog", "read", "authenticate", "route", "200", "400", "401", "404", "dropped"}

\* Where connections may be; what they ask for and bring is not restricted.
ConnectionType ==
    /\ DOMAIN connection = Clients
    /\ \A c \in Clients : /\ DOMAIN connection[c] = {"at", "route", "token"}
                          /\ connection[c].at \in Places
                          /\ connection[c].token \in BOOLEAN

\* A stop in progress has cleared the flag: without this, a join could end with the
\* flag up and no thread behind it.
StopCleared == owner # "idle" => ~running_

\* No look-up changes what registerRoute wrote; who is past the check of a protected
\* route has brought a token.
Guarded ==
    /\ DOMAIN Registered \subseteq DOMAIN route_auth_required_
    /\ \A r \in DOMAIN Registered : route_auth_required_[r] = Registered[r]
    /\ \A c \in Clients :
          /\ At(c, "200") => connection[c].route \in DOMAIN Registered
          /\ (At(c, "route") \/ At(c, "200")) /\ connection[c].route \in DOMAIN Registered =>
                (Registered[connection[c].route] => connection[c].token)

ServerInv == RestTypeOK /\ OneAcceptor /\ StopCleared
HandlerInv == ConnectionType /\ Guarded
RestInv == ServerInv /\ HandlerInv

LEMMA RestInitial == RestInit => RestInv
<1> SUFFICES ASSUME RestInit PROVE RestInv
  OBVIOUS
<1>1. ConnectionType
  BY DEF RestInit, ConnectionType, Places
<1>2. ServerInv
  <2>1. running_ \in BOOLEAN /\ OneAcceptor /\ StopCleared
    BY Zenon DEF RestInit, OneAcceptor, StopCleared
  <2>2. /\ socket \in {"none", "listening", "closed"} /\ starts \in 0 .. MaxStarts
        /\ acceptor \in {"none", "check", "enter", "blocked", "exited"}
        /\ owner \in {"idle", "close", "join"}
    BY RestAssumption DEF RestInit
  <2>3. \A c \in Clients : connection[c].at \in Places
    BY DEF RestInit, Places
  <2> QED BY <2>1, <2>2, <2>3 DEF ServerInv, RestTypeOK, Places
<1>3. Guarded
  BY DEF RestInit, Guarded, At
<1> QED BY <1>1, <1>2, <1>3 DEF RestInv, HandlerInv

\* A step that leaves owner, flag and acceptor alone keeps them sound.
LEMMA ServerStays ==
    ASSUME ServerInv, UNCHANGED serverVars, ConnectionType'
    PROVE  ServerInv'
<1>1. UNCHANGED running_ /\ UNCHANGED socket /\ UNCHANGED acceptor /\ UNCHANGED owner /\ UNCHANGED starts
  BY DEF serverVars
<1>2. OneAcceptor' /\ StopCleared'
  BY <1>1 DEF ServerInv, OneAcceptor, StopCleared
<1>3. \A c \in Clients : connection'[c].at \in Places
  BY DEF ConnectionType
<1>4. RestTypeOK'
  BY <1>1, <1>3 DEF ServerInv, RestTypeOK, Places
<1> QED BY <1>2, <1>4 DEF ServerInv

\* A step that leaves connections and table alone keeps them sound.
LEMMA HandlersStay == ASSUME HandlerInv, UNCHANGED handlerVars PROVE HandlerInv'
  BY DEF HandlerInv, handlerVars, ConnectionType, Guarded, At

\* A connection that moves to another place moves alone.
LEMMA Moved ==
    ASSUME ConnectionType, NEW c \in Clients, NEW place \in Places, Send(c, place)
    PROVE  /\ ConnectionType'
           /\ connection'[c].at = place
           /\ connection'[c].route = connection[c].route
           /\ connection'[c].token = connection[c].token
           /\ \A d \in Clients \ {c} : connection'[d] = connection[d]
  BY DEF ConnectionType, Send

\* Connections that are not let in by the move stay guarded.
LEMMA GuardStays ==
    ASSUME HandlerInv, NEW c \in Clients, NEW place \in Places, Send(c, place),
           UNCHANGED route_auth_required_,
           place = "route" => FALSE,
           place = "200" => At(c, "route") /\ connection[c].route \in DOMAIN Registered
    PROVE  HandlerInv'
<1>1. ConnectionType
  BY DEF HandlerInv
<1>2. Guarded'
  BY <1>1, Moved DEF HandlerInv, Guarded, At
<1> QED BY <1>1, <1>2, Moved DEF HandlerInv

\* The owner's steps and the acceptor's checks: starts, stops and joins.
LEMMA OwnerStep ==
    ASSUME ServerInv, HandlerInv,
           Start \/ Stop \/ CloseSocket \/ Join \/ CheckRunning \/ EnterAccept
    PROVE  ServerInv' /\ HandlerInv'
<1>1. UNCHANGED handlerVars
  BY DEF Start, Stop, CloseSocket, Join, CheckRunning, EnterAccept
<1>2. HandlerInv'
  BY <1>1, HandlersStay
<1>3. \A c \in Clients : connection'[c].at = connection[c].at
  BY <1>1 DEF handlerVars
<1>4. ServerInv'
  <2> USE <1>3, RestAssumption DEF ServerInv, RestTypeOK, OneAcceptor, StopCleared
  <2>1. CASE Start
    BY <2>1 DEF Start
  <2>2. CASE Stop
    BY <2>2 DEF Stop, Stopped
  <2>3. CASE CloseSocket
    BY <2>3 DEF CloseSocket
  <2>4. CASE Join
    BY <2>4 DEF Join
  <2>5. CASE CheckRunning
    BY <2>5 DEF CheckRunning
  <2>6. CASE EnterAccept
    BY <2>6 DEF EnterAccept
  <2> QED BY <2>1, <2>2, <2>3, <2>4, <2>5, <2>6
<1> QED BY <1>2, <1>4

LEMMA AcceptStep == ASSUME RestInv, NEW c \in Clients, Accept(c) PROVE RestInv'
<1>1. HandlerInv'
  BY GuardStays DEF RestInv, Accept, Places
<1>2. ServerInv'
  BY <1>1 DEF Accept, RestInv, ServerInv, HandlerInv, ConnectionType, Places, RestTypeOK,
     OneAcceptor, StopCleared
<1> QED BY <1>1, <1>2 DEF RestInv

\* A client connects: nobody else moves.
LEMMA ConnectStep ==
    ASSUME RestInv, NEW c \in Clients, NEW r \in Asked, NEW token \in BOOLEAN, Connect(c, r, token)
    PROVE  RestInv'
<1>1. ConnectionType'
  BY DEF RestInv, HandlerInv, ConnectionType, Connect, Places
<1>2. Guarded'
  BY DEF RestInv, HandlerInv, ConnectionType, Guarded, Connect, At
<1>3. ServerInv'
  BY <1>1, ServerStays DEF RestInv, Connect
<1> QED BY <1>1, <1>2, <1>3 DEF RestInv, HandlerInv

\* The check of a connection: the table keeps what was registered, and only a client
\* with a token gets past a protected route.
LEMMA CheckStep ==
    ASSUME RestInv, NEW c \in Clients, AuthenticateRequest(c)
    PROVE  RestInv'
<1> DEFINE route == connection[c].route
           place == IF route_auth_required_'[route] /\ ~connection[c].token THEN "401" ELSE "route"
<1>1. ConnectionType /\ Guarded
  BY DEF RestInv, HandlerInv
<1>2. /\ DOMAIN Registered \subseteq DOMAIN route_auth_required_'
      /\ \A r \in DOMAIN Registered : route_auth_required_'[r] = Registered[r]
  BY <1>1 DEF AuthenticateRequest, LookedUp, Guarded
<1>3. place \in Places /\ Send(c, place)
  BY DEF AuthenticateRequest, Places
<1>4. place = "route" /\ route \in DOMAIN Registered => (Registered[route] => connection[c].token)
  BY <1>2
<1>5. place # "200"
  OBVIOUS
<1> HIDE DEF place
<1>6. ConnectionType'
  BY <1>1, <1>3, Moved
<1>7. Guarded'
  BY <1>1, <1>2, <1>3, <1>4, <1>5, Moved DEF Guarded, At
<1>8. ServerInv'
  BY <1>6, ServerStays DEF RestInv, AuthenticateRequest
<1> QED BY <1>6, <1>7, <1>8 DEF RestInv, HandlerInv

\* The other steps of a connection.
LEMMA HandleStep ==
    ASSUME RestInv, NEW c \in Clients, Handle(c)
    PROVE  RestInv'
<1>1. CASE AuthenticateRequest(c)
  BY <1>1, CheckStep
<1>2. ASSUME NEW place \in Places \ {"200", "route"}, Send(c, place), UNCHANGED <<serverVars, route_auth_required_>>
      PROVE  RestInv'
  <2>1. HandlerInv'
    BY <1>2, GuardStays DEF RestInv
  <2> QED BY <1>2, <2>1, ServerStays DEF RestInv, HandlerInv
<1>3. CASE ReadRequest(c)
  BY <1>2, <1>3 DEF ReadRequest, Places
<1>4. CASE Reset(c)
  BY <1>2, <1>4 DEF Reset, Places
<1>5. CASE Dispatch(c)
  <2>1. CASE connection[c].route \in DOMAIN Registered
    <3>1. Send(c, "200") /\ At(c, "route") /\ UNCHANGED <<serverVars, route_auth_required_>>
      BY <1>5, <2>1 DEF Dispatch
    <3>2. HandlerInv'
      BY <2>1, <3>1, GuardStays DEF RestInv, Places
    <3> QED BY <3>1, <3>2, ServerStays DEF RestInv, HandlerInv
  <2>2. CASE connection[c].route \notin DOMAIN Registered
    BY <1>2, <1>5, <2>2 DEF Dispatch, Places
  <2> QED BY <2>1, <2>2
<1> QED BY <1>1, <1>3, <1>4, <1>5 DEF Handle

LEMMA RestStep == RestInv /\ [RestNext]_restVars => RestInv'
<1> SUFFICES ASSUME RestInv, [RestNext]_restVars PROVE RestInv'
  OBVIOUS
<1>1. CASE UNCHANGED restVars
  <2>1. HandlerInv'
    BY <1>1, HandlersStay DEF RestInv, restVars
  <2> QED BY <1>1, <2>1, ServerStays DEF RestInv, HandlerInv, restVars
<1>2. CASE Start \/ Stop \/ CloseSocket \/ Join \/ CheckRunning \/ EnterAccept
  BY <1>2, OwnerStep DEF RestInv
<1>3. ASSUME NEW c \in Clients, Accept(c) PROVE RestInv'
  BY <1>3, AcceptStep
<1>4. ASSUME NEW c \in Clients, NEW r \in Asked, NEW token \in BOOLEAN, Connect(c, r, token)
      PROVE  RestInv'
  BY <1>4, ConnectStep
<1>5. ASSUME NEW c \in Clients, Handle(c) PROVE RestInv'
  BY <1>5, HandleStep
<1> QED BY <1>1, <1>2, <1>3, <1>4, <1>5 DEF RestNext, AcceptorStep

\* However often the server is started and stopped and whatever paths are asked for,
\* one thread accepts while it runs and none after a stop, and nobody without a token
\* is served a protected route.
THEOREM ServerSound == RestSpec => []RestSound
<1>1. RestInv => RestSound
  BY DEF RestInv, ServerInv, HandlerInv, Guarded, RestSound, ProtectionKept
<1> QED BY <1>1, RestInitial, RestStep, PTL DEF RestSpec
-----------------------------------------------------------------------------
(* ClearingAccount *)

\* What every call keeps: the balances explain one another, and margin and frozen
\* funds are not negative.
LedgerInv == LedgerTypeOK /\ FundsExplained

\* The margin a call leaves is a natural number, and the ratio a fraction.
LEMMA MarginNatural ==
    ASSUME NEW margin \in Int, NEW funds \in Int
    PROVE  /\ NotNegative(margin) \in Nat
           /\ MarginRatio(NotNegative(margin), funds) \in Nat \X (Nat \ {0})
  BY DEF NotNegative, MarginRatio

LEMMA LedgerInitial == LedgerInit => LedgerInv
<1> SUFFICES ASSUME LedgerInit PROVE LedgerInv
  OBVIOUS
<1>1. margin_ratio \in Nat \X (Nat \ {0})
  BY DEF LedgerInit
<1>2. opened \in BOOLEAN /\ fees_skipped \in BOOLEAN
  BY Zenon DEF LedgerInit
<1>3. /\ {balance, available_balance, realized_pnl, unrealized_pnl} \subseteq Int
      /\ frozen_balance \in Nat /\ total_margin \in Nat
  BY DEF LedgerInit
<1>4. available_balance = balance - frozen_balance + unrealized_pnl
  BY DEF LedgerInit
<1> QED BY <1>1, <1>2, <1>3, <1>4 DEF LedgerInv, LedgerTypeOK, FundsExplained

\* One call at a time keeps it.
LEMMA LedgerStep == LedgerInv /\ [LedgerNext]_ledgerVars => LedgerInv'
<1> SUFFICES ASSUME LedgerInv, [LedgerNext]_ledgerVars PROVE LedgerInv'
  OBVIOUS
<1> USE FundsAssumption DEF LedgerInv, LedgerTypeOK, FundsExplained, fundVars, pnlVars, marginVars
<1>1. CASE UNCHANGED ledgerVars
  BY <1>1 DEF ledgerVars
<1>2. CASE GetAccount
  BY <1>2 DEF GetAccount
<1>3. ASSUME NEW a \in Amounts, Deposit(a) PROVE LedgerInv'
  BY <1>3 DEF Deposit
<1>4. ASSUME NEW a \in Amounts, Withdraw(a) PROVE LedgerInv'
  BY <1>4 DEF Withdraw
<1>5. ASSUME NEW a \in Amounts, FreezeFunds(a) PROVE LedgerInv'
  BY <1>5 DEF FreezeFunds, CanTake
<1>6. ASSUME NEW a \in Amounts, UnfreezeFunds(a) PROVE LedgerInv'
  BY <1>6 DEF UnfreezeFunds
<1>7. ASSUME NEW a \in Amounts, UpdateUnrealizedPnl(a) PROVE LedgerInv'
  BY <1>7 DEF UpdateUnrealizedPnl, UnrealizedDiff
<1>8. ASSUME NEW a \in Amounts, UpdateMargin(a) PROVE LedgerInv'
  <2>1. /\ total_margin' = NotNegative(total_margin + a)
        /\ margin_ratio' = MarginRatio(total_margin', balance)
        /\ total_margin + a \in Int /\ balance \in Int
    BY <1>8 DEF UpdateMargin
  <2>2. total_margin' \in Nat /\ margin_ratio' \in Nat \X (Nat \ {0})
    BY <2>1, MarginNatural
  <2> QED BY <1>8, <2>2 DEF UpdateMargin
<1>9. ASSUME NEW profit \in Amounts, NEW fee \in Amounts, NEW change \in Amounts,
             UpdateAfterTrade(profit, fee, change)
      PROVE  LedgerInv'
  <2> DEFINE taken == IF fee > 0 /\ available_balance + profit >= fee THEN fee ELSE 0
  <2>1. taken \in Int
    OBVIOUS
  <2>2. /\ balance' = balance + profit - taken
        /\ available_balance' = available_balance + profit - taken
        /\ total_margin' = NotNegative(total_margin + change)
        /\ margin_ratio' = MarginRatio(total_margin', balance')
        /\ realized_pnl' = realized_pnl + profit
        /\ opened' = TRUE /\ fees_skipped' \in BOOLEAN
        /\ UNCHANGED <<frozen_balance, unrealized_pnl>>
    BY <1>9 DEF UpdateAfterTrade
  <2> HIDE DEF taken
  <2>3. balance' \in Int /\ available_balance' = balance' - frozen_balance' + unrealized_pnl'
    BY <2>1, <2>2
  <2>4. total_margin' \in Nat /\ margin_ratio' \in Nat \X (Nat \ {0})
    BY <2>2, <2>3, MarginNatural
  <2> QED BY <2>1, <2>2, <2>3, <2>4
<1> QED BY <1>1, <1>2, <1>3, <1>4, <1>5, <1>6, <1>7, <1>8, <1>9 DEF LedgerNext

\* After any sequence of calls the balances of an account explain one another,
\* and nothing taken out of it, fees included, makes its available balance negative.
THEOREM MoneyIsExplained == LedgerSpec => MoneyExplained
<1> DEFINE Loss == realized_pnl' < realized_pnl \/ unrealized_pnl' < unrealized_pnl
           Covered == available_balance' < 0 /\ available_balance' < available_balance => Loss
<1>1. ASSUME LedgerInv, LedgerNext PROVE Covered
  <2> SUFFICES ASSUME available_balance' < 0, available_balance' < available_balance PROVE Loss
    OBVIOUS
  <2> USE <1>1, FundsAssumption DEF LedgerInv, LedgerTypeOK
  <2>1. CASE GetAccount
    BY <2>1 DEF GetAccount, fundVars
  <2>2. ASSUME NEW a \in Amounts,
               Deposit(a) \/ Withdraw(a) \/ FreezeFunds(a) \/ UnfreezeFunds(a) \/ UpdateMargin(a)
        PROVE  FALSE
    BY <2>2 DEF Deposit, Withdraw, FreezeFunds, UnfreezeFunds, UpdateMargin, CanTake, fundVars
  <2>3. ASSUME NEW a \in Amounts, UpdateUnrealizedPnl(a) PROVE Loss
    BY <2>3 DEF UpdateUnrealizedPnl, UnrealizedDiff
  <2>4. ASSUME NEW profit \in Amounts, NEW fee \in Amounts, NEW change \in Amounts,
               UpdateAfterTrade(profit, fee, change)
        PROVE  Loss
    BY <2>4 DEF UpdateAfterTrade
  <2> QED BY <2>1, <2>2, <2>3, <2>4 DEF LedgerNext
<1>2. LedgerInv /\ [LedgerNext]_ledgerVars => [Covered]_ledgerVars
  BY <1>1
<1>3. LedgerInv => LedgerTypeOK /\ FundsExplained
  BY DEF LedgerInv
<1> QED BY <1>2, <1>3, LedgerInitial, LedgerStep, PTL DEF LedgerSpec, MoneyExplained, OnlyLossesOverdraw
-----------------------------------------------------------------------------
(* RateLimiter and the way of an order through the production engines *)

LEMMA MinOfTwo ==
    ASSUME NEW a \in Int, NEW b \in Int
    PROVE  Min({a, b}) = IF a <= b THEN a ELSE b
<1>1. CASE a <= b
  BY <1>1 DEF Min
<1>2. CASE ~(a <= b)
  BY <1>2 DEF Min
<1> QED BY <1>1, <1>2

\* What whole milliseconds are.
LEMMA WholeParts ==
    ASSUME NEW a \in Nat, NEW p \in Nat \ {0}
    PROVE  a \div p \in Nat /\ p * (a \div p) <= a /\ a < p * (a \div p) + p
OBVIOUS

\* The more of a positive factor, the larger the product.
LEMMA ProductGrows ==
    ASSUME NEW p \in Nat, NEW x \in Nat, NEW y \in Nat, x <= y
    PROVE  p * x <= p * y /\ p * x \in Nat /\ p * y \in Nat
<1>1. y = x + (y - x) /\ y - x \in Nat
  OBVIOUS
<1>2. ASSUME NEW d \in Nat PROVE p * (x + d) = p * x + p * d /\ p * d \in Nat /\ p * x \in Nat
  OBVIOUS
<1> QED BY <1>1, <1>2

\* What truncation drops: two waits count at most what both together do.
LEMMA TimeAddsUp ==
    ASSUME NEW a \in Nat, NEW b \in Nat, a <= b, NEW p \in Nat \ {0}
    PROVE  (a \div p) + ((b - a) \div p) <= b \div p
<1>1. PICK x, y, z : x = a \div p /\ y = (b - a) \div p /\ z = b \div p
  OBVIOUS
<1>2. /\ x \in Nat /\ p * x <= a
      /\ y \in Nat /\ p * y <= b - a
      /\ z \in Nat /\ b < p * z + p
  BY <1>1, WholeParts
<1>3. ASSUME z + 1 <= x + y PROVE FALSE
  <2>1. p * (z + 1) <= p * (x + y)
    BY <1>2, <1>3, ProductGrows
  <2>2. p * (z + 1) = p * z + p /\ p * (x + y) = p * x + p * y /\ p * x \in Nat /\ p * y \in Nat /\ p * z \in Nat
    BY <1>2
  <2> QED BY <1>2, <2>1, <2>2
<1> QED BY <1>1, <1>2, <1>3

\* What a bucket holds and what it has granted, in terms of its last request.
BucketsOK ==
    /\ clock \in 0 .. MaxClock
    /\ tokens \in [Buckets -> Nat] /\ last_update \in [Buckets -> Nat] /\ granted \in [Buckets -> Nat]
    /\ \A b \in Buckets :
          /\ tokens[b] <= Burst(b) /\ last_update[b] <= clock
          /\ Token * granted[b] + tokens[b] <= Burst(b) + Rate(b) * (last_update[b] \div PerMs)
    /\ QuietRefills

\* The call in progress is received and not yet processed or counted as an error.
CallOK ==
    /\ version \in Versions
    /\ stage \in {"idle", "validate", "global", "user", "process"} /\ user \in Buckets
    /\ {orders_received, orders_rejected, orders_processed, reasons, logged} \subseteq Nat
    /\ orders_received + (IF version = "V2" THEN reasons ELSE 0)
          = orders_processed + orders_rejected + (IF stage = "idle" THEN 0 ELSE 1)

\* Only the call that a shutdown overtakes may be processed and not logged.
LoggedOK ==
    /\ writing \in BOOLEAN /\ shutting_down_ \in BOOLEAN /\ (writing <=> ~shutting_down_)
    /\ IF shutting_down_ /\ stage = "idle" THEN orders_processed - logged \in {0, 1} ELSE orders_processed = logged

AdmissionInv == BucketsOK /\ CallOK /\ LoggedOK

LEMMA AdmissionTypes ==
    /\ Token \in Nat \ {0} /\ PerMs \in Nat \ {0} /\ MaxClock \in Nat
    /\ \A b : Rate(b) \in Nat /\ Burst(b) \in Nat
BY LimitAssumption DEF Rate, Burst

LEMMA AdmissionInitial == AdmissionInit => AdmissionInv
<1> SUFFICES ASSUME AdmissionInit PROVE AdmissionInv
  OBVIOUS
<1>1. CallOK /\ LoggedOK
  <2>1. writing \in BOOLEAN /\ shutting_down_ \in BOOLEAN /\ writing /\ ~shutting_down_
    BY DEF AdmissionInit
  <2>2. orders_processed = logged
    BY DEF AdmissionInit
  <2>3. CallOK
    BY DEF AdmissionInit, CallOK, Buckets
  <2> QED BY <2>1, <2>2, <2>3 DEF LoggedOK
<1>2. BucketsOK
  <2>1. clock \in 0 .. MaxClock /\ QuietRefills
    BY AdmissionTypes DEF AdmissionInit, QuietRefills
  <2>2. /\ tokens \in [Buckets -> Nat] /\ last_update \in [Buckets -> Nat] /\ granted \in [Buckets -> Nat]
        /\ \A b \in Buckets : tokens[b] = Burst(b) /\ last_update[b] = 0 /\ granted[b] = 0
    BY AdmissionTypes DEF AdmissionInit
  <2>3. ASSUME NEW b \in Buckets
        PROVE  /\ tokens[b] <= Burst(b) /\ last_update[b] <= clock
               /\ Token * granted[b] + tokens[b] <= Burst(b) + Rate(b) * (last_update[b] \div PerMs)
    <3>1. 0 \div PerMs = 0
      BY AdmissionTypes, WholeParts
    <3> QED BY <2>2, <3>1, AdmissionTypes DEF AdmissionInit
  <2> QED BY <2>1, <2>2, <2>3 DEF BucketsOK
<1> QED BY <1>1, <1>2 DEF AdmissionInv

\* A request of a bucket.
LEMMA AllowKeeps ==
    ASSUME BucketsOK, NEW b \in Buckets, NEW allowed \in BOOLEAN, Allow(b, allowed), UNCHANGED clock
    PROVE  BucketsOK'
<1>1. PICK e \in {0, 1} : (allowed <=> e = 1)
  OBVIOUS
<1>2. PICK t, l, g, r, u, n, m, q :
        /\ t = tokens[b] /\ l = last_update[b] /\ g = granted[b] /\ r = Rate(b) /\ u = Burst(b)
        /\ n = clock /\ m = Elapsed(b) /\ q = Refilled(b)
  OBVIOUS
<1>3. /\ t \in Nat /\ l \in Nat /\ g \in Nat /\ r \in Nat /\ u \in Nat /\ n \in Nat /\ Token \in Nat \ {0}
      /\ PerMs \in Nat \ {0} /\ t <= u /\ l <= n /\ Token * g + t <= u + r * (l \div PerMs)
  BY <1>2, AdmissionTypes DEF BucketsOK
<1>4. m \in Nat /\ m = (n - l) \div PerMs
  BY <1>2, <1>3, WholeParts DEF Elapsed
<1>5. r * m \in Nat /\ r * m = m * r
  BY <1>3, <1>4
<1>6. q = IF u <= t + r * m THEN u ELSE t + r * m
  <2>1. q = Min({u, t + r * m})
    BY <1>2, <1>5 DEF Refilled
  <2> QED BY <1>3, <1>5, <2>1, MinOfTwo
<1>7. q \in Nat /\ q <= u /\ q <= t + r * m /\ (e = 1 <=> q >= Token)
  BY <1>1, <1>2, <1>3, <1>5, <1>6 DEF Allow
<1>8. /\ tokens' = [tokens EXCEPT ![b] = q - IF allowed THEN Token ELSE 0]
      /\ last_update' = [last_update EXCEPT ![b] = n]
      /\ granted' = [granted EXCEPT ![b] = g + IF allowed THEN 1 ELSE 0]
  BY <1>2 DEF Allow, Stamp
<1>9. /\ tokens \in [Buckets -> Nat] /\ last_update \in [Buckets -> Nat] /\ granted \in [Buckets -> Nat]
  BY DEF BucketsOK
<1>10. PICK t2, g2 : t2 = q - (IF allowed THEN Token ELSE 0) /\ g2 = g + IF allowed THEN 1 ELSE 0
  OBVIOUS
<1>11. t2 = q - e * Token /\ g2 = g + e
  BY <1>1, <1>3, <1>7, <1>10
<1>12. t2 \in Nat /\ g2 \in Nat /\ t2 <= u /\ Token * g2 + t2 = Token * g + q
  <2>1. CASE e = 0
    BY <1>3, <1>7, <1>11, <2>1
  <2>2. CASE e = 1
    <3>1. Token * (g + 1) = Token * g + Token
      BY <1>3
    <3> QED BY <1>3, <1>7, <1>11, <2>2, <3>1
  <2> QED BY <2>1, <2>2
<1>13. Token * g2 + t2 <= u + r * (n \div PerMs)
  <2>1. PICK x, z : x = l \div PerMs /\ z = n \div PerMs
    OBVIOUS
  <2>2. x \in Nat /\ z \in Nat /\ x + m <= z
    BY <1>3, <1>4, <2>1, WholeParts, TimeAddsUp
  <2>3. r * (x + m) <= r * z
    BY <1>3, <1>4, <2>2, ProductGrows
  <2>4. r * (x + m) = r * x + r * m /\ r * x \in Nat /\ r * z \in Nat /\ Token * g \in Nat
    BY <1>3, <1>4, <2>2
  <2>5. Token * g + t <= u + r * x
    BY <1>3, <2>1
  <2>6. Token * g + q <= u + r * z
    BY <1>3, <1>5, <1>7, <2>2, <2>3, <2>4, <2>5
  <2> QED BY <1>12, <2>1, <2>6
<1>14. /\ tokens' \in [Buckets -> Nat] /\ last_update' \in [Buckets -> Nat] /\ granted' \in [Buckets -> Nat]
       /\ tokens'[b] = t2 /\ last_update'[b] = n /\ granted'[b] = g2
       /\ \A o \in Buckets \ {b} :
            tokens'[o] = tokens[o] /\ last_update'[o] = last_update[o] /\ granted'[o] = granted[o]
  BY <1>3, <1>8, <1>9, <1>10, <1>12
<1>15. ASSUME NEW o \in Buckets
       PROVE  /\ tokens'[o] <= Burst(o) /\ last_update'[o] <= clock'
              /\ Token * granted'[o] + tokens'[o] <= Burst(o) + Rate(o) * (last_update'[o] \div PerMs)
  <2>1. CASE o = b
    BY <1>2, <1>3, <1>12, <1>13, <1>14, <2>1
  <2>2. CASE o # b
    BY <1>14, <2>2 DEF BucketsOK
  <2> QED BY <2>1, <2>2
<1>16. QuietRefills'
  <2> SUFFICES ASSUME NEW c \in last_call', Burst(c.bucket) >= Token,
                      (c.since \div PerMs) * Rate(c.bucket) >= Token
               PROVE  c.allowed
    BY DEF QuietRefills, Burst, Rate
  <2>1. c = [bucket |-> b, since |-> clock - last_update[b], allowed |-> allowed]
    BY DEF Allow
  <2>2. c.bucket = b /\ c.since = n - l /\ c.allowed = allowed
    BY <1>2, <2>1
  <2>3. u >= Token /\ m * r >= Token
    BY <1>2, <1>4, <2>2
  <2>4. e = 1
    BY <1>3, <1>4, <1>5, <1>6, <1>7, <2>3
  <2> QED BY <1>1, <2>2, <2>4
<1> QED BY <1>14, <1>15, <1>16 DEF BucketsOK

\* A check passes the call on, or counts it as refused and ends it.
CheckEnds(from, ok, to) ==
    /\ stage = from /\ from \in {"validate", "global", "user"} /\ to \in {"global", "user", "process"}
    /\ IF ok THEN stage' = to /\ UNCHANGED counterVars ELSE Refuse
    /\ UNCHANGED <<version, user, logged, stopVars>>

LEMMA CheckCounts ==
    ASSUME CallOK, NEW from, NEW ok \in BOOLEAN, NEW to, CheckEnds(from, ok, to)
    PROVE  CallOK'
<1>1. CASE ok
  BY <1>1 DEF CheckEnds, CallOK, counterVars
<1>2. CASE ~ok
  <2>1. /\ stage' = "idle" /\ reasons' = reasons + 1 /\ orders_rejected' = orders_rejected + Rejections
        /\ UNCHANGED <<orders_received, orders_processed, version, user, logged>>
    BY <1>2 DEF CheckEnds, Refuse
  <2>2. stage # "idle" /\ Rejections = IF version = "V2" THEN 2 ELSE 1
    BY DEF CheckEnds, Rejections
  <2> QED BY <2>1, <2>2 DEF CallOK
<1> QED BY <1>1, <1>2

\* A call that ends early was not processed.
LEMMA LoggedMoves ==
    ASSUME LoggedOK, CallOK, stage # "idle", UNCHANGED <<orders_processed, logged, writing, shutting_down_>>
    PROVE  LoggedOK'
<1>1. orders_processed = logged /\ orders_processed \in Nat
  BY DEF LoggedOK, CallOK
<1>2. orders_processed' - logged' = 0
  BY <1>1
<1> QED BY <1>1, <1>2 DEF LoggedOK

LEMMA CheckLogs ==
    ASSUME LoggedOK, CallOK, NEW from, NEW ok \in BOOLEAN, NEW to, CheckEnds(from, ok, to)
    PROVE  LoggedOK'
<1>1. stage # "idle" /\ UNCHANGED <<orders_processed, logged, writing, shutting_down_>>
  BY DEF CheckEnds, Refuse, counterVars, stopVars
<1> QED BY <1>1, LoggedMoves

LEMMA AdmissionStep == AdmissionInv /\ [AdmissionNext]_admissionVars => AdmissionInv'
<1> SUFFICES ASSUME AdmissionInv, [AdmissionNext]_admissionVars PROVE AdmissionInv'
  OBVIOUS
<1>1. BucketsOK /\ CallOK /\ LoggedOK
  BY DEF AdmissionInv
<1> USE <1>1
<1>2. ASSUME NEW u \in Users, Receive(u) PROVE AdmissionInv'
  <2>1. BucketsOK'
    BY <1>2 DEF Receive, limiterVars, BucketsOK, QuietRefills, Burst, Rate
  <2>2. CallOK'
    BY <1>2 DEF Receive, CallOK, Buckets
  <2>3. LoggedOK'
    <3>1. ~shutting_down_ /\ UNCHANGED <<writing, shutting_down_, orders_processed, logged>>
      BY <1>2 DEF Receive, Accepting, stopVars
    <3> QED BY <3>1 DEF LoggedOK
  <2> QED BY <2>1, <2>2, <2>3 DEF AdmissionInv
<1>3. ASSUME NEW ok \in BOOLEAN, Validate(ok) PROVE AdmissionInv'
  <2>0. CheckEnds("validate", ok, "global")
    BY <1>3 DEF Validate, CheckEnds
  <2>1. BucketsOK'
    BY <1>3 DEF Validate, limiterVars, BucketsOK, QuietRefills, Burst, Rate
  <2>2. CallOK'
    BY <2>0, CheckCounts
  <2>3. LoggedOK'
    BY <2>0, CheckLogs
  <2> QED BY <2>1, <2>2, <2>3 DEF AdmissionInv
<1>4. ASSUME NEW ok \in BOOLEAN, CheckGlobal(ok) PROVE AdmissionInv'
  <2>0. CheckEnds("global", ok, "user")
    BY <1>4 DEF CheckGlobal, CheckEnds
  <2>1. BucketsOK'
    BY <1>4, AllowKeeps DEF CheckGlobal, Buckets
  <2>2. CallOK'
    BY <2>0, CheckCounts
  <2>3. LoggedOK'
    BY <2>0, CheckLogs
  <2> QED BY <2>1, <2>2, <2>3 DEF AdmissionInv
<1>5. ASSUME NEW ok \in BOOLEAN, CheckUser(ok) PROVE AdmissionInv'
  <2>0. CheckEnds("user", ok, "process")
    BY <1>5 DEF CheckUser, CheckEnds
  <2>1. BucketsOK'
    BY <1>5, AllowKeeps DEF CheckUser, CallOK
  <2>2. CallOK'
    BY <2>0, CheckCounts
  <2>3. LoggedOK'
    BY <2>0, CheckLogs
  <2> QED BY <2>1, <2>2, <2>3 DEF AdmissionInv
<1>6. CASE Process
  <2>1. BucketsOK'
    BY <1>6 DEF Process, limiterVars, BucketsOK, QuietRefills, Burst, Rate
  <2>2. CallOK'
    BY <1>6 DEF Process, CallOK
  <2>3. LoggedOK'
    <3>1. /\ orders_processed = logged /\ stage = "process" /\ stage' = "idle"
          /\ orders_processed' = orders_processed + 1 /\ UNCHANGED <<writing, shutting_down_>>
      BY <1>6 DEF Process, LoggedOK, stopVars
    <3>2. CASE shutting_down_
      BY <1>6, <3>1, <3>2 DEF Process, LoggedOK, CallOK
    <3>3. CASE ~shutting_down_
      BY <1>6, <3>1, <3>3 DEF Process, LoggedOK, CallOK
    <3> QED BY <3>2, <3>3
  <2> QED BY <2>1, <2>2, <2>3 DEF AdmissionInv
<1>7. CASE ProcessFails
  <2>1. BucketsOK'
    BY <1>7 DEF ProcessFails, limiterVars, BucketsOK, QuietRefills, Burst, Rate
  <2>2. CallOK'
    BY <1>7 DEF ProcessFails, CallOK
  <2>3. LoggedOK'
    BY <1>7, LoggedMoves DEF ProcessFails, stopVars
  <2> QED BY <2>1, <2>2, <2>3 DEF AdmissionInv
<1>8. CASE Shutdown
  <2>1. BucketsOK'
    BY <1>8 DEF Shutdown, limiterVars, BucketsOK, QuietRefills, Burst, Rate
  <2>2. CallOK'
    BY <1>8 DEF Shutdown, counterVars, CallOK
  <2>3. LoggedOK'
    <3>1. /\ ~shutting_down_ /\ shutting_down_' = TRUE /\ writing' = FALSE
          /\ UNCHANGED <<stage, orders_processed, logged>>
      BY <1>8 DEF Shutdown, counterVars
    <3>2. orders_processed = logged /\ orders_processed \in Nat
      BY <3>1 DEF LoggedOK, CallOK
    <3>3. writing' \in BOOLEAN /\ shutting_down_' \in BOOLEAN /\ ~writing' /\ shutting_down_'
      BY <3>1
    <3>4. orders_processed' = logged' /\ orders_processed' - logged' = 0
      BY <3>1, <3>2
    <3> QED BY <3>3, <3>4 DEF LoggedOK
  <2> QED BY <2>1, <2>2, <2>3 DEF AdmissionInv
<1>9. CASE Tick
  <2>1. BucketsOK'
    <3>1. /\ clock \in 0 .. MaxClock /\ clock' \in 0 .. MaxClock /\ clock <= clock'
          /\ UNCHANGED <<tokens, last_update, granted, last_call>>
      BY <1>9, AdmissionTypes DEF Tick, limiterVars, BucketsOK
    <3>2. ASSUME NEW b \in Buckets PROVE last_update[b] <= clock'
      <4>1. last_update[b] \in Nat /\ last_update[b] <= clock /\ clock \in Nat /\ clock' \in Nat
        BY <3>1 DEF BucketsOK
      <4> QED BY <3>1, <4>1
    <3> QED BY <3>1, <3>2 DEF BucketsOK, QuietRefills, Burst, Rate
  <2>2. CallOK'
    BY <1>9 DEF Tick, counterVars, CallOK
  <2>3. LoggedOK'
    BY <1>9 DEF Tick, counterVars, stopVars, LoggedOK
  <2> QED BY <2>1, <2>2, <2>3 DEF AdmissionInv
<1>10. CASE UNCHANGED admissionVars
  <2>1. BucketsOK'
    BY <1>10 DEF admissionVars, limiterVars, BucketsOK, QuietRefills, Burst, Rate
  <2>2. CallOK' /\ LoggedOK'
    BY <1>10 DEF admissionVars, counterVars, stopVars, CallOK, LoggedOK
  <2> QED BY <2>1, <2>2 DEF AdmissionInv
<1> QED BY <1>2, <1>3, <1>4, <1>5, <1>6, <1>7, <1>8, <1>9, <1>10 DEF AdmissionNext

\* The production engines, for any rates and bursts, users and pattern of calls, and a
\* shutdown at any moment: a bucket grants no more than its burst and its rate times the
\* time passed and refills when left alone, the counters add up between calls, and all
\* that was processed is in the log but the one order a shutdown overtakes.
THEOREM AdmissionKept == AdmissionSpec => []AdmissionSound
<1>1. ASSUME AdmissionInv PROVE AdmissionSound
  <2>1. BucketsOK /\ CallOK /\ LoggedOK
    BY <1>1 DEF AdmissionInv
  <2>2. AdmissionTypeOK
    <3>1. ASSUME NEW b \in Buckets PROVE tokens[b] \in 0 .. Burst(b) /\ last_update[b] \in 0 .. clock
      BY <2>1, AdmissionTypes DEF BucketsOK
    <3>2. clock \in 0 .. MaxClock
      BY <2>1 DEF BucketsOK
    <3>3. writing \in BOOLEAN /\ shutting_down_ \in BOOLEAN
      BY <2>1 DEF LoggedOK
    <3> QED BY <2>1, <3>1, <3>2, <3>3 DEF CallOK, AdmissionTypeOK
  <2>3. RateKept
    <3> SUFFICES ASSUME NEW b \in Buckets
                 PROVE  Token * granted[b] <= Burst(b) + Rate(b) * (clock \div PerMs)
      BY DEF RateKept
    <3>1. PICK t, l, g, r, u, n : /\ t = tokens[b] /\ l = last_update[b] /\ g = granted[b]
                                  /\ r = Rate(b) /\ u = Burst(b) /\ n = clock
      OBVIOUS
    <3>2. /\ t \in Nat /\ l \in Nat /\ g \in Nat /\ r \in Nat /\ u \in Nat /\ n \in Nat /\ l <= n
          /\ Token \in Nat \ {0} /\ PerMs \in Nat \ {0}
          /\ Token * g + t <= u + r * (l \div PerMs)
      BY <2>1, <3>1, AdmissionTypes DEF BucketsOK
    <3>3. PICK x, d, z : x = l \div PerMs /\ d = (n - l) \div PerMs /\ z = n \div PerMs
      OBVIOUS
    <3>4. x \in Nat /\ d \in Nat /\ z \in Nat /\ x + d <= z
      BY <3>2, <3>3, WholeParts, TimeAddsUp
    <3>5. r * x <= r * z /\ r * x \in Nat /\ r * z \in Nat /\ Token * g \in Nat
      BY <3>2, <3>4, ProductGrows
    <3>6. Token * g + t <= u + r * x
      BY <3>2, <3>3
    <3> QED BY <3>1, <3>2, <3>3, <3>5, <3>6
  <2>4. QuietRefills
    BY <2>1 DEF BucketsOK
  <2>5. CountersAddUp
    BY <2>1 DEF CallOK, CountersAddUp
  <2>6. ProcessedIsLogged
    <3>1. CASE shutting_down_
      BY <2>1, <3>1 DEF LoggedOK, CallOK, ProcessedIsLogged
    <3>2. CASE ~shutting_down_
      BY <2>1, <3>2 DEF LoggedOK, CallOK, ProcessedIsLogged
    <3> QED BY <3>1, <3>2
  <2> QED BY <2>2, <2>3, <2>4, <2>5, <2>6 DEF AdmissionSound
<1> QED BY <1>1, AdmissionInitial, AdmissionStep, PTL DEF AdmissionSpec
-----------------------------------------------------------------------------
(* Position *)

\* A quotient lies between the bounds of what is shared out.
LEMMA QuotientBetween ==
    ASSUME NEW m \in Nat \ {0}, NEW c \in Nat, NEW lo \in Nat, NEW hi \in Nat,
           lo * m <= c, c <= hi * m
    PROVE  lo <= c \div m /\ c \div m <= hi /\ c \div m \in Nat
<1>1. PICK q : q = c \div m
  OBVIOUS
<1>2. q \in Nat /\ m * q <= c /\ c < m * q + m
  BY <1>1, WholeParts
<1>3. /\ m * (q + 1) = m * q + m /\ m * (hi + 1) = hi * m + m
      /\ m * lo = lo * m /\ m * q \in Nat /\ lo * m \in Nat /\ hi * m \in Nat
  BY <1>2
<1>4. ASSUME q + 1 <= lo PROVE FALSE
  <2>1. m * (q + 1) <= m * lo
    BY <1>2, <1>4, ProductGrows
  <2> QED BY <1>2, <1>3, <2>1
<1>5. ASSUME hi + 1 <= q PROVE FALSE
  <2>1. m * (hi + 1) <= m * q
    BY <1>2, <1>5, ProductGrows
  <2> QED BY <1>2, <1>3, <2>1
<1> QED BY <1>1, <1>2, <1>4, <1>5

\* The cost of two lots lies between what both cost at the lower and at the higher price.
LEMMA CostBetween ==
    ASSUME NEW old \in Nat, NEW n \in Nat, NEW at \in Nat, NEW quantity \in Nat,
           NEW lo \in Nat, NEW hi \in Nat, lo <= at, at <= hi,
           n # 0 => lo <= old /\ old <= hi
    PROVE  /\ Cost(old, n, at, quantity) \in Nat
           /\ lo * (n + quantity) <= Cost(old, n, at, quantity)
           /\ Cost(old, n, at, quantity) <= hi * (n + quantity)
<1>1. quantity * lo <= quantity * at /\ quantity * at <= quantity * hi
  BY ProductGrows
<1>2. n * lo <= n * old /\ n * old <= n * hi
  <2>1. CASE n = 0
    BY <2>1
  <2>2. CASE n # 0
    BY <2>2, ProductGrows
  <2> QED BY <2>1, <2>2
<1>3. /\ lo * (n + quantity) = n * lo + quantity * lo /\ hi * (n + quantity) = n * hi + quantity * hi
      /\ old * n = n * old /\ at * quantity = quantity * at
      /\ n * lo \in Nat /\ quantity * lo \in Nat /\ n * hi \in Nat /\ quantity * hi \in Nat
      /\ n * old \in Nat /\ quantity * at \in Nat
  OBVIOUS
<1> QED BY <1>1, <1>2, <1>3 DEF Cost

\* A cost that fits keeps its value.
LEMMA WrappedFits ==
    ASSUME NEW n \in Nat, n <= MaxInt
    PROVE  Wrapped(n) = n
<1>1. PICK h : h = MaxInt + 1
  OBVIOUS
<1>2. h \in Nat \ {0} /\ n + h \in Nat /\ n + h < 2 * h
  BY <1>1, PositionAssumption
<1>3. (n + h) % (2 * h) = n + h
  BY <1>2
<1> QED BY <1>1, <1>2, <1>3, PositionAssumption DEF Wrapped

LEMMA QuotientInt ==
    ASSUME NEW a \in Int, NEW b \in Nat \ {0}
    PROVE  Quotient(a, b) \in Int
<1>1. CASE a >= 0
  BY <1>1 DEF Quotient
<1>2. CASE ~(a >= 0)
  <2>1. -a \in Nat
    BY <1>2
  <2>2. (-a) \div b \in Nat
    BY <2>1, WholeParts
  <2> QED BY <1>2, <2>2 DEF Quotient
<1> QED BY <1>1, <1>2

\* The position is the difference of its sides, and one that was opened has a price
\* between those it was opened at.
PositionInv ==
    /\ PositionTypeOK /\ size = long_size - short_size
    /\ opened_at = {} => long_size = 0 /\ short_size = 0
    /\ AverageWithinPrices

LEMMA PositionInitial == PositionInit => PositionInv
<1> SUFFICES ASSUME PositionInit PROVE PositionInv
  OBVIOUS
<1>1. size = long_size - short_size /\ opened_at = {} /\ long_size = 0 /\ short_size = 0
  BY DEF PositionInit
<1>2. PositionTypeOK
  <2>1. overflowed \in BOOLEAN
    BY DEF PositionInit
  <2>2. /\ size \in Int /\ long_size \in Nat /\ short_size \in Nat /\ avg_open_price \in Int
        /\ pnl \in Int /\ mark_price \in Nat /\ opened_at \subseteq Prices
    BY DEF PositionInit
  <2> QED BY <2>1, <2>2 DEF PositionTypeOK
<1>3. AverageWithinPrices
  BY DEF PositionInit, AverageWithinPrices
<1> QED BY <1>1, <1>2, <1>3 DEF PositionInv

\* A trade that adds to a position on its side, or opens one.
LEMMA AverageBetween ==
    ASSUME PositionInv, ~overflowed, NEW net \in Nat, net # 0 => size # 0,
           NEW at \in Prices, NEW quantity \in Sizes,
           Cost(avg_open_price, net, at, quantity) <= MaxInt
    PROVE  /\ \E p \in opened_at \cup {at} : p <= Average(avg_open_price, net, at, quantity)
           /\ \E p \in opened_at \cup {at} : Average(avg_open_price, net, at, quantity) <= p
<1>1. at \in Nat \ {0} /\ quantity \in Nat \ {0} /\ opened_at \subseteq Nat
  BY PositionAssumption DEF PositionInv, PositionTypeOK
<1>2. PICK a : a = avg_open_price
  OBVIOUS
<1>3. PICK lo \in opened_at \cup {at}, hi \in opened_at \cup {at} :
        a \in Nat /\ lo <= at /\ at <= hi /\ (net # 0 => lo <= a /\ a <= hi)
  <2>1. CASE opened_at = {} /\ a = 0 /\ size = 0
    <3>1. at \in opened_at \cup {at} /\ at <= at /\ a \in Nat /\ net = 0
      BY <1>1, <2>1
    <3> QED BY <3>1
  <2>2. CASE ~(opened_at = {} /\ a = 0 /\ size = 0)
    <3>1. PICK p \in opened_at, q \in opened_at : p <= a /\ a <= q /\ a \in Int
      BY <1>2, <2>2 DEF PositionInv, PositionTypeOK, AverageWithinPrices
    <3>2. p \in Nat /\ q \in Nat /\ a \in Nat
      BY <1>1, <3>1
    <3>3. PICK lo \in {p, at} : lo <= at /\ lo <= a
      BY <1>1, <3>1, <3>2
    <3>4. PICK hi \in {q, at} : at <= hi /\ a <= hi
      BY <1>1, <3>1, <3>2
    <3> QED BY <3>2, <3>3, <3>4
  <2> QED BY <2>1, <2>2
<1>4. lo \in Nat /\ hi \in Nat
  BY <1>1
<1>5. PICK c, m : c = Cost(a, net, at, quantity) /\ m = net + quantity
  OBVIOUS
<1>6. m \in Nat \ {0} /\ c \in Nat /\ lo * m <= c /\ c <= hi * m
  <2>1. a \in Nat /\ at \in Nat /\ quantity \in Nat /\ lo <= at /\ at <= hi
    BY <1>1, <1>3
  <2>2. net # 0 => lo <= a /\ a <= hi
    BY <1>3
  <2>3. /\ Cost(a, net, at, quantity) \in Nat
        /\ lo * (net + quantity) <= Cost(a, net, at, quantity)
        /\ Cost(a, net, at, quantity) <= hi * (net + quantity)
    BY ONLY <1>4, <2>1, <2>2, CostBetween, net \in Nat
  <2> QED BY <1>1, <1>5, <2>3
<1>7. Average(avg_open_price, net, at, quantity) = c \div m
  <2>1. Wrapped(c) = c
    BY <1>2, <1>5, <1>6, WrappedFits
  <2> QED BY <1>2, <1>5, <1>6, <2>1 DEF Average, Quotient
<1>8. lo <= c \div m /\ c \div m <= hi
  BY <1>4, <1>6, QuotientBetween
<1> QED BY <1>7, <1>8

LEMMA OpenKeeps ==
    ASSUME PositionInv, ~overflowed, NEW side \in {"BUY", "SELL"}, NEW at \in Prices,
           NEW quantity \in Sizes, Open(side, at, quantity),
           size' = long_size' - short_size', UNCHANGED <<pnl, mark_price>>
    PROVE  PositionInv'
<1>1. /\ at \in Nat \ {0} /\ quantity \in Nat \ {0} /\ size \in Int /\ long_size \in Nat
      /\ short_size \in Nat /\ avg_open_price \in Int /\ opened_at \subseteq Prices
  BY PositionAssumption DEF PositionInv, PositionTypeOK
<1>2. PICK net : net = IF side = "BUY" THEN size ELSE -size
  OBVIOUS
<1>3. net \in Int /\ (net # 0 => size # 0)
  BY <1>1, <1>2
<1>4. /\ avg_open_price' = OpenPrice(net, at, quantity)
      /\ opened_at' = opened_at \cup {at}
      /\ overflowed' = (net >= 0 /\ Cost(avg_open_price, net, at, quantity) > MaxInt)
  BY <1>2 DEF Open
<1>5. long_size' \in Nat /\ short_size' \in Nat
  BY <1>1 DEF Open
<1>6. avg_open_price' \in Int
  <2>1. CASE net >= 0
    <3>1. net + quantity \in Nat \ {0} /\ Cost(avg_open_price, net, at, quantity) \in Int
      BY <1>1, <1>3, <2>1 DEF Cost
    <3>2. ASSUME NEW c \in Int PROVE Wrapped(c) \in Int
      BY PositionAssumption DEF Wrapped
    <3>3. Average(avg_open_price, net, at, quantity) \in Int
      BY <3>1, <3>2, QuotientInt DEF Average
    <3> QED BY <1>4, <2>1, <3>3 DEF OpenPrice
  <2>2. CASE ~(net >= 0)
    BY <1>1, <1>4, <2>2 DEF OpenPrice
  <2> QED BY <2>1, <2>2
<1>7. overflowed' \in BOOLEAN
  BY <1>4
<1>8. PositionTypeOK' /\ size' = long_size' - short_size'
  <2>1. size' \in Int
    BY <1>5
  <2> QED BY <1>1, <1>4, <1>5, <1>6, <1>7, <2>1 DEF PositionInv, PositionTypeOK
<1>9. AverageWithinPrices'
  <2>1. CASE overflowed'
    BY <2>1 DEF AverageWithinPrices
  <2>2. CASE ~overflowed' /\ net >= 0
    <3>1. Cost(avg_open_price, net, at, quantity) <= MaxInt
      <4>1. ~(Cost(avg_open_price, net, at, quantity) > MaxInt)
        BY <1>4, <2>2
      <4>2. Cost(avg_open_price, net, at, quantity) \in Int
        BY <1>1, <1>3 DEF Cost
      <4> QED BY <4>1, <4>2, PositionAssumption
    <3>2. net \in Nat
      BY <1>3, <2>2
    <3>3. avg_open_price' = Average(avg_open_price, net, at, quantity)
      BY <1>4, <2>2 DEF OpenPrice
    <3> QED BY <1>3, <1>4, <3>1, <3>2, <3>3, AverageBetween DEF AverageWithinPrices
  <2>3. CASE ~(net >= 0) /\ -net >= quantity
    <3>1. avg_open_price' = avg_open_price /\ size # 0
      BY <1>1, <1>2, <1>4, <2>3 DEF OpenPrice
    <3> QED BY <1>4, <3>1 DEF PositionInv, AverageWithinPrices
  <2>4. CASE ~(net >= 0) /\ ~(-net >= quantity)
    <3>1. avg_open_price' = at
      BY <1>4, <2>4 DEF OpenPrice
    <3> QED BY <1>1, <1>4, <3>1 DEF AverageWithinPrices
  <2> QED BY <2>1, <2>2, <2>3, <2>4
<1>10. opened_at' # {}
  BY <1>4
<1> QED BY <1>8, <1>9, <1>10 DEF PositionInv

LEMMA CloseKeeps ==
    ASSUME PositionInv, ~overflowed, NEW side \in {"BUY", "SELL"}, NEW quantity \in Sizes,
           Close(side, quantity), size' = long_size' - short_size', UNCHANGED <<pnl, mark_price>>
    PROVE  PositionInv'
<1>1. /\ quantity \in Nat \ {0} /\ long_size \in Nat /\ short_size \in Nat /\ size = long_size - short_size
  BY PositionAssumption DEF PositionInv, PositionTypeOK
<1>2. UNCHANGED <<avg_open_price, opened_at, overflowed>>
  BY DEF Close
<1>3. /\ long_size' \in 0 .. long_size /\ short_size' \in 0 .. short_size
  BY <1>1 DEF Close, Left, Above
<1>4. PositionTypeOK' /\ size' = long_size' - short_size'
  BY <1>2, <1>3 DEF PositionInv, PositionTypeOK
<1>5. AverageWithinPrices'
  <2>1. CASE opened_at = {}
    <3>1. long_size = 0 /\ short_size = 0 /\ avg_open_price = 0
      BY <2>1 DEF PositionInv, AverageWithinPrices
    <3>2. size' = 0
      BY <1>3, <3>1
    <3> QED BY <1>2, <2>1, <3>1, <3>2 DEF AverageWithinPrices
  <2>2. CASE opened_at # {}
    BY <1>2, <2>2 DEF PositionInv, AverageWithinPrices
  <2> QED BY <2>1, <2>2
<1>6. opened_at' = {} => long_size' = 0 /\ short_size' = 0
  BY <1>1, <1>2, <1>3 DEF PositionInv
<1> QED BY <1>4, <1>5, <1>6 DEF PositionInv

LEMMA PositionStep == PositionInv /\ [PositionNext]_positionVars => PositionInv'
<1> SUFFICES ASSUME PositionInv, [PositionNext]_positionVars PROVE PositionInv'
  OBVIOUS
<1>1. ASSUME ~overflowed, NEW side \in {"BUY", "SELL"}, NEW at \in Prices, NEW quantity \in Sizes,
             NEW flag \in {"OPEN", "CLOSE"}, UpdatePosition(side, at, quantity, flag)
      PROVE  PositionInv'
  <2>1. size' = long_size' - short_size' /\ UNCHANGED <<pnl, mark_price>>
    BY <1>1 DEF UpdatePosition
  <2>2. CASE flag = "OPEN"
    BY <1>1, <2>1, <2>2, OpenKeeps DEF UpdatePosition
  <2>3. CASE flag # "OPEN"
    BY <1>1, <2>1, <2>3, CloseKeeps DEF UpdatePosition
  <2> QED BY <2>2, <2>3
<1>2. ASSUME NEW mark \in Prices, UpdateUnrealized(mark) PROVE PositionInv'
  <2>1. mark \in Nat /\ size \in Int /\ avg_open_price \in Int
    BY PositionAssumption DEF PositionInv, PositionTypeOK
  <2>2. Profit(mark) \in Int
    BY <2>1 DEF Profit
  <2> QED BY <1>2, <2>1, <2>2 DEF UpdateUnrealized, PositionInv, PositionTypeOK, AverageWithinPrices
<1>3. CASE UNCHANGED positionVars
  BY <1>3 DEF positionVars, PositionInv, PositionTypeOK, AverageWithinPrices
<1> QED BY <1>1, <1>2, <1>3 DEF PositionNext, Trade

\* A share of at most one of a price is no more than the price, one of at least one no less.
LEMMA ShareOfPrice ==
    ASSUME NEW a \in Nat, NEW f \in Nat
    PROVE  /\ f <= 10000 => (a * f) \div 10000 <= a
           /\ f >= 10000 => (a * f) \div 10000 >= a
<1>1. a * f \in Nat /\ a * 10000 \in Nat
  OBVIOUS
<1>2. CASE f <= 10000
  <2>1. a * f <= a * 10000
    BY <1>2, ProductGrows
  <2>2. (a * f) \div 10000 <= a
    BY <1>1, <2>1, QuotientBetween
  <2> QED BY <1>2, <2>2
<1>3. CASE f >= 10000
  <2>1. a * 10000 <= a * f
    BY <1>3, ProductGrows
  <2>2. a <= (a * f) \div 10000
    BY <1>1, <2>1, QuotientBetween
  <2> QED BY <1>3, <2>2
<1> QED BY <1>2, <1>3

\* A position over any trades and valuations, for any prices, sizes, width of an integer
\* and leverage: no side is negative, the average price lies between prices it was opened
\* at until a cost overflows, and liquidation is on the losing side of it.
THEOREM PositionKept == PositionSpec => []PositionSound
<1>1. ASSUME PositionInv PROVE PositionSound
  <2>1. PositionTypeOK /\ AverageWithinPrices
    BY <1>1 DEF PositionInv
  <2>2. LiquidationOnLosingSide
    <3> SUFFICES ASSUME ~overflowed, size # 0, NEW rate \in {0, 10000 \div Leverage}
                 PROVE  /\ size > 0 => LiquidationPrice(rate) <= avg_open_price
                        /\ size < 0 => LiquidationPrice(rate) >= avg_open_price
      BY <2>1 DEF LiquidationOnLosingSide, PositionTypeOK
    <3>1. PICK a : a = avg_open_price
      OBVIOUS
    <3>2. a \in Nat /\ size \in Int
      BY <2>1, <3>1, PositionAssumption DEF PositionTypeOK, AverageWithinPrices
    <3>3. PICK m : m = 10000 \div Leverage
      OBVIOUS
    <3>4. m \in 0 .. 10000
      <4>1. Leverage \in Nat \ {0} /\ 0 * Leverage <= 10000 /\ 10000 <= 10000 * Leverage
        BY PositionAssumption
      <4> QED BY <3>3, <4>1, QuotientBetween
    <3>5. rate \in 0 .. m
      <4>1. rate = 0 \/ rate = m
        BY ONLY <3>3, rate \in {0, 10000 \div Leverage}
      <4> QED BY ONLY <3>4, <4>1
    <3>6. PICK f : f = LiquidationFactor(rate)
      OBVIOUS
    <3>7. f \in Nat /\ (size > 0 => f <= 10000) /\ (size < 0 => f >= 10000)
      <4>1. f = IF size > 0 THEN 10000 - m + rate ELSE 10000 + m - rate
        BY <3>3, <3>6 DEF LiquidationFactor
      <4> QED BY ONLY <3>2, <3>4, <3>5, <4>1
    <3>8. LiquidationPrice(rate) = (a * f) \div 10000
      BY <3>1, <3>6 DEF LiquidationPrice
    <3>9. (f <= 10000 => (a * f) \div 10000 <= a) /\ (f >= 10000 => (a * f) \div 10000 >= a)
      BY <3>2, <3>7, ShareOfPrice
    <3> QED BY <3>1, <3>7, <3>8, <3>9
  <2> QED BY <2>1, <2>2 DEF PositionSound
<1> QED BY <1>1, PositionInitial, PositionStep, PTL DEF PositionSpec
-----------------------------------------------------------------------------
(* DeterministicCalculator *)

\* Half is 2^63 in the code: prices end below it, sequence numbers below twice of it.
Half == 2 ^ (Width - 1)

LEMMA RangeEnds ==
    /\ Half \in Nat \ {0, 1} /\ 2 ^ Width = 2 * Half
    /\ MaxPrice = Half - 1 /\ MinPrice = -Half /\ QtyScale \in Nat \ {0} /\ Rates \subseteq Nat
    /\ Valid = 1 .. Half - 1 /\ SequenceIds = 0 .. 2 * Half - 1
<1>1. Half \in Nat \ {0, 1} /\ 2 ^ Width = 2 * Half /\ QtyScale \in Nat \ {0} /\ Rates \subseteq Nat
  BY WidthAssumption DEF Half
<1>2. MaxPrice = Half - 1 /\ MinPrice = -Half
  BY DEF MaxPrice, MinPrice, Half
<1>3. Valid = 1 .. Half - 1 /\ SequenceIds = 0 .. 2 * Half - 1
  BY <1>1, <1>2 DEF Valid, SequenceIds
<1> QED BY <1>1, <1>2, <1>3

\* Numbers of two digits compare by the higher one first.
LEMMA DigitsCompare ==
    ASSUME NEW w \in Nat, NEW a \in Nat, NEW b \in Nat, NEW m \in 0 .. w - 1, NEW n \in 0 .. w - 1
    PROVE  a * w + m < b * w + n <=> a < b \/ (a = b /\ m < n)
<1>1. ASSUME NEW x \in Nat, NEW y \in Nat, x < y, NEW k \in 0 .. w - 1, NEW l \in 0 .. w - 1
      PROVE  x * w + k < y * w + l
  <2>1. w * (x + 1) <= w * y
    BY <1>1, ProductGrows
  <2>2. w * (x + 1) = x * w + w /\ w * y = y * w /\ x * w \in Nat /\ y * w \in Nat
    OBVIOUS
  <2> QED BY <2>1, <2>2
<1>2. a * w \in Nat /\ b * w \in Nat
  OBVIOUS
<1>3. CASE a < b
  BY <1>1, <1>3
<1>4. CASE b < a
  <2>1. b * w + n < a * w + m
    BY <1>1, <1>4
  <2> QED BY <1>2, <1>4, <2>1
<1>5. CASE a = b
  BY <1>2, <1>5
<1> QED BY <1>3, <1>4, <1>5

LEMMA TruncatePositive ==
    ASSUME NEW n \in Nat, NEW d \in Nat \ {0}
    PROVE  Truncate(n, d) = n \div d /\ n \div d \in Nat /\ n \div d <= n
<1>1. PICK q : q = n \div d
  OBVIOUS
<1>2. q \in Nat /\ d * q <= n
  BY <1>1, WholeParts
<1>3. q <= n
  <2>1. q * 1 <= q * d
    BY <1>2, ProductGrows
  <2> QED BY <1>2, <2>1
<1>4. Truncate(n, d) = q
  BY <1>1 DEF Truncate
<1> QED BY <1>1, <1>2, <1>3, <1>4

LEMMA TruncateNegative ==
    ASSUME NEW n \in Nat, NEW d \in Nat \ {0}, NEW m \in Int, m = -n
    PROVE  Truncate(m, d) = -(n \div d)
<1>1. PICK q : q = n \div d
  OBVIOUS
<1>2. q \in Nat /\ q <= n
  BY <1>1, TruncatePositive
<1>3. CASE n <= 0
  <2>1. m = n /\ -q = q
    BY <1>2, <1>3
  <2>2. Truncate(n, d) = q
    BY <1>1, TruncatePositive
  <2> QED BY <1>1, <2>1, <2>2
<1>4. CASE ~(n <= 0)
  <2>1. ~(m >= 0) /\ -m = n
    BY <1>4
  <2> QED BY <2>1 DEF Truncate
<1> QED BY <1>3, <1>4

LEMMA QuotientGrows ==
    ASSUME NEW a \in Nat, NEW b \in Nat, a <= b, NEW d \in Nat \ {0}
    PROVE  a \div d <= b \div d /\ a \div d \in Nat /\ b \div d \in Nat
<1>1. PICK x, y, z : x = a \div d /\ y = (b - a) \div d /\ z = b \div d
  OBVIOUS
<1>2. x \in Nat /\ y \in Nat /\ z \in Nat /\ x + y <= z
  BY <1>1, WholeParts, TimeAddsUp
<1> QED BY <1>1, <1>2

LEMMA SortKeys ==
    ASSUME price \in Valid \X Valid, sequence_id \in SequenceIds \X SequenceIds
    PROVE  SortKeyIsPriority
<1> SUFFICES ASSUME NEW side \in BOOLEAN
             PROVE  MakeSortKey(price[1], sequence_id[1], side) < MakeSortKey(price[2], sequence_id[2], side)
                       <=> HasPriority(1, 2, side)
  BY DEF SortKeyIsPriority
<1>1. PICK w, p, q, m, n : /\ w = 2 ^ Width /\ p = price[1] /\ q = price[2]
                           /\ m = sequence_id[1] /\ n = sequence_id[2]
  OBVIOUS
<1>2. PICK h : h = Half
  OBVIOUS
<1>3. h \in Nat \ {0, 1} /\ w = 2 * h /\ p \in 1 .. h - 1 /\ q \in 1 .. h - 1 /\ MaxPrice = h - 1
  BY <1>1, <1>2, RangeEnds
<1>4. m \in 0 .. w - 1 /\ n \in 0 .. w - 1 /\ w \in Nat
  BY <1>1, <1>2, <1>3, RangeEnds
<1>5. CASE side
  <2>1. PICK a, b : a = h - 1 - p /\ b = h - 1 - q
    OBVIOUS
  <2>2. a \in Nat /\ b \in Nat /\ (a < b <=> p > q) /\ (a = b <=> p = q)
    BY <1>3, <2>1
  <2>3. MakeSortKey(p, m, side) = a * w + m /\ MakeSortKey(q, n, side) = b * w + n
    BY <1>1, <1>3, <1>5, <2>1 DEF MakeSortKey, SortPrice
  <2>4. HasPriority(1, 2, side) <=> p > q \/ (p = q /\ m < n)
    BY <1>1, <1>5 DEF HasPriority
  <2>5. a * w + m < b * w + n <=> a < b \/ (a = b /\ m < n)
    BY <1>4, <2>2, DigitsCompare
  <2> QED BY <1>1, <2>2, <2>3, <2>4, <2>5
<1>6. CASE ~side
  <2>1. MakeSortKey(p, m, side) = p * w + m /\ MakeSortKey(q, n, side) = q * w + n
    BY <1>1, <1>6 DEF MakeSortKey, SortPrice
  <2>2. HasPriority(1, 2, side) <=> p < q \/ (p = q /\ m < n)
    BY <1>1, <1>6 DEF HasPriority
  <2>3. p \in Nat /\ q \in Nat
    BY <1>3
  <2>4. p * w + m < q * w + n <=> p < q \/ (p = q /\ m < n)
    BY <1>4, <2>3, DigitsCompare
  <2> QED BY <1>1, <2>1, <2>2, <2>4
<1> QED BY <1>5, <1>6

LEMMA Charges ==
    ASSUME price \in Valid \X Valid
    PROVE  ChargesGrow
<1> SUFFICES ASSUME NEW rate \in Rates, NEW q \in Valid
             PROVE  /\ q < MaxPrice =>
                         CalculateMargin(price[1], q, rate) <= CalculateMargin(price[1], q + 1, rate)
                    /\ FundingPayment(q, price[1], rate) = -FundingPayment(-q, price[1], rate)
                         \/ FundingPayment(q, price[1], rate) = MaxPrice
  BY DEF ChargesGrow
<1>1. PICK p, h : p = price[1] /\ h = Half
  OBVIOUS
<1>2. /\ h \in Nat \ {0, 1} /\ p \in Nat /\ q \in Nat /\ rate \in Nat /\ QtyScale \in Nat \ {0}
      /\ MaxPrice = h - 1 /\ MinPrice = -h
  BY <1>1, RangeEnds
<1>3. CalculateMargin(p, q, rate) <= CalculateMargin(p, q + 1, rate)
  <2>1. PICK x, y : x = p * q * rate /\ y = p * (q + 1) * rate
    OBVIOUS
  <2>2. x \in Nat /\ y \in Nat /\ x <= y
    <3>1. p * q <= p * (q + 1) /\ p * q \in Nat /\ p * (q + 1) \in Nat
      BY <1>2, ProductGrows
    <3>2. rate * (p * q) <= rate * (p * (q + 1)) /\ rate * (p * q) \in Nat /\ rate * (p * (q + 1)) \in Nat
      BY <1>2, <3>1, ProductGrows
    <3>3. x = rate * (p * q) /\ y = rate * (p * (q + 1))
      BY <1>2, <2>1
    <3> QED BY <3>2, <3>3
  <2>3. PICK x2, y2 : x2 = x \div 10000 /\ y2 = y \div 10000
    OBVIOUS
  <2>4. x2 \in Nat /\ y2 \in Nat /\ x2 <= y2
    BY <2>2, <2>3, QuotientGrows
  <2>5. PICK x3, y3 : x3 = x2 \div QtyScale /\ y3 = y2 \div QtyScale
    OBVIOUS
  <2>6. x3 \in Nat /\ y3 \in Nat /\ x3 <= y3
    BY <1>2, <2>4, <2>5, QuotientGrows
  <2>7. Truncate(x, 10000) = x2 /\ Truncate(y, 10000) = y2
    BY ONLY <2>2, <2>3, TruncatePositive
  <2>8. Truncate(x2, QtyScale) = x3 /\ Truncate(y2, QtyScale) = y3
    BY ONLY <1>2, <2>4, <2>5, TruncatePositive
  <2>9. CalculateMargin(p, q, rate) = Clamp(x3) /\ CalculateMargin(p, q + 1, rate) = Clamp(y3)
    BY <2>1, <2>7, <2>8 DEF CalculateMargin
  <2>10. Clamp(x3) <= Clamp(y3)
    BY <1>2, <2>6 DEF Clamp
  <2> QED BY <2>9, <2>10
<1>4. FundingPayment(q, p, rate) = -FundingPayment(-q, p, rate) \/ FundingPayment(q, p, rate) = MaxPrice
  <2>1. PICK x, x1 : x = q * p * rate /\ x1 = (-q) * p * rate
    OBVIOUS
  <2>2. x \in Nat /\ x1 \in Int /\ x1 = -x
    <3>1. q * p \in Nat /\ (-q) * p = -(q * p)
      BY <1>2
    <3>2. (-(q * p)) * rate = -((q * p) * rate) /\ (q * p) * rate \in Nat
      BY <1>2, <3>1
    <3> QED BY <2>1, <3>1, <3>2
  <2>3. PICK y, y1 : y = x \div 10000 /\ y1 = -y
    OBVIOUS
  <2>4. y \in Nat /\ y1 \in Int /\ Truncate(x, 10000) = y /\ Truncate(x1, 10000) = y1
    <3>1. y \in Nat /\ Truncate(x, 10000) = y
      BY ONLY <2>2, <2>3, TruncatePositive
    <3>2. Truncate(x1, 10000) = -(x \div 10000)
      <4>1. PICK d : d = 10000
        OBVIOUS
      <4>2. d \in Nat \ {0}
        BY ONLY <4>1
      <4>3. Truncate(x1, d) = -(x \div d)
        BY ONLY <2>2, <4>2, TruncateNegative
      <4> QED BY ONLY <4>1, <4>3
    <3> QED BY <2>3, <3>1, <3>2
  <2>5. PICK z, z1 : z = y \div QtyScale /\ z1 = -z
    OBVIOUS
  <2>6. z \in Nat /\ Truncate(y, QtyScale) = z /\ Truncate(y1, QtyScale) = z1
    <3>1. y \in Nat /\ y1 \in Int /\ y1 = -y /\ QtyScale \in Nat \ {0}
      BY <1>2, <2>3, <2>4
    <3>2. z \in Nat /\ Truncate(y, QtyScale) = z
      BY ONLY <2>5, <3>1, TruncatePositive
    <3>3. Truncate(y1, QtyScale) = -(y \div QtyScale)
      BY ONLY <3>1, TruncateNegative
    <3> QED BY <2>5, <3>2, <3>3
  <2>7. FundingPayment(q, p, rate) = Clamp(z) /\ FundingPayment(-q, p, rate) = Clamp(-z)
    BY <2>1, <2>4, <2>5, <2>6 DEF FundingPayment
  <2>8. Clamp(z) = -Clamp(-z) \/ Clamp(z) = MaxPrice
    BY <1>2, <2>6 DEF Clamp
  <2> QED BY <2>7, <2>8
<1> QED BY <1>1, <1>3, <1>4

\* A product in range is not wrapped.
LEMMA FixedMultiplyFits ==
    ASSUME NEW d \in Nat, NEW q \in Nat, d * q <= MaxPrice
    PROVE  /\ FixedMultiply(d, q, QtyScale) = (d * q) \div QtyScale
           /\ FixedMultiply(-d, q, QtyScale) = -((d * q) \div QtyScale)
           /\ (d * q) \div QtyScale \in Nat
<1>1. PICK h, x, y : h = Half /\ x = d * q /\ y = x \div QtyScale
  OBVIOUS
<1>2. /\ h \in Nat \ {0, 1} /\ x \in Nat /\ x <= h - 1 /\ (-d) * q = -x /\ QtyScale \in Nat \ {0}
      /\ MinPrice = -h /\ 2 ^ Width = 2 * h
  BY <1>1, RangeEnds
<1>3. y \in Nat /\ y <= h - 1 /\ Truncate(x, QtyScale) = y /\ Truncate(-x, QtyScale) = -y
  <2>1. y \in Nat /\ y <= x /\ Truncate(x, QtyScale) = y
    BY <1>1, <1>2, TruncatePositive
  <2>2. -x \in Int
    BY <1>2
  <2>3. Truncate(-x, QtyScale) = -y
    BY ONLY <1>1, <1>2, <2>2, TruncateNegative
  <2> QED BY <1>2, <2>1, <2>3
<1>4. ASSUME NEW t \in -h .. h - 1 PROVE ((t - (-h)) % (2 * h)) + (-h) = t
  <2>1. PICK u : u = t + h
    OBVIOUS
  <2>2. u \in Nat /\ u < 2 * h /\ t - (-h) = u
    BY <1>2, <2>1
  <2>3. u % (2 * h) = u
    BY <1>2, <2>2
  <2> QED BY <1>2, <2>1, <2>2, <2>3
<1>5. y \in -h .. h - 1 /\ -y \in -h .. h - 1
  BY <1>2, <1>3
<1>6. /\ FixedMultiply(d, q, QtyScale) = ((y - (-h)) % (2 * h)) + (-h)
      /\ FixedMultiply(-d, q, QtyScale) = ((-y - (-h)) % (2 * h)) + (-h)
  BY <1>1, <1>2, <1>3 DEF FixedMultiply
<1> QED BY <1>1, <1>3, <1>4, <1>5, <1>6

LEMMA ProfitIsLoss ==
    ASSUME NEW p \in Valid, NEW r \in Valid, NEW q \in Valid, p <= r, r * q <= MaxPrice
    PROVE  /\ CalculatePnl(p, r, q, TRUE) = -CalculatePnl(p, r, q, FALSE)
           /\ CalculatePnl(r, p, q, TRUE) = -CalculatePnl(r, p, q, FALSE)
           /\ CalculatePnl(p, r, q, TRUE) >= 0
<1>1. PICK d : d = r - p
  OBVIOUS
<1>2. p \in Nat /\ r \in Nat /\ q \in Nat /\ MaxPrice \in Nat /\ d \in Nat /\ d <= r
  BY <1>1, RangeEnds
<1>3. d * q <= MaxPrice
  <2>1. q * d <= q * r /\ q * d = d * q /\ q * r = r * q /\ d * q \in Nat /\ r * q \in Nat
    BY <1>2, ProductGrows
  <2> QED BY <1>2, <2>1
<1>4. PICK y : y = (d * q) \div QtyScale
  OBVIOUS
<1>5. FixedMultiply(d, q, QtyScale) = y /\ FixedMultiply(-d, q, QtyScale) = -y /\ y \in Nat
  BY <1>2, <1>3, <1>4, FixedMultiplyFits
<1>6. p - r = -d
  BY <1>1, <1>2
<1> QED BY <1>1, <1>5, <1>6 DEF CalculatePnl

\* The calculator for any width of an integer, scale and rates: sort keys compare as
\* price-time priority does, a larger quantity never needs less margin, what one side
\* pays or wins the other receives or loses, up to the clamp.
THEOREM CalculatorKept == InputSpec => []CalculatorSound
<1> DEFINE InputInv == price \in Valid \X Valid /\ sequence_id \in SequenceIds \X SequenceIds
<1>1. InputInit => InputInv
  BY RangeEnds DEF InputInit
<1>2. InputInv /\ [InputNext]_inputs => InputInv'
  BY DEF InputNext, inputs
<1>3. ASSUME InputInv PROVE CalculatorSound
  <2>1. PnlIsZeroSum
    <3> SUFFICES ASSUME NEW q \in Valid, ValidateCalculation(price[1], q), ValidateCalculation(price[2], q)
                 PROVE  /\ CalculatePnl(price[1], price[2], q, TRUE) = -CalculatePnl(price[1], price[2], q, FALSE)
                        /\ price[1] < price[2] => CalculatePnl(price[1], price[2], q, TRUE) >= 0
      BY DEF PnlIsZeroSum
    <3>1. PICK p, r : p = price[1] /\ r = price[2]
      OBVIOUS
    <3>2. p \in Valid /\ r \in Valid /\ p \in Nat /\ r \in Nat /\ p * q <= MaxPrice /\ r * q <= MaxPrice
      BY <1>3, <3>1, RangeEnds DEF ValidateCalculation
    <3>3. CASE p <= r
      BY <3>1, <3>2, <3>3, ProfitIsLoss
    <3>4. CASE r < p
      <4>1. r <= p /\ ~(p < r)
        BY ONLY <3>2, <3>4
      <4>2. CalculatePnl(p, r, q, TRUE) = -CalculatePnl(p, r, q, FALSE)
        BY <3>2, <4>1, ProfitIsLoss
      <4> QED BY <3>1, <4>1, <4>2
    <3>5. p <= r \/ r < p
      BY ONLY <3>2
    <3> QED BY <3>3, <3>4, <3>5
  <2> QED BY <1>3, <2>1, SortKeys, Charges DEF CalculatorSound
<1> QED BY <1>1, <1>2, <1>3, PTL DEF InputSpec
-----------------------------------------------------------------------------
(* FundingRateManager *)

LEMMA MaxOfTwo ==
    ASSUME NEW a \in Int, NEW b \in Int
    PROVE  Max({a, b}) = IF a <= b THEN b ELSE a
<1>1. CASE a <= b
  BY <1>1 DEF Max
<1>2. CASE ~(a <= b)
  BY <1>2 DEF Max
<1> QED BY <1>1, <1>2

LEMMA CapWithin ==
    ASSUME NEW rate \in Int, NEW bound \in Nat
    PROVE  Cap(rate, bound) \in -bound .. bound
<1>1. PICK low : low = Min({bound, rate})
  OBVIOUS
<1>2. low \in Int /\ low <= bound
  BY <1>1, MinOfTwo
<1>3. PICK l : l = -bound
  OBVIOUS
<1>4. l \in Int /\ l <= bound
  BY <1>3
<1>5. Max({l, low}) = IF l <= low THEN low ELSE l
  BY <1>2, <1>4, MaxOfTwo
<1>6. Cap(rate, bound) = IF l <= low THEN low ELSE l
  BY <1>1, <1>3, <1>5 DEF Cap
<1> QED BY <1>2, <1>3, <1>4, <1>6

LEMMA PremiumInt == ASSUME NEW q \in Quotes PROVE PremiumIndex(q) \in Int
<1>1. q[1] \in Nat /\ q[2] \in Nat /\ q[3] \in Nat
  BY FundingAssumption
<1>2. CASE 0 \in {q[1], q[2], q[3]}
  BY <1>2 DEF PremiumIndex
<1>3. CASE ~(0 \in {q[1], q[2], q[3]})
  <2>1. q[3] \in Nat \ {0} /\ (q[1] + q[2] - 2 * q[3]) * 5000 \in Int
    BY <1>1, <1>3
  <2>2. ((q[1] + q[2] - 2 * q[3]) * 5000) \div q[3] \in Int
    BY <2>1
  <2> QED BY <1>3, <2>2 DEF PremiumIndex
<1> QED BY <1>2, <1>3

Records == [rate : -MaxRate .. MaxRate, premium : Int, timestamp : Nat]

\* The history is the last of what was computed, and ends with the current rate.
RatesOK ==
    /\ funding_rate_history_ = computed /\ funding_rate_history_ \in Seq(Records)
    /\ Len(funding_rate_history_) <= MaxHistory
    /\ \A i \in 1 .. Len(funding_rate_history_) : funding_rate_history_[i].timestamp \in 1 .. now
    /\ computed # <<>> => funding_rate = <<computed[Len(computed)].rate>>

\* The main loop has read the next settlement that is set, looks at it at every
\* CheckEvery-th lap, and a lap takes no more than a second and MaxLag.
LoopOK ==
    /\ now \in Nat \ {0} /\ slept_at \in 0 .. now /\ counter \in 0 .. CheckEvery - 1
    /\ loop \in {"sleep", "read", "decide", "rate", "set"} /\ holder \in {"nobody", "recalculate"}
    /\ settled_at \in 0 .. now /\ next_read \in Nat /\ gap \in Nat /\ gap >= settlement_interval_
    /\ next_settlement = IF settled_at = 0 THEN 0 ELSE settled_at + settlement_interval_
    /\ loop \in {"decide", "rate", "set"} => next_read = next_settlement
    /\ loop \in {"rate", "set"} => next_settlement = 0 \/ now >= next_settlement
    /\ loop # "sleep" => counter = 0

Lap == 1 + MaxLag

\* Who waits for a mutex that is never released is not on time.
OnTime ==
    Free => /\ now <= slept_at + (IF loop = "sleep" THEN Lap ELSE 0)
            /\ settled_at # 0 => slept_at + 1 <= next_settlement + Lap * (IF loop = "sleep" THEN counter ELSE CheckEvery)

FundingInv == RatesOK /\ LoopOK /\ OnTime

LEMMA FundingTypes ==
    /\ MaxRate \in Nat /\ interest_rate_ \in Nat /\ settlement_interval_ \in Nat \ {0}
    /\ CheckEvery \in Nat \ {0} /\ MaxHistory \in Nat \ {0} /\ Lap \in Nat \ {0}
BY FundingAssumption DEF Lap

LEMMA FundingInitial == FundingInit => FundingInv
<1> SUFFICES ASSUME FundingInit PROVE FundingInv
  OBVIOUS
<1>1. RatesOK
  <2>1. funding_rate_history_ = <<>> /\ computed = <<>>
    BY DEF FundingInit
  <2>2. \A S : <<>> \in Seq(S) /\ Len(<<>>) = 0
    BY EmptySeq
  <2>3. Len(funding_rate_history_) = 0 /\ funding_rate_history_ \in Seq(Records)
    BY <2>1, <2>2
  <2>4. 1 .. Len(funding_rate_history_) = {}
    BY <2>3
  <2> QED BY <2>1, <2>3, <2>4, FundingTypes DEF RatesOK
<1>2. LoopOK
  BY FundingTypes DEF FundingInit, LoopOK
<1>3. OnTime
  BY FundingTypes DEF FundingInit, OnTime
<1> QED BY <1>1, <1>2, <1>3 DEF FundingInv

\* A rate is computed: both histories get the same record and drop the same one.
LEMMA ComputeKeeps ==
    ASSUME RatesOK, now \in Nat \ {0}, NEW premium \in Int, ComputeRate(premium), UNCHANGED now
    PROVE  RatesOK'
<1>1. PICK r : r = Record(Cap(premium + interest_rate_, MaxRate), premium)
  OBVIOUS
<1>2. r \in Records /\ r.timestamp = now
  <2>1. premium + interest_rate_ \in Int
    BY FundingTypes
  <2>2. Cap(premium + interest_rate_, MaxRate) \in -MaxRate .. MaxRate
    BY <2>1, FundingTypes, CapWithin
  <2> QED BY <1>1, <2>2 DEF Record, Records
<1>3. PICK h, s, n : h = funding_rate_history_ /\ s = Append(h, r) /\ n = Len(h) + 1
  OBVIOUS
<1>4. /\ h = computed /\ h \in Seq(Records) /\ Len(h) <= MaxHistory
      /\ \A i \in 1 .. Len(h) : h[i].timestamp \in 1 .. now
  BY <1>3 DEF RatesOK
<1>5. Len(h) \in Nat /\ n \in Nat \ {0} /\ MaxHistory \in Nat \ {0}
  BY <1>3, <1>4, LenProperties, FundingTypes
<1>6. /\ s \in Seq(Records) /\ s # <<>> /\ Len(s) = n
      /\ \A i \in 1 .. Len(h) : s[i] = h[i]
      /\ s[n] = r /\ s = h \o <<r>>
  BY <1>2, <1>3, <1>4, AppendProperties, AppendIsConcat
<1>7. \A i \in 1 .. n : s[i].timestamp \in 1 .. now
  <2> SUFFICES ASSUME NEW i \in 1 .. n PROVE s[i].timestamp \in 1 .. now
    OBVIOUS
  <2>1. CASE i = n
    BY <1>2, <1>6, <2>1
  <2>2. CASE i # n
    <3>1. i \in 1 .. Len(h)
      BY <1>3, <1>5, <2>2
    <3> QED BY <1>4, <1>6, <3>1
  <2> QED BY <2>1, <2>2
<1>8. PICK m : m = Max({1, Len(h) + 2 - MaxHistory})
  OBVIOUS
<1>9. m = IF 1 <= Len(h) + 2 - MaxHistory THEN Len(h) + 2 - MaxHistory ELSE 1
  BY <1>5, <1>8, MaxOfTwo
<1>10. /\ funding_rate_history_' = Kept(s) /\ funding_rate' = <<r.rate>>
       /\ computed' = SubSeq(s, m, n)
  BY <1>1, <1>3, <1>4, <1>6, <1>8 DEF ComputeRate
<1>11. CASE n > MaxHistory
  <2>1. n = MaxHistory + 1 /\ m = 2
    BY <1>3, <1>4, <1>5, <1>9, <1>11
  <2>2. funding_rate_history_' = Tail(s) /\ computed' = SubSeq(s, 2, n)
    BY <1>6, <1>10, <1>11, <2>1 DEF Kept
  <2>3. Tail(s) = SubSeq(s, 2, n)
    BY <1>6, TailIsSubSeq
  <2>4. Tail(s) \in Seq(Records) /\ Len(Tail(s)) = n - 1 /\ \A i \in 1 .. n - 1 : Tail(s)[i] = s[i + 1]
    BY <1>6, HeadTailProperties
  <2>5. \A i \in 1 .. n - 1 : Tail(s)[i].timestamp \in 1 .. now
    <3> SUFFICES ASSUME NEW i \in 1 .. n - 1 PROVE Tail(s)[i].timestamp \in 1 .. now
      OBVIOUS
    <3>1. i + 1 \in 1 .. n
      BY <1>5
    <3> QED BY <1>7, <2>4, <3>1
  <2>6. Tail(s)[n - 1] = r
    <3>1. n - 1 \in 1 .. n - 1 /\ (n - 1) + 1 = n
      BY <1>5, <2>1
    <3> QED BY <1>6, <2>4, <3>1
  <2>7. PICK t : t = Tail(s)
    OBVIOUS
  <2>8. t \in Seq(Records) /\ Len(t) = n - 1 /\ n - 1 <= MaxHistory
        /\ (\A i \in 1 .. Len(t) : t[i].timestamp \in 1 .. now) /\ t[Len(t)] = r
    BY <1>5, <2>1, <2>4, <2>5, <2>6, <2>7
  <2>9. funding_rate_history_' = t /\ computed' = t
    BY <2>2, <2>3, <2>7
  <2> QED BY <1>10, <2>8, <2>9 DEF RatesOK
<1>12. CASE ~(n > MaxHistory)
  <2>1. m = 1
    BY <1>3, <1>5, <1>9, <1>12
  <2>2. funding_rate_history_' = s
    BY <1>6, <1>10, <1>12 DEF Kept
  <2>3. computed' = s
    BY <1>6, <1>10, <2>1, SubSeqFull
  <2>4. s \in Seq(Records) /\ Len(s) <= MaxHistory /\ (\A i \in 1 .. Len(s) : s[i].timestamp \in 1 .. now)
        /\ s[Len(s)] = r
    BY <1>5, <1>6, <1>7, <1>12
  <2> QED BY <1>10, <2>2, <2>3, <2>4 DEF RatesOK
<1> QED BY <1>11, <1>12

\* The loop that collects the records of a period, when all lie in it.
LEMMA AllInPeriod ==
    ASSUME RatesOK, now \in Nat
    PROVE  FundingRateHistory(1, now) = funding_rate_history_
<1>1. PICK h, l : h = funding_rate_history_ /\ l = Len(h)
  OBVIOUS
<1>2. /\ h \in Seq(Records) /\ l \in Nat
      /\ \A i \in 1 .. l : 1 <= h[i].timestamp /\ h[i].timestamp <= now
  BY <1>1, LenProperties DEF RatesOK
<1> DEFINE In(r) == 1 <= r.timestamp /\ r.timestamp <= now
           Loop(f) == f = [n \in 0 .. l |-> IF n = 0 THEN <<>>
                                            ELSE IF In(h[n]) THEN Append(f[n - 1], h[n]) ELSE f[n - 1]]
           firsts == [n \in 0 .. l |-> SubSeq(h, 1, n)]
<1>3. ASSUME NEW n \in 1 .. l PROVE Append(SubSeq(h, 1, n - 1), h[n]) = SubSeq(h, 1, n)
  <2>1. 1 \in 1 .. Len(h) /\ n \in 1 .. Len(h) /\ n - 1 \in Int
    BY <1>1, <1>2
  <2>2. SubSeq(h, 1, n) = SubSeq(h, 1, n - 1) \o <<h[n]>>
    BY <1>2, <2>1, SubSeqRecursiveSecond
  <2>3. SubSeq(h, 1, n - 1) \in Seq(Records)
    <3>1. \A i \in 1 .. n - 1 : h[i] \in Records
      BY <1>1, <1>2, ElementOfSeq
    <3> QED BY <2>1, <3>1, SubSeqProperties
  <2>4. h[n] \in Records
    BY <1>1, <1>2, <2>1, ElementOfSeq
  <2> QED BY <2>2, <2>3, <2>4, AppendIsConcat
<1>4. SubSeq(h, 1, 0) = <<>> /\ SubSeq(h, 1, l) = h
  BY <1>1, <1>2, SubSeqEmpty, SubSeqFull
<1>5. Loop(firsts)
  <2>1. ASSUME NEW n \in 0 .. l
        PROVE  firsts[n] = IF n = 0 THEN <<>> ELSE IF In(h[n]) THEN Append(firsts[n - 1], h[n]) ELSE firsts[n - 1]
    <3>1. CASE n = 0
      BY <1>4, <3>1
    <3>2. CASE n # 0
      <4>1. n \in 1 .. l /\ n - 1 \in 0 .. l
        BY <1>2, <3>2
      <4> QED BY <1>2, <1>3, <3>2, <4>1
    <3> QED BY <3>1, <3>2
  <2> QED BY <2>1
<1>6. ASSUME NEW f, Loop(f) PROVE f[l] = h
  <2> DEFINE Bad == {n \in 0 .. l : f[n] # SubSeq(h, 1, n)}
  <2>1. ASSUME Bad # {} PROVE FALSE
    <3>1. Bad \subseteq Nat
      BY <1>2
    <3>2. PICK n \in Bad : \A k \in Bad : ~(<<k, n>> \in OpToRel(<, Nat))
      <4> HIDE DEF Bad
      <4> QED BY <2>1, <3>1, NatLessThanWellFounded, WFMin
    <3>3. n \in 0 .. l /\ f[n] # SubSeq(h, 1, n)
      OBVIOUS
    <3>4. f[n] = IF n = 0 THEN <<>> ELSE IF In(h[n]) THEN Append(f[n - 1], h[n]) ELSE f[n - 1]
      BY <1>6, <3>3
    <3>5. n # 0
      BY <1>4, <3>3, <3>4
    <3>6. n \in 1 .. l /\ n - 1 \in 0 .. l /\ n - 1 < n
      BY <1>2, <3>3, <3>5
    <3>7. n - 1 \notin Bad
      <4> HIDE DEF Bad
      <4>1. <<n - 1, n>> \in Nat \X Nat
        BY <1>2, <3>3, <3>6
      <4> QED BY <3>2, <3>6, <4>1 DEF OpToRel
    <3>8. f[n - 1] = SubSeq(h, 1, n - 1)
      BY <3>6, <3>7
    <3>9. f[n] = Append(f[n - 1], h[n])
      BY <1>2, <3>4, <3>5, <3>6
    <3> QED BY <1>3, <3>3, <3>6, <3>8, <3>9
  <2>2. l \in 0 .. l
    BY <1>2
  <2> QED BY <1>4, <2>1, <2>2
<1>7. FundingRateHistory(1, now) = (CHOOSE f : Loop(f))[l]
  BY <1>1 DEF FundingRateHistory
<1> HIDE DEF Loop, firsts
<1> QED BY <1>1, <1>5, <1>6, <1>7

\* What a step does to the histories when it computes no rate.
LEMMA RatesRest ==
    ASSUME RatesOK, UNCHANGED <<funding_rate, funding_rate_history_, computed>>,
           now \in Nat, now' \in Nat, now <= now'
    PROVE  RatesOK'
<1>1. \A i \in 1 .. Len(funding_rate_history_) : funding_rate_history_[i].timestamp \in 1 .. now'
  <2> SUFFICES ASSUME NEW i \in 1 .. Len(funding_rate_history_)
               PROVE  funding_rate_history_[i].timestamp \in 1 .. now'
    OBVIOUS
  <2>1. funding_rate_history_[i].timestamp \in 1 .. now
    BY DEF RatesOK
  <2> QED BY <2>1
<1> QED BY <1>1 DEF RatesOK

\* A wait of one lap more.
LEMMA LapsAdd ==
    ASSUME NEW d \in Nat, NEW k \in Nat
    PROVE  d * (k + 1) = d * k + d /\ d * k \in Nat
OBVIOUS

LEMMA WakeKeeps ==
    ASSUME LoopOK, OnTime, Wake
    PROVE  LoopOK' /\ OnTime'
<1>1. /\ loop = "sleep" /\ counter' = (counter + 1) % CheckEvery
      /\ loop' = (IF counter' = 0 THEN "read" ELSE "sleep") /\ slept_at' = now
      /\ UNCHANGED <<holder, now, next_settlement, settled_at, gap, next_read>>
  BY DEF Wake, settleVars
<1>2. /\ now \in Nat \ {0} /\ counter \in 0 .. CheckEvery - 1 /\ next_settlement \in Nat
      /\ CheckEvery \in Nat \ {0} /\ Lap \in Nat \ {0} /\ slept_at \in Nat /\ settled_at \in Nat
  BY FundingTypes DEF LoopOK
<1>3. counter' = IF counter + 1 = CheckEvery THEN 0 ELSE counter + 1
  <2>1. PICK k : k = counter + 1
    OBVIOUS
  <2>2. k \in Nat /\ k <= CheckEvery /\ counter' = k % CheckEvery
    BY <1>1, <1>2, <2>1
  <2>3. CASE k < CheckEvery
    BY <1>2, <2>1, <2>2, <2>3
  <2>4. CASE k = CheckEvery
    <3>1. CheckEvery % CheckEvery = 0
      BY <1>2
    <3> QED BY <2>1, <2>2, <2>4, <3>1
  <2> QED BY <1>2, <2>2, <2>3, <2>4
<1>4. LoopOK'
  BY <1>1, <1>2, <1>3 DEF LoopOK
<1>5. OnTime'
  <2> SUFFICES ASSUME Free
               PROVE  /\ now <= now + (IF loop' = "sleep" THEN Lap ELSE 0)
                      /\ settled_at # 0 =>
                           now + 1 <= next_settlement + Lap * (IF loop' = "sleep" THEN counter' ELSE CheckEvery)
    BY <1>1 DEF OnTime, Free
  <2>1. PICK k, d : k = counter /\ d = Lap
    OBVIOUS
  <2>2. now <= slept_at + d /\ (settled_at # 0 => slept_at + 1 <= next_settlement + d * k)
    BY <1>1, <2>1 DEF OnTime
  <2>3. k \in Nat /\ d \in Nat /\ d * (k + 1) = d * k + d /\ d * k \in Nat
    BY <1>2, <2>1, LapsAdd
  <2>4. settled_at # 0 => now + 1 <= next_settlement + d * (k + 1)
    BY <1>2, <2>2, <2>3
  <2>5. (IF loop' = "sleep" THEN counter' ELSE CheckEvery) = k + 1
    BY <1>1, <1>2, <1>3, <2>1
  <2>6. now <= now + (IF loop' = "sleep" THEN Lap ELSE 0)
    BY <1>2
  <2> QED BY <2>1, <2>4, <2>5, <2>6
<1> QED BY <1>4, <1>5

LEMMA LoopKeeps ==
    ASSUME LoopOK, OnTime, ReadNext \/ Decide \/ ReadRate \/ SetNext
    PROVE  LoopOK' /\ OnTime'
<1>1. /\ now \in Nat \ {0} /\ slept_at \in 0 .. now /\ counter \in 0 .. CheckEvery - 1 /\ settled_at \in 0 .. now
      /\ next_read \in Nat /\ gap \in Nat /\ gap >= settlement_interval_ /\ holder \in {"nobody", "recalculate"}
      /\ next_settlement = (IF settled_at = 0 THEN 0 ELSE settled_at + settlement_interval_)
      /\ CheckEvery \in Nat \ {0} /\ Lap \in Nat \ {0} /\ settlement_interval_ \in Nat \ {0}
  BY FundingTypes DEF LoopOK
<1>2. loop # "sleep" /\ counter = 0 /\ UNCHANGED <<holder, now, counter>>
  BY DEF LoopOK, ReadNext, Decide, ReadRate, SetNext
<1>3. next_settlement \in Nat
  BY <1>1
<1>4. Lap * 0 = 0 /\ Lap * CheckEvery \in Nat
  BY <1>1
<1>5. CASE ReadNext
  <2>1. /\ loop' = "decide" /\ next_read' = next_settlement
        /\ UNCHANGED <<slept_at, next_settlement, settled_at, gap>>
    BY <1>5 DEF ReadNext, settleVars
  <2>2. LoopOK'
    BY <1>1, <1>2, <1>3, <2>1 DEF LoopOK
  <2>3. OnTime'
    BY <1>2, <2>1 DEF OnTime, Free
  <2> QED BY <2>2, <2>3
<1>6. CASE Decide
  <2>1. /\ loop = "decide" /\ next_read = next_settlement
        /\ UNCHANGED <<next_read, next_settlement, settled_at, gap>>
    BY <1>6 DEF Decide, settleVars, LoopOK
  <2>2. CASE Due(next_read)
    <3>1. loop' = "rate" /\ slept_at' = slept_at /\ (next_settlement = 0 \/ now >= next_settlement)
      BY <1>6, <2>1, <2>2 DEF Decide, Due
    <3>2. LoopOK'
      BY <1>1, <1>2, <2>1, <3>1 DEF LoopOK
    <3>3. OnTime'
      BY <1>2, <2>1, <3>1 DEF OnTime, Free
    <3> QED BY <3>2, <3>3
  <2>3. CASE ~Due(next_read)
    <3>1. loop' = "sleep" /\ slept_at' = now /\ next_settlement # 0 /\ ~(now >= next_settlement)
      BY <1>6, <2>1, <2>3 DEF Decide, Due
    <3>2. LoopOK'
      BY <1>1, <1>2, <2>1, <3>1 DEF LoopOK
    <3>3. now + 1 <= next_settlement
      BY <1>1, <1>3, <3>1
    <3>4. now <= now + Lap /\ now + 1 <= next_settlement + Lap * 0
      BY <1>1, <1>3, <1>4, <3>3
    <3>5. OnTime'
      BY <1>2, <2>1, <3>1, <3>4 DEF OnTime
    <3> QED BY <3>2, <3>5
  <2> QED BY <2>2, <2>3
<1>7. CASE ReadRate
  <2>1. /\ loop = "rate" /\ loop' = "set"
        /\ UNCHANGED <<slept_at, next_read, next_settlement, settled_at, gap>>
    BY <1>7 DEF ReadRate, settleVars
  <2>2. LoopOK'
    BY <2>1, <1>2 DEF LoopOK
  <2>3. OnTime'
    BY <1>2, <2>1 DEF OnTime, Free
  <2> QED BY <2>2, <2>3
<1>8. CASE SetNext
  <2>1. /\ loop = "set" /\ loop' = "sleep" /\ slept_at' = now /\ settled_at' = now
        /\ next_settlement' = now + settlement_interval_ /\ next_read' = next_read
        /\ gap' = IF settled_at = 0 THEN gap ELSE Min({gap, now - settled_at})
    BY <1>8 DEF SetNext
  <2>2. next_settlement = 0 \/ now >= next_settlement
    BY <2>1 DEF LoopOK
  <2>3. gap' \in Nat /\ gap' >= settlement_interval_
    <3>1. CASE settled_at = 0
      BY <1>1, <2>1, <3>1
    <3>2. CASE settled_at # 0
      <4>1. now - settled_at \in Nat /\ now - settled_at >= settlement_interval_
        BY <1>1, <2>2, <3>2
      <4>2. gap' = gap \/ gap' = now - settled_at
        <5>1. gap \in Int /\ now - settled_at \in Int
          BY <1>1
        <5> QED BY <2>1, <3>2, <5>1, MinOfTwo
      <4> QED BY <1>1, <4>1, <4>2
    <3> QED BY <3>1, <3>2
  <2>4. LoopOK'
    BY <1>1, <1>2, <2>1, <2>3 DEF LoopOK
  <2>5. now <= now + Lap /\ now + 1 <= (now + settlement_interval_) + Lap * 0
    BY <1>1, <1>4
  <2>6. OnTime'
    BY <1>2, <2>1, <2>5 DEF OnTime
  <2> QED BY <2>4, <2>6
<1> QED BY <1>5, <1>6, <1>7, <1>8

LEMMA SecondKeeps ==
    ASSUME LoopOK, OnTime, Second
    PROVE  LoopOK' /\ OnTime'
<1>1. /\ now' = now + 1 /\ (Free => loop = "sleep" /\ now <= slept_at + MaxLag)
      /\ UNCHANGED <<holder, loop, counter, slept_at, next_read, next_settlement, settled_at, gap>>
  BY DEF Second, loopVars, settleVars
<1>2. now \in Nat \ {0} /\ now' \in Nat \ {0} /\ now <= now' /\ slept_at \in 0 .. now /\ settled_at \in 0 .. now
  BY <1>1 DEF LoopOK
<1>3. LoopOK'
  <2>1. next_settlement \in Nat
    BY <1>2, FundingTypes DEF LoopOK
  <2>2. now >= next_settlement => now' >= next_settlement
    BY <1>1, <1>2, <2>1
  <2>3. slept_at \in 0 .. now' /\ settled_at \in 0 .. now'
    BY <1>1, <1>2
  <2> QED BY <1>1, <1>2, <2>2, <2>3 DEF LoopOK
<1>4. OnTime'
  <2> SUFFICES ASSUME Free
               PROVE  /\ now' <= slept_at + (IF loop = "sleep" THEN Lap ELSE 0)
                      /\ settled_at # 0 =>
                           slept_at + 1 <= next_settlement + Lap * (IF loop = "sleep" THEN counter ELSE CheckEvery)
    BY <1>1 DEF OnTime, Free
  <2>1. loop = "sleep" /\ now <= slept_at + MaxLag /\ MaxLag \in Nat
    BY <1>1, FundingAssumption
  <2>2. now' <= slept_at + Lap
    BY <1>1, <1>2, <2>1 DEF Lap
  <2> QED BY <2>1, <2>2 DEF OnTime
<1> QED BY <1>3, <1>4

LEMMA FundingStep ==
    FundingInv /\ [FundingNext \/ UpdatePremiumIndex \/ RecalculateRate]_fundingVars => FundingInv'
<1> SUFFICES ASSUME FundingInv, [FundingNext \/ UpdatePremiumIndex \/ RecalculateRate]_fundingVars
             PROVE  FundingInv'
  OBVIOUS
<1>1. RatesOK /\ LoopOK /\ OnTime
  BY DEF FundingInv
<1>2. now \in Nat \ {0}
  BY <1>1 DEF LoopOK
<1>3. ASSUME UNCHANGED <<rateVars, now>> PROVE RatesOK'
  BY <1>1, <1>2, <1>3, RatesRest DEF rateVars
<1>4. CASE Wake
  <2>1. UNCHANGED <<rateVars, now>>
    BY <1>4 DEF Wake
  <2> QED BY <1>1, <1>3, <1>4, <2>1, WakeKeeps DEF FundingInv
<1>5. CASE ReadNext \/ Decide \/ ReadRate \/ SetNext
  <2>1. UNCHANGED <<rateVars, now>>
    BY <1>5 DEF ReadNext, Decide, ReadRate, SetNext
  <2> QED BY <1>1, <1>3, <1>5, <2>1, LoopKeeps DEF FundingInv
<1>6. CASE Second
  <2>1. UNCHANGED rateVars /\ now' \in Nat /\ now <= now'
    BY <1>2, <1>6 DEF Second
  <2>2. RatesOK'
    BY <1>1, <1>2, <2>1, RatesRest DEF rateVars
  <2> QED BY <1>1, <1>6, <2>2, SecondKeeps DEF FundingInv
<1>7. CASE CalculateFundingRate
  <2>1. PICK q \in Quotes : ComputeRate(PremiumIndex(q))
    BY <1>7 DEF CalculateFundingRate
  <2>2. UNCHANGED <<holder, now, loopVars, settleVars>>
    BY <1>7 DEF CalculateFundingRate
  <2>3. RatesOK'
    BY <1>1, <1>2, <2>1, <2>2, PremiumInt, ComputeKeeps
  <2>4. LoopOK' /\ OnTime'
    BY <1>1, <2>2 DEF loopVars, settleVars, LoopOK, OnTime, Free
  <2> QED BY <2>3, <2>4 DEF FundingInv
<1>8. CASE UpdatePremiumIndex
  <2>1. holder' = "recalculate"
        /\ UNCHANGED <<now, funding_rate, funding_rate_history_, computed, loopVars, settleVars>>
    BY <1>8 DEF UpdatePremiumIndex
  <2>2. RatesOK'
    BY <1>1, <1>2, <2>1, RatesRest
  <2>3. LoopOK'
    BY <1>1, <2>1 DEF loopVars, settleVars, LoopOK
  <2>4. OnTime'
    BY <2>1 DEF OnTime, Free
  <2> QED BY <2>2, <2>3, <2>4 DEF FundingInv
<1>9. CASE RecalculateRate
  BY <1>9 DEF RecalculateRate, Free
<1>10. CASE UNCHANGED fundingVars
  <2>1. UNCHANGED <<rateVars, now>> /\ UNCHANGED <<holder, loopVars, settleVars>>
    BY <1>10 DEF fundingVars
  <2>2. LoopOK' /\ OnTime'
    BY <1>1, <2>1 DEF loopVars, settleVars, LoopOK, OnTime, Free
  <2> QED BY <1>3, <2>1, <2>2 DEF FundingInv
<1> QED BY <1>4, <1>5, <1>6, <1>7, <1>8, <1>9, <1>10 DEF FundingNext

LEMMA TruncatedInt ==
    ASSUME NEW a \in Int, NEW b \in Nat \ {0}
    PROVE  Truncated(a, b) \in Int
<1>1. CASE a >= 0
  BY <1>1 DEF Truncated
<1>2. CASE ~(a >= 0)
  <2>1. PICK n : n = -a
    OBVIOUS
  <2>2. n \in Nat
    BY <1>2, <2>1
  <2>3. PICK q : q = n \div b
    OBVIOUS
  <2>4. q \in Nat
    BY <2>2, <2>3, WholeParts
  <2> QED BY <1>2, <2>1, <2>3, <2>4 DEF Truncated
<1> QED BY <1>1, <1>2

\* Who pays and who receives differ in the sign only.
LEMMA FeesCancel ==
    ASSUME NEW n \in Nat \ {0}, NEW m \in Int, m = -n, NEW mark \in Nat, NEW rate \in Int
    PROVE  Fee(n, mark, rate, 2, 100) = -Fee(m, mark, rate, 2, 100)
<1>1. PICK fee : fee = Truncated(((n * mark) \div 2) * rate, 100)
  OBVIOUS
<1>2. fee \in Int
  <2>1. n * mark \in Nat
    OBVIOUS
  <2>2. (n * mark) \div 2 \in Nat
    BY <2>1, WholeParts
  <2>3. ((n * mark) \div 2) * rate \in Int
    BY <2>2
  <2> QED BY <1>1, <2>3, TruncatedInt
<1>3. ~(n < 0) /\ m < 0 /\ -m = n
  OBVIOUS
<1>4. Fee(n, mark, rate, 2, 100) = fee
  BY <1>1, <1>3 DEF Fee
<1>5. Fee(m, mark, rate, 2, 100) = -fee
  BY <1>1, <1>3 DEF Fee
<1> QED BY <1>2, <1>4, <1>5

LEMMA AllFeesBalance == FeesBalance
<1> SUFFICES ASSUME NEW q \in Quotes, NEW factor \in {1, 25, 10000}, NEW n \in 1 .. 3
             PROVE  Fee(n, q[3], CalculatedRate(q[3], q[1], factor, 100), 2, 100)
                       = -Fee(-n, q[3], CalculatedRate(q[3], q[1], factor, 100), 2, 100)
  BY DEF FeesBalance
<1>1. PICK rate, mark, index, m : /\ rate = CalculatedRate(q[3], q[1], factor, 100)
                                  /\ mark = q[3] /\ index = q[1] /\ m = -n
  OBVIOUS
<1>2. mark \in Nat /\ index \in Nat
  BY <1>1, FundingAssumption
<1>3. rate \in Int
  <2>1. CASE index = 0
    BY <1>1, <2>1 DEF CalculatedRate
  <2>2. CASE index # 0
    <3>1. (mark - index) * 100 \in Int /\ index \in Nat \ {0}
      BY <1>2, <2>2
    <3>2. Truncated((mark - index) * 100, index) * factor \in Int
      BY <3>1, TruncatedInt
    <3>3. Truncated(Truncated((mark - index) * 100, index) * factor, 10000) \in Int
      BY <3>2, TruncatedInt
    <3>4. PICK bound : bound = 100 \div 100
      OBVIOUS
    <3>5. bound \in Nat
      BY <3>4
    <3>6. Cap(Truncated(Truncated((mark - index) * 100, index) * factor, 10000), bound) \in Int
      BY <3>3, <3>5, CapWithin
    <3> QED BY <1>1, <2>2, <3>4, <3>6 DEF CalculatedRate
  <2> QED BY <2>1, <2>2
<1>4. n \in Nat \ {0} /\ m \in Int
  BY <1>1
<1>5. Fee(n, mark, rate, 2, 100) = -Fee(m, mark, rate, 2, 100)
  BY <1>1, <1>2, <1>3, <1>4, FeesCancel
<1> QED BY <1>1, <1>5

\* The funding loop with any callers of calculateFundingRate, and even of updatePremiumIndex:
\* the history is the last rates computed and is found again by its times, settlements
\* are at least the interval apart and late by no more than the laps between two checks
\* while the mutex is free, and fees cancel out.
THEOREM FundingKept == IndexedSpec => []FundingSound
<1>1. ASSUME FundingInv PROVE FundingSound
  <2>1. RatesOK /\ LoopOK /\ OnTime
    BY <1>1 DEF FundingInv
  <2>2. /\ now \in Nat \ {0} /\ slept_at \in 0 .. now /\ counter \in 0 .. CheckEvery - 1 /\ settled_at \in 0 .. now
        /\ next_read \in Nat /\ gap \in Nat /\ gap >= settlement_interval_
        /\ loop \in {"sleep", "read", "decide", "rate", "set"}
        /\ next_settlement = (IF settled_at = 0 THEN 0 ELSE settled_at + settlement_interval_)
        /\ CheckEvery \in Nat \ {0} /\ Lap \in Nat \ {0} /\ settlement_interval_ \in Nat \ {0}
    BY <2>1, FundingTypes DEF LoopOK
  <2>3. PICK h : h = funding_rate_history_
    OBVIOUS
  <2>4. h \in Seq(Records) /\ h = computed /\ Len(h) <= MaxHistory
    BY <2>1, <2>3 DEF RatesOK
  <2>5. DOMAIN h = 1 .. Len(h) /\ Len(h) \in Nat
    BY <2>4, LenProperties
  <2>6. FundingTypeOK
    <3>1. \A i \in DOMAIN h : h[i].rate \in -MaxRate .. MaxRate
      <4> SUFFICES ASSUME NEW i \in 1 .. Len(h) PROVE h[i].rate \in -MaxRate .. MaxRate
        BY <2>5
      <4>1. h[i] \in Records
        BY <2>4, ElementOfSeq
      <4> QED BY <4>1 DEF Records
    <3>2. {next_settlement, next_read, settled_at, gap} \subseteq Nat
      BY <2>2
    <3> QED BY <2>2, <2>3, <2>4, <3>1, <3>2 DEF FundingTypeOK
  <2>7. HistoryIsLast
    <3>1. FundingRateHistory(1, now) = funding_rate_history_
      BY <2>1, <2>2, AllInPeriod
    <3>2. computed # <<>> => CurrentFundingRate = Last(computed).rate
      <4> SUFFICES ASSUME computed # <<>> PROVE CurrentFundingRate = Last(computed).rate
        OBVIOUS
      <4>1. funding_rate = <<computed[Len(computed)].rate>>
        BY <2>1 DEF RatesOK
      <4>2. funding_rate # <<>> /\ funding_rate[1] = computed[Len(computed)].rate
        BY <4>1
      <4> QED BY <4>2 DEF CurrentFundingRate, Last
    <3> QED BY <2>3, <2>4, <3>1, <3>2 DEF HistoryIsLast
  <2>8. SettledOnTime
    <3> SUFFICES ASSUME Free, settled_at # 0
                 PROVE  now <= settled_at + settlement_interval_ + CheckEvery * (1 + MaxLag)
      BY <2>2 DEF SettledOnTime
    <3>1. PICK d, k : d = Lap /\ k = counter
      OBVIOUS
    <3>2. d \in Nat /\ k \in Nat /\ k + 1 <= CheckEvery /\ d * CheckEvery \in Nat
      BY <2>2, <3>1
    <3>3. d * (k + 1) = d * k + d /\ d * k \in Nat /\ d * (k + 1) <= d * CheckEvery
      BY <2>2, <3>2, ProductGrows
    <3>4. next_settlement = settled_at + settlement_interval_
      BY <2>2
    <3>5. CASE loop = "sleep"
      <4>1. now <= slept_at + d /\ slept_at + 1 <= next_settlement + d * k
        BY <2>1, <3>1, <3>5 DEF OnTime
      <4>2. now <= settled_at + settlement_interval_ + d * CheckEvery
        BY <2>2, <3>2, <3>3, <3>4, <4>1
      <4> QED BY <2>2, <3>1, <4>2 DEF Lap
    <3>6. CASE loop # "sleep"
      <4>1. now <= slept_at + 0 /\ slept_at + 1 <= next_settlement + d * CheckEvery
        BY <2>1, <3>1, <3>6 DEF OnTime
      <4>2. now <= settled_at + settlement_interval_ + d * CheckEvery
        BY <2>2, <3>2, <3>4, <4>1
      <4> QED BY <2>2, <3>1, <4>2 DEF Lap
    <3> QED BY <3>5, <3>6
  <2> QED BY <2>6, <2>7, <2>8, AllFeesBalance DEF FundingSound
<1> QED BY <1>1, FundingInitial, FundingStep, PTL DEF IndexedSpec
=============================================================================
