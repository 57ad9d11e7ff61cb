---------------------------------- MODULE Auth ----------------------------------
(***************************************************************************)
(* AuthManager, JWTManager and APIKeyManager (src/core/auth_manager.cpp):  *)
(* the registered users with their two indexes, the tokens a login gives   *)
(* out, and the API keys.  Each method is one critical section of          *)
(* users_mutex_ or keys_mutex_, so one action.                             *)
(*                                                                         *)
(* A hash stands for what it hashes, and a signature for its key and its   *)
(* message; both functions are OpenSSL's.  Names hold no separator of the  *)
(* token's claims.                                                         *)
(***************************************************************************)
EXTENDS Integers, FiniteSets, Functions

CONSTANTS
    Names, Emails,
    Passwords, LongEnough,      \* those of 8 characters or more
    Admin, AdminPassword,
    FirstId, MaxUsers,          \* next_user_id_ at first; bound of registrations
    TokenLife, MaxTime,         \* 24 hours; bound of the clock
    Keys,                       \* the API keys that may come up, each with a secret
    Nothing

ASSUME AuthAssumption ==
    /\ Admin \notin Names \cup Emails /\ LongEnough \subseteq Passwords
    /\ FirstId \in Nat \ {0, 1} /\ {MaxUsers, TokenLife, MaxTime} \subseteq Nat
    /\ Nothing \notin Keys

VARIABLES
    time,
    users_,             \* user id -> [username, email, password, roles]
    username_to_id_, email_to_id_,
    next_user_id_,
    jwts,               \* the tokens given out: [user_id, username, exp]
    issued,             \* history: [token, at, password]
    api_keys_,          \* API key -> [user_id, is_active, last_used_at]
    key_to_secret_,     \* the API keys with a secret
    verified            \* history: the last API key verified, or Nothing

userVars == <<users_, username_to_id_, email_to_id_, next_user_id_>>
tokenVars == <<jwts, issued>>
keyVars == <<api_keys_, key_to_secret_, verified>>
authVars == <<time, userVars, tokenVars, keyVars>>

\* The constructor makes the administrator.
AuthInit ==
    /\ time = 0
    /\ users_ = [i \in {1} |-> [username |-> Admin, email |-> Admin, password |-> AdminPassword,
                                roles |-> {"admin"}]]
    /\ username_to_id_ = [n \in {Admin} |-> 1] /\ email_to_id_ = [n \in {Admin} |-> 1]
    /\ next_user_id_ = FirstId
    /\ jwts = {} /\ issued = {}
    /\ api_keys_ = [k \in {} |-> 0] /\ key_to_secret_ = {} /\ verified = Nothing

Put(f, x, y) == [z \in DOMAIN f \cup {x} |-> IF z = x THEN y ELSE f[z]]
-----------------------------------------------------------------------------
(* AuthManager *)

UnusedSlip(name, email) == name \notin DOMAIN username_to_id_
Unused(name, email) == name \notin DOMAIN username_to_id_ /\ email \notin DOMAIN email_to_id_

Register(name, email, password) ==
    /\ next_user_id_ < FirstId + MaxUsers
    /\ Unused(name, email) /\ password \in LongEnough
    /\ users_' = Put(users_, next_user_id_,
                     [username |-> name, email |-> email, password |-> password, roles |-> {"user"}])
    /\ username_to_id_' = Put(username_to_id_, name, next_user_id_)
    /\ email_to_id_' = Put(email_to_id_, email, next_user_id_)
    /\ next_user_id_' = next_user_id_ + 1
    /\ UNCHANGED <<time, tokenVars, keyVars>>

\* A name is looked for among the user names first.
Resolve(name) ==
    IF name \in DOMAIN username_to_id_ THEN {username_to_id_[name]}
    ELSE IF name \in DOMAIN email_to_id_ THEN {email_to_id_[name]} ELSE {}

VerifyPassword(user_id, password) == users_[user_id].password = password

\* The claims of a token leave the roles out.
Login(name, password) ==
    \E user_id \in Resolve(name) :
        LET token == [user_id |-> user_id, username |-> users_[user_id].username,
                      exp |-> time + TokenLife]
        IN  /\ VerifyPassword(user_id, password)
            /\ jwts' = jwts \cup {token}
            /\ issued' = issued \cup {[token |-> token, at |-> time]}
            /\ UNCHANGED <<time, userVars, keyVars>>

\* The tokens given out before stay good.
ChangePassword(user_id, old, new) ==
    /\ user_id \in DOMAIN users_ /\ VerifyPassword(user_id, old) /\ new \in LongEnough
    /\ users_' = [users_ EXCEPT ![user_id].password = new]
    /\ UNCHANGED <<time, username_to_id_, email_to_id_, next_user_id_, tokenVars, keyVars>>

Expired(token) == token.exp < time

\* The signature is good when this program made the token.  No user is looked up.
VerifyToken(token) == token \in jwts /\ ~Expired(token)

\* The roles of the user as registered; a permission has no names of its own.
HasPermission(user_id, permission) == user_id \in DOMAIN users_ /\ "admin" \in users_[user_id].roles
-----------------------------------------------------------------------------
(* APIKeyManager *)

CreateAPIKey(user_id, key) ==
    /\ key \notin DOMAIN api_keys_
    /\ api_keys_' = Put(api_keys_, key, [user_id |-> user_id, is_active |-> TRUE, last_used_at |-> 0])
    /\ key_to_secret_' = key_to_secret_ \cup {key}
    /\ UNCHANGED <<time, userVars, tokenVars, verified>>

Usable(key) == key \in key_to_secret_ /\ key \in DOMAIN api_keys_ /\ api_keys_[key].is_active

\* signer is the key whose secret made the signature.  A wrong one is a use, too.
VerifySignature(key, signer) ==
    /\ Usable(key)
    /\ api_keys_' = [api_keys_ EXCEPT ![key].last_used_at = time]
    /\ verified' = IF signer = key THEN key ELSE Nothing
    /\ UNCHANGED <<time, userVars, tokenVars, key_to_secret_>>

RevokeAPIKey(key) ==
    /\ key \in DOMAIN api_keys_
    /\ api_keys_' = [api_keys_ EXCEPT ![key].is_active = FALSE]
    /\ key_to_secret_' = key_to_secret_ \ {key}
    /\ verified' = IF verified = key THEN Nothing ELSE verified
    /\ UNCHANGED <<time, userVars, tokenVars>>
-----------------------------------------------------------------------------
PassTime == time < MaxTime /\ time' = time + 1 /\ UNCHANGED <<userVars, tokenVars, keyVars>>

UserNext ==
    \/ \E n \in Names, e \in Emails, p \in Passwords : Register(n, e, p)
    \/ \E n \in Names \cup Emails \cup {Admin}, p \in Passwords : Login(n, p)
    \/ \E i \in DOMAIN users_, old, new \in Passwords : ChangePassword(i, old, new)
    \/ PassTime

KeyNext ==
    \/ \E i \in DOMAIN users_, k \in Keys : CreateAPIKey(i, k)
    \/ \E k, s \in Keys : VerifySignature(k, s)
    \/ \E k \in Keys : RevokeAPIKey(k)

AuthSpec == AuthInit /\ [][UserNext \/ KeyNext]_authVars
-----------------------------------------------------------------------------
\* Type correctness of the maps.
AuthTypeOK ==
    /\ \A i \in DOMAIN users_ : users_[i].password \in Passwords \cup {AdminPassword}
    /\ DOMAIN users_ \subseteq 1 .. next_user_id_ - 1
    /\ \A t \in jwts : t.user_id \in DOMAIN users_ /\ t.exp \in Nat
    /\ DOMAIN api_keys_ \subseteq Keys /\ time \in 0 .. MaxTime

\* registerUser, after any registrations and refusals: no two users share a name or an
\* address, and each is found under both of its own.
IndexesAgree ==
    /\ \A i \in DOMAIN users_ :
          /\ users_[i].username \in DOMAIN username_to_id_ /\ username_to_id_[users_[i].username] = i
          /\ users_[i].email \in DOMAIN email_to_id_ /\ email_to_id_[users_[i].email] = i
    /\ Cardinality(DOMAIN username_to_id_) = Cardinality(DOMAIN users_)
    /\ Cardinality(DOMAIN email_to_id_) = Cardinality(DOMAIN users_)

\* login and verifyToken, which looks no user up: a token that is accepted was given
\* out within the last 24 hours to the user of that name.
TokensTellUser ==
    \A t \in jwts : VerifyToken(t) =>
        /\ users_[t.user_id].username = t.username
        /\ \E r \in issued : r.token = t /\ time <= r.at + TokenLife

\* revokeAPIKey against verifySignature, which looks into two maps: a key that has
\* been revoked is never accepted again, though it stays listed.
RevokedStaysRevoked ==
    \A k \in DOMAIN api_keys_ : ~api_keys_[k].is_active => ~Usable(k) /\ verified # k

\* AuthManager over any registrations, logins, changes of passwords and key revocations:
\* the indexes agree, an accepted token tells whose it is and how old, and what has been
\* revoked stays revoked.
UsersSound == AuthTypeOK /\ IndexesAgree /\ TokensTellUser /\ RevokedStaysRevoked
=============================================================================
