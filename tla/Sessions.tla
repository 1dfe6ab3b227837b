------------------------------- MODULE Sessions -------------------------------
(***************************************************************************)
(* Sessions: the auth service over the account service.  An account's      *)
(* token version and active flag are in one database, the refresh tokens   *)
(* in another, the map of logged-in users in the memory of auth.  A call   *)
(* of auth is a sequence of steps on them, overlapping with other calls;   *)
(* an access token verifies while its version is that of the account with  *)
(* its e-mail address.                                                     *)
(***************************************************************************)
EXTENDS Naturals, FiniteSets

CONSTANTS
    User,    \* ids of accounts; an id is used once
    Email,   \* e-mail addresses
    Call,    \* calls of auth, from the gateway or, the global logout, from elsewhere
    NoCall,  \* stands for no call
    Offered, \* the operations clients call
    MaxFaults \* bound on failed remote calls and crashes

VARIABLES
    email,     \* the e-mail address an id is for, fixed
    account,   \* table accounts: token_version and is_active
    rows,      \* table refresh_tokens: the calls whose token is stored
    logged,    \* loggedInUsers
    op,        \* the operation of a call
    target,    \* its user, or one with its e-mail; in the global logout that of the round
    pc,        \* its next step
    token,     \* the tokens it has signed: both have this id and version
    visit,     \* users the global logout's range loop has still to produce
    ranging,   \* global logouts that range over the present map
    late,      \* effect that an abandoned call may still have
    answered,  \* calls whose client has been told that they succeeded
    faults,    \* remote calls that failed, and crashes
    before,    \* history: sessions begun when a revoking call was submitted
    told,      \* history: sessions whose client had a token by then
    listed,    \* history: the users logged in by then
    over,      \* history: revoking calls over when a session began
    switched   \* history: the call that set a user's is_active last

handler == <<op, target, pc, visit, ranging>>
failing == <<late, faults>>
history == <<before, told, listed, over, switched>>
vars == <<email, account, rows, logged, handler, token, failing, answered, history>>

Op == {"Signup", "Login", "RefreshToken", "Logout", "LogoutAll",
       "ResetPassword", "DeactivateAccount", "ReactivateAccount", "DeleteAccount"}

ASSUME UserAssumption == User # {}
ASSUME EmailAssumption == Email # {}
ASSUME NoCallAssumption == NoCall \notin Call
ASSUME OfferedAssumption == Offered \subseteq Op
ASSUME CallAssumption == IsFiniteSet(Call)
ASSUME MaxFaultsAssumption == MaxFaults \in Nat

\* Steps that call another service or a database, and what they change.
Writes == {"PostAccount", "StoreRefreshToken", "DeleteRefreshToken",
           "IncrementTokenVersion", "Deactivate", "Reactivate", "Delete"}
Remote == Writes \cup {"GetEmailForAuth", "GetRefreshToken", "UpdatePassword"}
Step == Remote \cup {"idle", "sign", "track", "untrack", "range", "next", "done", "failed"}

Account == [exists : BOOLEAN, version : Nat, active : BOOLEAN]
NoAccount == [exists |-> FALSE, version |-> 0, active |-> FALSE]
\* An account as signup creates it.
AccountWithoutVersion == [exists |-> TRUE, version |-> 0, active |-> TRUE]

NewAccount == [exists |-> TRUE, version |-> 1, active |-> TRUE]

\* id and version are the account's that root, a call, read; expires orders the
\* stored tokens by their expires_at.
NoToken == [id |-> CHOOSE u \in User : TRUE, version |-> 0, root |-> NoCall, expires |-> 0]
Token == [id : User, version : Nat, root : Call \cup {NoCall}, expires : Nat]

Root(c) == token[c].root
Owner(c) == token[c].id
Issuing == {"Signup", "Login", "RefreshToken", "ResetPassword"}
LoggingOut == {"Logout", "LogoutAll"}
Revoking == LoggingOut \cup {"ResetPassword", "DeactivateAccount", "DeleteAccount"}

-----------------------------------------------------------------------------
(* The order of the steps in auth/service.go. *)

First == [o \in Op |->
    CASE o = "Signup" -> "PostAccount"
      [] o = "Login" -> "GetEmailForAuth"
      [] o = "RefreshToken" -> "GetRefreshToken"
      [] o = "Logout" -> "DeleteRefreshToken"
      [] o = "LogoutAll" -> "range"
      [] o = "ResetPassword" -> "UpdatePassword"
      [] o = "DeactivateAccount" -> "Deactivate"
      [] o = "ReactivateAccount" -> "Reactivate"
      [] o = "DeleteAccount" -> "Delete"]

AfterWithoutIncrement(o, s) ==
    CASE s \in {"PostAccount", "GetEmailForAuth", "GetRefreshToken"} -> "sign"
      [] s = "sign" -> "StoreRefreshToken"
      [] s = "StoreRefreshToken" -> IF o = "RefreshToken" THEN "done" ELSE "track"
      [] s \in {"UpdatePassword", "Deactivate", "Delete"} -> "DeleteRefreshToken"
      [] s = "DeleteRefreshToken" ->
            IF o = "DeleteAccount" THEN "untrack" ELSE IF o = "LogoutAll" THEN "next" ELSE "IncrementTokenVersion"
      [] s = "IncrementTokenVersion" -> IF o = "ResetPassword" THEN "GetEmailForAuth" ELSE "untrack"
      [] OTHER -> "done"

After(o, s) ==
    CASE s \in {"PostAccount", "GetEmailForAuth", "GetRefreshToken"} -> "sign"
      [] s = "sign" -> "StoreRefreshToken"
      [] s = "StoreRefreshToken" -> IF o = "RefreshToken" THEN "done" ELSE "track"
      [] s \in {"UpdatePassword", "Deactivate", "Delete"} -> "DeleteRefreshToken"
      [] s = "DeleteRefreshToken" -> IF o = "DeleteAccount" THEN "untrack" ELSE "IncrementTokenVersion"
      [] s = "IncrementTokenVersion" ->
            IF o = "ResetPassword" THEN "GetEmailForAuth"
            ELSE IF o = "LogoutAll" THEN "next" ELSE "untrack"
      [] OTHER -> "done"

Advance(c) == pc' = [pc EXCEPT ![c] = After(op[c], pc[c])]
Fail(c) == pc' = [pc EXCEPT ![c] = "failed"]

Ended(c) == pc[c] \in {"done", "failed"}
Running(c) == pc[c] # "idle" /\ ~Ended(c)

-----------------------------------------------------------------------------
(* Tokens. *)

\* The accounts there are with the e-mail of u.
Holders(u) == {v \in User : account[v].exists /\ email[v] = email[u]}

\* email ... UNIQUE
EmailsUnique == \A u \in User : \A v \in Holders(u) : account[u].exists => v = u

\* VerifyToken: there is an account with the token's e-mail, and it has the
\* token's version.  The id is not compared.
Verifies(c) == \E v \in Holders(Owner(c)) : account[v].version = token[c].version

\* The calls whose access token the client got: resetPassword's is dropped by
\* the gateway.
Given == {c \in Call : c \in answered /\ op[c] \in {"Signup", "Login", "RefreshToken"}}

\* A client holds a token with u's id and e-mail that verifies.
Authenticated(u) == \E c \in Given : Owner(c) = u /\ Verifies(c)

-----------------------------------------------------------------------------
(* The effect of each step on the databases. *)

\* UPDATE accounts SET token_version = token_version + 1 WHERE id = $1
IncrementEveryone(u) ==
    account' = [v \in User |-> IF account[v].exists THEN [account[v] EXCEPT !.version = @ + 1] ELSE account[v]]

Increment(u) ==
    account' = IF account[u].exists THEN [account EXCEPT ![u].version = @ + 1] ELSE account

\* INSERT INTO accounts, with an id that has not been used; refused when the
\* e-mail is taken.  An instance has so many ids for an e-mail.
FreshOrDeleted(c) == {v \in User : Holders(target[c]) = {} /\ email[v] = email[target[c]]}

Fresh(c) == {v \in User : Holders(target[c]) = {} /\ email[v] = email[target[c]] /\ account[v].version = 0}

Create(c, v) ==
    /\ account' = [account EXCEPT ![v] = NewAccount]
    /\ switched' = [switched EXCEPT ![v] = c]
    /\ UNCHANGED rows

Effect(s, c) ==
    LET u == target[c] IN
    \/ /\ s = "PostAccount"
       /\ \/ \E v \in Fresh(c) : Create(c, v)
          \/ Fresh(c) = {} /\ UNCHANGED <<account, rows, switched>>
    \/ /\ s = "StoreRefreshToken"
       /\ rows' = [rows EXCEPT ![Owner(c)] = @ \cup {c}]
       /\ UNCHANGED <<account, switched>>
    \/ /\ s = "DeleteRefreshToken"
       /\ rows' = [rows EXCEPT ![u] = {}]
       /\ UNCHANGED <<account, switched>>
    \/ /\ s = "IncrementTokenVersion"
       /\ Increment(u)
       /\ UNCHANGED <<rows, switched>>
    \/ /\ s \in {"Deactivate", "Reactivate"}
       /\ account' = IF account[u].exists THEN [account EXCEPT ![u].active = (s = "Reactivate")] ELSE account
       /\ switched' = [switched EXCEPT ![u] = c]
       /\ UNCHANGED rows
    \/ /\ s = "Delete"
       /\ account' = [account EXCEPT ![u].exists = FALSE]
       /\ UNCHANGED <<rows, switched>>

-----------------------------------------------------------------------------
(* Actions. *)

TypeOK ==
    /\ email \in [User -> Email]
    /\ account \in [User -> Account]
    /\ \A u \in User : account[u].exists => account[u].version > 0
    /\ rows \in [User -> SUBSET Call]
    /\ logged \subseteq User
    /\ op \in [Call -> Op \cup {"none"}]
    /\ target \in [Call -> User]
    /\ pc \in [Call -> Step]
    /\ token \in [Call -> Token]
    /\ visit \in [Call -> SUBSET User]
    /\ ranging \subseteq Call
    /\ late \in [Call -> Writes \cup {"none"}]
    /\ answered \subseteq Call
    /\ faults \in 0..MaxFaults
    /\ before \in [Call -> SUBSET Call]
    /\ told \in [Call -> SUBSET (Call \cup {NoCall})]
    /\ listed \in [Call -> SUBSET User]
    /\ over \in [Call -> SUBSET Call]
    /\ switched \in [User -> Call \cup {NoCall}]

\* Auth has just been started: an account may exist, nobody is logged in.
Init ==
    /\ email \in [User -> Email]
    /\ account \in [User -> {NoAccount, NewAccount}]
    /\ EmailsUnique
    /\ rows = [u \in User |-> {}]
    /\ logged = {}
    /\ op = [c \in Call |-> "none"]
    /\ target = [c \in Call |-> CHOOSE u \in User : TRUE]
    /\ pc = [c \in Call |-> "idle"]
    /\ token = [c \in Call |-> NoToken]
    /\ visit = [c \in Call |-> {}]
    /\ ranging = {}
    /\ late = [c \in Call |-> "none"]
    /\ answered = {}
    /\ faults = 0
    /\ before = [c \in Call |-> {}]
    /\ told = [c \in Call |-> {}]
    /\ listed = [c \in Call |-> {}]
    /\ over = [c \in Call |-> {}]
    /\ switched = [u \in User |-> NoCall]

\* The gateway lets a user reset the password and delete the account of a token
\* that verifies, as its e-mail and its id name them.  A logout is the user's or
\* an administrator's, who are not modelled; nothing else is checked.  Its
\* validation asks for a user id, so that a global logout only comes straight
\* from a client of auth.
Submit(c) ==
    /\ pc[c] = "idle"
    /\ \E o \in Offered, u \in User :
          /\ o \in {"ResetPassword", "DeleteAccount"} => Authenticated(u)
          /\ op' = [op EXCEPT ![c] = o]
          /\ target' = [target EXCEPT ![c] = u]
          /\ pc' = [pc EXCEPT ![c] = First[o]]
          /\ before' = IF o \in Revoking
                       THEN [before EXCEPT ![c] = {r \in Call : Root(r) = r}] ELSE before
          /\ told' = IF o = "LogoutAll" THEN [told EXCEPT ![c] = {Root(t) : t \in Given}] ELSE told
          /\ listed' = IF o = "LogoutAll" THEN [listed EXCEPT ![c] = logged] ELSE listed
    /\ UNCHANGED <<email, account, rows, logged, token, visit, ranging, failing, answered, over, switched>>

\* A session begins: its tokens will have the id and the version read.
Begin(c, v, version) ==
    /\ token' = [token EXCEPT ![c] = [id |-> v, version |-> version, root |-> c, expires |-> 0]]
    /\ over' = [over EXCEPT ![c] =
                   {d \in Call : op[d] \in Revoking /\ Ended(d) /\ late[d] = "none"}]

\* PostAccount inserts the account and returns its id and version, or fails
\* because the e-mail is taken.
PostAccount(c) ==
    /\ pc[c] = "PostAccount"
    /\ \/ \E v \in Fresh(c) :
             /\ Create(c, v)
             /\ Begin(c, v, NewAccount.version)
             /\ Advance(c)
       \/ /\ Holders(target[c]) # {}
          /\ Fail(c)
          /\ UNCHANGED <<account, rows, switched, token, over>>
    /\ UNCHANGED <<email, logged, op, target, visit, ranging, failing, answered, before, told, listed>>

\* GetEmailForAuth in Login, which looks in loggedInUsers for the e-mail, never
\* a key of that map, and refuses an inactive account; and in ResetPassword,
\* which goes on with the account of the e-mail.
AcceptsInactive(c) == Holders(target[c])

Accepted(c) == {v \in Holders(target[c]) : op[c] = "Login" => account[v].active}

ReadAccount(c) ==
    /\ pc[c] = "GetEmailForAuth"
    /\ \/ \E v \in Accepted(c) : Begin(c, v, account[v].version) /\ Advance(c)
       \/ Accepted(c) = {} /\ Fail(c) /\ UNCHANGED <<token, over>>
    /\ UNCHANGED <<email, account, rows, logged, op, target, visit, ranging, failing, answered, before, told, listed, switched>>

\* The refreshed tokens take their id and version from the stored one.
RefreshedWithVersionOfAccount(c, d) ==
    [id |-> Owner(d), version |-> account[target[c]].version, root |-> Root(d), expires |-> 0]

Refreshed(c, d) == [id |-> Owner(d), version |-> token[d].version, root |-> Root(d), expires |-> 0]

\* GetRefreshToken: the row that expires last.
FetchRow(c) ==
    LET stored == rows[target[c]] IN
    /\ pc[c] = "GetRefreshToken"
    /\ \/ \E d \in stored :
             /\ \A e \in stored : token[e].expires <= token[d].expires
             /\ token' = [token EXCEPT ![c] = Refreshed(c, d)]
             /\ Advance(c)
       \/ stored = {} /\ Fail(c) /\ UNCHANGED token
    /\ UNCHANGED <<email, account, rows, logged, op, target, visit, ranging, failing, answered, history>>

\* Both tokens are signed; StoreRefreshToken computes expires_at on entry.
Sign(c) ==
    /\ pc[c] = "sign"
    /\ token' = [token EXCEPT ![c].expires = 1 + Cardinality({d \in Call : token[d].expires > 0})]
    /\ Advance(c)
    /\ UNCHANGED <<email, account, rows, logged, op, target, visit, ranging, failing, answered, history>>

\* The steps that only write.
Write(c) ==
    /\ pc[c] \in Writes \ {"PostAccount"}
    /\ Effect(pc[c], c)
    /\ Advance(c)
    /\ UNCHANGED <<email, logged, op, target, token, visit, ranging, failing, answered, before, told, listed, over>>

\* The password hash is read by no operation.
UpdatePassword(c) ==
    /\ pc[c] = "UpdatePassword"
    /\ Advance(c)
    /\ UNCHANGED <<email, account, rows, logged, op, target, token, visit, ranging, failing, answered, history>>

\* loggedInUsers[id] = true: a loop over the map may or may not produce it.
Track(c) ==
    /\ pc[c] = "track"
    /\ logged' = logged \cup {Owner(c)}
    /\ \E some \in SUBSET ranging :
          visit' = [d \in Call |-> IF d \in some THEN visit[d] \cup {Owner(c)} ELSE visit[d]]
    /\ Advance(c)
    /\ UNCHANGED <<email, account, rows, op, target, token, ranging, failing, answered, history>>

\* delete(loggedInUsers, id): a loop that has not produced it will not.
Untrack(c) ==
    /\ pc[c] = "untrack"
    /\ logged' = logged \ {target[c]}
    /\ visit' = [d \in Call |-> IF d \in ranging THEN visit[d] \ {target[c]} ELSE visit[d]]
    /\ Advance(c)
    /\ UNCHANGED <<email, account, rows, op, target, token, ranging, failing, answered, history>>

\* The global logout ranges over the map without the mutex,
StartRange(c) ==
    /\ pc[c] = "range"
    /\ visit' = [visit EXCEPT ![c] = logged]
    /\ ranging' = ranging \cup {c}
    /\ pc' = [pc EXCEPT ![c] = "next"]
    /\ UNCHANGED <<email, account, rows, logged, op, target, token, failing, answered, history>>

NextUser(c) ==
    /\ pc[c] = "next"
    /\ \E u \in visit[c] :
          /\ visit' = [visit EXCEPT ![c] = @ \ {u}]
          /\ target' = [target EXCEPT ![c] = u]
    /\ pc' = [pc EXCEPT ![c] = "DeleteRefreshToken"]
    /\ UNCHANGED <<email, account, rows, logged, op, token, ranging, failing, answered, history>>

\* and replaces it by an empty one; other loops go on over the old map.
ClearMap(c) ==
    /\ pc[c] = "next"
    /\ visit[c] = {}
    /\ logged' = {}
    /\ ranging' = {}
    /\ Advance(c)
    /\ UNCHANGED <<email, account, rows, op, target, token, visit, failing, answered, history>>

\* A remote call fails, or is cut off by the gateway's 5 second deadline: the
\* handler returns the error; what the call asked for may still happen.
CallFails(c) ==
    /\ pc[c] \in Remote
    /\ faults < MaxFaults
    /\ faults' = faults + 1
    /\ late' = IF pc[c] \in Writes THEN [late EXCEPT ![c] = pc[c]] ELSE late
    /\ Fail(c)
    /\ visit' = [visit EXCEPT ![c] = {}]
    /\ ranging' = ranging \ {c}
    /\ UNCHANGED <<email, account, rows, logged, op, target, token, answered, history>>

LateEffect(c) ==
    /\ late[c] # "none"
    /\ Effect(late[c], c)
    /\ late' = [late EXCEPT ![c] = "none"]
    /\ UNCHANGED <<email, logged, handler, token, answered, faults, before, told, listed, over>>

\* The client of a call that failed or whose deadline passed learns nothing of
\* what the call did: it is not answered here.
Respond(c) ==
    /\ pc[c] = "done"
    /\ c \notin answered
    /\ answered' = answered \cup {c}
    /\ UNCHANGED <<email, account, rows, logged, handler, token, failing, history>>

\* Auth's container dies, by itself or because the runtime found the map used
\* by two goroutines at once, and restarts with an empty map.
Crash ==
    /\ logged # {} \/ \E c \in Call : Running(c)
    /\ faults < MaxFaults
    /\ faults' = faults + 1
    /\ logged' = {}
    /\ late' = [c \in Call |-> IF Running(c) /\ pc[c] \in Writes THEN pc[c] ELSE late[c]]
    /\ pc' = [c \in Call |-> IF Running(c) THEN "failed" ELSE pc[c]]
    /\ visit' = [c \in Call |-> {}]
    /\ ranging' = {}
    /\ UNCHANGED <<email, account, rows, op, target, token, answered, history>>

Next ==
    \/ \E c \in Call : Submit(c)
    \/ \E c \in Call : PostAccount(c)
    \/ \E c \in Call : ReadAccount(c)
    \/ \E c \in Call : FetchRow(c)
    \/ \E c \in Call : Sign(c)
    \/ \E c \in Call : Write(c)
    \/ \E c \in Call : UpdatePassword(c)
    \/ \E c \in Call : Track(c)
    \/ \E c \in Call : Untrack(c)
    \/ \E c \in Call : StartRange(c)
    \/ \E c \in Call : NextUser(c)
    \/ \E c \in Call : ClearMap(c)
    \/ \E c \in Call : CallFails(c)
    \/ \E c \in Call : LateEffect(c)
    \/ \E c \in Call : Respond(c)
    \/ Crash

Spec == Init /\ [][Next]_vars

-----------------------------------------------------------------------------
(* Properties. *)

\* The account is gone, and its e-mail is another one's.
Succeeded(u) == ~account[u].exists /\ Holders(u) # {}

\* "Tokens include versioning support to invalidate on logout/reset": once a
\* logout, a password reset, a deactivation or a deletion has answered, no token
\* of a session begun before it was called verifies, also not one refreshed while
\* it ran or since; unless the account was deleted, the e-mail registered again,
\* and the versions of the two accounts meet.
LogoutEndsSessions ==
    \A c \in Call, t \in Given :
        /\ c \in answered /\ op[c] \in {"Logout", "ResetPassword", "DeactivateAccount", "DeleteAccount"}
        /\ Owner(t) = target[c] /\ Root(t) \in before[c] /\ Verifies(t)
        => Succeeded(Owner(t))

\* While the deactivation of an account stands and has answered, only a session
\* begun by a password reset, which does not look at is_active, or by way of a
\* successor of the account, has a token that verifies: no login slips in between
\* the disabling and the increment.  Any reset is excepted: one that overlaps the
\* deactivation may begin a session whose tokens allow further resets.
DeactivatedNeedsReset ==
    \A c \in Call, t \in Given :
        /\ c \in answered /\ op[c] = "DeactivateAccount" /\ switched[target[c]] = c
        /\ Owner(t) = target[c] /\ Verifies(t)
        => op[Root(t)] = "ResetPassword" \/ Succeeded(Owner(t))

\* A client that was given a token keeps it unless somebody asked for it to be
\* revoked: another revoking call of the user's was not over, late effects
\* included, when the token's session began.
NobodyIsLoggedOutUnasked ==
    \A t \in Given :
        \/ Verifies(t)
        \/ \E c \in Call \ {Root(t)} :
              /\ op[c] = "LogoutAll" \/ (op[c] \in Revoking /\ target[c] = Owner(t))
              /\ c \notin over[Root(t)]

\* A token that has stopped to verify never verifies again, unless the account
\* was deleted and its e-mail registered again: no version comes back, whatever
\* calls overlap, fail or take effect late.
NoTokenComesBack ==
    [][\A t \in Given : ~Verifies(t) => ~Verifies(t)' \/ Succeeded(Owner(t))']_vars

\* A revoking call of u's, another than c, that was not over when the session
\* began and has ended with success.
Interferes(d, u, session) ==
    /\ op[d] = "LogoutAll" \/ (op[d] \in Revoking /\ target[d] = u)
    /\ pc[d] = "done"
    /\ d \notin over[session]

\* What the global logout does guarantee: once it has answered, no token of a
\* session that had been given out before it was called, of a user who was
\* logged in then, verifies; except that another revoking call may have taken
\* the user off the map, or have replaced the map, before the loop reached it.
GlobalLogoutEndsListed ==
    \A c \in Call, t \in Given :
        /\ c \in answered /\ op[c] = "LogoutAll"
        /\ Root(t) \in told[c] /\ Owner(t) \in listed[c] /\ Verifies(t)
        => \/ Succeeded(Owner(t))
           \/ \E d \in Call \ {c} : Interferes(d, Owner(t), Root(t))

\* Claimed by the end of the global logout, "All users logged out successfully":
\* no token verifies whose session's client had one before.
GlobalLogoutEndsSessions ==
    \A c \in Call, t \in Given :
        c \in answered /\ op[c] = "LogoutAll" /\ Root(t) \in told[c] => ~Verifies(t)

\* Claimed by the answer of the deactivation, "Please reactivate to use again":
\* until it is reactivated no token of the account verifies.
DeactivatedIsOut ==
    \A c \in Call, t \in Given :
        /\ c \in answered /\ op[c] = "DeactivateAccount" /\ switched[target[c]] = c
        /\ Owner(t) = target[c]
        => ~Verifies(t)
=============================================================================
