--------------------------- MODULE SessionsProofs ---------------------------
(***************************************************************************)
(* Theorems about Sessions, for every set of accounts and every finite set *)
(* of calls of any of its operations.                                      *)
(***************************************************************************)
EXTENDS Sessions, FiniteSetTheorems, TLAPS

USE UserAssumption, EmailAssumption, NoCallAssumption, OfferedAssumption, CallAssumption, MaxFaultsAssumption

-----------------------------------------------------------------------------
(* Type correctness. *)

\* The first and the next step of an operation are steps.
LEMMA FirstType == \A o \in Op : First[o] \in Step
BY DEF Op, First, Step, Remote, Writes

\* After leads from a step to a step.
LEMMA AfterType == \A o, s : After(o, s) \in Step
BY DEF After, Step, Remote, Writes

\* The initial state is well typed.
LEMMA InitType == Init => TypeOK
<1> SUFFICES ASSUME Init
             PROVE  TypeOK
  OBVIOUS
<1>1. NoAccount \in Account /\ NewAccount \in Account
  BY DEF NoAccount, NewAccount, Account
<1>2. account \in [User -> Account]
  BY <1>1 DEF Init
<1>3. \A u \in User : account[u].exists => account[u].version > 0
  BY DEF Init, NoAccount, NewAccount
<1>4. (CHOOSE u \in User : TRUE) \in User
  OBVIOUS
<1>5. token \in [Call -> Token]
  BY <1>4 DEF Init, NoToken, Token
<1> QED
  BY <1>2, <1>3, <1>4, <1>5 DEF Init, TypeOK, Step

\* The effect of a step keeps accounts accounts and rows rows.
LEMMA EffectType ==
  ASSUME TypeOK, NEW c \in Call, NEW s, Effect(s, c)
  PROVE  /\ account' \in [User -> Account]
         /\ \A u \in User : account'[u].exists => account'[u].version > 0
         /\ rows' \in [User -> SUBSET Call]
         /\ switched' \in [User -> Call \cup {NoCall}]
<1> DEFINE u == target[c]
<1>1. /\ u \in User
      /\ account \in [User -> Account]
      /\ rows \in [User -> SUBSET Call]
      /\ switched \in [User -> Call \cup {NoCall}]
      /\ \A v \in User : account[v].exists => account[v].version > 0
  BY DEF TypeOK
<1>2. /\ account[u] \in Account /\ account[u].version \in Nat
      /\ NewAccount \in Account /\ NewAccount.version > 0
  BY <1>1 DEF Account, NewAccount
<1>3. CASE s = "PostAccount"
  <2>1. CASE UNCHANGED <<account, rows, switched>>
    BY <1>1, <2>1
  <2>2. ASSUME NEW v \in Fresh(c), Create(c, v)
        PROVE  /\ account' \in [User -> Account]
               /\ \A w \in User : account'[w].exists => account'[w].version > 0
               /\ rows' \in [User -> SUBSET Call]
               /\ switched' \in [User -> Call \cup {NoCall}]
    BY <1>1, <1>2, <2>2 DEF Create, Fresh
  <2> QED
    BY <1>3, <2>1, <2>2 DEF Effect
<1>4. CASE s = "StoreRefreshToken"
  <2>1. Owner(c) \in User
    BY DEF TypeOK, Token, Owner
  <2>2. rows' = [rows EXCEPT ![Owner(c)] = @ \cup {c}] /\ UNCHANGED <<account, switched>>
    BY <1>4 DEF Effect
  <2> QED
    BY <1>1, <2>1, <2>2
<1>5. CASE s = "DeleteRefreshToken"
  BY <1>1, <1>5 DEF Effect
<1>6. CASE s = "IncrementTokenVersion"
  <2>1. Increment(u) /\ UNCHANGED <<rows, switched>>
    BY <1>6 DEF Effect
  <2>2. [account[u] EXCEPT !.version = @ + 1] \in Account
    BY <1>2 DEF Account
  <2>3. account' \in [User -> Account]
    BY <1>1, <2>1, <2>2 DEF Increment
  <2>4. \A v \in User : account'[v].exists => account'[v].version > 0
    BY <1>1, <1>2, <2>1 DEF Increment, Account
  <2> QED
    BY <1>1, <2>1, <2>3, <2>4
<1>7. CASE s \in {"Deactivate", "Reactivate"}
  <2>1. /\ account' = IF account[u].exists THEN [account EXCEPT ![u].active = (s = "Reactivate")] ELSE account
        /\ switched' = [switched EXCEPT ![u] = c]
        /\ UNCHANGED rows
    BY <1>7 DEF Effect
  <2>2. (s = "Reactivate") \in BOOLEAN
    OBVIOUS
  <2>3. [account[u] EXCEPT !.active = (s = "Reactivate")] \in Account
    BY <1>2, <2>2 DEF Account
  <2>4. account' \in [User -> Account]
    BY <1>1, <2>1, <2>3
  <2>5. \A v \in User : account'[v].exists => account'[v].version > 0
    BY <1>1, <1>2, <2>1 DEF Account
  <2> QED
    BY <1>1, <2>1, <2>4, <2>5
<1>8. CASE s = "Delete"
  <2>1. account' = [account EXCEPT ![u].exists = FALSE] /\ UNCHANGED <<rows, switched>>
    BY <1>8 DEF Effect
  <2>2. [account[u] EXCEPT !.exists = FALSE] \in Account
    BY <1>2 DEF Account
  <2>3. account' \in [User -> Account]
    BY <1>1, <2>1, <2>2
  <2>4. \A v \in User : account'[v].exists => account'[v].version > 0
    <3> SUFFICES ASSUME NEW v \in User, account'[v].exists
                 PROVE  account'[v].version > 0
      OBVIOUS
    <3>1. v # u
      BY <1>1, <1>2, <2>1 DEF Account
    <3> QED
      BY <1>1, <2>1, <3>1
  <2> QED
    BY <1>1, <2>1, <2>3, <2>4
<1> QED
  BY <1>3, <1>4, <1>5, <1>6, <1>7, <1>8 DEF Effect


\* Beginning a session keeps tokens tokens.
LEMMA BeginType ==
  ASSUME TypeOK, NEW c \in Call, NEW v \in User, NEW n \in Nat, Begin(c, v, n)
  PROVE  /\ token' \in [Call -> Token]
         /\ over' \in [Call -> SUBSET Call]
BY DEF TypeOK, Begin, Token

\* Every step leads from well-typed states to well-typed states.
LEMMA NextType == TypeOK /\ [Next]_vars => TypeOK'
<1> SUFFICES ASSUME TypeOK, [Next]_vars
             PROVE  TypeOK'
  OBVIOUS
<1> USE DEF handler, failing, history
<1>0. \A c \in Call, s \in Step : [pc EXCEPT ![c] = s] \in [Call -> Step]
  BY DEF TypeOK
<1>1. \A c \in Call : Advance(c) => pc' \in [Call -> Step]
  BY <1>0, AfterType DEF Advance
<1>2. \A c \in Call : Fail(c) => pc' \in [Call -> Step]
  BY <1>0 DEF Fail, Step
<1>3. ASSUME NEW c \in Call, Submit(c)
      PROVE  TypeOK'
  <2>1. PICK o \in Offered, u \in User :
          /\ op' = [op EXCEPT ![c] = o]
          /\ target' = [target EXCEPT ![c] = u]
          /\ pc' = [pc EXCEPT ![c] = First[o]]
          /\ before' = IF o \in Revoking
                       THEN [before EXCEPT ![c] = {r \in Call : Root(r) = r}] ELSE before
          /\ told' = IF o = "LogoutAll" THEN [told EXCEPT ![c] = {Root(t) : t \in Given}] ELSE told
          /\ listed' = IF o = "LogoutAll" THEN [listed EXCEPT ![c] = logged] ELSE listed
    BY <1>3 DEF Submit
  <2>2. o \in Op /\ First[o] \in Step
    BY FirstType
  <2>3. before' \in [Call -> SUBSET Call]
    BY <2>1 DEF TypeOK
  <2>4. told' \in [Call -> SUBSET (Call \cup {NoCall})]
    BY <2>1 DEF TypeOK, Given, Root, Token
  <2>5. listed' \in [Call -> SUBSET User]
    BY <2>1 DEF TypeOK
  <2> QED
    BY <1>0, <1>3, <2>1, <2>2, <2>3, <2>4, <2>5 DEF TypeOK, Submit
<1>4. ASSUME NEW c \in Call, PostAccount(c)
      PROVE  TypeOK'
  <2>1. CASE pc'[c] = "failed" /\ UNCHANGED <<account, rows, switched, token, over>> /\ Fail(c)
    BY <1>2, <1>4, <2>1 DEF TypeOK, PostAccount
  <2>2. ASSUME NEW v \in Fresh(c), Create(c, v), Begin(c, v, NewAccount.version), Advance(c)
        PROVE  TypeOK'
    <3>1. v \in User /\ NewAccount.version \in Nat
      BY <2>2 DEF Fresh, NewAccount
    <3>2. Effect("PostAccount", c)
      BY <2>2 DEF Effect
    <3>3. /\ token' \in [Call -> Token] /\ over' \in [Call -> SUBSET Call]
      BY <2>2, <3>1, BeginType
    <3>4. /\ account' \in [User -> Account]
          /\ \A u \in User : account'[u].exists => account'[u].version > 0
          /\ rows' \in [User -> SUBSET Call]
          /\ switched' \in [User -> Call \cup {NoCall}]
      BY <3>2, EffectType
    <3> QED
      BY <1>1, <1>4, <2>2, <3>3, <3>4 DEF TypeOK, PostAccount
  <2> QED
    BY <1>4, <2>1, <2>2 DEF PostAccount, Fail, TypeOK
<1>5. ASSUME NEW c \in Call, ReadAccount(c)
      PROVE  TypeOK'
  <2>1. \A v \in Accepted(c) : v \in User /\ account[v].version \in Nat
    BY DEF TypeOK, Account, Accepted, Holders
  <2>2. /\ pc' \in [Call -> Step]
        /\ token' \in [Call -> Token]
        /\ over' \in [Call -> SUBSET Call]
    BY <1>1, <1>2, <1>5, <2>1, BeginType DEF ReadAccount, TypeOK
  <2> QED
    BY <1>5, <2>2 DEF ReadAccount, TypeOK
<1>6. ASSUME NEW c \in Call, FetchRow(c)
      PROVE  TypeOK'
  <2>1. \A d \in Call : Refreshed(c, d) \in Token
    BY DEF TypeOK, Refreshed, Root, Owner, Token
  <2>2. rows[target[c]] \subseteq Call
    BY DEF TypeOK
  <2>3. pc' \in [Call -> Step]
    BY <1>1, <1>2, <1>6 DEF FetchRow
  <2>4. CASE UNCHANGED token
    BY <1>6, <2>3, <2>4 DEF FetchRow, TypeOK
  <2>5. CASE \E d \in rows[target[c]] : token' = [token EXCEPT ![c] = Refreshed(c, d)]
    <3>1. token' \in [Call -> Token]
      BY <2>1, <2>2, <2>5 DEF TypeOK
    <3> QED
      BY <1>6, <2>3, <3>1 DEF FetchRow, TypeOK
  <2> QED
    BY <1>6, <2>4, <2>5 DEF FetchRow
<1>7. ASSUME NEW c \in Call, Sign(c)
      PROVE  TypeOK'
  <2> DEFINE dated == {d \in Call : token[d].expires > 0}
  <2>1. Cardinality(dated) \in Nat
    BY FS_Subset, FS_CardinalityType
  <2> HIDE DEF dated
  <2>2. token' = [token EXCEPT ![c].expires = 1 + Cardinality(dated)]
    BY <1>7 DEF Sign, dated
  <2>3. ASSUME NEW n \in Nat
        PROVE  [token[c] EXCEPT !.expires = n] \in Token
    <3>1. token[c] \in Token
      BY DEF TypeOK
    <3> QED
      BY <3>1 DEF Token
  <2>4. token' \in [Call -> Token]
    <3>1. PICK n \in Nat : n = 1 + Cardinality(dated)
      BY <2>1
    <3>2. token' = [token EXCEPT ![c] = [token[c] EXCEPT !.expires = n]]
      BY <2>2, <3>1 DEF TypeOK
    <3> QED
      BY <2>3, <3>2 DEF TypeOK
  <2> QED
    BY <1>1, <1>7, <2>4 DEF Sign, TypeOK
<1>8. ASSUME NEW c \in Call, Write(c)
      PROVE  TypeOK'
  BY <1>1, <1>8, EffectType DEF Write, TypeOK
<1>9. ASSUME NEW c \in Call, UpdatePassword(c)
      PROVE  TypeOK'
  BY <1>1, <1>9 DEF UpdatePassword, TypeOK
<1>10. ASSUME NEW c \in Call, Track(c)
       PROVE  TypeOK'
  <2>1. Owner(c) \in User
    BY DEF TypeOK, Token, Owner
  <2> QED
    BY <1>1, <1>10, <2>1 DEF Track, TypeOK
<1>11. ASSUME NEW c \in Call, Untrack(c)
       PROVE  TypeOK'
  BY <1>1, <1>11 DEF Untrack, TypeOK
<1>12. ASSUME NEW c \in Call, StartRange(c)
       PROVE  TypeOK'
  BY <1>0, <1>12 DEF StartRange, TypeOK, Step
<1>13. ASSUME NEW c \in Call, NextUser(c)
       PROVE  TypeOK'
  <2>1. "DeleteRefreshToken" \in Step
    BY DEF Step, Remote, Writes
  <2>2. visit' \in [Call -> SUBSET User] /\ target' \in [Call -> User]
    BY <1>13 DEF NextUser, TypeOK
  <2> QED
    BY <1>0, <1>13, <2>1, <2>2 DEF NextUser, TypeOK
<1>14. ASSUME NEW c \in Call, ClearMap(c)
       PROVE  TypeOK'
  BY <1>1, <1>14 DEF ClearMap, TypeOK
<1>15. ASSUME NEW c \in Call, CallFails(c)
       PROVE  TypeOK'
  <2>1. late' \in [Call -> Writes \cup {"none"}]
    BY <1>15 DEF CallFails, TypeOK
  <2>2. faults' \in 0..MaxFaults
    BY <1>15 DEF CallFails, TypeOK
  <2> QED
    BY <1>2, <1>15, <2>1, <2>2 DEF CallFails, TypeOK
<1>16. ASSUME NEW c \in Call, LateEffect(c)
       PROVE  TypeOK'
  <2>1. late' \in [Call -> Writes \cup {"none"}]
    BY <1>16 DEF LateEffect, TypeOK
  <2>2. Effect(late[c], c)
    BY <1>16 DEF LateEffect
  <2> QED
    BY <1>16, <2>1, <2>2, EffectType DEF LateEffect, TypeOK
<1>17. ASSUME NEW c \in Call, Respond(c)
       PROVE  TypeOK'
  BY <1>17 DEF Respond, TypeOK
<1>18. ASSUME Crash
       PROVE  TypeOK'
  <2>1. late' \in [Call -> Writes \cup {"none"}]
    BY <1>18 DEF Crash, TypeOK
  <2>2. faults' \in 0..MaxFaults
    BY <1>18 DEF Crash, TypeOK
  <2>3. pc' \in [Call -> Step]
    BY <1>18 DEF Crash, TypeOK, Step
  <2> QED
    BY <1>18, <2>1, <2>2, <2>3 DEF Crash, TypeOK
<1>19. CASE UNCHANGED vars
  BY <1>19 DEF vars, TypeOK
<1> QED
  BY <1>3, <1>4, <1>5, <1>6, <1>7, <1>8, <1>9, <1>10, <1>11, <1>12, <1>13, <1>14,
     <1>15, <1>16, <1>17, <1>18, <1>19 DEF Next

\* Every state is well typed: accounts keep a version, rows and histories name
\* calls, and the bound on faults is kept.
THEOREM SessionsTypeCorrect == Spec => []TypeOK
<1>1. Init => TypeOK
  BY InitType
<1>2. TypeOK /\ [Next]_vars => TypeOK'
  BY NextType
<1> QED
  BY <1>1, <1>2, PTL DEF Spec

-----------------------------------------------------------------------------
(* The inductive invariant. *)

\* The steps of an operation, its end included.
Steps(o) == {"done", "failed"} \cup
    (CASE o = "Signup" -> {"PostAccount", "sign", "StoreRefreshToken", "track"}
       [] o = "Login" -> {"GetEmailForAuth", "sign", "StoreRefreshToken", "track"}
       [] o = "RefreshToken" -> {"GetRefreshToken", "sign", "StoreRefreshToken"}
       [] o = "Logout" -> {"DeleteRefreshToken", "IncrementTokenVersion", "untrack"}
       [] o = "LogoutAll" -> {"range", "next", "DeleteRefreshToken", "IncrementTokenVersion"}
       [] o = "ResetPassword" -> {"UpdatePassword", "DeleteRefreshToken", "IncrementTokenVersion",
                                  "GetEmailForAuth", "sign", "StoreRefreshToken", "track"}
       [] o = "DeactivateAccount" -> {"Deactivate", "DeleteRefreshToken", "IncrementTokenVersion", "untrack"}
       [] o = "ReactivateAccount" -> {"Reactivate"}
       [] o = "DeleteAccount" -> {"Delete", "DeleteRefreshToken", "untrack"}
       [] OTHER -> {})

\* Steps at which a call has a version to sign tokens with.
Holding == {"sign", "StoreRefreshToken", "track"}

\* Where a call stands tells whether it has read a version, now and in the
\* effect it may still have.
ControlInv == \A c \in Call :
    /\ pc[c] = "idle" => op[c] = "none" /\ Root(c) = NoCall
    /\ pc[c] # "idle" => op[c] \in Op /\ pc[c] \in Steps(op[c])
    /\ late[c] # "none" => pc[c] = "failed" /\ late[c] \in Steps(op[c])
    /\ c \in answered => pc[c] = "done"
    /\ pc[c] \notin Holding \cup {"done", "failed"} => Root(c) = NoCall
    /\ late[c] \in Writes \ {"StoreRefreshToken"} => Root(c) = NoCall
    /\ pc[c] \in Holding => Root(c) # NoCall
    /\ late[c] = "StoreRefreshToken" => Root(c) # NoCall
    /\ pc[c] = "done" /\ op[c] \in Issuing => Root(c) # NoCall

\* A token is of its root's account and version, which that account has had.
TokenInv == \A c \in Call : Root(c) # NoCall =>
    /\ Root(Root(c)) = Root(c)
    /\ op[c] \in Issuing
    /\ Owner(Root(c)) = Owner(c)
    /\ token[Root(c)].version = token[c].version
    /\ token[c].version > 0
    /\ token[c].version <= account[Owner(c)].version

\* A stored token is a token of the user it is stored for.
RowInv == \A u \in User : \A c \in rows[u] : Root(c) # NoCall /\ Owner(c) = u

\* The histories name sessions and calls that can do nothing any more.
Over(d) == op[d] \in Revoking /\ Ended(d) /\ late[d] = "none"

HistoryInv == \A c \in Call :
    /\ \A r \in before[c] : Root(r) = r
    /\ \A r \in told[c] : r \in Call /\ Root(r) = r
    /\ \A d \in over[c] : Over(d)

\* The token's own account has its version.
Valid(t) == account[Owner(t)].exists /\ account[Owner(t)].version = token[t].version

\* A token that its own account will never make valid again.
Outdated(t) == ~account[Owner(t)].exists \/ token[t].version < account[Owner(t)].version

\* The call has incremented the version.
Incremented(c) ==
    /\ op[c] \in {"Logout", "ResetPassword", "DeactivateAccount"}
    /\ pc[c] \in {"untrack", "GetEmailForAuth", "sign", "StoreRefreshToken", "track", "done"}

RevokedInv == \A c, r \in Call :
    Incremented(c) /\ r \in before[c] /\ Owner(r) = target[c] => Outdated(r)

\* A deleted account was one, and is none any more.
DeletedInv == \A c \in Call : op[c] = "DeleteAccount" =>
    /\ account[target[c]].version > 0
    /\ pc[c] \in {"DeleteRefreshToken", "untrack", "done"} => ~account[target[c]].exists

\* While a deactivation stands the account is inactive, and once it has
\* incremented the version no session but a reset's can be alive.
SwitchInv ==
    /\ \A u \in User : \A c \in Call : switched[u] = c => pc[c] # "idle"
    /\ \A c \in Call : op[c] = "DeactivateAccount" /\ switched[target[c]] = c =>
         /\ account[target[c]].exists => ~account[target[c]].active
         /\ Incremented(c) =>
              \A r \in Call : Root(r) = r /\ Owner(r) = target[c] /\ op[r] # "ResetPassword" => Outdated(r)

\* The call revokes, or may, tokens of user u.
Revokes(c, u) == op[c] = "LogoutAll" \/ (op[c] \in Revoking /\ target[c] = u)

KeptInv == \A r \in Call : Root(r) = r =>
    Valid(r) \/ \E c \in Call \ {r} : Revokes(c, Owner(r)) /\ c \notin over[r]

\* The global logout has still to revoke u's tokens, and will unless u is taken
\* off its map.
Waits(c, u) ==
    \/ pc[c] = "range" /\ u \in logged
    \/ pc[c] = "next" /\ u \in visit[c]
    \/ pc[c] \in {"DeleteRefreshToken", "IncrementTokenVersion"} /\ (u \in visit[c] \/ target[c] = u)

\* A session that a global logout should end is outdated, or waits for it,
\* unless another revoking call has interfered.
ListedInv == \A c \in Call : op[c] = "LogoutAll" =>
    \A r \in told[c] : Owner(r) \in listed[c] =>
        \/ Outdated(r)
        \/ Waits(c, Owner(r))
        \/ pc[c] = "failed"
        \/ \E d \in Call \ {c} : Interferes(d, Owner(r), r)

SessionInv == TypeOK /\ ControlInv /\ TokenInv /\ RowInv /\ HistoryInv

SessionsInv == SessionInv /\ EmailsUnique /\ RevokedInv /\ DeletedInv /\ SwitchInv /\ KeptInv /\ ListedInv

-----------------------------------------------------------------------------
(* Control. *)

\* A call on its way goes on with a step of its operation, and has a version
\* exactly from its read on.
LEMMA AdvanceSteps ==
  ASSUME NEW o \in Op, NEW s \in Steps(o), s \notin {"done", "failed", "range", "next"}
  PROVE  /\ After(o, s) \in Steps(o)
         /\ After(o, s) \notin {"idle", "failed"}
         /\ After(o, s) \in Holding =>
              s \in {"PostAccount", "GetEmailForAuth", "GetRefreshToken", "sign", "StoreRefreshToken"}
         /\ s \in {"PostAccount", "GetEmailForAuth", "GetRefreshToken", "sign"} => After(o, s) \in Holding
         /\ s \in {"StoreRefreshToken", "track"} => After(o, s) \in {"track", "done"}
         /\ After(o, s) = "done" /\ o \in Issuing => s \in {"StoreRefreshToken", "track"}
BY DEF Op, Steps, After, Holding, Issuing

\* Where the operations begin.
LEMMA FirstSteps ==
  ASSUME NEW o \in Op
  PROVE  First[o] \in Steps(o) /\ First[o] \notin Holding \cup {"idle", "done", "failed"}
BY DEF Op, Steps, First, Holding

\* One call moves on: what the others are doing stays.
LEMMA MoveKeepsControl ==
  ASSUME TypeOK, ControlInv, NEW c \in Call, pc[c] \notin {"idle", "done", "failed", "range", "next"},
         Advance(c), UNCHANGED <<op, late, answered>>,
         \A d \in Call \ {c} : Root(d)' = Root(d),
         pc[c] \in {"PostAccount", "GetEmailForAuth", "GetRefreshToken"} => Root(c)' # NoCall,
         pc[c] \notin {"PostAccount", "GetEmailForAuth", "GetRefreshToken"} => Root(c)' = Root(c)
  PROVE  ControlInv'
<1>1. op[c] \in Op /\ pc[c] \in Steps(op[c]) /\ late[c] = "none" /\ c \notin answered
  BY DEF ControlInv, TypeOK
<1>2. /\ pc'[c] = After(op[c], pc[c])
      /\ \A d \in Call \ {c} : pc'[d] = pc[d]
  BY DEF Advance, TypeOK
<1>3. /\ After(op[c], pc[c]) \in Steps(op[c])
      /\ After(op[c], pc[c]) \notin {"idle", "failed"}
      /\ After(op[c], pc[c]) \in Holding =>
           pc[c] \in {"PostAccount", "GetEmailForAuth", "GetRefreshToken", "sign", "StoreRefreshToken"}
      /\ pc[c] \in {"PostAccount", "GetEmailForAuth", "GetRefreshToken", "sign"} =>
           After(op[c], pc[c]) \in Holding
      /\ pc[c] \in {"StoreRefreshToken", "track"} => After(op[c], pc[c]) \in {"track", "done"}
      /\ After(op[c], pc[c]) = "done" /\ op[c] \in Issuing => pc[c] \in {"StoreRefreshToken", "track"}
  BY <1>1, AdvanceSteps
<1>4. /\ pc[c] \in Holding => Root(c) # NoCall
      /\ pc[c] \notin Holding \cup {"done", "failed"} => Root(c) = NoCall
  BY DEF ControlInv
<1>5. /\ pc'[c] \notin Holding \cup {"done", "failed"} => Root(c)' = NoCall
      /\ pc'[c] \in Holding => Root(c)' # NoCall
      /\ pc'[c] = "done" /\ op[c] \in Issuing => Root(c)' # NoCall
  BY <1>2, <1>3, <1>4 DEF Holding
<1> QED
  BY <1>1, <1>2, <1>3, <1>5, SMTT(30) DEF ControlInv, Writes

\* No call stands anywhere in the initial state.
LEMMA InitControl == Init => ControlInv
BY DEF Init, ControlInv, NoToken, Root, Holding, Writes

\* One call fails: what the others are doing stays.
LEMMA FailKeepsControl ==
  ASSUME TypeOK, ControlInv, NEW c \in Call, pc[c] \notin {"idle", "done", "failed"}, Fail(c),
         UNCHANGED <<op, answered>>, \A d \in Call : Root(d)' = Root(d),
         late' = late \/ (pc[c] \in Writes /\ late' = [late EXCEPT ![c] = pc[c]])
  PROVE  ControlInv'
<1>1. op[c] \in Op /\ pc[c] \in Steps(op[c]) /\ late[c] = "none" /\ c \notin answered
  BY DEF ControlInv, TypeOK
<1>2. /\ pc'[c] = "failed"
      /\ \A d \in Call \ {c} : pc'[d] = pc[d] /\ late'[d] = late[d]
      /\ late'[c] = "none" \/ (pc[c] \in Writes /\ late'[c] = pc[c])
  BY <1>1 DEF Fail, TypeOK
<1>3. "failed" \in Steps(op[c]) /\ "failed" \notin Holding /\ "none" \notin Writes
  BY DEF Steps, Holding, Writes
<1>4. /\ late'[c] \in Writes \ {"StoreRefreshToken"} => Root(c)' = NoCall
      /\ late'[c] = "StoreRefreshToken" => Root(c)' # NoCall
      /\ late'[c] # "none" => late'[c] \in Steps(op[c])
  BY <1>1, <1>2, <1>3 DEF ControlInv, Holding, Writes
<1> QED
  BY <1>1, <1>2, <1>3, <1>4 DEF ControlInv

\* Every step keeps the control invariant.
LEMMA NextControl == TypeOK /\ ControlInv /\ TokenInv /\ RowInv /\ [Next]_vars => ControlInv'
<1> SUFFICES ASSUME TypeOK, ControlInv, TokenInv, RowInv, [Next]_vars
             PROVE  ControlInv'
  OBVIOUS
<1> USE DEF handler, failing, history
<1>1. ASSUME NEW c \in Call, Submit(c)
      PROVE  ControlInv'
  <2>1. PICK o \in Op : /\ op' = [op EXCEPT ![c] = o]
                        /\ pc' = [pc EXCEPT ![c] = First[o]]
    BY <1>1 DEF Submit
  <2>2. pc[c] = "idle" /\ UNCHANGED <<token, late, answered>>
    BY <1>1 DEF Submit
  <2>3. Root(c) = NoCall /\ late[c] = "none" /\ c \notin answered
    BY <2>2 DEF ControlInv, TypeOK
  <2>4. First[o] \in Steps(o) /\ First[o] \notin Holding \cup {"idle", "done", "failed"}
    BY FirstSteps
  <2>5. /\ pc'[c] = First[o] /\ op'[c] = o
        /\ \A d \in Call \ {c} : pc'[d] = pc[d] /\ op'[d] = op[d]
        /\ \A d \in Call : Root(d)' = Root(d)
    BY <2>1, <2>2 DEF TypeOK, Root
  <2> QED
    BY <2>2, <2>3, <2>4, <2>5 DEF ControlInv, Writes
<1>2. ASSUME NEW c \in Call, PostAccount(c)
      PROVE  ControlInv'
  <2>1. pc[c] = "PostAccount" /\ UNCHANGED <<op, late, answered>>
    BY <1>2 DEF PostAccount
  <2>2. CASE Fail(c) /\ UNCHANGED token
    BY <2>1, <2>2, FailKeepsControl DEF Root
  <2>3. CASE Advance(c) /\ \E v \in Fresh(c) : Begin(c, v, NewAccount.version)
    <3>1. Root(c)' # NoCall /\ \A d \in Call \ {c} : Root(d)' = Root(d)
      BY <2>3 DEF Begin, TypeOK, Root
    <3> QED
      BY <2>1, <2>3, <3>1, MoveKeepsControl
  <2> QED
    BY <1>2, <2>2, <2>3 DEF PostAccount
<1>3. ASSUME NEW c \in Call, ReadAccount(c)
      PROVE  ControlInv'
  <2>1. pc[c] = "GetEmailForAuth" /\ UNCHANGED <<op, late, answered>>
    BY <1>3 DEF ReadAccount
  <2>2. CASE Fail(c) /\ UNCHANGED token
    BY <2>1, <2>2, FailKeepsControl DEF Root
  <2>3. CASE Advance(c) /\ \E v \in Accepted(c) : Begin(c, v, account[v].version)
    <3>1. Root(c)' # NoCall /\ \A d \in Call \ {c} : Root(d)' = Root(d)
      BY <2>3 DEF Begin, TypeOK, Root
    <3> QED
      BY <2>1, <2>3, <3>1, MoveKeepsControl
  <2> QED
    BY <1>3, <2>2, <2>3 DEF ReadAccount
<1>4. ASSUME NEW c \in Call, FetchRow(c)
      PROVE  ControlInv'
  <2>1. pc[c] = "GetRefreshToken" /\ UNCHANGED <<op, late, answered>>
    BY <1>4 DEF FetchRow
  <2>2. CASE Fail(c) /\ UNCHANGED token
    BY <2>1, <2>2, FailKeepsControl DEF Root
  <2>3. CASE Advance(c) /\ \E d \in rows[target[c]] : token' = [token EXCEPT ![c] = Refreshed(c, d)]
    <3>1. PICK d \in rows[target[c]] : token' = [token EXCEPT ![c] = Refreshed(c, d)]
      BY <2>3
    <3>2. Root(d) # NoCall
      BY DEF RowInv, TypeOK
    <3>3. Root(c)' # NoCall /\ \A e \in Call \ {c} : Root(e)' = Root(e)
      BY <3>1, <3>2 DEF TypeOK, Root, Refreshed
    <3> QED
      BY <2>1, <2>3, <3>3, MoveKeepsControl
  <2> QED
    BY <1>4, <2>2, <2>3 DEF FetchRow
<1>5. ASSUME NEW c \in Call, Sign(c)
      PROVE  ControlInv'
  <2>1. pc[c] = "sign" /\ Advance(c) /\ UNCHANGED <<op, late, answered>>
    BY <1>5 DEF Sign
  <2>2. \A d \in Call : Root(d)' = Root(d)
    BY <1>5 DEF Sign, TypeOK, Root
  <2> QED
    BY <2>1, <2>2, MoveKeepsControl
<1>6. ASSUME NEW c \in Call, Write(c)
      PROVE  ControlInv'
  <2>1. /\ pc[c] \in Writes \ {"PostAccount"} /\ Advance(c)
        /\ UNCHANGED <<op, token, late, answered>>
    BY <1>6 DEF Write
  <2>2. pc[c] \notin {"idle", "done", "failed", "range", "next", "GetEmailForAuth", "GetRefreshToken", "PostAccount"}
    BY <2>1 DEF Writes
  <2> QED
    BY <2>1, <2>2, MoveKeepsControl DEF Root
<1>7. ASSUME NEW c \in Call, UpdatePassword(c) \/ Track(c) \/ Untrack(c)
      PROVE  ControlInv'
  <2>1. /\ pc[c] \in {"UpdatePassword", "track", "untrack"} /\ Advance(c)
        /\ UNCHANGED <<op, token, late, answered>>
    BY <1>7 DEF UpdatePassword, Track, Untrack
  <2> QED
    BY <2>1, MoveKeepsControl DEF Root
<1>8. ASSUME NEW c \in Call, StartRange(c) \/ NextUser(c) \/ ClearMap(c)
      PROVE  ControlInv'
  <2>1. /\ pc[c] \in {"range", "next"}
        /\ pc' = [pc EXCEPT ![c] = "next"] \/ pc' = [pc EXCEPT ![c] = "DeleteRefreshToken"]
           \/ pc' = [pc EXCEPT ![c] = "done"]
        /\ UNCHANGED <<op, token, late, answered>>
    BY <1>8 DEF StartRange, NextUser, ClearMap, Advance, After
  <2>2. op[c] = "LogoutAll" /\ late[c] = "none" /\ c \notin answered /\ Root(c) = NoCall
    BY <2>1 DEF ControlInv, Op, Steps, Holding, TypeOK
  <2>3. /\ pc'[c] \in {"next", "DeleteRefreshToken", "done"}
        /\ \A d \in Call \ {c} : pc'[d] = pc[d]
        /\ \A d \in Call : Root(d)' = Root(d)
    BY <2>1 DEF TypeOK, Root
  <2>4. /\ {"next", "DeleteRefreshToken", "done"} \subseteq Steps("LogoutAll")
        /\ "LogoutAll" \in Op /\ "LogoutAll" \notin Issuing
    BY DEF Steps, Op, Issuing
  <2> QED
    BY <2>1, <2>2, <2>3, <2>4 DEF ControlInv, Holding, Writes
<1>9. ASSUME NEW c \in Call, CallFails(c)
       PROVE  ControlInv'
  <2>1. /\ pc[c] \in Remote /\ Fail(c)
        /\ late' = late \/ (pc[c] \in Writes /\ late' = [late EXCEPT ![c] = pc[c]])
        /\ UNCHANGED <<op, token, answered>>
    BY <1>9 DEF CallFails
  <2>2. pc[c] \notin {"idle", "done", "failed"}
    BY <2>1 DEF Remote, Writes
  <2> QED
    BY <2>1, <2>2, FailKeepsControl DEF Root
<1>10. ASSUME NEW c \in Call, LateEffect(c)
       PROVE  ControlInv'
  <2>1. late' = [late EXCEPT ![c] = "none"] /\ UNCHANGED <<pc, op, token, answered>>
    BY <1>10 DEF LateEffect
  <2>2. late'[c] = "none" /\ \A d \in Call \ {c} : late'[d] = late[d]
    BY <2>1 DEF TypeOK
  <2> QED
    BY <2>1, <2>2 DEF ControlInv, Root, Writes
<1>11. ASSUME NEW c \in Call, Respond(c)
       PROVE  ControlInv'
  BY <1>11 DEF Respond, ControlInv, Root, TypeOK
<1>12. ASSUME Crash
       PROVE  ControlInv'
  <2> SUFFICES ASSUME NEW c \in Call
               PROVE  /\ pc'[c] = "idle" => op'[c] = "none" /\ Root(c)' = NoCall
                      /\ pc'[c] # "idle" => op'[c] \in Op /\ pc'[c] \in Steps(op'[c])
                      /\ late'[c] # "none" => pc'[c] = "failed" /\ late'[c] \in Steps(op'[c])
                      /\ c \in answered' => pc'[c] = "done"
                      /\ pc'[c] \notin Holding \cup {"done", "failed"} => Root(c)' = NoCall
                      /\ late'[c] \in Writes \ {"StoreRefreshToken"} => Root(c)' = NoCall
                      /\ pc'[c] \in Holding => Root(c)' # NoCall
                      /\ late'[c] = "StoreRefreshToken" => Root(c)' # NoCall
                      /\ pc'[c] = "done" /\ op'[c] \in Issuing => Root(c)' # NoCall
    BY DEF ControlInv
  <2>1. /\ op' = op /\ answered' = answered /\ Root(c)' = Root(c)
        /\ late'[c] = IF Running(c) /\ pc[c] \in Writes THEN pc[c] ELSE late[c]
        /\ pc'[c] = IF Running(c) THEN "failed" ELSE pc[c]
    BY <1>12 DEF Crash, Root
  <2>2. CASE Running(c)
    <3>1. op[c] \in Op /\ pc[c] \in Steps(op[c]) /\ late[c] = "none" /\ c \notin answered
      BY <2>2 DEF Running, Ended, ControlInv, TypeOK
    <3>2. "failed" \in Steps(op[c]) /\ "failed" \notin Holding /\ "none" \notin Writes
      BY DEF Steps, Holding, Writes
    <3>3. /\ late'[c] \in Writes \ {"StoreRefreshToken"} => Root(c) = NoCall
          /\ late'[c] = "StoreRefreshToken" => Root(c) # NoCall
          /\ late'[c] # "none" => late'[c] \in Steps(op[c])
      BY <2>1, <2>2, <3>1 DEF ControlInv, Holding, Writes
    <3> QED
      BY <2>1, <2>2, <3>1, <3>2, <3>3
  <2>3. CASE ~Running(c)
    BY <2>1, <2>3 DEF ControlInv
  <2> QED
    BY <2>2, <2>3
<1>13. CASE UNCHANGED vars
  BY <1>13 DEF vars, ControlInv, Root
<1> QED
  BY <1>1, <1>2, <1>3, <1>4, <1>5, <1>6, <1>7, <1>8, <1>9, <1>10, <1>11, <1>12, <1>13 DEF Next

-----------------------------------------------------------------------------
(* Accounts grow, sessions stay. *)

\* Versions never decrease and a deleted account does not come back.
Grows == \A u \in User :
    /\ account[u].version <= account'[u].version
    /\ account[u].version > 0 /\ account'[u].exists => account[u].exists

\* A token keeps its session.
SessionsStay == \A t \in Call : Root(t) # NoCall =>
    /\ Root(t)' = Root(t) /\ Owner(t)' = Owner(t) /\ token'[t].version = token[t].version
    /\ op'[t] = op[t] /\ over'[t] = over[t]

\* t begins a session with an account and its version.
Begins(t) ==
    /\ Root(t)' = t
    /\ op[t] # "RefreshToken"
    /\ Owner(t)' \in User
    /\ account'[Owner(t)'].exists /\ account'[Owner(t)'].version > 0
    /\ token'[t].version = account'[Owner(t)'].version
    /\ over'[t] = {d \in Call : Over(d)}
    /\ op[t] = "Login" => account[Owner(t)'].exists /\ account[Owner(t)'].active
    /\ op[t] = "Signup" => switched'[Owner(t)'] = t

\* t continues the session of another token.
Continues(t) == \E d \in Call :
    /\ Root(d) # NoCall
    /\ Root(t)' = Root(d) /\ Owner(t)' = Owner(d) /\ token'[t].version = token[d].version

NewSessions == \A t \in Call : Root(t) = NoCall /\ Root(t)' # NoCall =>
    /\ op'[t] = op[t] /\ op[t] \in Issuing
    /\ Begins(t) \/ Continues(t)

\* What a step does to the databases never takes a version back.
LEMMA EffectGrows ==
  ASSUME TypeOK, NEW c \in Call, NEW s, Effect(s, c)
  PROVE  Grows
<1> DEFINE u == target[c]
<1>1. u \in User /\ account \in [User -> Account] /\ \A v \in User : account[v].version \in Nat
  BY DEF TypeOK, Account
<1>2. CASE UNCHANGED account
  BY <1>1, <1>2 DEF Grows
<1>3. ASSUME NEW v \in Fresh(c), Create(c, v)
      PROVE  Grows
  BY <1>1, <1>3 DEF Grows, NewAccount, Fresh, Create
<1>4. CASE account[u].exists /\ account' = [account EXCEPT ![u].version = @ + 1]
  BY <1>1, <1>4 DEF Grows, Account
<1>5. ASSUME NEW b, account' = [account EXCEPT ![u].active = b]
      PROVE  Grows
  BY <1>1, <1>5 DEF Grows, Account
<1>6. CASE account' = [account EXCEPT ![u].exists = FALSE]
  <2>1. /\ account'[u].version = account[u].version
        /\ account'[u].exists = FALSE
        /\ \A v \in User \ {u} : account'[v] = account[v]
    BY <1>1, <1>6 DEF Account
  <2> QED
    BY <1>1, <2>1 DEF Grows
<1> QED
  BY <1>2, <1>3, <1>4, <1>5, <1>6 DEF Effect, Increment

\* Versions only grow, and a deleted account does not return.
LEMMA NextGrows == TypeOK /\ [Next]_vars => Grows
<1> SUFFICES ASSUME TypeOK, [Next]_vars
             PROVE  Grows
  OBVIOUS
<1>1. CASE UNCHANGED account
  BY <1>1 DEF TypeOK, Account, Grows
<1>2. CASE \E c \in Call, s \in Writes : Effect(s, c)
  BY <1>2, EffectGrows
<1>3. (UNCHANGED account) \/ \E c \in Call, s \in Writes : Effect(s, c)
  <2>1. \A c \in Call : Submit(c) \/ ReadAccount(c) \/ FetchRow(c) \/ Sign(c) => UNCHANGED account
    BY DEF Submit, ReadAccount, FetchRow, Sign
  <2>2. \A c \in Call : UpdatePassword(c) \/ Track(c) \/ Untrack(c) \/ StartRange(c) => UNCHANGED account
    BY DEF UpdatePassword, Track, Untrack, StartRange
  <2>3. \A c \in Call : NextUser(c) \/ ClearMap(c) \/ CallFails(c) \/ Respond(c) => UNCHANGED account
    BY DEF NextUser, ClearMap, CallFails, Respond
  <2>4. Crash \/ UNCHANGED vars => UNCHANGED account
    BY DEF Crash, vars
  <2>5. ASSUME NEW c \in Call, PostAccount(c)
        PROVE  (UNCHANGED account) \/ \E s \in Writes : Effect(s, c)
    BY <2>5 DEF PostAccount, Writes, Effect
  <2>6. ASSUME NEW c \in Call, Write(c) \/ LateEffect(c)
        PROVE  \E s \in Writes : Effect(s, c)
    BY <2>6 DEF Write, LateEffect, TypeOK
  <2> QED
    BY <2>1, <2>2, <2>3, <2>4, <2>5, <2>6 DEF Next
<1> QED
  BY <1>1, <1>2, <1>3

\* Where a call stands tells its operation.
LEMMA ReadersOp ==
  ASSUME ControlInv, NEW c \in Call
  PROVE  /\ pc[c] = "PostAccount" => op[c] = "Signup"
         /\ pc[c] = "GetEmailForAuth" => op[c] \in {"Login", "ResetPassword"}
         /\ pc[c] = "GetRefreshToken" => op[c] = "RefreshToken"
         /\ pc[c] \in {"range", "next"} => op[c] = "LogoutAll"
BY DEF ControlInv, Op, Steps

\* Only the read of a version changes the session of a call.
LEMMA BeginKeepsSessions ==
  ASSUME TypeOK, NEW c \in Call, NEW v \in User, NEW n \in Nat, Begin(c, v, n), Root(c) = NoCall,
         UNCHANGED op
  PROVE  /\ SessionsStay
         /\ \A t \in Call \ {c} : Root(t)' = Root(t)
         /\ Root(c)' = c /\ Owner(c)' = v /\ token'[c].version = n
         /\ over'[c] = {d \in Call : Over(d)}
BY DEF Begin, TypeOK, SessionsStay, Root, Owner, Over

\* A step keeps every session, and a new token begins one or continues one.
LEMMA NextSessions == SessionInv /\ [Next]_vars => SessionsStay /\ NewSessions
<1> SUFFICES ASSUME SessionInv, [Next]_vars
             PROVE  SessionsStay /\ NewSessions
  OBVIOUS
<1> USE DEF handler, failing, history
<1>0. TypeOK /\ ControlInv /\ RowInv
  BY DEF SessionInv
<1>1. ASSUME \A t \in Call : Root(t)' = Root(t) /\ Owner(t)' = Owner(t) /\ token'[t].version = token[t].version,
             UNCHANGED over,
             \A t \in Call : Root(t) # NoCall => op'[t] = op[t]
      PROVE  SessionsStay /\ NewSessions
  BY <1>1 DEF SessionsStay, NewSessions
<1>2. ASSUME NEW c \in Call, Submit(c)
      PROVE  SessionsStay /\ NewSessions
  <2>1. pc[c] = "idle" /\ UNCHANGED <<token, over>>
    BY <1>2 DEF Submit
  <2>2. Root(c) = NoCall
    BY <1>0, <2>1 DEF ControlInv
  <2>3. \A t \in Call \ {c} : op'[t] = op[t]
    BY <1>0, <1>2 DEF Submit, TypeOK
  <2> QED
    BY <1>1, <2>1, <2>2, <2>3 DEF Root, Owner
<1>3. ASSUME NEW c \in Call, PostAccount(c)
      PROVE  SessionsStay /\ NewSessions
  <2>1. pc[c] = "PostAccount" /\ UNCHANGED <<op, target>>
    BY <1>3 DEF PostAccount
  <2>2. op[c] = "Signup" /\ Root(c) = NoCall
    BY <1>0, <2>1, ReadersOp DEF ControlInv, Holding
  <2>3. CASE UNCHANGED <<token, over>>
    BY <1>1, <2>1, <2>3 DEF Root, Owner
  <2>4. ASSUME NEW v \in Fresh(c), Create(c, v), Begin(c, v, NewAccount.version)
        PROVE  SessionsStay /\ NewSessions
    <3>1. v \in User
      BY <2>4 DEF Fresh
    <3>2. account'[v] = NewAccount /\ switched'[v] = c
      BY <1>0, <2>4, <3>1 DEF TypeOK, Create
    <3>3. account'[v].exists /\ account'[v].version = 1 /\ NewAccount.version = 1
      BY <3>2 DEF NewAccount
    <3>4. /\ SessionsStay
          /\ \A t \in Call \ {c} : Root(t)' = Root(t)
          /\ Root(c)' = c /\ Owner(c)' = v /\ token'[c].version = account'[v].version
          /\ over'[c] = {d \in Call : Over(d)}
      BY <1>0, <2>1, <2>2, <2>4, <3>1, <3>3, BeginKeepsSessions
    <3>5. Begins(c)
      BY <2>2, <3>1, <3>2, <3>3, <3>4 DEF Begins
    <3> QED
      BY <2>1, <2>2, <3>4, <3>5 DEF NewSessions, Issuing
  <2> QED
    BY <1>3, <2>3, <2>4 DEF PostAccount
<1>4. ASSUME NEW c \in Call, ReadAccount(c)
      PROVE  SessionsStay /\ NewSessions
  <2>1. pc[c] = "GetEmailForAuth" /\ UNCHANGED <<op, account>>
    BY <1>4 DEF ReadAccount
  <2>2. op[c] \in {"Login", "ResetPassword"} /\ Root(c) = NoCall
    BY <1>0, <2>1, ReadersOp DEF ControlInv, Holding
  <2>3. CASE UNCHANGED <<token, over>>
    BY <1>1, <2>1, <2>3 DEF Root, Owner
  <2>4. ASSUME NEW v \in Accepted(c), Begin(c, v, account[v].version)
        PROVE  SessionsStay /\ NewSessions
    <3>1. v \in User /\ account[v].exists /\ (op[c] = "Login" => account[v].active)
      BY <2>4 DEF Accepted, Holders
    <3>2. account[v].version \in Nat /\ account[v].version > 0
      BY <1>0, <3>1 DEF TypeOK, Account
    <3>3. /\ SessionsStay
          /\ \A t \in Call \ {c} : Root(t)' = Root(t)
          /\ Root(c)' = c /\ Owner(c)' = v /\ token'[c].version = account[v].version
          /\ over'[c] = {d \in Call : Over(d)}
      BY <1>0, <2>1, <2>2, <2>4, <3>1, <3>2, BeginKeepsSessions
    <3>4. Begins(c)
      BY <2>1, <2>2, <3>1, <3>2, <3>3 DEF Begins
    <3> QED
      BY <2>1, <2>2, <3>3, <3>4 DEF NewSessions, Issuing
  <2> QED
    BY <1>4, <2>3, <2>4 DEF ReadAccount
<1>5. ASSUME NEW c \in Call, FetchRow(c)
      PROVE  SessionsStay /\ NewSessions
  <2>1. pc[c] = "GetRefreshToken" /\ UNCHANGED <<op, over>>
    BY <1>5 DEF FetchRow
  <2>2. op[c] = "RefreshToken" /\ Root(c) = NoCall
    BY <1>0, <2>1, ReadersOp DEF ControlInv, Holding
  <2>3. CASE UNCHANGED token
    BY <1>1, <2>1, <2>3 DEF Root, Owner
  <2>4. ASSUME NEW d \in rows[target[c]], token' = [token EXCEPT ![c] = Refreshed(c, d)]
        PROVE  SessionsStay /\ NewSessions
    <3>1. d \in Call /\ Root(d) # NoCall
      BY <1>0 DEF TypeOK, RowInv
    <3>2. /\ Root(c)' = Root(d) /\ Owner(c)' = Owner(d) /\ token'[c].version = token[d].version
          /\ \A t \in Call \ {c} : token'[t] = token[t]
      BY <1>0, <2>4 DEF TypeOK, Root, Owner, Refreshed
    <3>3. Continues(c)
      BY <3>1, <3>2 DEF Continues
    <3> QED
      BY <2>1, <2>2, <3>2, <3>3 DEF SessionsStay, NewSessions, Issuing, Root, Owner
  <2> QED
    BY <1>5, <2>3, <2>4 DEF FetchRow
<1>6. ASSUME NEW c \in Call, Sign(c)
      PROVE  SessionsStay /\ NewSessions
  <2>1. \A t \in Call : Root(t)' = Root(t) /\ Owner(t)' = Owner(t) /\ token'[t].version = token[t].version
    BY <1>0, <1>6 DEF Sign, TypeOK, Token, Root, Owner
  <2> QED
    BY <1>1, <1>6, <2>1 DEF Sign
<1>7. ASSUME UNCHANGED <<op, token, over>>
      PROVE  SessionsStay /\ NewSessions
  BY <1>1, <1>7 DEF Root, Owner
<1>8. \A c \in Call : Write(c) \/ UpdatePassword(c) \/ Track(c) \/ Untrack(c) => UNCHANGED <<op, token, over>>
  BY DEF Write, UpdatePassword, Track, Untrack
<1>9. \A c \in Call : StartRange(c) \/ NextUser(c) \/ ClearMap(c) \/ CallFails(c) => UNCHANGED <<op, token, over>>
  BY DEF StartRange, NextUser, ClearMap, CallFails
<1>10. \A c \in Call : LateEffect(c) \/ Respond(c) => UNCHANGED <<op, token, over>>
  BY DEF LateEffect, Respond
<1>11. Crash \/ UNCHANGED vars => UNCHANGED <<op, token, over>>
  BY DEF Crash, vars
<1> QED
  BY <1>2, <1>3, <1>4, <1>5, <1>6, <1>7, <1>8, <1>9, <1>10, <1>11 DEF Next

\* Every step keeps the invariant of the tokens.
LEMMA NextToken == SessionInv /\ [Next]_vars => TokenInv'
<1> SUFFICES ASSUME SessionInv, [Next]_vars, NEW c \in Call, Root(c)' # NoCall
             PROVE  /\ Root(Root(c))' = Root(c)'
                    /\ op'[c] \in Issuing
                    /\ Owner(Root(c))' = Owner(c)'
                    /\ token'[Root(c)'].version = token'[c].version
                    /\ token'[c].version > 0
                    /\ token'[c].version <= account'[Owner(c)'].version
  BY DEF TokenInv, Root, Owner
<1>1. Grows /\ SessionsStay /\ NewSessions /\ TypeOK /\ TokenInv
  BY NextGrows, NextSessions DEF SessionInv
<1>2. TypeOK'
  BY <1>1, NextType
<1>3. ASSUME NEW d \in Call, Root(d) # NoCall
      PROVE  /\ Root(d) \in Call /\ Root(Root(d)) = Root(d) /\ Root(Root(d))' = Root(d)
             /\ Owner(Root(d))' = Owner(d)
             /\ token'[Root(d)].version = token[d].version
             /\ token[d].version > 0 /\ token[d].version <= account'[Owner(d)].version
  <2>1. Root(d) \in Call
    BY <1>1, <1>3 DEF TypeOK, Token, Root
  <2>2. /\ Root(Root(d)) = Root(d) /\ Owner(Root(d)) = Owner(d)
        /\ token[Root(d)].version = token[d].version
        /\ token[d].version > 0 /\ token[d].version <= account[Owner(d)].version
    BY <1>1, <1>3 DEF TokenInv
  <2>3. /\ Root(Root(d))' = Root(d) /\ Owner(Root(d))' = Owner(d)
        /\ token'[Root(d)].version = token[d].version
    BY <1>1, <1>3, <2>1, <2>2 DEF SessionsStay
  <2>4. /\ Owner(d) \in User /\ token[d].version \in Nat
        /\ account[Owner(d)].version \in Nat /\ account'[Owner(d)].version \in Nat
        /\ account[Owner(d)].version <= account'[Owner(d)].version
    BY <1>1, <1>2 DEF TypeOK, Account, Token, Owner, Grows
  <2> QED
    BY <2>1, <2>2, <2>3, <2>4
<1>4. CASE Root(c) # NoCall
  <2>1. Root(c)' = Root(c) /\ Owner(c)' = Owner(c) /\ token'[c].version = token[c].version /\ op'[c] = op[c]
    BY <1>1, <1>4 DEF SessionsStay
  <2>2. op[c] \in Issuing
    BY <1>1, <1>4 DEF TokenInv
  <2> QED
    BY <1>3, <1>4, <2>1, <2>2 DEF Root, Owner
<1>5. CASE Root(c) = NoCall
  <2>1. op'[c] = op[c] /\ op[c] \in Issuing /\ (Begins(c) \/ Continues(c))
    BY <1>1, <1>5 DEF NewSessions
  <2>2. CASE Begins(c)
    <3>1. account'[Owner(c)'].version \in Nat
      BY <1>2, <2>2 DEF TypeOK, Account, Begins
    <3> QED
      BY <2>1, <2>2, <3>1 DEF Begins, Root, Owner
  <2>3. CASE Continues(c)
    <3>1. PICK d \in Call : /\ Root(d) # NoCall /\ Owner(c)' = Owner(d)
                            /\ Root(c)' = Root(d) /\ token'[c].version = token[d].version
      BY <2>3 DEF Continues
    <3>2. /\ Root(d) \in Call /\ Root(Root(d))' = Root(d)
          /\ Owner(Root(d))' = Owner(d)
          /\ token'[Root(d)].version = token[d].version
          /\ token[d].version > 0 /\ token[d].version <= account'[Owner(d)].version
      BY <1>3, <3>1
    <3>3. Root(Root(c))' = Root(Root(d))'
      BY <1>1, <3>1 DEF Root, SessionsStay
    <3>4. Owner(Root(c))' = Owner(c)' /\ token'[Root(c)'].version = token'[c].version
      <4>1. Root(d)' = Root(d)
        BY <1>1, <3>1 DEF SessionsStay
      <4>2. Owner(Root(c))' = Owner(Root(d))'
        BY <3>1, <4>1 DEF Owner
      <4> QED
        BY <3>1, <3>2, <4>1, <4>2
    <3>5. token'[c].version > 0 /\ token'[c].version <= account'[Owner(c)'].version
      BY <3>1, <3>2
    <3> QED
      BY <2>1, <3>1, <3>2, <3>3, <3>4, <3>5
  <2> QED
    BY <2>1, <2>2, <2>3
<1> QED
  BY <1>4, <1>5

-----------------------------------------------------------------------------
(* One call moves at a time. *)

\* Nothing of the call changes, but that its late effect may be over.
Stays(d) ==
    /\ op'[d] = op[d] /\ target'[d] = target[d] /\ before'[d] = before[d] /\ pc'[d] = pc[d]
    /\ late'[d] \in {late[d], "none"}

\* The call, begun and not ended, goes on; only a global logout changes target.
Goes(d) ==
    /\ Running(d)
    /\ op'[d] = op[d] /\ before'[d] = before[d]
    /\ pc[d] # "next" => target'[d] = target[d]
    /\ \/ pc'[d] = "failed"
       \/ pc[d] \in {"range", "next"} /\ pc'[d] \in {"next", "DeleteRefreshToken", "done"}
       \/ pc[d] \notin {"range", "next"} /\ pc'[d] = After(op[d], pc[d])
    /\ pc[d] \in {"IncrementTokenVersion", "Delete"} => pc'[d] = "failed" \/ Write(d)

\* Every step moves calls along their operations.
LEMMA NextMoves ==
  ASSUME TypeOK, [Next]_vars, NEW d \in Call
  PROVE  Stays(d) \/ Submit(d) \/ Goes(d)
<1> USE DEF handler, failing, history
<1>1. ASSUME NEW c \in Call, Submit(c)
      PROVE  Stays(d) \/ Submit(d)
  <2>1. PICK o \in Offered, u \in User :
              /\ op' = [op EXCEPT ![c] = o] /\ target' = [target EXCEPT ![c] = u]
              /\ pc' = [pc EXCEPT ![c] = First[o]]
              /\ before' = IF o \in Revoking
                           THEN [before EXCEPT ![c] = {r \in Call : Root(r) = r}] ELSE before
    BY <1>1 DEF Submit
  <2>2. late' = late
    BY <1>1 DEF Submit
  <2> QED
    BY <1>1, <2>1, <2>2 DEF Stays, TypeOK
<1>2. ASSUME NEW c \in Call, UNCHANGED <<op, before, late>>, c # d => target'[d] = target[d],
             pc[c] # "next" => UNCHANGED target, pc[c] \notin {"IncrementTokenVersion", "Delete"} \/ Write(c),
             Running(c),
             \/ pc[c] \notin {"range", "next"} /\ Advance(c)
             \/ Fail(c)
             \/ pc[c] \in {"range", "next"} /\ \E s \in {"next", "DeleteRefreshToken", "done"} : pc' = [pc EXCEPT ![c] = s]
      PROVE  Stays(d) \/ Goes(d)
  BY <1>2 DEF TypeOK, Stays, Goes, Advance, Fail
<1>3. ASSUME NEW c \in Call, PostAccount(c) \/ ReadAccount(c) \/ FetchRow(c) \/ Sign(c)
      PROVE  Stays(d) \/ Goes(d)
  <2>1. /\ UNCHANGED <<op, before, late, target>>
        /\ pc[c] \in {"PostAccount", "GetEmailForAuth", "GetRefreshToken", "sign"}
        /\ Advance(c) \/ Fail(c)
    BY <1>3 DEF PostAccount, ReadAccount, FetchRow, Sign
  <2> QED
    BY <1>2, <2>1 DEF Running, Ended
<1>4. ASSUME NEW c \in Call, Write(c)
      PROVE  Stays(d) \/ Goes(d)
  <2>1. /\ UNCHANGED <<op, before, late, target>>
        /\ pc[c] \in Writes /\ Advance(c)
    BY <1>4 DEF Write
  <2>2. pc[c] \notin {"idle", "done", "failed", "range", "next"}
    BY <2>1 DEF Writes
  <2> QED
    BY <1>2, <1>4, <2>1, <2>2 DEF Running, Ended
<1>5. ASSUME NEW c \in Call, UpdatePassword(c) \/ Track(c) \/ Untrack(c)
      PROVE  Stays(d) \/ Goes(d)
  <2>1. /\ UNCHANGED <<op, before, late, target>>
        /\ pc[c] \in {"UpdatePassword", "track", "untrack"} /\ Advance(c)
    BY <1>5 DEF UpdatePassword, Track, Untrack
  <2> QED
    BY <1>2, <2>1 DEF Running, Ended
<1>6. ASSUME NEW c \in Call, StartRange(c) \/ NextUser(c) \/ ClearMap(c)
      PROVE  Stays(d) \/ Goes(d)
  <2>1. /\ UNCHANGED <<op, before, late>>
        /\ pc[c] \in {"range", "next"} /\ (pc[c] # "next" => UNCHANGED target)
        /\ c # d => target'[d] = target[d]
        /\ \E s \in {"next", "DeleteRefreshToken", "done"} : pc' = [pc EXCEPT ![c] = s]
    BY <1>6 DEF StartRange, NextUser, ClearMap, Advance, After, TypeOK
  <2> QED
    BY <1>2, <2>1 DEF Running, Ended
<1>7. ASSUME NEW c \in Call, CallFails(c)
      PROVE  Stays(d) \/ Goes(d)
  <2>1. /\ UNCHANGED <<op, before, target>> /\ Fail(c) /\ pc[c] \in Remote
        /\ c # d => late'[d] = late[d]
    BY <1>7 DEF CallFails, TypeOK
  <2>2. Running(c)
    BY <2>1 DEF Remote, Writes, Running, Ended
  <2> QED
    BY <2>1, <2>2 DEF TypeOK, Stays, Goes, Fail
<1>8. ASSUME NEW c \in Call, LateEffect(c)
      PROVE  Stays(d)
  BY <1>8 DEF LateEffect, Stays, TypeOK
<1>9. ASSUME NEW c \in Call, Respond(c)
      PROVE  Stays(d)
  BY <1>9 DEF Respond, Stays
<1>10. CASE Crash
  BY <1>10 DEF Crash, Stays, Goes
<1>11. CASE UNCHANGED vars
  BY <1>11 DEF vars, Stays
<1> QED
  BY <1>1, <1>3, <1>4, <1>5, <1>6, <1>7, <1>8, <1>9, <1>10, <1>11 DEF Next

\* What changes accounts and rows is the effect of a call that is at that step,
\* or was when it was abandoned.
LEMMA NextEffect ==
  ASSUME TypeOK, [Next]_vars
  PROVE  \/ UNCHANGED <<account, rows, switched>>
         \/ \E c \in Call, s \in Writes :
               Effect(s, c) /\ (pc[c] = s \/ late[c] = s) /\ UNCHANGED <<op, target>>
<1> USE DEF handler, failing, history
<1>1. \A c \in Call : Submit(c) \/ ReadAccount(c) \/ FetchRow(c) \/ Sign(c) => UNCHANGED <<account, rows, switched>>
  BY DEF Submit, ReadAccount, FetchRow, Sign
<1>2. \A c \in Call : UpdatePassword(c) \/ Track(c) \/ Untrack(c) \/ StartRange(c) => UNCHANGED <<account, rows, switched>>
  BY DEF UpdatePassword, Track, Untrack, StartRange
<1>3. \A c \in Call : NextUser(c) \/ ClearMap(c) \/ CallFails(c) \/ Respond(c) => UNCHANGED <<account, rows, switched>>
  BY DEF NextUser, ClearMap, CallFails, Respond
<1>4. Crash \/ UNCHANGED vars => UNCHANGED <<account, rows, switched>>
  BY DEF Crash, vars
<1>5. ASSUME NEW c \in Call, PostAccount(c)
      PROVE  \/ UNCHANGED <<account, rows, switched>>
             \/ \E s \in Writes : Effect(s, c) /\ pc[c] = s /\ UNCHANGED <<op, target>>
  BY <1>5 DEF PostAccount, Writes, Effect
<1>6. ASSUME NEW c \in Call, Write(c)
      PROVE  \E s \in Writes : Effect(s, c) /\ pc[c] = s /\ UNCHANGED <<op, target>>
  BY <1>6 DEF Write
<1>7. ASSUME NEW c \in Call, LateEffect(c)
      PROVE  \E s \in Writes : Effect(s, c) /\ late[c] = s /\ UNCHANGED <<op, target>>
  BY <1>7 DEF LateEffect, TypeOK
<1> QED
  BY <1>1, <1>2, <1>3, <1>4, <1>5, <1>6, <1>7 DEF Next

\* A revoking call that is over stays so.
LEMMA OverStays ==
  ASSUME TypeOK, ControlInv, [Next]_vars, NEW d \in Call, Over(d)
  PROVE  Over(d)'
<1>1. Stays(d) \/ Submit(d) \/ Goes(d)
  BY NextMoves
<1>2. ~Submit(d) /\ ~Goes(d)
  BY DEF Over, Ended, Submit, Goes, Running
<1> QED
  BY <1>1, <1>2 DEF Stays, Over, Ended

\* Every step keeps the invariant of the stored tokens.
LEMMA NextRow == SessionInv /\ [Next]_vars => RowInv'
<1> SUFFICES ASSUME SessionInv, [Next]_vars, NEW u \in User, NEW c \in rows'[u]
             PROVE  Root(c)' # NoCall /\ Owner(c)' = u
  BY DEF RowInv
<1>1. TypeOK /\ ControlInv /\ RowInv /\ SessionsStay
  BY NextSessions DEF SessionInv
<1>2. TypeOK'
  BY <1>1, NextType
<1>3. c \in Call
  BY <1>2 DEF TypeOK
<1>4. Root(c) # NoCall /\ Owner(c) = u
  <2>1. CASE c \in rows[u]
    BY <1>1, <2>1 DEF RowInv
  <2>2. CASE c \notin rows[u]
    <3>1. PICK d \in Call, s \in Writes : Effect(s, d) /\ (pc[d] = s \/ late[d] = s)
      BY <1>1, <2>2, NextEffect
    <3>2. s = "StoreRefreshToken" /\ rows' = [rows EXCEPT ![Owner(d)] = @ \cup {d}]
      BY <1>1, <2>2, <3>1 DEF Effect, Create, TypeOK
    <3>3. c = d /\ u = Owner(d)
      BY <1>1, <2>2, <3>2 DEF TypeOK, Token, Owner
    <3> QED
      BY <1>1, <3>1, <3>2, <3>3 DEF ControlInv, Holding
  <2> QED
    BY <2>1, <2>2
<1>5. Root(c)' = Root(c) /\ Owner(c)' = Owner(c)
  BY <1>1, <1>3, <1>4 DEF SessionsStay
<1> QED
  BY <1>4, <1>5

-----------------------------------------------------------------------------
(* Histories. *)

\* A token given to a client has a session.
LEMMA GivenHasSession ==
  ASSUME SessionInv, NEW t \in Given
  PROVE  /\ t \in Call /\ Root(t) \in Call /\ Root(Root(t)) = Root(t)
         /\ Owner(Root(t)) = Owner(t) /\ token[Root(t)].version = token[t].version
<1>1. TypeOK /\ ControlInv /\ TokenInv
  BY DEF SessionInv
<1>2. t \in Call /\ pc[t] = "done" /\ op[t] \in Issuing
  BY <1>1 DEF Given, ControlInv, Issuing
<1>3. Root(t) # NoCall
  BY <1>1, <1>2 DEF ControlInv
<1> QED
  BY <1>1, <1>2, <1>3 DEF TokenInv, TypeOK, Token, Root

\* What a global logout is to end is taken when it is submitted.
LEMMA NextListed ==
  ASSUME TypeOK, [Next]_vars, NEW c \in Call
  PROVE  \/ told'[c] = told[c] /\ listed'[c] = listed[c]
         \/ Submit(c) /\ told'[c] = {Root(t) : t \in Given} /\ listed'[c] = logged
<1> USE DEF handler, failing, history
<1>1. ASSUME NEW d \in Call, Submit(d)
      PROVE  \/ told'[c] = told[c] /\ listed'[c] = listed[c]
             \/ Submit(c) /\ told'[c] = {Root(t) : t \in Given} /\ listed'[c] = logged
  <2>1. \/ UNCHANGED <<told, listed>>
        \/ /\ told' = [told EXCEPT ![d] = {Root(t) : t \in Given}]
           /\ listed' = [listed EXCEPT ![d] = logged]
    BY <1>1 DEF Submit
  <2> QED
    BY <1>1, <2>1 DEF TypeOK
<1>2. \A d \in Call : PostAccount(d) \/ ReadAccount(d) \/ FetchRow(d) \/ Sign(d) => UNCHANGED <<told, listed>>
  BY DEF PostAccount, ReadAccount, FetchRow, Sign
<1>3. \A d \in Call : Write(d) \/ UpdatePassword(d) \/ Track(d) \/ Untrack(d) \/ StartRange(d) => UNCHANGED <<told, listed>>
  BY DEF Write, UpdatePassword, Track, Untrack, StartRange
<1>4. \A d \in Call : NextUser(d) \/ ClearMap(d) \/ CallFails(d) \/ LateEffect(d) \/ Respond(d) => UNCHANGED <<told, listed>>
  BY DEF NextUser, ClearMap, CallFails, LateEffect, Respond
<1>5. Crash \/ UNCHANGED vars => UNCHANGED <<told, listed>>
  BY DEF Crash, vars
<1> QED
  BY <1>1, <1>2, <1>3, <1>4, <1>5 DEF Next

\* A client that has been answered has been.
LEMMA AnsweredStay == [Next]_vars => answered \subseteq answered'
<1> USE DEF handler, failing, history
<1>1. \A d \in Call : Submit(d) \/ PostAccount(d) \/ ReadAccount(d) \/ FetchRow(d) \/ Sign(d) => UNCHANGED answered
  BY DEF Submit, PostAccount, ReadAccount, FetchRow, Sign
<1>2. \A d \in Call : Write(d) \/ UpdatePassword(d) \/ Track(d) \/ Untrack(d) \/ StartRange(d) => UNCHANGED answered
  BY DEF Write, UpdatePassword, Track, Untrack, StartRange
<1>3. \A d \in Call : NextUser(d) \/ ClearMap(d) \/ CallFails(d) \/ LateEffect(d) => UNCHANGED answered
  BY DEF NextUser, ClearMap, CallFails, LateEffect
<1>4. \A d \in Call : Respond(d) => answered \subseteq answered'
  BY DEF Respond
<1>5. Crash \/ UNCHANGED vars => UNCHANGED answered
  BY DEF Crash, vars
<1> QED
  BY <1>1, <1>2, <1>3, <1>4, <1>5 DEF Next

\* Before and after a step, what a global logout is to end are sessions.
LEMMA ToldAreSessions ==
  ASSUME SessionInv, [Next]_vars, NEW c \in Call, NEW r \in told'[c]
  PROVE  r \in Call /\ Root(r) = r
<1>1. TypeOK /\ HistoryInv
  BY DEF SessionInv
<1>2. CASE r \in told[c]
  BY <1>1, <1>2 DEF HistoryInv
<1>3. CASE \E t \in Given : r = Root(t)
  BY <1>3, GivenHasSession
<1> QED
  BY <1>1, <1>2, <1>3, NextListed

\* The sessions before a call are taken when it is submitted.
LEMMA NextBefore ==
  ASSUME TypeOK, [Next]_vars, NEW c \in Call
  PROVE  before'[c] = before[c] \/ before'[c] = {r \in Call : Root(r) = r}
<1>1. CASE Submit(c)
  BY <1>1 DEF Submit, TypeOK
<1>2. CASE Stays(c) \/ Goes(c)
  BY <1>2 DEF Stays, Goes
<1> QED
  BY <1>1, <1>2, NextMoves

\* The calls over when a session begins are taken when it begins.
LEMMA NextOver ==
  ASSUME TypeOK, [Next]_vars, NEW c \in Call
  PROVE  over'[c] = over[c] \/ over'[c] = {d \in Call : Over(d)}
<1> USE DEF handler, failing, history
<1>1. ASSUME NEW d \in Call, PostAccount(d) \/ ReadAccount(d)
      PROVE  over'[c] = over[c] \/ over'[c] = {e \in Call : Over(e)}
  <2>1. over' = over \/ over' = [over EXCEPT ![d] = {e \in Call : Over(e)}]
    BY <1>1 DEF PostAccount, ReadAccount, Begin, Over
  <2> QED
    BY <2>1 DEF TypeOK
<1>2. \A d \in Call : Submit(d) \/ FetchRow(d) \/ Sign(d) \/ Write(d) => UNCHANGED over
  BY DEF Submit, FetchRow, Sign, Write
<1>3. \A d \in Call : UpdatePassword(d) \/ Track(d) \/ Untrack(d) \/ StartRange(d) => UNCHANGED over
  BY DEF UpdatePassword, Track, Untrack, StartRange
<1>4. \A d \in Call : NextUser(d) \/ ClearMap(d) \/ CallFails(d) \/ LateEffect(d) \/ Respond(d) => UNCHANGED over
  BY DEF NextUser, ClearMap, CallFails, LateEffect, Respond
<1>5. Crash \/ UNCHANGED vars => UNCHANGED over
  BY DEF Crash, vars
<1> QED
  BY <1>1, <1>2, <1>3, <1>4, <1>5 DEF Next

\* Every step keeps the invariant of the histories.
LEMMA NextHistory == SessionInv /\ [Next]_vars => HistoryInv'
<1> SUFFICES ASSUME SessionInv, [Next]_vars, NEW c \in Call
             PROVE  /\ \A r \in before'[c] : Root(r)' = r
                    /\ \A r \in told'[c] : r \in Call /\ Root(r)' = r
                    /\ \A d \in over'[c] : Over(d)'
  BY DEF HistoryInv
<1>1. TypeOK /\ ControlInv /\ HistoryInv /\ SessionsStay
  BY NextSessions DEF SessionInv
<1>2. ASSUME NEW r \in before'[c]
      PROVE  Root(r)' = r
  <2>1. r \in Call /\ Root(r) = r
    BY <1>1, NextBefore DEF HistoryInv, TypeOK
  <2> QED
    BY <1>1, <2>1 DEF SessionsStay
<1>3. ASSUME NEW d \in over'[c]
      PROVE  Over(d)'
  <2>1. d \in Call /\ Over(d)
    BY <1>1, NextOver DEF HistoryInv, TypeOK
  <2> QED
    BY <1>1, <2>1, OverStays
<1>4. ASSUME NEW r \in told'[c]
      PROVE  r \in Call /\ Root(r)' = r
  <2>1. r \in Call /\ Root(r) = r
    BY <1>4, ToldAreSessions
  <2> QED
    BY <1>1, <2>1 DEF SessionsStay
<1> QED
  BY <1>2, <1>3, <1>4

-----------------------------------------------------------------------------
(* Revocation. *)

\* A session keeps what it has: its account, its operation, its version.
LEMMA SessionStays ==
  ASSUME SessionInv, [Next]_vars, NEW r \in Call, Root(r) = r
  PROVE  /\ Root(r)' = r /\ op'[r] = op[r] /\ Owner(r)' = Owner(r)
         /\ token'[r].version = token[r].version /\ over'[r] = over[r]
         /\ token[r].version > 0 /\ token[r].version <= account[Owner(r)].version
         /\ Owner(r) \in User
         /\ token[r].version \in Nat /\ account[Owner(r)].version \in Nat
<1>1. TypeOK /\ TokenInv /\ SessionsStay
  BY NextSessions DEF SessionInv
<1> QED
  BY <1>1 DEF SessionsStay, TokenInv, TypeOK, Account, Token, Owner

\* A call that has no session, and gets its own, has just read the account.
LEMMA SessionBegins ==
  ASSUME SessionInv, [Next]_vars, NEW r \in Call, Root(r) # r, Root(r)' = r
  PROVE  /\ op'[r] = op[r] /\ op[r] \in Issuing /\ Begins(r)
<1>1. TypeOK /\ TokenInv /\ SessionsStay /\ NewSessions
  BY NextSessions DEF SessionInv
<1>2. Root(r) = NoCall
  BY <1>1 DEF SessionsStay
<1>3. /\ op'[r] = op[r] /\ op[r] \in Issuing
      /\ Begins(r) \/ Continues(r)
  BY <1>1, <1>2 DEF NewSessions
<1>4. ~Continues(r)
  BY <1>1, <1>2 DEF Continues, TokenInv
<1> QED
  BY <1>3, <1>4

\* An outdated token stays outdated.
LEMMA OutdatedStays ==
  ASSUME SessionInv, [Next]_vars, NEW r \in Call, Root(r) = r, Outdated(r)
  PROVE  Outdated(r)'
<1>1. TypeOK /\ TypeOK' /\ Grows
  BY NextType, NextGrows DEF SessionInv
<1>2. /\ Owner(r)' = Owner(r) /\ token'[r].version = token[r].version
      /\ token[r].version > 0 /\ token[r].version <= account[Owner(r)].version
      /\ Owner(r) \in User
      /\ token[r].version \in Nat /\ account[Owner(r)].version \in Nat
  BY SessionStays
<1>3. /\ account'[Owner(r)].version \in Nat
      /\ account[Owner(r)].version <= account'[Owner(r)].version
      /\ account[Owner(r)].version > 0 /\ account'[Owner(r)].exists => account[Owner(r)].exists
  BY <1>1, <1>2 DEF TypeOK, Account, Grows
<1>4. CASE ~account[Owner(r)].exists
  <2>1. account[Owner(r)].version > 0
    BY <1>2
  <2> QED
    BY <1>2, <1>3, <1>4, <2>1 DEF Outdated, Owner
<1>5. CASE token[r].version < account[Owner(r)].version
  <2>1. token[r].version < account'[Owner(r)].version
    BY <1>2, <1>3, <1>5
  <2> QED
    BY <1>2, <2>1 DEF Outdated, Owner
<1> QED
  BY <1>4, <1>5 DEF Outdated

\* An increment outdates every session of the account.
LEMMA IncrementOutdates ==
  ASSUME SessionInv, [Next]_vars, NEW r \in Call, Root(r) = r, Increment(Owner(r))
  PROVE  Outdated(r)'
<1>1. /\ Owner(r)' = Owner(r) /\ token'[r].version = token[r].version
      /\ token[r].version <= account[Owner(r)].version
      /\ Owner(r) \in User
      /\ token[r].version \in Nat /\ account[Owner(r)].version \in Nat
  BY SessionStays
<1>2. account \in [User -> Account]
  BY DEF SessionInv, TypeOK
<1>3. CASE account[Owner(r)].exists
  <2>1. account'[Owner(r)].version = account[Owner(r)].version + 1
    BY <1>1, <1>2, <1>3 DEF Increment, Account
  <2>2. token[r].version < account'[Owner(r)].version
    BY <1>1, <2>1
  <2> QED
    BY <1>1, <2>2 DEF Outdated, Owner
<1>4. CASE ~account[Owner(r)].exists
  BY <1>1, <1>4 DEF Increment, Outdated, Owner
<1> QED
  BY <1>3, <1>4

\* A call that has incremented the version has just done so, or had before.
LEMMA IncrementedStays ==
  ASSUME TypeOK, ControlInv, [Next]_vars, NEW c \in Call, Incremented(c)'
  PROVE  /\ op'[c] = op[c] /\ target'[c] = target[c] /\ before'[c] = before[c]
         /\ Incremented(c) \/ (pc[c] = "IncrementTokenVersion" /\ Write(c))
<1>1. CASE Stays(c)
  BY <1>1 DEF Stays, Incremented
<1>2. CASE Submit(c)
  <2>1. \A o \in Op : First[o] \notin {"untrack", "GetEmailForAuth", "sign", "StoreRefreshToken", "track", "done"} \/ o = "Login"
    BY DEF Op, First
  <2>2. PICK o \in Op : op' = [op EXCEPT ![c] = o] /\ pc' = [pc EXCEPT ![c] = First[o]]
    BY <1>2 DEF Submit
  <2>3. op'[c] = o /\ pc'[c] = First[o]
    BY <2>2 DEF TypeOK
  <2> QED
    BY <2>1, <2>3 DEF Incremented
<1>3. CASE Goes(c)
  <2>1. op'[c] = op[c] /\ op[c] \in {"Logout", "ResetPassword", "DeactivateAccount"} /\ before'[c] = before[c]
    BY <1>3 DEF Goes, Incremented
  <2>2. pc[c] \in Steps(op[c]) /\ pc[c] \notin {"range", "next", "done", "failed"} /\ target'[c] = target[c]
    BY <1>3, <2>1 DEF Goes, Running, Ended, ControlInv, Steps
  <2>3. pc'[c] = After(op[c], pc[c])
    BY <1>3, <2>2 DEF Goes, Incremented
  <2>4. Incremented(c) \/ pc[c] = "IncrementTokenVersion"
    BY <2>1, <2>2, <2>3 DEF Incremented, Steps, After
  <2> QED
    BY <1>3, <2>1, <2>2, <2>4 DEF Goes, Incremented
<1> QED
  BY <1>1, <1>2, <1>3, NextMoves

\* Every step keeps what a finished revocation means.
LEMMA NextRevoked == SessionInv /\ RevokedInv /\ [Next]_vars => RevokedInv'
<1> SUFFICES ASSUME SessionInv, RevokedInv, [Next]_vars, NEW c \in Call, NEW r \in Call,
                    Incremented(c)', r \in before'[c], Owner(r)' = target'[c]
             PROVE  Outdated(r)'
  BY DEF RevokedInv
<1>1. TypeOK /\ ControlInv /\ HistoryInv
  BY DEF SessionInv
<1>2. /\ target'[c] = target[c] /\ before'[c] = before[c]
      /\ Incremented(c) \/ (pc[c] = "IncrementTokenVersion" /\ Write(c))
  BY <1>1, IncrementedStays
<1>3. Root(r) = r
  BY <1>1, <1>2 DEF HistoryInv
<1>4. Owner(r) = target[c]
  BY <1>2, <1>3, SessionStays
<1>5. CASE Incremented(c)
  BY <1>2, <1>3, <1>4, <1>5, OutdatedStays DEF RevokedInv
<1>6. CASE pc[c] = "IncrementTokenVersion" /\ Write(c)
  <2>1. Increment(target[c])
    BY <1>6 DEF Write, Effect
  <2> QED
    BY <1>3, <1>4, <2>1, IncrementOutdates
<1> QED
  BY <1>2, <1>5, <1>6

\* Every step keeps what a deletion means.
LEMMA NextDeleted == SessionInv /\ DeletedInv /\ [Next]_vars => DeletedInv'
<1> SUFFICES ASSUME SessionInv, DeletedInv, [Next]_vars, NEW c \in Call, op'[c] = "DeleteAccount"
             PROVE  /\ account'[target'[c]].version > 0
                    /\ pc'[c] \in {"DeleteRefreshToken", "untrack", "done"} => ~account'[target'[c]].exists
  BY DEF DeletedInv
<1>1. TypeOK /\ TypeOK' /\ ControlInv /\ TokenInv /\ Grows
  BY NextType, NextGrows DEF SessionInv
<1>2. ASSUME NEW u \in User, account[u].version > 0
      PROVE  account'[u].version > 0 /\ (account'[u].exists => account[u].exists)
  <2>1. account[u].version \in Nat /\ account'[u].version \in Nat
    BY <1>1 DEF TypeOK, Account
  <2> QED
    BY <1>1, <1>2, <2>1 DEF Grows
<1>3. CASE Submit(c)
  <2>1. PICK o \in Offered, u \in User :
          /\ o \in {"ResetPassword", "DeleteAccount"} => Authenticated(u)
          /\ op' = [op EXCEPT ![c] = o] /\ target' = [target EXCEPT ![c] = u]
          /\ pc' = [pc EXCEPT ![c] = First[o]]
    BY <1>3 DEF Submit
  <2>2. o = "DeleteAccount" /\ target'[c] = u /\ pc'[c] = "Delete"
    BY <1>1, <2>1 DEF TypeOK, First, Op
  <2>3. PICK t \in Given : Owner(t) = u
    BY <2>1, <2>2 DEF Authenticated
  <2>4. t \in Call /\ Root(t) # NoCall
    BY <1>1 DEF Given, ControlInv, Issuing
  <2>5. token[t].version > 0 /\ token[t].version <= account[u].version
    BY <1>1, <2>3, <2>4 DEF TokenInv
  <2>6. token[t].version \in Nat /\ account[u].version \in Nat
    BY <1>1, <2>4 DEF TypeOK, Token, Account
  <2> QED
    BY <1>2, <2>2, <2>5, <2>6
<1>4. CASE Stays(c)
  BY <1>1, <1>2, <1>4 DEF Stays, DeletedInv, TypeOK
<1>5. CASE Goes(c)
  <2>1. op[c] = "DeleteAccount" /\ pc[c] \in {"Delete", "DeleteRefreshToken", "untrack"}
    BY <1>1, <1>5 DEF Goes, Running, Ended, ControlInv, Steps
  <2>2. target'[c] = target[c] /\ target[c] \in User
    BY <1>1, <1>5, <2>1 DEF Goes, TypeOK
  <2>3. CASE pc[c] # "Delete"
    BY <1>2, <2>1, <2>2, <2>3 DEF DeletedInv
  <2>4. CASE pc[c] = "Delete" /\ pc'[c] = "failed"
    BY <1>2, <2>1, <2>2, <2>4 DEF DeletedInv
  <2>5. CASE pc[c] = "Delete" /\ Write(c)
    <3>1. account' = [account EXCEPT ![target[c]].exists = FALSE]
      BY <2>5 DEF Write, Effect
    <3>2. ~account'[target[c]].exists
      BY <1>1, <2>2, <3>1 DEF TypeOK, Account
    <3> QED
      BY <1>2, <2>1, <2>2, <3>2 DEF DeletedInv
  <2> QED
    BY <1>5, <2>3, <2>4, <2>5 DEF Goes
<1> QED
  BY <1>1, <1>3, <1>4, <1>5, NextMoves

-----------------------------------------------------------------------------
(* Deactivation. *)

\* While a call is the last to have set a user's is_active, nobody else does,
\* and the call that has just done it is at that step.
LEMMA SwitchedBy ==
  ASSUME TypeOK, ControlInv, [Next]_vars, NEW c \in Call, NEW u \in User, switched'[u] = c
  PROVE  \/ switched[u] = c /\ account'[u].active = account[u].active
            /\ (account'[u].exists => account[u].exists)
         \/ /\ pc[c] # "idle"
            /\ op[c] = "DeactivateAccount" =>
                 /\ account'[u].exists => ~account'[u].active
                 /\ ~Incremented(c)
<1>1. CASE UNCHANGED <<account, rows, switched>>
  BY <1>1
<1>2. ASSUME NEW d \in Call, NEW s \in Writes,
             Effect(s, d), pc[d] = s \/ late[d] = s, UNCHANGED <<op, target>>
      PROVE  \/ switched[u] = c /\ account'[u].active = account[u].active
                /\ (account'[u].exists => account[u].exists)
             \/ /\ pc[c] # "idle"
                /\ op[c] = "DeactivateAccount" =>
                     /\ account'[u].exists => ~account'[u].active
                     /\ ~Incremented(c)
  <2>1. /\ account \in [User -> Account] /\ switched \in [User -> Call \cup {NoCall}] /\ target[d] \in User
        /\ pc[d] # "idle"
    BY <1>2 DEF TypeOK, ControlInv, Writes
  <2>2. CASE UNCHANGED <<account, switched>>
    BY <2>2
  <2>3. CASE s = "PostAccount"
    <3>1. op[d] = "Signup"
      BY <1>2, <2>3 DEF ControlInv, Op, Steps
    <3>2. ASSUME NEW v \in Fresh(d), Create(d, v)
          PROVE  c = d \/ (switched[u] = c /\ account'[u] = account[u])
      BY <2>1, <3>2 DEF Create, Fresh
    <3>3. c = d => pc[c] # "idle" /\ op[c] # "DeactivateAccount"
      BY <2>1, <3>1
    <3> QED
      BY <1>2, <2>2, <2>3, <3>2, <3>3 DEF Effect
  <2>4. CASE s = "IncrementTokenVersion"
    BY <1>2, <2>1, <2>4 DEF Effect, Increment, Account
  <2>5. CASE s = "Delete"
    BY <1>2, <2>1, <2>5 DEF Effect, Account
  <2>6. CASE s \in {"Deactivate", "Reactivate"}
    <3>1. /\ account' = IF account[target[d]].exists
                        THEN [account EXCEPT ![target[d]].active = (s = "Reactivate")] ELSE account
          /\ switched' = [switched EXCEPT ![target[d]] = d]
      BY <1>2, <2>6 DEF Effect
    <3>2. CASE u = target[d]
      <4>1. c = d
        BY <2>1, <3>1, <3>2
      <4>2. ASSUME op[c] = "DeactivateAccount"
            PROVE  (account'[u].exists => ~account'[u].active) /\ ~Incremented(c)
        <5>1. s = "Deactivate"
          BY <1>2, <2>6, <4>1, <4>2 DEF ControlInv, Op, Steps
        <5>2. account'[u].exists => ~account'[u].active
          BY <2>1, <3>1, <3>2, <5>1 DEF Account
        <5>3. pc[c] \in {"Deactivate", "failed"}
          BY <1>2, <4>1, <5>1 DEF ControlInv
        <5> QED
          BY <5>2, <5>3 DEF Incremented
      <4> QED
        BY <1>2, <2>1, <3>2, <4>1, <4>2
    <3>3. CASE u # target[d]
      BY <2>1, <3>1, <3>3
    <3> QED
      BY <3>2, <3>3
  <2>7. CASE s \in {"StoreRefreshToken", "DeleteRefreshToken"}
    BY <1>2, <2>2, <2>7 DEF Effect
  <2> QED
    BY <2>3, <2>4, <2>5, <2>6, <2>7 DEF Writes
<1> QED
  BY <1>1, <1>2, NextEffect

\* Every step keeps what a deactivation means.
LEMMA NextSwitch == SessionInv /\ SwitchInv /\ [Next]_vars => SwitchInv'
<1> SUFFICES ASSUME SessionInv, SwitchInv, [Next]_vars
             PROVE  SwitchInv'
  OBVIOUS
<1>1. TypeOK /\ TypeOK' /\ ControlInv
  BY NextType DEF SessionInv
<1>2. ASSUME NEW u \in User, NEW c \in Call, switched'[u] = c
      PROVE  pc[c] # "idle" /\ pc'[c] # "idle"
  <2>1. pc[c] # "idle"
    BY <1>1, <1>2, SwitchedBy DEF SwitchInv
  <2>2. ControlInv /\ TokenInv /\ RowInv
    BY DEF SessionInv
  <2>3. ControlInv'
    BY <1>1, <2>2, NextControl
  <2>4. CASE Stays(c)
    BY <2>1, <2>4 DEF Stays
  <2>5. CASE Goes(c)
    <3>1. op'[c] = op[c] /\ op[c] \in Op
      BY <1>1, <2>1, <2>5 DEF Goes, ControlInv
    <3> QED
      BY <2>1, <2>3, <3>1 DEF ControlInv, Op
  <2> QED
    BY <1>1, <2>1, <2>4, <2>5, NextMoves DEF Submit
<1>3. ASSUME NEW c \in Call, op'[c] = "DeactivateAccount", switched'[target'[c]] = c
      PROVE  /\ op[c] = "DeactivateAccount" /\ target'[c] = target[c] /\ target[c] \in User
             /\ account'[target[c]].exists => ~account'[target[c]].active
             /\ Incremented(c) =>
                  /\ switched[target[c]] = c
                  /\ account[target[c]].exists => ~account[target[c]].active
  <2>1. target'[c] \in User
    BY <1>1 DEF TypeOK
  <2>2. pc[c] # "idle"
    BY <1>2, <1>3, <2>1
  <2>3. op'[c] = op[c] /\ target'[c] = target[c]
    <3>1. Stays(c) \/ Goes(c)
      BY <1>1, <2>2, NextMoves DEF Submit
    <3>2. op'[c] = op[c]
      BY <3>1 DEF Stays, Goes
    <3>3. pc[c] # "next"
      BY <1>1, <1>3, <3>2, ReadersOp
    <3> QED
      BY <3>1, <3>2, <3>3 DEF Stays, Goes
  <2>4. CASE switched[target[c]] = c /\ account'[target[c]].active = account[target[c]].active
             /\ (account'[target[c]].exists => account[target[c]].exists)
    BY <1>3, <2>1, <2>3, <2>4 DEF SwitchInv
  <2>5. CASE (account'[target[c]].exists => ~account'[target[c]].active) /\ ~Incremented(c)
    BY <1>3, <2>1, <2>3, <2>5
  <2> QED
    BY <1>1, <1>3, <2>1, <2>3, <2>4, <2>5, SwitchedBy
<1>4. ASSUME NEW c \in Call, op'[c] = "DeactivateAccount", switched'[target'[c]] = c, Incremented(c)',
             NEW r \in Call, Root(r)' = r, Owner(r)' = target'[c], op'[r] # "ResetPassword"
      PROVE  Outdated(r)'
  <2>1. /\ op[c] = "DeactivateAccount" /\ target'[c] = target[c]
        /\ Incremented(c) => switched[target[c]] = c
        /\ Incremented(c) => ~(account[target[c]].exists /\ account[target[c]].active)
    BY <1>3, <1>4
  <2>2. Incremented(c) \/ (pc[c] = "IncrementTokenVersion" /\ Write(c))
    BY <1>1, <1>4, IncrementedStays
  <2>3. CASE Root(r) = r
    <3>1. Owner(r) = target[c] /\ op[r] # "ResetPassword"
      BY <1>4, <2>1, <2>3, SessionStays
    <3>2. CASE Incremented(c)
      <4>1. Outdated(r)
        BY <2>1, <2>3, <3>1, <3>2 DEF SwitchInv
      <4> QED
        BY <2>3, <4>1, OutdatedStays
    <3>3. CASE pc[c] = "IncrementTokenVersion" /\ Write(c)
      <4>1. Increment(target[c])
        BY <3>3 DEF Write, Effect
      <4> QED
        BY <2>3, <3>1, <4>1, IncrementOutdates
    <3> QED
      BY <2>2, <3>2, <3>3
  <2>4. CASE Root(r) # r
    <3>1. op'[r] = op[r] /\ op[r] \in Issuing /\ Begins(r)
      BY <1>4, <2>4, SessionBegins
    <3>2. Owner(r)' = target[c] /\ op[r] \in {"Signup", "Login"}
      BY <1>4, <2>1, <3>1 DEF Begins, Issuing
    <3>3. CASE op[r] = "Signup"
      BY <1>4, <2>1, <3>1, <3>2, <3>3 DEF Begins
    <3>4. CASE op[r] = "Login"
      <4>1. account[target[c]].exists /\ account[target[c]].active
        BY <3>1, <3>2, <3>4 DEF Begins
      <4>2. ~Incremented(c)
        BY <2>1, <4>1
      <4>3. token' = token
        BY <2>2, <4>2 DEF Write
      <4> QED
        BY <1>4, <2>4, <4>3 DEF Root
    <3> QED
      BY <3>2, <3>3, <3>4
  <2> QED
    BY <2>3, <2>4
<1> QED
  BY <1>2, <1>3, <1>4 DEF SwitchInv

-----------------------------------------------------------------------------
(* Nothing is revoked unasked. *)

\* A token that was valid and no longer is was revoked by a call of its user's
\* that was not over.
LEMMA RevokedBySomebody ==
  ASSUME SessionInv, [Next]_vars, NEW r \in Call, Root(r) = r, Valid(r), ~Valid(r)'
  PROVE  \E c \in Call \ {r} : Revokes(c, Owner(r))' /\ ~Over(c)
<1>1. /\ Owner(r)' = Owner(r) /\ token'[r].version = token[r].version
      /\ token[r].version > 0 /\ Owner(r) \in User /\ token[r].version \in Nat
  BY SessionStays
<1>2. TypeOK /\ ControlInv /\ account \in [User -> Account]
  BY DEF SessionInv, TypeOK
<1>3. /\ account[Owner(r)].exists /\ account[Owner(r)].version > 0
      /\ ~(account'[Owner(r)].exists /\ account'[Owner(r)].version = account[Owner(r)].version)
  BY <1>1 DEF Valid, Owner
<1>4. PICK c \in Call, s \in Writes :
        Effect(s, c) /\ (pc[c] = s \/ late[c] = s) /\ UNCHANGED <<op, target>>
  BY <1>2, <1>3, NextEffect
<1>5. s \in {"IncrementTokenVersion", "Delete"} /\ target[c] = Owner(r)
  <2>1. ASSUME NEW v \in Fresh(c), Create(c, v)
        PROVE  FALSE
    BY <1>1, <1>2, <1>3, <2>1 DEF Create, Fresh
  <2>2. s # "PostAccount"
    BY <1>3, <1>4, <2>1 DEF Effect
  <2>3. s \notin {"StoreRefreshToken", "DeleteRefreshToken"}
    BY <1>1, <1>2, <1>3, <1>4 DEF Effect
  <2>4. s \notin {"Deactivate", "Reactivate"}
    <3>1. ASSUME NEW b, account' = [account EXCEPT ![target[c]].active = b]
          PROVE  FALSE
      BY <1>1, <1>2, <1>3, <3>1 DEF Account
    <3>2. ASSUME account' = account
          PROVE  FALSE
      BY <1>3, <3>2
    <3> QED
      BY <1>4, <3>1, <3>2 DEF Effect
  <2>5. s = "IncrementTokenVersion" => target[c] = Owner(r)
    BY <1>1, <1>2, <1>3, <1>4 DEF Effect, Increment, TypeOK
  <2>6. s = "Delete" => target[c] = Owner(r)
    BY <1>1, <1>2, <1>3, <1>4 DEF Effect, TypeOK
  <2> QED
    BY <2>2, <2>3, <2>4, <2>5, <2>6 DEF Writes
<1>6. op[c] \in Revoking /\ Root(c) = NoCall
  BY <1>2, <1>4, <1>5 DEF ControlInv, Op, Steps, Revoking, LoggingOut, Holding, Writes
<1>7. ~Over(c)
  BY <1>4, <1>5 DEF Over, Ended
<1> QED
  BY <1>1, <1>4, <1>5, <1>6, <1>7 DEF Revokes

\* Every step keeps the reason why a token is not valid.
LEMMA NextKept == SessionInv /\ KeptInv /\ [Next]_vars => KeptInv'
<1> SUFFICES ASSUME SessionInv, KeptInv, [Next]_vars, NEW r \in Call, Root(r)' = r, ~Valid(r)'
             PROVE  \E c \in Call \ {r} : Revokes(c, Owner(r))' /\ c \notin over'[r]
  BY DEF KeptInv
<1>1. TypeOK /\ ControlInv /\ HistoryInv
  BY DEF SessionInv
<1>2. CASE Root(r) = r
  <2>1. over'[r] = over[r] /\ Owner(r)' = Owner(r) /\ over[r] \subseteq {d \in Call : Over(d)}
    BY <1>1, <1>2, SessionStays DEF HistoryInv, TypeOK
  <2>2. CASE Valid(r)
    <3>1. PICK c \in Call \ {r} : Revokes(c, Owner(r))' /\ ~Over(c)
      BY <1>2, <2>2, RevokedBySomebody
    <3> QED
      BY <2>1, <3>1
  <2>3. CASE ~Valid(r)
    <3>1. PICK c \in Call \ {r} : Revokes(c, Owner(r)) /\ c \notin over[r]
      BY <1>2, <2>3 DEF KeptInv
    <3>2. op[c] \in Revoking
      BY <3>1 DEF Revokes, Revoking, LoggingOut
    <3>3. pc[c] # "idle"
      BY <1>1, <3>2 DEF ControlInv, Revoking, LoggingOut
    <3>4. Stays(c) \/ Goes(c)
      BY <1>1, <3>3, NextMoves DEF Submit
    <3>5. op'[c] = op[c]
      BY <3>4 DEF Stays, Goes
    <3>6. op[c] = "LogoutAll" \/ target'[c] = target[c]
      BY <1>1, <3>4, ReadersOp DEF Stays, Goes
    <3> QED
      BY <2>1, <3>1, <3>5, <3>6 DEF Revokes
  <2> QED
    BY <2>2, <2>3
<1>3. CASE Root(r) # r
  <2>1. Begins(r)
    BY <1>3, SessionBegins
  <2> QED
    BY <2>1 DEF Begins, Valid, Owner
<1> QED
  BY <1>2, <1>3

-----------------------------------------------------------------------------
(* The global logout. *)

\* The call d, a revoking one of u's, has just ended with success.
Intervenes(d, u) ==
    /\ Running(d) /\ pc'[d] = "done" /\ UNCHANGED <<op, target>>
    /\ op[d] = "LogoutAll" \/ (op[d] \in Revoking /\ target[d] = u)

\* Another call leaves a global logout where it is.
LEMMA WaitsUndisturbed ==
  ASSUME NEW c \in Call, NEW u \in User, Waits(c, u),
         pc'[c] = pc[c], target'[c] = target[c], u \in logged => u \in logged',
         u \in visit[c] => u \in visit'[c]
  PROVE  Waits(c, u)'
BY DEF Waits

\* A user a global logout has still to log out waits on, has just been logged
\* out by it, or has been taken off the map by another revoking call.
LEMMA NextWaits ==
  ASSUME TypeOK, ControlInv, [Next]_vars, NEW c \in Call, NEW u \in User,
         op[c] = "LogoutAll", Waits(c, u)
  PROVE  \/ Waits(c, u)'
         \/ pc'[c] = "failed"
         \/ Increment(u)
         \/ \E d \in Call \ {c} : Intervenes(d, u)
<1> USE DEF handler, failing, history
<1>0. /\ pc[c] \in {"range", "next", "DeleteRefreshToken", "IncrementTokenVersion"}
      /\ pc \in [Call -> Step] /\ target \in [Call -> User] /\ visit \in [Call -> SUBSET User]
  BY DEF Waits, TypeOK
<1>1. ASSUME NEW d \in Call, Submit(d)
      PROVE  Waits(c, u)'
  <2>1. d # c /\ UNCHANGED <<logged, visit>>
    BY <1>0, <1>1 DEF Submit
  <2>2. pc'[c] = pc[c] /\ target'[c] = target[c]
    BY <1>0, <1>1, <2>1 DEF Submit
  <2> QED
    BY <2>1, <2>2, WaitsUndisturbed
<1>2. ASSUME NEW d \in Call, PostAccount(d) \/ ReadAccount(d) \/ FetchRow(d) \/ Sign(d) \/ UpdatePassword(d)
      PROVE  Waits(c, u)'
  <2>1. /\ UNCHANGED <<logged, visit, target>>
        /\ pc[d] \in {"PostAccount", "GetEmailForAuth", "GetRefreshToken", "sign", "UpdatePassword"}
        /\ Advance(d) \/ Fail(d)
    BY <1>2 DEF PostAccount, ReadAccount, FetchRow, Sign, UpdatePassword
  <2>2. d # c
    BY <1>0, <2>1
  <2>3. pc'[c] = pc[c]
    BY <1>0, <2>1, <2>2 DEF Advance, Fail
  <2> QED
    BY <2>1, <2>3, WaitsUndisturbed
<1>3. ASSUME NEW d \in Call, Write(d)
      PROVE  Waits(c, u)' \/ Increment(u)
  <2>1. UNCHANGED <<logged, visit, target>> /\ Advance(d) /\ pc[d] \in Writes
    BY <1>3 DEF Write
  <2>2. CASE d # c
    <3>1. pc'[c] = pc[c]
      BY <1>0, <2>1, <2>2 DEF Advance
    <3> QED
      BY <2>1, <3>1, WaitsUndisturbed
  <2>3. CASE d = c /\ pc[c] = "DeleteRefreshToken"
    <3>1. pc'[c] = "IncrementTokenVersion"
      BY <1>0, <2>1, <2>3 DEF Advance, After
    <3> QED
      BY <2>1, <2>3, <3>1 DEF Waits
  <2>4. CASE d = c /\ pc[c] = "IncrementTokenVersion"
    <3>1. pc'[c] = "next" /\ Increment(target[c])
      BY <1>0, <1>3, <2>1, <2>4 DEF Advance, After, Write, Effect
    <3> QED
      BY <2>1, <2>4, <3>1 DEF Waits
  <2> QED
    BY <1>0, <2>1, <2>2, <2>3, <2>4 DEF Writes
<1>4. ASSUME NEW d \in Call, Track(d)
      PROVE  Waits(c, u)'
  <2>1. d # c
    BY <1>0, <1>4 DEF Track
  <2>2. pc'[c] = pc[c] /\ target' = target /\ logged \subseteq logged' /\ visit[c] \subseteq visit'[c]
    BY <1>0, <1>4, <2>1 DEF Track, Advance
  <2> QED
    BY <2>2, WaitsUndisturbed
<1>5. ASSUME NEW d \in Call, Untrack(d)
      PROVE  Waits(c, u)' \/ \E e \in Call \ {c} : Intervenes(e, u)
  <2>1. d # c /\ pc[d] = "untrack" /\ pc'[d] = "done" /\ UNCHANGED <<op, target>>
    BY <1>0, <1>5 DEF Untrack, Advance, After
  <2>2. CASE target[d] = u
    <3>1. op[d] \in Revoking /\ Running(d)
      BY <2>1 DEF ControlInv, Op, Steps, Revoking, LoggingOut, Running, Ended
    <3> QED
      BY <2>1, <2>2, <3>1 DEF Intervenes
  <2>3. CASE target[d] # u
    <3>1. pc'[c] = pc[c]
      BY <1>0, <1>5, <2>1 DEF Untrack, Advance
    <3>2. (u \in logged => u \in logged') /\ (u \in visit[c] => u \in visit'[c])
      BY <1>0, <1>5, <2>3 DEF Untrack
    <3> QED
      BY <2>1, <3>1, <3>2, WaitsUndisturbed
  <2> QED
    BY <2>2, <2>3
<1>6. ASSUME NEW d \in Call, StartRange(d)
      PROVE  Waits(c, u)'
  <2>1. CASE d = c
    BY <1>0, <1>6, <2>1 DEF StartRange, Waits
  <2>2. CASE d # c
    <3>1. pc'[c] = pc[c] /\ visit'[c] = visit[c] /\ UNCHANGED <<logged, target>>
      BY <1>0, <1>6, <2>2 DEF StartRange
    <3> QED
      BY <3>1, WaitsUndisturbed
  <2> QED
    BY <2>1, <2>2
<1>7. ASSUME NEW d \in Call, NextUser(d)
      PROVE  Waits(c, u)'
  <2>1. CASE d = c
    <3>1. pc'[c] = "DeleteRefreshToken" /\ u \in visit[c]
      BY <1>0, <1>7, <2>1 DEF NextUser, Waits
    <3>2. u \in visit'[c] \/ target'[c] = u
      BY <1>0, <1>7, <2>1, <3>1 DEF NextUser
    <3> QED
      BY <3>1, <3>2 DEF Waits
  <2>2. CASE d # c
    <3>1. pc'[c] = pc[c] /\ visit'[c] = visit[c] /\ target'[c] = target[c] /\ UNCHANGED logged
      BY <1>0, <1>7, <2>2 DEF NextUser
    <3> QED
      BY <3>1, WaitsUndisturbed
  <2> QED
    BY <2>1, <2>2
<1>8. ASSUME NEW d \in Call, ClearMap(d)
      PROVE  \E e \in Call \ {c} : Intervenes(e, u)
  <2>1. d # c
    BY <1>8 DEF ClearMap, Waits
  <2>2. pc[d] = "next" /\ pc'[d] = "done" /\ UNCHANGED <<op, target>>
    BY <1>0, <1>8 DEF ClearMap, Advance, After
  <2>3. op[d] = "LogoutAll" /\ Running(d)
    BY <2>2, ReadersOp DEF Running, Ended
  <2> QED
    BY <2>1, <2>2, <2>3 DEF Intervenes
<1>9. ASSUME NEW d \in Call, CallFails(d)
      PROVE  Waits(c, u)' \/ pc'[c] = "failed"
  <2>1. CASE d = c
    BY <1>0, <1>9, <2>1 DEF CallFails, Fail
  <2>2. CASE d # c
    <3>1. pc'[c] = pc[c] /\ visit'[c] = visit[c] /\ UNCHANGED <<logged, target>>
      BY <1>0, <1>9, <2>2 DEF CallFails, Fail
    <3> QED
      BY <3>1, WaitsUndisturbed
  <2> QED
    BY <2>1, <2>2
<1>10. ASSUME NEW d \in Call, LateEffect(d) \/ Respond(d)
       PROVE  Waits(c, u)'
  BY <1>10, WaitsUndisturbed DEF LateEffect, Respond
<1>11. CASE Crash
  BY <1>0, <1>11 DEF Crash, Running, Ended
<1>12. CASE UNCHANGED vars
  BY <1>12, WaitsUndisturbed DEF vars
<1> QED
  BY <1>1, <1>2, <1>3, <1>4, <1>5, <1>6, <1>7, <1>8, <1>9, <1>10, <1>11, <1>12 DEF Next

\* A call that has ended does nothing any more.
LEMMA EndedStays ==
  ASSUME TypeOK, [Next]_vars, NEW d \in Call, Ended(d)
  PROVE  pc'[d] = pc[d] /\ op'[d] = op[d] /\ target'[d] = target[d]
<1>1. ~Submit(d) /\ ~Goes(d)
  BY DEF Ended, Submit, Goes, Running
<1> QED
  BY <1>1, NextMoves DEF Stays

\* Every step keeps what the global logout has done so far.
LEMMA NextListedInv == SessionInv /\ ListedInv /\ [Next]_vars => ListedInv'
<1> SUFFICES ASSUME SessionInv, ListedInv, [Next]_vars, NEW c \in Call, op'[c] = "LogoutAll",
                    NEW r \in told'[c], Owner(r)' \in listed'[c]
             PROVE  \/ Outdated(r)'
                    \/ Waits(c, Owner(r))'
                    \/ pc'[c] = "failed"
                    \/ \E d \in Call \ {c} : Interferes(d, Owner(r), r)'
  BY DEF ListedInv
<1>1. TypeOK /\ ControlInv /\ HistoryInv
  BY DEF SessionInv
<1>2. /\ r \in Call /\ Root(r) = r /\ Owner(r) \in User
      /\ Owner(r)' = Owner(r) /\ over'[r] = over[r]
  BY ToldAreSessions, SessionStays
<1>3. CASE Submit(c)
  <2>1. pc'[c] = "range" /\ logged' = logged
    BY <1>1, <1>3 DEF Submit, First, Op, TypeOK
  <2>2. listed'[c] = logged
    BY <1>1, <1>3 DEF Submit, TypeOK
  <2> QED
    BY <1>2, <2>1, <2>2 DEF Waits
<1>4. CASE ~Submit(c)
  <2>1. told'[c] = told[c] /\ listed'[c] = listed[c]
    BY <1>1, <1>4, NextListed
  <2>2. op[c] = "LogoutAll"
    BY <1>1, <1>4, NextMoves DEF Stays, Goes
  <2>3. CASE Outdated(r)
    BY <1>2, <2>3, OutdatedStays
  <2>4. CASE pc[c] = "failed"
    BY <1>1, <2>4, EndedStays DEF Ended
  <2>5. ASSUME NEW d \in Call \ {c}, Interferes(d, Owner(r), r)
        PROVE  Interferes(d, Owner(r), r)'
    <3>1. pc'[d] = pc[d] /\ op'[d] = op[d] /\ target'[d] = target[d]
      BY <1>1, <2>5, EndedStays DEF Interferes, Ended
    <3> QED
      BY <1>2, <2>5, <3>1 DEF Interferes
  <2>6. CASE Waits(c, Owner(r))
    <3> PICK u \in User : u = Owner(r)
      BY <1>2
    <3>1. CASE Waits(c, u)'
      BY <1>2, <3>1 DEF Waits
    <3>2. CASE Increment(u)
      BY <1>2, <3>2, IncrementOutdates
    <3>3. ASSUME NEW d \in Call \ {c}, Intervenes(d, u)
          PROVE  Interferes(d, Owner(r), r)'
      <4>1. d \notin over[r]
        BY <1>1, <1>2, <3>3 DEF Intervenes, Running, HistoryInv, Over
      <4> QED
        BY <1>2, <3>3, <4>1 DEF Intervenes, Interferes
    <3>4. Waits(c, u)
      BY <2>6
    <3> QED
      BY <1>1, <2>2, <3>1, <3>2, <3>3, <3>4, NextWaits
  <2> QED
    BY <1>2, <2>1, <2>2, <2>3, <2>4, <2>5, <2>6 DEF ListedInv
<1> QED
  BY <1>3, <1>4

-----------------------------------------------------------------------------
(* One account per e-mail address. *)

\* An id keeps its e-mail.
LEMMA EmailStays == [Next]_vars => UNCHANGED email
<1>1. \A c \in Call : Submit(c) \/ PostAccount(c) \/ ReadAccount(c) \/ FetchRow(c) \/ Sign(c) => UNCHANGED email
  BY DEF Submit, PostAccount, ReadAccount, FetchRow, Sign
<1>2. \A c \in Call : Write(c) \/ UpdatePassword(c) \/ Track(c) \/ Untrack(c) \/ StartRange(c) => UNCHANGED email
  BY DEF Write, UpdatePassword, Track, Untrack, StartRange
<1>3. \A c \in Call : NextUser(c) \/ ClearMap(c) \/ CallFails(c) \/ LateEffect(c) \/ Respond(c) => UNCHANGED email
  BY DEF NextUser, ClearMap, CallFails, LateEffect, Respond
<1>4. Crash \/ UNCHANGED vars => UNCHANGED email
  BY DEF Crash, vars
<1> QED
  BY <1>1, <1>2, <1>3, <1>4 DEF Next

\* Only the insertion of an account makes one exist, and its e-mail is free.
LEMMA NewHolder ==
  ASSUME TypeOK, NEW c \in Call, NEW s, Effect(s, c)
  PROVE  \/ \A u \in User : account'[u].exists => account[u].exists
         \/ \E v \in Fresh(c) : \A u \in User \ {v} : account'[u] = account[u]
<1>1. account \in [User -> Account] /\ target[c] \in User
  BY DEF TypeOK
<1>2. ASSUME NEW v \in Fresh(c), Create(c, v)
      PROVE  \A u \in User \ {v} : account'[u] = account[u]
  BY <1>1, <1>2 DEF Create
<1>3. CASE UNCHANGED account
  BY <1>3
<1>4. CASE account[target[c]].exists /\ account' = [account EXCEPT ![target[c]].version = @ + 1]
  BY <1>1, <1>4
<1>5. ASSUME NEW b, account[target[c]].exists, account' = [account EXCEPT ![target[c]].active = b]
      PROVE  \A u \in User : account'[u].exists => account[u].exists
  BY <1>1, <1>5
<1>6. CASE account' = [account EXCEPT ![target[c]].exists = FALSE]
  <2>1. account'[target[c]].exists = FALSE
    BY <1>1, <1>6 DEF Account
  <2>2. \A u \in User \ {target[c]} : account'[u] = account[u]
    BY <1>1, <1>6
  <2> QED
    BY <2>1, <2>2
<1> QED
  BY <1>2, <1>3, <1>4, <1>5, <1>6 DEF Effect, Increment

\* Every step keeps the e-mails unique.
LEMMA NextUnique == TypeOK /\ EmailsUnique /\ [Next]_vars => EmailsUnique'
<1> SUFFICES ASSUME TypeOK, EmailsUnique, [Next]_vars, NEW u \in User, NEW v \in User,
                    account'[u].exists, account'[v].exists, email[v] = email[u]
             PROVE  v = u
  BY EmailStays DEF EmailsUnique, Holders
<1>1. CASE \A w \in User : account'[w].exists => account[w].exists
  BY <1>1 DEF EmailsUnique, Holders
<1>2. ASSUME NEW c \in Call, NEW w \in Fresh(c),
             \A x \in User \ {w} : account'[x] = account[x]
      PROVE  v = u
  <2>1. \A x \in User : account[x].exists => email[x] # email[w]
    BY <1>2 DEF Fresh, Holders
  <2>2. CASE u = w \/ v = w
    BY <1>2, <2>1, <2>2
  <2>3. CASE u # w /\ v # w
    BY <1>2, <2>3 DEF EmailsUnique, Holders
  <2> QED
    BY <2>2, <2>3
<1>3. CASE UNCHANGED account
  BY <1>1, <1>3
<1> QED
  BY <1>1, <1>2, <1>3, NextEffect, NewHolder

-----------------------------------------------------------------------------
(* The theorems. *)

\* The initial state satisfies the invariant.
LEMMA InitSessions == Init => SessionsInv
<1> SUFFICES ASSUME Init
             PROVE  SessionsInv
  OBVIOUS
<1>1. TypeOK /\ ControlInv
  BY InitType, InitControl
<1>2. \A c \in Call : Root(c) = NoCall /\ pc[c] = "idle" /\ op[c] = "none" /\ before[c] = {} /\ told[c] = {} /\ over[c] = {}
  BY DEF Init, Root, NoToken
<1>3. \A u \in User : rows[u] = {} /\ switched[u] = NoCall
  BY DEF Init
<1>4. TokenInv /\ RowInv /\ HistoryInv
  BY <1>2, <1>3 DEF TokenInv, RowInv, HistoryInv
<1>5. RevokedInv /\ SwitchInv /\ KeptInv /\ ListedInv
  BY <1>2, <1>3 DEF RevokedInv, SwitchInv, KeptInv, ListedInv, Incremented
<1>6. DeletedInv /\ EmailsUnique
  BY <1>2 DEF DeletedInv, Init
<1> QED
  BY <1>1, <1>4, <1>5, <1>6 DEF SessionsInv, SessionInv

\* Every step keeps the invariant.
LEMMA NextSessionsInv == SessionsInv /\ [Next]_vars => SessionsInv'
<1> SUFFICES ASSUME SessionsInv, [Next]_vars
             PROVE  SessionsInv'
  OBVIOUS
<1>1. SessionInv /\ EmailsUnique /\ RevokedInv /\ DeletedInv /\ SwitchInv /\ KeptInv /\ ListedInv
  BY DEF SessionsInv
<1>2. TypeOK /\ ControlInv /\ TokenInv /\ RowInv /\ HistoryInv
  BY <1>1 DEF SessionInv
<1>3. TypeOK' /\ ControlInv' /\ TokenInv' /\ RowInv' /\ HistoryInv'
  BY <1>1, <1>2, NextType, NextControl, NextToken, NextRow, NextHistory
<1>4. RevokedInv' /\ DeletedInv' /\ SwitchInv' /\ KeptInv' /\ ListedInv'
  BY <1>1, NextRevoked, NextDeleted, NextSwitch, NextKept, NextListedInv
<1>5. EmailsUnique'
  BY <1>1, <1>2, NextUnique
<1> QED
  BY <1>3, <1>4, <1>5 DEF SessionsInv, SessionInv

\* The tokens, the stored rows, the accounts and what calls have done to them
\* stay consistent in every interleaving, with any number of failures.
THEOREM SessionsInvariant == Spec => []SessionsInv
BY InitSessions, NextSessionsInv, PTL DEF Spec

\* An outdated session's tokens only verify by way of a successor: while the
\* account exists nobody else has its e-mail.
LEMMA OutdatedFails ==
  ASSUME SessionInv, EmailsUnique, NEW t \in Given, Outdated(Root(t)), Verifies(t)
  PROVE  Succeeded(Owner(t))
<1>1. /\ t \in Call /\ Root(t) \in Call
      /\ Owner(Root(t)) = Owner(t) /\ token[Root(t)].version = token[t].version
  BY GivenHasSession
<1>2. /\ token[t].version \in Nat /\ Owner(t) \in User
      /\ account[Owner(t)].version \in Nat
  BY <1>1 DEF SessionInv, TypeOK, Token, Owner, Account
<1>3. PICK v \in Holders(Owner(t)) : account[v].version = token[t].version
  BY DEF Verifies
<1>4. CASE account[Owner(t)].exists
  <2>1. v = Owner(t)
    BY <1>2, <1>3, <1>4 DEF EmailsUnique
  <2> QED
    BY <1>1, <1>2, <1>3, <1>4, <2>1 DEF Outdated
<1>5. CASE ~account[Owner(t)].exists
  BY <1>3, <1>5 DEF Succeeded
<1> QED
  BY <1>4, <1>5

\* The invariant has what a logout promises in it.
LEMMA SessionsInvLogout == SessionsInv => LogoutEndsSessions
<1> SUFFICES ASSUME SessionsInv, NEW c \in Call, NEW t \in Given, c \in answered,
                    op[c] \in {"Logout", "ResetPassword", "DeactivateAccount", "DeleteAccount"},
                    Owner(t) = target[c], Root(t) \in before[c], Verifies(t)
             PROVE  Succeeded(Owner(t))
  BY DEF LogoutEndsSessions
<1>1. SessionInv /\ EmailsUnique /\ RevokedInv /\ DeletedInv /\ ControlInv
  BY DEF SessionsInv, SessionInv
<1>2. Root(t) \in Call /\ Owner(Root(t)) = target[c]
  BY <1>1, GivenHasSession
<1>3. CASE op[c] = "DeleteAccount"
  <2>1. ~account[target[c]].exists
    BY <1>1, <1>3 DEF ControlInv, DeletedInv
  <2>2. Outdated(Root(t))
    BY <1>2, <2>1 DEF Outdated
  <2> QED
    BY <1>1, <2>2, OutdatedFails
<1>4. CASE op[c] # "DeleteAccount"
  <2>1. Incremented(c)
    BY <1>1, <1>4 DEF ControlInv, Incremented
  <2>2. Outdated(Root(t))
    BY <1>1, <1>2, <2>1 DEF RevokedInv
  <2> QED
    BY <1>1, <2>2, OutdatedFails
<1> QED
  BY <1>3, <1>4

\* A logout, a password reset, a deactivation and a deletion that have answered
\* end every session begun before them, however the calls interleave and fail;
\* only a later account with the same e-mail can bring a token back.
THEOREM LogoutIsFinal == Spec => []LogoutEndsSessions
BY SessionsInvariant, SessionsInvLogout, PTL

\* The invariant has what a deactivation promises in it.
LEMMA SessionsInvDeactivated == SessionsInv => DeactivatedNeedsReset
<1> SUFFICES ASSUME SessionsInv, NEW c \in Call, NEW t \in Given,
                    c \in answered, op[c] = "DeactivateAccount", switched[target[c]] = c,
                    Owner(t) = target[c], Verifies(t), op[Root(t)] # "ResetPassword"
             PROVE  Succeeded(Owner(t))
  BY DEF DeactivatedNeedsReset
<1>1. SessionInv /\ EmailsUnique /\ SwitchInv /\ ControlInv
  BY DEF SessionsInv, SessionInv
<1>2. Incremented(c)
  BY <1>1 DEF ControlInv, Incremented
<1>3. Root(t) \in Call /\ Root(Root(t)) = Root(t) /\ Owner(Root(t)) = target[c]
  BY <1>1, GivenHasSession
<1>4. Outdated(Root(t))
  BY <1>1, <1>2, <1>3 DEF SwitchInv
<1> QED
  BY <1>1, <1>4, OutdatedFails

\* While a deactivation stands, no login and no signup has a token that
\* verifies, although the account is disabled before its version is incremented.
THEOREM DeactivationHolds == Spec => []DeactivatedNeedsReset
BY SessionsInvariant, SessionsInvDeactivated, PTL

\* The invariant has in it that nobody is logged out unasked.
LEMMA SessionsInvKept == SessionsInv => NobodyIsLoggedOutUnasked
<1> SUFFICES ASSUME SessionsInv, NEW t \in Given, ~Verifies(t)
             PROVE  \E c \in Call \ {Root(t)} :
                       /\ op[c] = "LogoutAll" \/ (op[c] \in Revoking /\ target[c] = Owner(t))
                       /\ c \notin over[Root(t)]
  BY DEF NobodyIsLoggedOutUnasked
<1>1. SessionInv /\ KeptInv
  BY DEF SessionsInv
<1>2. /\ Root(t) \in Call /\ Root(Root(t)) = Root(t) /\ Owner(Root(t)) = Owner(t)
      /\ token[Root(t)].version = token[t].version
  BY <1>1, GivenHasSession
<1>3. ~Valid(Root(t))
  <2>1. Owner(t) \in User
    BY <1>1 DEF SessionInv, TypeOK, Token, Owner, Given
  <2> QED
    BY <1>2, <2>1 DEF Verifies, Valid, Holders
<1> QED
  BY <1>1, <1>2, <1>3 DEF KeptInv, Revokes

\* Nothing but a revoking call that was not over when a session began can take
\* the session's tokens away from a client.
THEOREM TokensAreKept == Spec => []NobodyIsLoggedOutUnasked
BY SessionsInvariant, SessionsInvKept, PTL

\* The invariant has what the global logout guarantees in it.
LEMMA SessionsInvListed == SessionsInv => GlobalLogoutEndsListed
<1> SUFFICES ASSUME SessionsInv, NEW c \in Call, NEW t \in Given,
                    c \in answered, op[c] = "LogoutAll",
                    Root(t) \in told[c], Owner(t) \in listed[c], Verifies(t), ~Succeeded(Owner(t))
             PROVE  \E d \in Call \ {c} : Interferes(d, Owner(t), Root(t))
  BY DEF GlobalLogoutEndsListed
<1>1. SessionInv /\ EmailsUnique /\ ListedInv /\ ControlInv
  BY DEF SessionsInv, SessionInv
<1>2. Owner(Root(t)) = Owner(t)
  BY <1>1, GivenHasSession
<1>3. ~Outdated(Root(t))
  BY <1>1, OutdatedFails
<1>4. pc[c] = "done"
  BY <1>1 DEF ControlInv
<1>5. ~Waits(c, Owner(t)) /\ pc[c] # "failed"
  BY <1>4 DEF Waits
<1> QED
  BY <1>1, <1>2, <1>3, <1>5 DEF ListedInv

\* A global logout that has answered has ended every session given out before
\* it whose user was logged in, but for those that another revoking call took
\* away from it: its loop misses nobody by itself, in any order of the map and
\* with logins, logouts and other loops changing it under way.
THEOREM GlobalLogoutHolds == Spec => []GlobalLogoutEndsListed
BY SessionsInvariant, SessionsInvListed, PTL

\* A token that does not verify belongs to a session that is outdated: tokens are
\* never of a version that their account has still to reach.
LEMMA FailingIsOutdated ==
  ASSUME SessionInv, NEW t \in Given, ~Verifies(t)
  PROVE  Outdated(Root(t))
<1>1. TypeOK /\ TokenInv
  BY DEF SessionInv
<1>2. /\ t \in Call /\ Root(t) \in Call /\ Root(Root(t)) = Root(t) /\ Root(Root(t)) # NoCall
      /\ Owner(Root(t)) = Owner(t) /\ token[Root(t)].version = token[t].version
  BY GivenHasSession
<1>3. token[Root(t)].version <= account[Owner(t)].version
  BY <1>1, <1>2 DEF TokenInv
<1>4. Owner(t) \in User /\ token[t].version \in Nat /\ account[Owner(t)].version \in Nat
  BY <1>1, <1>2 DEF TypeOK, Token, Account, Owner
<1>5. account[Owner(t)].exists => account[Owner(t)].version # token[t].version
  BY <1>4 DEF Verifies, Holders
<1> QED
  BY <1>2, <1>3, <1>4, <1>5 DEF Outdated

\* Outdated sessions have tokens that verify only by way of a successor.
OutdatedEnded == \A t \in Given : Outdated(Root(t)) /\ Verifies(t) => Succeeded(Owner(t))

\* A step makes no token verify that did not, but by way of a successor.
LEMMA NextTokenGone ==
  ASSUME SessionsInv, OutdatedEnded', [Next]_vars, NEW t \in Given, ~Verifies(t), Verifies(t)'
  PROVE  Succeeded(Owner(t))'
<1>1. SessionInv /\ TypeOK /\ ControlInv /\ SessionsStay
  BY NextSessions DEF SessionsInv, SessionInv
<1>2. /\ t \in Call /\ t \in answered /\ Root(t) \in Call /\ Root(Root(t)) = Root(t)
  BY <1>1, GivenHasSession DEF Given
<1>3. Outdated(Root(t))'
  <2> PICK r \in Call : r = Root(t)
    BY <1>2
  <2>1. Outdated(r) /\ Root(r) = r
    BY <1>1, <1>2, FailingIsOutdated
  <2>2. Outdated(r)' /\ Root(t)' = r
    BY <1>1, <1>2, <2>1, OutdatedStays DEF SessionsStay
  <2> QED
    BY <2>2 DEF Outdated
<1>4. t \in Given'
  <2>1. op'[t] = op[t] /\ op[t] \in {"Signup", "Login", "RefreshToken"}
    BY <1>1, <1>2 DEF SessionsStay, Given
  <2>2. answered \subseteq answered'
    BY AnsweredStay
  <2> QED
    BY <1>2, <2>1, <2>2 DEF Given
<1> QED
  BY <1>3, <1>4 DEF OutdatedEnded

\* A token that has been revoked stays so: no late effect, no overlapping call
\* and no retry gives its version back, and the id of a deleted account is not
\* used again; only another account with its e-mail can make it verify.
THEOREM TokensStayRevoked == Spec => NoTokenComesBack
<1>1. SessionsInv => OutdatedEnded
  BY OutdatedFails DEF SessionsInv, OutdatedEnded
<1>2. SessionsInv /\ OutdatedEnded' /\ [Next]_vars
        => [\A t \in Given : ~Verifies(t) => ~Verifies(t)' \/ Succeeded(Owner(t))']_vars
  BY NextTokenGone
<1> QED
  BY <1>1, <1>2, SessionsInvariant, PTL DEF Spec, NoTokenComesBack
=============================================================================
