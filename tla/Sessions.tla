------------------------------- MODULE Sessions -------------------------------
(* Accounts and their sessions: login with or without a second factor, rotation
   of refresh tokens and their revocation.  Signing the access tokens is in
   TransitKeys; a request whose token cannot be signed commits nothing.

   One account is enough: no row of one user is written by a request of another,
   except by an administrator.  Passwords, TOTP codes and signatures are the
   Boolean answers of the libraries that check them.                          *)
EXTENDS Naturals, Sequences

CONSTANTS
  Refreshers,         \* refresh requests that may be in flight together
  Roles, MfaMandatoryRoles,
  MaxTokens           \* bound on rows of refresh_tokens

ASSUME SessionsAssumption ==
  /\ MfaMandatoryRoles \subseteq Roles
  /\ MaxTokens \in Nat

VARIABLES
  account,    \* the users row; secret: its TOTP secret in Vault and its backup codes
  held,       \* unexpired bearer tokens the client holds, by scope
  token,      \* refresh_tokens, in order of creation
  refresher,  \* what each refresh request has read
  killed      \* history: families in which reuse was detected

sessionVars == <<account, held, token, refresher, killed>>

NoRefresh == [phase |-> "idle", row |-> 0, overlapped |-> FALSE, late |-> FALSE]
User(role) == [role |-> role, active |-> TRUE, secret |-> FALSE]

SessionsInit ==
  /\ account = [User("none") EXCEPT !.active = FALSE]
  /\ held = {} /\ token = <<>> /\ killed = {}
  /\ refresher = [r \in Refreshers |-> NoRefresh]

-----------------------------------------------------------------------------
(* Login and the second factor. *)

Revoked(row) == row.revoked
Live(i) == ~token[i].used /\ ~token[i].revoked

NewRow(family, parent, r) ==
  [family |-> family, parent |-> parent, used |-> FALSE, revoked |-> FALSE,
   overlapped |-> r.overlapped, late |-> r.late \/ (parent # 0 /\ token[parent].late)]

(* get_user_any_token, get_current_user and get_mfa_pending_user differ in the
   scope they ask for; all of them load the user. *)
Authenticated(scopes) == held \cap scopes # {} /\ account.active

(* issue_session starts a family of its own. *)
IssueSession ==
  /\ Len(token) < MaxTokens
  /\ token' = Append(token, NewRow(Len(token) + 1, 0, NoRefresh))
  /\ held' = held \cup {"access"}

CreateUser(role) ==
  /\ account.role = "none"
  /\ account' = User(role)
  /\ UNCHANGED <<held, token, refresher, killed>>

Login ==
  /\ account.active
  /\ IF account.role \in MfaMandatoryRoles
       THEN /\ held' = held \cup {"mfa_pending"} /\ UNCHANGED token
       ELSE IssueSession
  /\ UNCHANGED <<account, refresher, killed>>

TokenExpires(scope) ==
  /\ held' = held \ {scope} /\ held' # held
  /\ UNCHANGED <<account, token, refresher, killed>>

Enroll ==
  /\ Authenticated({"access", "mfa_pending"})
  /\ account' = [account EXCEPT !.secret = TRUE]
  /\ UNCHANGED <<held, token, refresher, killed>>

Confirm ==
  /\ Authenticated({"access", "mfa_pending"}) /\ account.secret
  /\ IssueSession
  /\ UNCHANGED <<account, refresher, killed>>

(* mfa_enabled is only shown, never asked for.  A backup code serves where a TOTP
   code does: both come with Enroll and go with DisableMfa; which of the ten codes are
   used up is left out. *)
Verify ==
  /\ Authenticated({"mfa_pending"}) /\ account.secret
  /\ IssueSession
  /\ UNCHANGED <<account, refresher, killed>>

DisableMfa ==
  /\ account.role # "none"
  /\ account' = [account EXCEPT !.secret = FALSE]
  /\ UNCHANGED <<held, token, refresher, killed>>

UpdateUserRole(role) ==
  /\ account.role # "none"
  /\ account' = [account EXCEPT !.role = role]
  /\ UNCHANGED <<held, token, refresher, killed>>

DeactivateUser ==
  /\ account.role # "none"
  /\ account' = [account EXCEPT !.active = FALSE]
  /\ UNCHANGED <<held, token, refresher, killed>>

-----------------------------------------------------------------------------
(* Refresh: the row is read without a lock, and the successor is committed on
   what was read. *)

(* The only refreshes that can hand out two successors of one row are those in
   flight together; both remember it. *)
RefreshRead(r, i) ==
  LET rivals == {o \in Refreshers : refresher[o].phase = "rotate" /\ refresher[o].row = i}
  IN /\ refresher[r].phase = "idle"
     /\ IF ~Live(i) THEN refresher' = [refresher EXCEPT ![r] = [NoRefresh EXCEPT !.phase = "reuse", !.row = i]]
        ELSE /\ account.active
             /\ refresher' = [o \in Refreshers |->
                  IF o = r THEN [phase |-> "rotate", row |-> i, overlapped |-> rivals # {}, late |-> FALSE]
                  ELSE IF o \in rivals THEN [refresher[o] EXCEPT !.overlapped = TRUE] ELSE refresher[o]]
     /\ UNCHANGED <<account, held, token, killed>>

(* Mutant: only the row that was presented again is revoked. *)
RevokeFamily_OneRow(r) ==
  LET fam == token[refresher[r].row].family
  IN /\ refresher[r].phase = "reuse"
     /\ token' = [token EXCEPT ![refresher[r].row].revoked = TRUE]
     /\ killed' = killed \cup {fam}
     /\ refresher' = [o \in Refreshers |->
          IF o = r THEN NoRefresh ELSE
          [refresher[o] EXCEPT !.late = @ \/ (refresher[o].phase = "rotate" /\ token[refresher[o].row].family = fam)]]
     /\ UNCHANGED <<account, held>>

RevokeFamily(r) ==
  LET fam == token[refresher[r].row].family
  IN /\ refresher[r].phase = "reuse"
     /\ token' = [i \in DOMAIN token |->
          IF token[i].family = fam THEN [token[i] EXCEPT !.revoked = TRUE] ELSE token[i]]
     /\ killed' = killed \cup {fam}
     /\ refresher' = [o \in Refreshers |->
          IF o = r THEN NoRefresh ELSE
          [refresher[o] EXCEPT !.late = @ \/ (refresher[o].phase = "rotate" /\ token[refresher[o].row].family = fam)]]
     /\ UNCHANGED <<account, held>>

(* Mutant: the row that was exchanged is not marked. *)
Rotate_Unmarked(r) ==
  LET i == refresher[r].row
  IN /\ refresher[r].phase = "rotate" /\ Len(token) < MaxTokens
        /\ token' = Append(token, NewRow(token[i].family, i, refresher[r]))
     /\ held' = held \cup {"access"}
     /\ refresher' = [refresher EXCEPT ![r] = NoRefresh]
     /\ UNCHANGED <<account, killed>>

Rotate(r) ==
  LET i == refresher[r].row
  IN /\ refresher[r].phase = "rotate" /\ Len(token) < MaxTokens
        /\ token' = Append([token EXCEPT ![i].used = TRUE], NewRow(token[i].family, i, refresher[r]))
     /\ held' = held \cup {"access"}
     /\ refresher' = [refresher EXCEPT ![r] = NoRefresh]
     /\ UNCHANGED <<account, killed>>

(* Vault or the database fails: nothing was committed. *)
RefreshFails(r) ==
  /\ refresher[r].phase # "idle"
  /\ refresher' = [refresher EXCEPT ![r] = NoRefresh]
  /\ UNCHANGED <<account, held, token, killed>>

Logout(i) ==
  /\ Authenticated({"access"}) /\ ~Revoked(token[i])
  /\ token' = [token EXCEPT ![i].revoked = TRUE]
  /\ UNCHANGED <<account, held, refresher, killed>>

RevokeSessions ==
  /\ token' = [i \in DOMAIN token |-> [token[i] EXCEPT !.revoked = TRUE]] /\ token' # token
  /\ UNCHANGED <<account, held, refresher, killed>>

SessionsNext ==
  \/ \E role \in Roles : CreateUser(role) \/ UpdateUserRole(role)
  \/ Login \/ Confirm \/ Verify
  \/ \E scope \in {"access", "mfa_pending"} : TokenExpires(scope)
  \/ Enroll \/ DisableMfa \/ DeactivateUser \/ RevokeSessions
  \/ \E r \in Refreshers :
       \/ \E i \in DOMAIN token : RefreshRead(r, i)
       \/ RevokeFamily(r) \/ Rotate(r) \/ RefreshFails(r)
  \/ \E i \in DOMAIN token : Logout(i)

SessionsSpec == SessionsInit /\ [][SessionsNext]_sessionVars

-----------------------------------------------------------------------------
(* refresh says a token is single-use.  What the unlocked read leaves of it: two
   successors of one row were handed out by requests that overlapped, so a token
   presented after its exchange was committed is always recognised. *)
SuccessorsOverlap ==
  \A i, j \in DOMAIN token :
    (i # j /\ token[i].parent = token[j].parent /\ token[i].parent # 0)
      => token[i].overlapped /\ token[j].overlapped

(* A family in which a token was presented twice stays dead: an unrevoked row of
   it descends from an exchange that was already under way at that moment. *)
KilledFamilyStaysDead ==
  \A i \in DOMAIN token :
    (token[i].family \in killed /\ ~token[i].revoked)
      => token[i].late

(* What is left of single use and of family revocation when refreshes race. *)
RotationHolds == SuccessorsOverlap /\ KilledFamilyStaysDead
=============================================================================
