------------------------------ MODULE Sessions ------------------------------
(***************************************************************************)
(* Sign-in sessions: the refresh tokens of an account, rotated in families *)
(* of one session each, the access tokens minted with them, the deny-list  *)
(* that cuts those short, and the account's own status.                    *)
(*                                                                         *)
(* Nothing here runs in a transaction: every statement of a request is a   *)
(* step of its own, and the process may die between two.                   *)
(***************************************************************************)
EXTENDS Integers, FiniteSets, Requests

CONSTANTS
    Users,
    SessionIds,
    LastToken,      \* bound: refresh tokens an instance issues
    NULL

VARIABLES
    users,          \* the status of an account
    tokens,         \* refresh_tokens, in the order they were created
    access,         \* of a session's access tokens: none, one that a denial
                    \* of now outlives, or one minted after it was denied
    denied,         \* sessions on the deny-list
    ended           \* history: a session's tokens were revoked, and it was denied since

tables == <<users, tokens, access, denied, ended>>
vars == <<tables, req, overlapped>>

-----------------------------------------------------------------------------
UserStatuses == {"ACTIVE", "SUSPENDED", "DELETED", "ERASED"}

RefreshTokens == 1 .. LastToken
Issued == {t \in RefreshTokens : tokens[t] # NULL}
SessionsOf(u) == {tokens[t].session : t \in {i \in Issued : tokens[i].user = u}}
UserOf(s) == CHOOSE u \in Users : s \in SessionsOf(u)
Started == UNION {SessionsOf(u) : u \in Users}

Init ==
    /\ users = [u \in Users |-> "ACTIVE"]
    /\ tokens = [t \in RefreshTokens |-> NULL]
    /\ access = [s \in SessionIds |-> "none"]
    /\ denied = {}
    /\ ended = [s \in SessionIds |-> "no"]
    /\ NoRequests

Start(h, r) == Begin(h, r) /\ UNCHANGED tables

\* A request with an access token: the guard consults the deny-list alone.
Authenticated(s) == access[s] # "none" /\ s \notin denied

-----------------------------------------------------------------------------
(* Statements.                                                             *)

CreateToken(u, s) ==
    LET next == Cardinality(Issued) + 1
    IN  /\ next \in RefreshTokens
        /\ tokens' = [tokens EXCEPT ![next] = [user |-> u, session |-> s, live |-> TRUE]]

\* An access token reaches the client with the answer.
Mint(s) ==
    access' = [access EXCEPT ![s] = IF s \in denied THEN "late" ELSE "early"]

\* revokeFamily and revokeAllForUser touch live tokens only.
Revoke(dead) ==
    tokens' = [t \in RefreshTokens |->
        IF t \in Issued /\ tokens[t].session \in dead THEN [tokens[t] EXCEPT !.live = FALSE]
        ELSE tokens[t]]

-----------------------------------------------------------------------------
(* Requests.                                                               *)

\* Login, sign-in by code, registering: the account is read, then a token is
\* created in a session of its own.
SignIn(h, u) ==
    users[u] = "ACTIVE" /\ Start(h, [kind |-> "sign-in", user |-> u])

CommitSignIn(h) ==
    /\ req[h].kind = "sign-in"
    /\ \E s \in SessionIds \ Started :
        CreateToken(req[h].user, s) /\ Mint(s)
    /\ Finish(h)
    /\ UNCHANGED <<users, denied, ended>>

\* Faulty variant: a token that was rotated or revoked is as good as another.
Unspent(t) == TRUE

Spendable(t) == tokens[t].live

\* Refreshing loads the token: one presented again ends its session.
Refresh(h, t) ==
    /\ t \in Issued
    /\ Start(h, IF Spendable(t) THEN [kind |-> "load", token |-> t]
                ELSE [kind |-> "revoke", sessions |-> {tokens[t].session},
                      deny |-> {tokens[t].session}])

\* Then the account: one that is gone or suspended ends it too.
LoadUser(h) ==
    /\ req[h].kind = "load"
    /\ LET t == req[h].token
       IN  Continue(h, IF users[tokens[t].user] = "ACTIVE"
                       THEN [req[h] EXCEPT !.kind = "replace"]
                       ELSE [kind |-> "revoke", sessions |-> {tokens[t].session}, deny |-> {}])
    /\ UNCHANGED tables

CreateReplacement(h) ==
    /\ req[h].kind = "replace"
    /\ LET row == tokens[req[h].token] IN CreateToken(row.user, row.session)
    /\ Continue(h, [req[h] EXCEPT !.kind = "rotate"])
    /\ UNCHANGED <<users, access, denied, ended>>

Rotate(h) ==
    /\ req[h].kind = "rotate"
    /\ LET t == req[h].token
       IN  tokens' = [tokens EXCEPT ![t].live = FALSE] /\ Mint(tokens[t].session)
    /\ Finish(h)
    /\ UNCHANGED <<users, denied, ended>>

\* What a sign-out of session s may revoke: every session of the user; the one
\* whose refresh token came along, if that is one of his, and none if it is
\* not; or, without a token, s itself.
LogoutRevokes(s) ==
    LET own == SessionsOf(UserOf(s)) IN {own, {}} \cup {{family} : family \in own}

\* Whatever is revoked, it is s that is denied.
Logout(h, s, revoked) ==
    /\ Authenticated(s)
    /\ Start(h, [kind |-> "revoke", sessions |-> revoked, deny |-> {s}])

\* A new password, or a new role given by an administrator.
SignOutEverywhere(h, u) ==
    /\ users[u] \in {"ACTIVE", "SUSPENDED"}
    /\ Start(h, [kind |-> "revoke", sessions |-> SessionsOf(u), deny |-> {}])

\* Staff suspend, reinstate, delete and restore an account.
ChangeStatus(h, u, to) ==
    /\ \/ users[u] \in {"ACTIVE", "SUSPENDED"} /\ to \in {"ACTIVE", "SUSPENDED", "DELETED"}
       \/ users[u] = "DELETED" /\ to = "ACTIVE"
    /\ Start(h, [kind |-> "account", user |-> u, to |-> to, deny |-> {}])

DeleteMyAccount(h, s) ==
    /\ Authenticated(s) /\ users[UserOf(s)] \in {"ACTIVE", "SUSPENDED"}
    /\ Start(h, [kind |-> "account", user |-> UserOf(s), to |-> "ERASED", deny |-> {s}])

CommitAccount(h) ==
    /\ req[h].kind = "account"
    /\ LET r == req[h]
       IN  /\ users' = [users EXCEPT ![r.user] = r.to]
           /\ IF r.to = "ACTIVE" THEN Finish(h)
              ELSE Continue(h, [kind |-> "sweep", user |-> r.user, deny |-> r.deny])
    /\ UNCHANGED <<tokens, access, denied, ended>>

\* The tokens of a user are those he has when the statement runs.
RevokeAll(h) ==
    /\ req[h].kind = "sweep"
    /\ Continue(h, [kind |-> "revoke", sessions |-> SessionsOf(req[h].user), deny |-> req[h].deny])
    /\ UNCHANGED tables

\* The request ends, unless there is a session to deny.
RevokeTokens(h) ==
    /\ req[h].kind = "revoke"
    /\ LET r == req[h]
       IN  /\ Revoke(r.sessions)
           /\ ended' = [s \in SessionIds |->
                IF s \in r.sessions /\ ended[s] = "no" THEN "revoked" ELSE ended[s]]
           /\ IF r.deny = {} THEN Finish(h)
              ELSE Continue(h, [kind |-> "deny", sessions |-> r.deny])
    /\ UNCHANGED <<users, access, denied>>

RevokeSession(h) ==
    /\ req[h].kind = "deny"
    /\ denied' = denied \cup req[h].sessions
    /\ access' = [s \in SessionIds |->
        IF s \in req[h].sessions /\ access[s] = "late" THEN "early" ELSE access[s]]
    /\ ended' = [s \in SessionIds |->
        IF s \in req[h].sessions /\ ended[s] = "revoked" THEN "denied" ELSE ended[s]]
    /\ Finish(h)
    /\ UNCHANGED <<users, tokens>>

-----------------------------------------------------------------------------
(* Time.                                                                   *)

AccessExpires(s) ==
    /\ access[s] # "none"
    /\ access' = [access EXCEPT ![s] = "none"]
    /\ UNCHANGED <<users, tokens, denied, ended, req, overlapped>>

\* A denial lasts as long as an access token, and is younger than those it
\* is about.
DenialLapses(s) ==
    /\ s \in denied /\ access[s] # "early"
    /\ denied' = denied \ {s}
    /\ UNCHANGED <<users, tokens, access, ended, req, overlapped>>

-----------------------------------------------------------------------------
Proceed(h) ==
    \/ CommitSignIn(h) \/ LoadUser(h) \/ CreateReplacement(h) \/ Rotate(h)
    \/ CommitAccount(h) \/ RevokeAll(h) \/ RevokeTokens(h) \/ RevokeSession(h)

Request(h) ==
    \/ \E u \in Users :
        \/ SignIn(h, u) \/ SignOutEverywhere(h, u)
        \/ \E to \in UserStatuses : ChangeStatus(h, u, to)
    \/ \E t \in RefreshTokens : Refresh(h, t)
    \/ \E s \in Started :
        DeleteMyAccount(h, s) \/ \E revoked \in LogoutRevokes(s) : Logout(h, s, revoked)

Next ==
    \/ \E h \in Handlers : Proceed(h) \/ Request(h)
    \/ \E s \in SessionIds : AccessExpires(s) \/ DenialLapses(s)
    \/ Restart /\ UNCHANGED tables

Spec == Init /\ [][Next]_vars
-----------------------------------------------------------------------------
(* Properties.                                                             *)

\* One request at a time: once a session's tokens were revoked, by a sign-out,
\* a new password, staff or a replayed token, none of them mints another, and
\* if it was denied as well, what was minted before opens no door.  A sign-out
\* that revokes another session than the one it denies is LogoutIsReal.
SignedOutStaysOut ==
    ~ overlapped =>
        \A s \in SessionIds :
            /\ ended[s] # "no" =>
                \A t \in Issued : tokens[t].session = s => ~ tokens[t].live
            /\ ended[s] = "denied" => ~ Authenticated(s)

-----------------------------------------------------------------------------
(* Claims that do not hold.                                                *)

\* "Two things have to happen for logout to be real: the refresh token must be
\* revoked in the database so no new access tokens can be minted", and the
\* session denied: one at a time, no session is denied with a live token left.
LogoutIsReal ==
    ~ overlapped =>
        \A s \in denied : \A t \in Issued : tokens[t].session = s => ~ tokens[t].live

\* "Suspension has to take effect now, not whenever the current token
\* expires": no session of the account is denied.
SuspendedIsOut ==
    \A s \in Started : ended[s] = "revoked" /\ users[UserOf(s)] = "SUSPENDED" => ~ Authenticated(s)

\* SignedOutStaysOut, however requests overlap: a refresh under way issues a
\* live token into the session that was ended.
SignedOutForGood ==
    \A s \in SessionIds : ended[s] = "denied" =>
        \A t \in Issued : tokens[t].session = s => ~ tokens[t].live
=============================================================================
