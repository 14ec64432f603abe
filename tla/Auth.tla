-------------------------------- MODULE Auth ---------------------------------
(***************************************************************************)
(* AuthService (service/auth.go) and the token check of the middleware:    *)
(* registration, login and the exchange of refresh tokens, one request per *)
(* worker. Every statement runs on its own, outside any transaction, so    *)
(* each is a step, and what an earlier one has written stays when a later  *)
(* one fails. A token stands for its SHA-256 hash, a password for its      *)
(* bcrypt hash, an email (UNIQUE) for the id of its user.                  *)
(***************************************************************************)
EXTENDS Integers, FiniteSets

CONSTANTS
    Emails,
    Passwords,
    Tokens,     \* the refresh tokens that uuid.New draws: each is drawn once
    Workers,    \* requests the server handles at the same time
    None,       \* a row or a field of a request that is absent
    AccessTTL,  \* JWT_ACCESS_TTL, in ticks of the clock
    RefreshTTL, \* JWT_REFRESH_TTL
    MaxTime,    \* bound: the last tick of the clock
    MaxLost,    \* bound: DELETEs that fail, by token
    Reserved,   \* bound: tokens that only requests to refresh draw
    AskedRoles  \* roles that bodies of POST /auth/register name; None for no role

Roles == {"USER", "SELLER", "ADMIN"}

VARIABLES
    now,        \* the clock of the server and of the database
    users,      \* table users, by email
    refresh,    \* table refresh_tokens, by token
    pc,         \* the statement a worker runs next
    call,       \* the request a worker handles
    who,        \* the user row it has read
    pairs,      \* history: the pairs of tokens that clients have received
    cut         \* history: the tokens of exchanges that broke off after their DELETE

vars == <<now, users, refresh, pc, call, who, pairs, cut>>

UserRow == [password : Passwords, role : Roles]

\* spent and lost are history. A row that a DELETE has removed is no row of the
\* table any more and no query sees it: what it held is remembered as spent.
\* lost counts the DELETEs of it that failed.
TokenRow == [user : Emails, expires : Nat, spent : BOOLEAN, lost : Nat]

Call == [op : {"register", "login", "refresh"}, email : Emails \cup {None},
         password : Passwords \cup {None}, role : Roles \cup {None}, token : Tokens \cup {None}]

\* Claims and user id that issueTokens is called with, and its time.Now().
Subject == [user : Emails, role : Roles, at : Nat]

\* The claims of the access token, the refresh token, and the call they answer.
Pair == [user : Emails, role : Roles, expires : Nat, token : Tokens, call : Call]

ASSUME AuthAssumption ==
    /\ AccessTTL \in Nat /\ RefreshTTL \in Nat /\ MaxTime \in Nat /\ MaxLost \in Nat /\ Reserved \in Nat
    /\ AskedRoles \subseteq Roles \cup {None}
    /\ IsFiniteSet(Workers)
    /\ None \notin Emails \cup Passwords \cup Tokens \cup Roles \cup UserRow \cup TokenRow

TypeOK ==
    /\ now \in Nat
    /\ users \in [Emails -> UserRow \cup {None}]
    /\ refresh \in [Tokens -> TokenRow \cup {None}]
    /\ pc \in [Workers -> {"idle", "create", "login", "lookup", "delete", "issue"}]
    /\ call \in [Workers -> Call \cup {None}]
    /\ who \in [Workers -> Subject \cup {None}]
    /\ pairs \subseteq Pair
    /\ cut \subseteq Tokens

Init ==
    /\ now = 0
    /\ users = [e \in Emails |-> None]
    /\ refresh = [t \in Tokens |-> None]
    /\ pc = [w \in Workers |-> "idle"]
    /\ call = [w \in Workers |-> None]
    /\ who = [w \in Workers |-> None]
    /\ pairs = {}
    /\ cut = {}

tables == <<users, refresh>>

-----------------------------------------------------------------------------
(* Control. *)

GoTo(w, label) == pc' = [pc EXCEPT ![w] = label] /\ UNCHANGED <<call, now, cut>>

\* issueTokens begins: the time it reads is the one both lifetimes start at.
Issue(w, e, role) ==
    /\ who' = [who EXCEPT ![w] = [user |-> e, role |-> role, at |-> now]]
    /\ GoTo(w, "issue")

Return(w) ==
    /\ pc' = [pc EXCEPT ![w] = "idle"]
    /\ call' = [call EXCEPT ![w] = None]
    /\ who' = [who EXCEPT ![w] = None]
    /\ UNCHANGED now

\* Bound: a request starts while a token is left for it to draw, and one that
\* opens a session while Reserved more are left.
TokensLeft ==
    Cardinality({t \in Tokens : refresh[t] = None}) - Cardinality({w \in Workers : pc[w] # "idle"})

Start(w, c, label) ==
    /\ pc[w] = "idle"
    /\ TokensLeft > IF c.op = "refresh" THEN 0 ELSE Reserved
    /\ pc' = [pc EXCEPT ![w] = label]
    /\ call' = [call EXCEPT ![w] = c]
    /\ UNCHANGED <<now, tables, who, pairs, cut>>

-----------------------------------------------------------------------------
(* POST /auth/register, /auth/login and /auth/refresh. *)

StartRegister(w) ==
    \E e \in Emails, p \in Passwords, r \in AskedRoles :
        Start(w, [op |-> "register", email |-> e, password |-> p, role |-> r, token |-> None], "create")

StartLogin(w) ==
    \E e \in Emails, p \in Passwords :
        Start(w, [op |-> "login", email |-> e, password |-> p, role |-> None, token |-> None], "login")

\* Clients present tokens they were given, spent and expired ones included.
StartRefresh(w) ==
    \E q \in pairs :
        Start(w, [op |-> "refresh", email |-> None, password |-> None, role |-> None,
                  token |-> q.token], "lookup")

\* Mutant: the role is taken from the body as it is.
RoleAsIs(w) == call[w].role

\* A body without a role asks for an ordinary user.
RoleAsked(w) == IF call[w].role = None THEN "USER" ELSE call[w].role

\* Mutant: INSERT ... ON CONFLICT (email) DO UPDATE.
UpsertUser(w) ==
    /\ pc[w] = "create"
    /\ users' = [users EXCEPT ![call[w].email] =
                    [password |-> call[w].password, role |-> RoleAsked(w)]]
    /\ Issue(w, call[w].email, RoleAsked(w))
    /\ UNCHANGED <<refresh, pairs>>

CreateUser(w) ==
    /\ pc[w] = "create"
    /\ users[call[w].email] = None
    /\ users' = [users EXCEPT ![call[w].email] =
                    [password |-> call[w].password, role |-> RoleAsked(w)]]
    /\ Issue(w, call[w].email, RoleAsked(w))
    /\ UNCHANGED <<refresh, pairs>>

\* Mutant: the password is not compared.
KnownByEmail(w) == users[call[w].email] # None

\* GetUserByEmail and the comparison of the password with its hash.
Known(w) ==
    LET row == users[call[w].email] IN row # None /\ row.password = call[w].password

GetUserByEmail(w) ==
    /\ pc[w] = "login"
    /\ Known(w)
    /\ Issue(w, call[w].email, users[call[w].email].role)
    /\ UNCHANGED <<tables, pairs>>

\* The table has a row of token t.
Stored(t) == refresh[t] # None /\ ~refresh[t].spent

\* WHERE token_hash = $1 AND expires_at > NOW()
Redeemable(t) == Stored(t) /\ now < refresh[t].expires

\* The row of the token joined with its user.
GetRefreshToken(w) ==
    LET t == call[w].token
    IN /\ pc[w] = "lookup"
       /\ Redeemable(t)
       /\ who' = [who EXCEPT ![w] = [user |-> refresh[t].user,
                                     role |-> users[refresh[t].user].role, at |-> now]]
       /\ GoTo(w, "delete")
       /\ UNCHANGED <<tables, pairs>>

\* Mutant: the row stays.
KeepRefreshToken(w) ==
    /\ pc[w] = "delete"
    /\ Issue(w, who[w].user, who[w].role)
    /\ UNCHANGED <<tables, pairs>>

\* Mutant: DeleteUserRefreshTokens instead.
DeleteUserTokens(w) ==
    /\ pc[w] = "delete"
    /\ refresh' = [t \in Tokens |->
            IF refresh[t] # None /\ refresh[t].user = who[w].user
            THEN [refresh[t] EXCEPT !.spent = TRUE] ELSE refresh[t]]
    /\ Issue(w, who[w].user, who[w].role)
    /\ UNCHANGED <<users, pairs>>

\* The DELETE finds the row, or one that another request has removed.
DeleteRefreshToken(w) ==
    /\ pc[w] = "delete"
    /\ refresh' = [refresh EXCEPT ![call[w].token].spent = TRUE]
    /\ Issue(w, who[w].user, who[w].role)
    /\ UNCHANGED <<users, pairs>>

\* Its error is ignored.
DeleteFails(w) ==
    /\ pc[w] = "delete"
    /\ refresh[call[w].token].lost < MaxLost
    /\ refresh' = [refresh EXCEPT ![call[w].token].lost = @ + 1]
    /\ Issue(w, who[w].user, who[w].role)
    /\ UNCHANGED <<users, pairs>>

-----------------------------------------------------------------------------
(* issueTokens *)

StoreToken(w, t) ==
    /\ refresh[t] = None
    /\ refresh' = [refresh EXCEPT ![t] =
            [user |-> who[w].user, expires |-> who[w].at + RefreshTTL, spent |-> FALSE, lost |-> 0]]

PairFor(w, t) ==
    [user |-> who[w].user, role |-> who[w].role, expires |-> who[w].at + AccessTTL,
     token |-> t, call |-> call[w]]

CreateRefreshToken(w) ==
    /\ pc[w] = "issue"
    /\ \E t \in Tokens : StoreToken(w, t) /\ pairs' = pairs \cup {PairFor(w, t)}
    /\ Return(w)
    /\ UNCHANGED <<users, cut>>

\* An exchange breaks off: the old token is gone, the client has no new one.
BreakOff(w) == cut' = cut \cup ({call[w].token} \ {None})

\* The row is stored, but the client does not receive the answer.
AnswerLost(w) ==
    /\ pc[w] = "issue"
    /\ \E t \in Tokens : StoreToken(w, t)
    /\ BreakOff(w)
    /\ Return(w)
    /\ UNCHANGED <<users, pairs>>

-----------------------------------------------------------------------------
\* USER_ALREADY_EXISTS, INVALID_CREDENTIALS, REFRESH_TOKEN_INVALID
Refuse(w) ==
    /\ \/ pc[w] = "create" /\ users[call[w].email] # None
       \/ pc[w] = "login" /\ ~Known(w)
       \/ pc[w] = "lookup" /\ ~Redeemable(call[w].token)
    /\ Return(w)
    /\ UNCHANGED <<tables, pairs, cut>>

\* A statement fails or the client goes away: what is written stays written.
Fail(w) ==
    /\ pc[w] # "idle"
    /\ IF pc[w] = "issue" THEN BreakOff(w) ELSE UNCHANGED cut
    /\ Return(w)
    /\ UNCHANGED <<tables, pairs>>

Tick ==
    /\ now < MaxTime
    /\ now' = now + 1
    /\ UNCHANGED <<tables, pc, call, who, pairs, cut>>

Serve(w) ==
    \/ CreateUser(w) \/ GetUserByEmail(w) \/ GetRefreshToken(w)
    \/ DeleteRefreshToken(w) \/ DeleteFails(w)
    \/ CreateRefreshToken(w) \/ AnswerLost(w)
    \/ Refuse(w) \/ Fail(w)

Next ==
    \/ \E w \in Workers : StartRegister(w) \/ StartLogin(w) \/ StartRefresh(w) \/ Serve(w)
    \/ Tick

Spec == Init /\ [][Next]_vars

-----------------------------------------------------------------------------
\* The middleware admits a request with the claims of pair q (exp, by the clock).
Admits(q) == now < q.expires

\* Who is admitted is a user who exists, with the role the table gives it now:
\* the role that the other services are told is never out of date.
ClaimsCurrent ==
    \A q \in pairs : Admits(q) => users[q.user] # None /\ users[q.user].role = q.role

\* Every session goes back to the password of its user: a pair was given for
\* the password in the table, or for a refresh token that the same user held.
Rooted ==
    \A q \in pairs :
        IF q.call.op = "refresh"
        THEN \E parent \in pairs : parent.token = q.call.token /\ parent.user = q.user
        ELSE /\ q.user = q.call.email
             /\ users[q.user] # None
             /\ users[q.user].password = q.call.password

\* One token buys a pair for each request in flight that read it before it was
\* deleted, and one more for each DELETE that failed; never an open number.
ReuseBound ==
    \A t \in Tokens :
        LET bought == {q \in pairs : q.call.token = t}
        IN bought # {} => Cardinality(bought) <= Cardinality(Workers) + refresh[t].lost

\* A session ends by its lifetime or by an exchange that broke off, and by
\* nothing else: the token of every pair is stored for the same user, with both
\* lifetimes from one moment, or it was exchanged, or it is being exchanged, or
\* its exchange broke off after the DELETE (RefreshTokens deletes the old row
\* before issueTokens inserts the new one, outside any transaction).
CanGoOn ==
    \A q \in pairs :
        LET t == q.token
        IN \/ /\ Stored(t)
              /\ refresh[t].user = q.user
              /\ refresh[t].expires - RefreshTTL = q.expires - AccessTTL
           \/ \E p \in pairs : p.call.token = t
           \/ \E w \in Workers : pc[w] = "issue" /\ call[w].token = t
           \/ t \in cut
=============================================================================
