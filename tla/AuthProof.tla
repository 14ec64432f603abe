------------------------------ MODULE AuthProof ------------------------------
(***************************************************************************)
(* Who a session belongs to, and how many sessions one token can buy, for  *)
(* any number of users, tokens and requests.                               *)
(***************************************************************************)
EXTENDS Auth, SetLemmas, TLAPS

\* The token of a request to refresh is one that a client was given.
Presented(c) == c.token \in Tokens /\ \E q \in pairs : q.token = c.token

\* What a request knows at each of its statements.
WorkerInv(w) ==
    LET c == call[w]
    IN /\ pc[w] # "idle" => c \in Call
       /\ pc[w] \in {"create", "login"} => c.op # "refresh" /\ c.email \in Emails /\ c.password \in Passwords
       /\ pc[w] \in {"lookup", "delete"} => c.op = "refresh"
       /\ pc[w] # "idle" /\ c.op = "refresh" => Presented(c)
       /\ pc[w] \in {"delete", "issue"} =>
            /\ who[w] \in Subject
            /\ users[who[w].user] # None
            /\ users[who[w].user].role = who[w].role
            /\ c.op = "refresh" => who[w].user = refresh[c.token].user
            /\ c.op # "refresh" => who[w].user = c.email /\ users[c.email].password = c.password

\* What holds of a pair for ever.
PairRight(q) ==
    /\ users[q.user] # None
    /\ users[q.user].role = q.role
    /\ IF q.call.op = "refresh"
       THEN \E parent \in pairs : parent.token = q.call.token /\ parent.user = q.user
       ELSE q.user = q.call.email /\ users[q.user].password = q.call.password
    /\ refresh[q.token] # None
    /\ refresh[q.token].user = q.user
    /\ refresh[q.token].expires - RefreshTTL = q.expires - AccessTTL

\* The rows of refresh_tokens name users that exist.
References == \A t \in Tokens : refresh[t] # None => users[refresh[t].user] # None

\* The inductive invariant.
AuthInv ==
    /\ TypeOK
    /\ \A w \in Workers : WorkerInv(w)
    /\ \A q \in pairs : PairRight(q)
    /\ References

\* Users never change, tokens keep their owner and their time, pairs stay.
Grow ==
    /\ \A e \in Emails : users[e] # None => users'[e] = users[e]
    /\ \A t \in Tokens : refresh[t] # None =>
            /\ refresh'[t] # None
            /\ refresh'[t].user = refresh[t].user
            /\ refresh'[t].expires = refresh[t].expires
    /\ pairs \subseteq pairs'

\* Step of w: the other requests are where they were.
OthersStay(w) ==
    \A v \in Workers \ {w} : pc'[v] = pc[v] /\ call'[v] = call[v] /\ who'[v] = who[v]

-----------------------------------------------------------------------------
(* What growing tables leave alone. *)

\* A request that does not move keeps what it knows.
LEMMA FrameWorker ==
    ASSUME AuthInv, Grow, NEW v \in Workers, pc'[v] = pc[v], call'[v] = call[v], who'[v] = who[v]
    PROVE  WorkerInv(v)'
<1>1. WorkerInv(v) /\ TypeOK
  BY DEF AuthInv
<1>2. CASE pc[v] \in {"delete", "issue"}
  <2>1. who[v].user \in Emails /\ users'[who[v].user] = users[who[v].user]
    BY <1>1, <1>2 DEF WorkerInv, Subject, Grow
  <2>2. call[v].op = "refresh" => refresh'[call[v].token].user = refresh[call[v].token].user
    <3>1. SUFFICES ASSUME call[v].op = "refresh"
                   PROVE  refresh'[call[v].token].user = refresh[call[v].token].user
      OBVIOUS
    <3>2. PICK q \in pairs : q.token = call[v].token
      BY <1>1, <1>2, <3>1 DEF WorkerInv, Presented
    <3>3. refresh[call[v].token] # None /\ call[v].token \in Tokens
      BY <1>1, <1>2, <3>1, <3>2 DEF AuthInv, PairRight, WorkerInv, Presented
    <3> QED
      BY <3>3 DEF Grow
  <2> QED
    BY <1>1, <1>2, <2>1, <2>2 DEF WorkerInv, Presented, Grow
<1>3. CASE pc[v] \notin {"delete", "issue"}
  BY <1>1, <1>3 DEF WorkerInv, Presented, Grow
<1> QED
  BY <1>2, <1>3

\* A pair that was right stays right.
LEMMA FramePair ==
    ASSUME AuthInv, Grow, NEW q \in pairs
    PROVE  PairRight(q)'
<1>1. PairRight(q) /\ q.user \in Emails /\ q.token \in Tokens
  BY DEF AuthInv, TypeOK, Pair
<1>2. users'[q.user] = users[q.user]
  BY <1>1 DEF PairRight, Grow
<1> QED
  BY <1>1, <1>2 DEF PairRight, Grow

\* A step of one request keeps the invariant if it is right for that request,
\* and for the token and the pair that it adds.
LEMMA StepInv ==
    ASSUME AuthInv, TypeOK', Grow, NEW w \in Workers, OthersStay(w), WorkerInv(w)',
           \A t \in Tokens : refresh[t] = None /\ refresh'[t] # None => users'[refresh'[t].user] # None,
           \A q \in pairs' \ pairs : PairRight(q)'
    PROVE  AuthInv'
<1>1. \A v \in Workers : WorkerInv(v)'
  BY FrameWorker DEF OthersStay
<1>2. \A q \in pairs' : PairRight(q)'
  BY FramePair
<1>3. References'
  <2> SUFFICES ASSUME NEW t \in Tokens, refresh'[t] # None PROVE users'[refresh'[t].user] # None
    BY DEF References
  <2>1. CASE refresh[t] # None
    <3>1. refresh'[t].user = refresh[t].user /\ users[refresh[t].user] # None /\ refresh[t].user \in Emails
      BY <2>1 DEF Grow, AuthInv, References, TypeOK, TokenRow
    <3> QED
      BY <3>1 DEF Grow
  <2> QED
    BY <2>1
<1> QED
  BY <1>1, <1>2, <1>3 DEF AuthInv

-----------------------------------------------------------------------------
(* Steps that leave the tables and the pairs alone. *)

LEMMA SameTables ==
    ASSUME AuthInv, TypeOK', UNCHANGED <<tables, pairs>>, NEW w \in Workers, OthersStay(w), WorkerInv(w)'
    PROVE  AuthInv'
<1>1. Grow
  BY DEF Grow, tables
<1> QED
  BY <1>1, StepInv DEF tables

\* A request that starts holds nothing yet.
LEMMA StartInv ==
    ASSUME AuthInv, NEW w \in Workers, NEW c \in Call, NEW label \in {"create", "login", "lookup"},
           label \in {"create", "login"} => c.op # "refresh" /\ c.email \in Emails /\ c.password \in Passwords,
           label = "lookup" => c.op = "refresh" /\ Presented(c),
           Start(w, c, label)
    PROVE  AuthInv'
<1>1. TypeOK'
  BY DEF AuthInv, TypeOK, Start, tables
<1>2. OthersStay(w)
  BY DEF AuthInv, TypeOK, Start, OthersStay
<1>3. pc'[w] = label /\ call'[w] = c /\ UNCHANGED <<tables, pairs>>
  BY DEF AuthInv, TypeOK, Start
<1>4. WorkerInv(w)'
  BY <1>3 DEF WorkerInv, Presented
<1> QED
  BY <1>1, <1>2, <1>3, <1>4, SameTables

\* Only tokens are cut off from their exchange.
LEMMA CutType ==
    ASSUME AuthInv, NEW w \in Workers, pc[w] = "issue", BreakOff(w)
    PROVE  cut' \subseteq Tokens
BY DEF AuthInv, TypeOK, WorkerInv, Call, BreakOff

\* A request that ends leaves its tables to the others.
LEMMA ReturnInv ==
    ASSUME AuthInv, NEW w \in Workers, Return(w), UNCHANGED <<tables, pairs>>, cut' \subseteq Tokens
    PROVE  AuthInv'
<1>1. TypeOK'
  BY DEF AuthInv, TypeOK, Return, tables
<1>2. OthersStay(w) /\ pc'[w] = "idle"
  BY DEF AuthInv, TypeOK, Return, OthersStay
<1>3. WorkerInv(w)'
  BY <1>2 DEF WorkerInv
<1> QED
  BY <1>1, <1>2, <1>3, SameTables

\* The three handlers start with a request of the kind they decode.
LEMMA StartsInv ==
    ASSUME AuthInv, NEW w \in Workers, StartRegister(w) \/ StartLogin(w) \/ StartRefresh(w)
    PROVE  AuthInv'
<1>1. CASE StartRegister(w)
  <2>1. PICK e \in Emails, p \in Passwords, r \in AskedRoles :
           Start(w, [op |-> "register", email |-> e, password |-> p, role |-> r, token |-> None], "create")
    BY <1>1 DEF StartRegister
  <2>2. [op |-> "register", email |-> e, password |-> p, role |-> r, token |-> None] \in Call
    BY AuthAssumption DEF Call
  <2> QED
    BY <2>1, <2>2, StartInv
<1>2. CASE StartLogin(w)
  <2>1. PICK e \in Emails, p \in Passwords :
           Start(w, [op |-> "login", email |-> e, password |-> p, role |-> None, token |-> None], "login")
    BY <1>2 DEF StartLogin
  <2>2. [op |-> "login", email |-> e, password |-> p, role |-> None, token |-> None] \in Call
    BY DEF Call
  <2> QED
    BY <2>1, <2>2, StartInv
<1>3. CASE StartRefresh(w)
  <2>1. PICK q \in pairs :
           Start(w, [op |-> "refresh", email |-> None, password |-> None, role |-> None,
                     token |-> q.token], "lookup")
    BY <1>3 DEF StartRefresh
  <2> DEFINE c == [op |-> "refresh", email |-> None, password |-> None, role |-> None, token |-> q.token]
  <2>2. q.token \in Tokens
    BY DEF AuthInv, TypeOK, Pair
  <2>3. c \in Call /\ Presented(c) /\ c.op = "refresh"
    BY <2>2 DEF Call, Presented
  <2> QED
    BY <2>1, <2>3, StartInv
<1> QED
  BY <1>1, <1>2, <1>3

-----------------------------------------------------------------------------
(* The statements. *)

\* issueTokens is called for a user with the role of its row.
LEMMA IssueInv ==
    ASSUME AuthInv, NEW w \in Workers, NEW e \in Emails, NEW role \in Roles, Issue(w, e, role)
    PROVE  /\ pc' \in [Workers -> {"idle", "create", "login", "lookup", "delete", "issue"}]
           /\ call' = call /\ now' = now /\ now \in Nat /\ cut' = cut
           /\ who' \in [Workers -> Subject \cup {None}]
           /\ OthersStay(w)
           /\ pc'[w] = "issue" /\ who'[w] \in Subject /\ who'[w].user = e /\ who'[w].role = role
<1>1. [user |-> e, role |-> role, at |-> now] \in Subject /\ now \in Nat
  BY DEF Subject, AuthInv, TypeOK
<1> QED
  BY <1>1 DEF Issue, GoTo, OthersStay, AuthInv, TypeOK

\* Register inserts a user whose id is new.
LEMMA CreateUserInv ==
    ASSUME AuthInv, NEW w \in Workers, CreateUser(w)
    PROVE  AuthInv'
<1> DEFINE e == call[w].email
           row == [password |-> call[w].password, role |-> RoleAsked(w)]
<1>1. call[w] \in Call /\ e \in Emails /\ call[w].password \in Passwords /\ call[w].op # "refresh"
      /\ call[w].role \in Roles \cup {None}
  BY DEF AuthInv, WorkerInv, CreateUser, Call
<1>2. RoleAsked(w) \in Roles
  BY <1>1 DEF RoleAsked, Roles
<1>3. row \in UserRow /\ row # None
  BY <1>1, <1>2, AuthAssumption DEF UserRow
<1>4. users[e] = None /\ users' = [users EXCEPT ![e] = row] /\ refresh' = refresh /\ pairs' = pairs
      /\ Issue(w, e, RoleAsked(w))
  BY DEF CreateUser
<1> HIDE DEF row
<1>5. users' \in [Emails -> UserRow \cup {None}] /\ users'[e] = row
  BY <1>1, <1>3, <1>4 DEF AuthInv, TypeOK
<1>6. TypeOK'
  BY <1>1, <1>2, <1>4, <1>5, IssueInv DEF AuthInv, TypeOK
<1>7. Grow
  BY <1>1, <1>4 DEF Grow, AuthInv, TypeOK
<1>8. OthersStay(w) /\ pc'[w] = "issue" /\ call' = call
      /\ who'[w] \in Subject /\ who'[w].user = e /\ who'[w].role = RoleAsked(w)
  BY <1>1, <1>2, <1>4, IssueInv
<1>9. WorkerInv(w)'
  BY <1>1, <1>3, <1>5, <1>8 DEF WorkerInv, row
<1> QED
  BY <1>4, <1>6, <1>7, <1>8, <1>9, StepInv

\* Login compares the password with the hash of the user it found.
LEMMA GetUserByEmailInv ==
    ASSUME AuthInv, NEW w \in Workers, GetUserByEmail(w)
    PROVE  AuthInv'
<1> DEFINE e == call[w].email
<1>1. call[w] \in Call /\ e \in Emails /\ call[w].op # "refresh"
  BY DEF AuthInv, WorkerInv, GetUserByEmail
<1>2. users[e] # None /\ users[e].password = call[w].password /\ users[e].role \in Roles
  BY <1>1 DEF GetUserByEmail, Known, AuthInv, TypeOK, UserRow
<1>3. Issue(w, e, users[e].role) /\ UNCHANGED <<tables, pairs>>
  BY DEF GetUserByEmail
<1>4. TypeOK'
  BY <1>1, <1>2, <1>3, IssueInv DEF AuthInv, TypeOK, tables
<1>5. OthersStay(w) /\ pc'[w] = "issue" /\ call' = call
      /\ who'[w] \in Subject /\ who'[w].user = e /\ who'[w].role = users[e].role
  BY <1>1, <1>2, <1>3, IssueInv
<1>6. WorkerInv(w)'
  BY <1>1, <1>2, <1>3, <1>5 DEF WorkerInv, tables
<1> QED
  BY <1>3, <1>4, <1>5, <1>6, SameTables

\* Refresh takes the user of the token it found.
LEMMA GetRefreshTokenInv ==
    ASSUME AuthInv, NEW w \in Workers, GetRefreshToken(w)
    PROVE  AuthInv'
<1> DEFINE t == call[w].token
           s == [user |-> refresh[t].user, role |-> users[refresh[t].user].role, at |-> now]
<1>1. call[w] \in Call /\ call[w].op = "refresh" /\ Presented(call[w]) /\ t \in Tokens
  BY DEF AuthInv, WorkerInv, GetRefreshToken, Presented
<1>2. refresh[t] # None /\ refresh[t].user \in Emails
  BY <1>1 DEF GetRefreshToken, Redeemable, Stored, AuthInv, TypeOK, TokenRow
<1>3. users[refresh[t].user] # None /\ users[refresh[t].user].role \in Roles
  BY <1>1, <1>2 DEF AuthInv, References, TypeOK, UserRow
<1>4. s \in Subject
  BY <1>2, <1>3 DEF Subject, AuthInv, TypeOK
<1>5. who' = [who EXCEPT ![w] = s] /\ GoTo(w, "delete") /\ UNCHANGED <<tables, pairs>>
  BY DEF GetRefreshToken
<1>6. s.user = refresh[t].user /\ s.role = users[refresh[t].user].role
  OBVIOUS
<1> HIDE DEF s
<1>7. TypeOK'
  BY <1>4, <1>5 DEF AuthInv, TypeOK, GoTo, tables
<1>8. OthersStay(w) /\ pc'[w] = "delete" /\ call' = call /\ who'[w] = s
  BY <1>5 DEF OthersStay, GoTo, AuthInv, TypeOK
<1>9. WorkerInv(w)'
  BY <1>1, <1>3, <1>4, <1>5, <1>6, <1>8 DEF WorkerInv, Presented, tables
<1> QED
  BY <1>5, <1>7, <1>8, <1>9, SameTables

\* Whether the DELETE removes the row or fails.
LEMMA DeleteInv ==
    ASSUME AuthInv, NEW w \in Workers, DeleteRefreshToken(w) \/ DeleteFails(w)
    PROVE  AuthInv'
<1> DEFINE t == call[w].token
<1>1. /\ call[w] \in Call /\ call[w].op = "refresh" /\ Presented(call[w]) /\ t \in Tokens
      /\ who[w] \in Subject /\ users[who[w].user] # None /\ users[who[w].user].role = who[w].role
      /\ who[w].user = refresh[t].user
  BY DEF AuthInv, WorkerInv, DeleteRefreshToken, DeleteFails, Presented
<1>2. refresh[t] # None /\ refresh[t] \in TokenRow
  <2>1. PICK q \in pairs : q.token = t
    BY <1>1 DEF Presented
  <2> QED
    BY <1>1, <2>1 DEF AuthInv, PairRight, TypeOK
<1>3. PICK row \in TokenRow :
           /\ refresh' = [refresh EXCEPT ![t] = row]
           /\ row.user = refresh[t].user /\ row.expires = refresh[t].expires
  <2>1. CASE DeleteRefreshToken(w)
    <3>1. [refresh[t] EXCEPT !.spent = TRUE] \in TokenRow
      BY <1>2 DEF TokenRow
    <3>2. refresh' = [refresh EXCEPT ![t] = [refresh[t] EXCEPT !.spent = TRUE]]
      BY <2>1 DEF DeleteRefreshToken
    <3>3. /\ [refresh[t] EXCEPT !.spent = TRUE].user = refresh[t].user
          /\ [refresh[t] EXCEPT !.spent = TRUE].expires = refresh[t].expires
      BY <1>2 DEF TokenRow
    <3> QED
      BY <3>1, <3>2, <3>3
  <2>2. CASE DeleteFails(w)
    <3>1. [refresh[t] EXCEPT !.lost = @ + 1] \in TokenRow
      BY <1>2 DEF TokenRow
    <3>2. refresh' = [refresh EXCEPT ![t] = [refresh[t] EXCEPT !.lost = @ + 1]]
      BY <2>2 DEF DeleteFails
    <3>3. /\ [refresh[t] EXCEPT !.lost = @ + 1].user = refresh[t].user
          /\ [refresh[t] EXCEPT !.lost = @ + 1].expires = refresh[t].expires
      BY <1>2 DEF TokenRow
    <3> QED
      BY <3>1, <3>2, <3>3
  <2> QED
    BY <2>1, <2>2
<1>4. row # None
  BY <1>3, AuthAssumption
<1>5. users' = users /\ pairs' = pairs /\ Issue(w, who[w].user, who[w].role)
  BY DEF DeleteRefreshToken, DeleteFails
<1>6. who[w].user \in Emails /\ who[w].role \in Roles
  BY <1>1 DEF Subject
<1>7. refresh' \in [Tokens -> TokenRow \cup {None}] /\ refresh'[t] = row
  BY <1>1, <1>3 DEF AuthInv, TypeOK
<1>8. TypeOK'
  BY <1>5, <1>6, <1>7, IssueInv DEF AuthInv, TypeOK
<1>9. Grow
  BY <1>1, <1>3, <1>4, <1>5 DEF Grow, AuthInv, TypeOK
<1>10. /\ OthersStay(w) /\ pc'[w] = "issue" /\ call' = call
       /\ who'[w] \in Subject /\ who'[w].user = who[w].user /\ who'[w].role = who[w].role
  BY <1>5, <1>6, IssueInv
<1>11. WorkerInv(w)'
  BY <1>1, <1>3, <1>5, <1>7, <1>10 DEF WorkerInv, Presented
<1>12. \A u \in Tokens : refresh[u] = None => refresh'[u] = None
  BY <1>1, <1>2, <1>3 DEF AuthInv, TypeOK
<1> QED
  BY <1>5, <1>8, <1>9, <1>10, <1>11, <1>12, StepInv

\* The row is stored, and the client may get the pair or not.
LEMMA StoreInv ==
    ASSUME AuthInv, NEW w \in Workers, CreateRefreshToken(w) \/ AnswerLost(w)
    PROVE  AuthInv'
<1>1. PICK t \in Tokens : StoreToken(w, t) /\ (pairs' = pairs \/ pairs' = pairs \cup {PairFor(w, t)})
  BY DEF CreateRefreshToken, AnswerLost
<1>2. Return(w) /\ users' = users /\ pc[w] = "issue"
  BY DEF CreateRefreshToken, AnswerLost
<1>3. /\ call[w] \in Call /\ who[w] \in Subject
      /\ who[w].user \in Emails /\ who[w].role \in Roles /\ who[w].at \in Nat
      /\ users[who[w].user] # None /\ users[who[w].user].role = who[w].role
      /\ call[w].op = "refresh" => Presented(call[w]) /\ who[w].user = refresh[call[w].token].user
      /\ call[w].op # "refresh" =>
            who[w].user = call[w].email /\ users[call[w].email].password = call[w].password
  BY <1>2 DEF AuthInv, WorkerInv, Subject
<1>4. PICK row \in TokenRow :
           /\ refresh' = [refresh EXCEPT ![t] = row]
           /\ row.user = who[w].user /\ row.expires = who[w].at + RefreshTTL
  <2> DEFINE r == [user |-> who[w].user, expires |-> who[w].at + RefreshTTL, spent |-> FALSE, lost |-> 0]
  <2>1. who[w].at + RefreshTTL \in Nat
    BY <1>3, AuthAssumption
  <2>2. r \in TokenRow
    BY <1>3, <2>1 DEF TokenRow
  <2>3. refresh' = [refresh EXCEPT ![t] = r]
    BY <1>1 DEF StoreToken
  <2> QED
    BY <2>2, <2>3
<1>5. refresh[t] = None /\ row # None
  BY <1>1, AuthAssumption DEF StoreToken
<1>6. PICK new \in Pair :
           /\ pairs' = pairs \/ pairs' = pairs \cup {new}
           /\ new.user = who[w].user /\ new.role = who[w].role /\ new.token = t
           /\ new.expires = who[w].at + AccessTTL /\ new.call = call[w]
  <2>1. who[w].at + AccessTTL \in Nat
    BY <1>3, AuthAssumption
  <2>2. PairFor(w, t) \in Pair
    BY <1>3, <2>1 DEF PairFor, Pair
  <2> QED
    BY <1>1, <2>2 DEF PairFor
<1>7. /\ refresh' \in [Tokens -> TokenRow \cup {None}] /\ refresh'[t] = row
      /\ \A u \in Tokens \ {t} : refresh'[u] = refresh[u]
  BY <1>4, <1>5 DEF AuthInv, TypeOK
<1>8. pairs' \subseteq pairs \cup {new} /\ pairs \subseteq pairs'
  BY <1>6
<1>9. TypeOK'
  <2>1. cut' \subseteq Tokens
    BY CutType DEF CreateRefreshToken, AnswerLost, AuthInv, TypeOK
  <2> QED
    BY <1>2, <1>7, <1>8, <2>1 DEF AuthInv, TypeOK, Return
<1>10. Grow
  BY <1>2, <1>5, <1>7, <1>8 DEF Grow
<1>11. OthersStay(w) /\ pc'[w] = "idle"
  BY <1>2 DEF AuthInv, TypeOK, Return, OthersStay
<1>12. WorkerInv(w)'
  BY <1>11 DEF WorkerInv
<1>13. \A u \in Tokens : refresh[u] = None /\ refresh'[u] # None => users'[refresh'[u].user] # None
  BY <1>2, <1>3, <1>4, <1>7
<1>14. \A q \in pairs' \ pairs : PairRight(q)'
  <2> SUFFICES ASSUME new \in pairs' PROVE PairRight(new)'
    BY <1>8
  <2>1. users'[new.user] # None /\ users'[new.user].role = new.role
    BY <1>2, <1>3, <1>6
  <2>2. refresh'[new.token] # None /\ refresh'[new.token].user = new.user
    BY <1>4, <1>5, <1>6, <1>7
  <2>3. refresh'[new.token].expires - RefreshTTL = new.expires - AccessTTL
    BY <1>3, <1>4, <1>6, <1>7, AuthAssumption
  <2>4. ASSUME call[w].op = "refresh"
        PROVE  \E parent \in pairs' : parent.token = new.call.token /\ parent.user = new.user
    <3>1. PICK parent \in pairs : parent.token = call[w].token
      BY <1>3, <2>4 DEF Presented
    <3>2. parent.user = refresh[call[w].token].user
      BY <3>1 DEF AuthInv, PairRight
    <3> QED
      BY <1>3, <1>6, <1>8, <2>4, <3>1, <3>2
  <2>5. ASSUME call[w].op # "refresh"
        PROVE  new.user = new.call.email /\ users'[new.user].password = new.call.password
    BY <1>2, <1>3, <1>6, <2>5
  <2> QED
    BY <1>6, <2>1, <2>2, <2>3, <2>4, <2>5 DEF PairRight
<1> QED
  BY <1>9, <1>10, <1>11, <1>12, <1>13, <1>14, StepInv

\* The clock decides only what is redeemed and admitted.
LEMMA TickInv ==
    ASSUME AuthInv, Tick
    PROVE  AuthInv'
<1>1. TypeOK' /\ UNCHANGED <<tables, pc, call, who, pairs>>
  BY DEF AuthInv, TypeOK, Tick, tables
<1>2. Grow
  BY <1>1 DEF Grow, tables
<1>3. \A v \in Workers : WorkerInv(v)'
  BY <1>1, <1>2, FrameWorker
<1>4. \A q \in pairs' : PairRight(q)'
  BY <1>1, <1>2, FramePair
<1>5. References'
  BY <1>1 DEF References, AuthInv, tables
<1> QED
  BY <1>1, <1>3, <1>4, <1>5 DEF AuthInv

-----------------------------------------------------------------------------
(* Theorems. *)

\* The inductive invariant: pairs and requests agree with the tables.
THEOREM AuthInvariant == Spec => []AuthInv
<1>1. Init => AuthInv
  <2> SUFFICES ASSUME Init PROVE AuthInv
    OBVIOUS
  <2>1. TypeOK
    BY DEF Init, TypeOK
  <2>2. (\A w \in Workers : WorkerInv(w)) /\ References /\ pairs = {}
    BY DEF Init, WorkerInv, References
  <2> QED
    BY <2>1, <2>2 DEF AuthInv
<1>2. AuthInv /\ [Next]_vars => AuthInv'
  <2> SUFFICES ASSUME AuthInv, [Next]_vars PROVE AuthInv'
    OBVIOUS
  <2>1. ASSUME NEW w \in Workers, StartRegister(w) \/ StartLogin(w) \/ StartRefresh(w) PROVE AuthInv'
    BY <2>1, StartsInv
  <2>2. ASSUME NEW w \in Workers, Serve(w) PROVE AuthInv'
    <3>1. CASE Refuse(w) \/ Fail(w)
      <4>1. cut' \subseteq Tokens
        BY <3>1, CutType DEF Refuse, Fail, AuthInv, TypeOK
      <4> QED
        BY <3>1, <4>1, ReturnInv DEF Refuse, Fail
    <3>2. CASE CreateUser(w)
      BY <3>2, CreateUserInv
    <3>3. CASE GetUserByEmail(w)
      BY <3>3, GetUserByEmailInv
    <3>4. CASE GetRefreshToken(w)
      BY <3>4, GetRefreshTokenInv
    <3>5. CASE DeleteRefreshToken(w) \/ DeleteFails(w)
      BY <3>5, DeleteInv
    <3>6. CASE CreateRefreshToken(w) \/ AnswerLost(w)
      BY <3>6, StoreInv
    <3> QED
      BY <2>2, <3>1, <3>2, <3>3, <3>4, <3>5, <3>6 DEF Serve
  <2>3. CASE Tick
    BY <2>3, TickInv
  <2>4. CASE UNCHANGED vars
    <3>1. Grow /\ TypeOK'
      BY <2>4 DEF Grow, vars, tables, AuthInv, TypeOK
    <3>2. \A v \in Workers : WorkerInv(v)'
      BY <2>4, <3>1, FrameWorker DEF vars, tables
    <3>3. \A q \in pairs' : PairRight(q)'
      BY <2>4, <3>1, FramePair DEF vars, tables
    <3>4. References'
      BY <2>4 DEF References, AuthInv, vars, tables
    <3> QED
      BY <3>1, <3>2, <3>3, <3>4 DEF AuthInv
  <2> QED
    BY <2>1, <2>2, <2>3, <2>4 DEF Next
<1> QED
  BY <1>1, <1>2, PTL DEF Spec

\* The state of AuthService keeps its types.
THEOREM AuthTypeCorrect == Spec => []TypeOK
<1>1. AuthInv => TypeOK
  BY DEF AuthInv
<1> QED
  BY <1>1, AuthInvariant, PTL

\* ClaimsCurrent: the middleware never admits a role that the table has revoked.
THEOREM Admitted == Spec => []ClaimsCurrent
<1>1. AuthInv => ClaimsCurrent
  BY DEF AuthInv, PairRight, ClaimsCurrent
<1> QED
  BY <1>1, AuthInvariant, PTL

\* Rooted: every chain of refreshes begins with the password of its user.
THEOREM SessionsRooted == Spec => []Rooted
<1>1. AuthInv => Rooted
  BY DEF AuthInv, PairRight, Rooted
<1> QED
  BY <1>1, AuthInvariant, PTL

-----------------------------------------------------------------------------
(* How a session ends.                                                     *)

\* What a token that is spent was spent for.
Accounted(t) ==
    \/ \E p \in pairs : p.call.token = t
    \/ \E w \in Workers : pc[w] = "issue" /\ call[w].token = t
    \/ t \in cut

\* The inductive invariant of CanGoOn.
SpentInv == \A t \in Tokens : refresh[t] # None /\ refresh[t].spent => Accounted(t)

\* Only the request that is about to issue a pair for a token can end what
\* accounts for it.
LEMMA AccountedStays ==
    ASSUME NEW w \in Workers, OthersStay(w), pairs \subseteq pairs', cut \subseteq cut',
           NEW t, Accounted(t), pc[w] = "issue" /\ call[w].token = t => Accounted(t)'
    PROVE  Accounted(t)'
BY DEF Accounted, OthersStay

\* A step that spends no token and ends no exchange.
LEMMA CalmSpent ==
    ASSUME SpentInv, UNCHANGED <<pairs, cut>>, NEW w \in Workers, OthersStay(w), pc[w] # "issue",
           \A t \in Tokens : refresh'[t] # None /\ refresh'[t].spent =>
                                refresh[t] # None /\ refresh[t].spent
    PROVE  SpentInv'
BY AccountedStays DEF SpentInv

\* The DELETE spends the token that its request goes on to exchange.
LEMMA DeleteSpent ==
    ASSUME AuthInv, SpentInv, NEW w \in Workers, DeleteRefreshToken(w) \/ DeleteFails(w)
    PROVE  SpentInv'
<1>1. /\ pc[w] = "delete" /\ pc'[w] = "issue" /\ call' = call /\ UNCHANGED <<pairs, cut>>
      /\ OthersStay(w)
  BY DEF DeleteRefreshToken, DeleteFails, Issue, GoTo, OthersStay, AuthInv, TypeOK
<1>2. \A t \in Tokens : t # call[w].token => refresh'[t] = refresh[t]
  BY DEF DeleteRefreshToken, DeleteFails, AuthInv, TypeOK
<1> SUFFICES ASSUME NEW t \in Tokens, refresh'[t] # None, refresh'[t].spent PROVE Accounted(t)'
    BY DEF SpentInv
<1>3. CASE t = call[w].token
  BY <1>1, <1>3 DEF Accounted
<1>4. CASE t # call[w].token
  BY <1>1, <1>2, <1>4, AccountedStays DEF SpentInv
<1> QED
  BY <1>3, <1>4

\* The exchange ends with a pair, or it breaks off.
LEMMA IssueSpent ==
    ASSUME AuthInv, SpentInv, NEW w \in Workers,
           CreateRefreshToken(w) \/ AnswerLost(w) \/ (Fail(w) /\ pc[w] = "issue")
    PROVE  SpentInv'
<1>1. OthersStay(w) /\ pairs \subseteq pairs' /\ cut \subseteq cut'
  BY DEF CreateRefreshToken, AnswerLost, Fail, BreakOff, Return, OthersStay, AuthInv, TypeOK
<1>2. \A t \in Tokens : refresh'[t] # None /\ refresh'[t].spent => refresh[t] # None /\ refresh[t].spent
  BY DEF CreateRefreshToken, AnswerLost, Fail, StoreToken, tables, AuthInv, TypeOK
<1>3. ASSUME NEW t \in Tokens, call[w].token = t PROVE Accounted(t)'
  <2>1. CASE CreateRefreshToken(w)
    <3>1. PICK n \in Tokens : PairFor(w, n) \in pairs'
      BY <2>1 DEF CreateRefreshToken
    <3>2. PairFor(w, n).call.token = t
      BY <1>3 DEF PairFor
    <3> QED
      BY <3>1, <3>2 DEF Accounted
  <2>2. CASE AnswerLost(w) \/ (Fail(w) /\ pc[w] = "issue")
    BY <1>3, <2>2, AuthAssumption DEF AnswerLost, Fail, BreakOff, Accounted
  <2> QED
    BY <2>1, <2>2
<1> QED
  BY <1>1, <1>2, <1>3, AccountedStays DEF SpentInv

\* Every statement.
LEMMA NextSpent == AuthInv /\ SpentInv /\ [Next]_vars => SpentInv'
<1> SUFFICES ASSUME AuthInv, SpentInv, [Next]_vars PROVE SpentInv'
    OBVIOUS
<1>1. ASSUME NEW w \in Workers, StartRegister(w) \/ StartLogin(w) \/ StartRefresh(w)
      PROVE  SpentInv'
  <2>1. /\ pc[w] = "idle" /\ UNCHANGED <<tables, pairs, cut>> /\ OthersStay(w)
    BY <1>1 DEF StartRegister, StartLogin, StartRefresh, Start, OthersStay, AuthInv, TypeOK
  <2> QED
    BY <2>1, CalmSpent DEF tables
<1>2. ASSUME NEW w \in Workers, CreateUser(w) \/ GetUserByEmail(w) \/ GetRefreshToken(w)
      PROVE  SpentInv'
  <2>1. pc[w] # "issue" /\ UNCHANGED <<refresh, pairs, cut>> /\ OthersStay(w)
    BY <1>2 DEF CreateUser, GetUserByEmail, GetRefreshToken, Issue, GoTo, OthersStay, tables,
                AuthInv, TypeOK
  <2> QED
    BY <2>1, CalmSpent
<1>3. ASSUME NEW w \in Workers, Refuse(w) \/ (Fail(w) /\ pc[w] # "issue")
      PROVE  SpentInv'
  <2>1. pc[w] # "issue" /\ UNCHANGED <<refresh, pairs, cut>> /\ OthersStay(w)
    BY <1>3 DEF Refuse, Fail, Return, OthersStay, tables, AuthInv, TypeOK
  <2> QED
    BY <2>1, CalmSpent
<1>4. CASE Tick \/ UNCHANGED vars
  BY <1>4 DEF Tick, vars, tables, SpentInv, Accounted
<1> QED
  BY <1>1, <1>2, <1>3, <1>4, DeleteSpent, IssueSpent DEF Next, Serve

\* CanGoOn: a client goes on with the token of its pair until it expires, is
\* exchanged, or an exchange breaks off between its DELETE and its answer.
THEOREM SessionsEnd == Spec => []CanGoOn
<1>1. Init => SpentInv
  BY DEF Init, SpentInv
<1>2. AuthInv /\ SpentInv => CanGoOn
  <2> SUFFICES ASSUME AuthInv, SpentInv, NEW q \in pairs, ~Stored(q.token)
               PROVE  Accounted(q.token)
    BY DEF AuthInv, PairRight, CanGoOn, Accounted
  <2>1. q.token \in Tokens /\ refresh[q.token] # None
    BY DEF AuthInv, TypeOK, Pair, PairRight
  <2> QED
    BY <2>1 DEF Stored, SpentInv
<1> QED
  BY <1>1, <1>2, NextSpent, AuthInvariant, PTL DEF Spec

-----------------------------------------------------------------------------
(* What one token buys.                                                    *)
(*                                                                         *)
(* While the row of t is there, every pair bought with t, and every one    *)
(* that a request is about to issue, goes back to a DELETE that failed.    *)
(* The first DELETE that succeeds ends that, but finds up to a request per *)
(* worker that has read the row already; nobody reads it any more.         *)

Bought(t) == {q \in pairs : q.call.token = t}
Issuing(t) == {w \in Workers : pc[w] = "issue" /\ call[w].token = t}
Deleting(t) == {w \in Workers : pc[w] = "delete" /\ call[w].token = t}

\* Only a request to refresh names a token.
Names(c) == c.op # "refresh" => c.token = None

\* What is bought and will be bought with t, against the DELETEs that failed.
Bill(t) ==
    /\ IsFiniteSet(Bought(t))
    /\ refresh[t] # None /\ ~refresh[t].spent =>
            Cardinality(Bought(t)) + Cardinality(Issuing(t)) <= refresh[t].lost
    /\ refresh[t] # None /\ refresh[t].spent =>
            Cardinality(Bought(t)) + Cardinality(Issuing(t)) + Cardinality(Deleting(t))
                <= refresh[t].lost + Cardinality(Workers)

\* The inductive invariant of ReuseBound.
ReuseInv ==
    /\ \A w \in Workers : pc[w] # "idle" => Names(call[w])
    /\ \A q \in pairs : Names(q.call)
    /\ \A t \in Tokens : Bill(t)

\* The requests at a statement are no more than all of them.
LEMMA Counts ==
    \A t : /\ IsFiniteSet(Issuing(t)) /\ IsFiniteSet(Deleting(t))
           /\ Cardinality(Issuing(t)) \in Nat /\ Cardinality(Deleting(t)) \in Nat
           /\ Cardinality(Deleting(t)) <= Cardinality(Workers) /\ Cardinality(Workers) \in Nat
<1> SUFFICES ASSUME NEW t
             PROVE  /\ IsFiniteSet(Issuing(t)) /\ IsFiniteSet(Deleting(t))
                    /\ Cardinality(Issuing(t)) \in Nat /\ Cardinality(Deleting(t)) \in Nat
                    /\ Cardinality(Deleting(t)) <= Cardinality(Workers) /\ Cardinality(Workers) \in Nat
  OBVIOUS
<1>1. IsFiniteSet(Workers)
  BY AuthAssumption
<1>2. \A w \in Issuing(t) : w \in Workers
  BY DEF Issuing
<1>3. \A w \in Deleting(t) : w \in Workers
  BY DEF Deleting
<1> QED
  BY <1>1, <1>2, <1>3, NoMore

\* Nothing is bought with a token that is not stored yet.
LEMMA NothingBought ==
    ASSUME AuthInv, ReuseInv, NEW t \in Tokens, refresh[t] = None
    PROVE  Bought(t) = {} /\ Issuing(t) = {} /\ Deleting(t) = {}
<1>1. t # None
  BY AuthAssumption
<1>2. ASSUME NEW p \in pairs, p.token = t PROVE FALSE
  BY <1>2 DEF AuthInv, PairRight
<1>3. Bought(t) = {}
  <2> SUFFICES ASSUME NEW q \in pairs, q.call.token = t PROVE FALSE
    BY DEF Bought
  <2>1. q.call.op = "refresh"
    BY <1>1 DEF ReuseInv, Names
  <2> QED
    BY <1>2, <2>1 DEF AuthInv, PairRight
<1>4. ASSUME NEW w \in Workers, pc[w] \in {"issue", "delete"}, call[w].token = t PROVE FALSE
  <2>1. call[w].op = "refresh"
    BY <1>1, <1>4 DEF ReuseInv, Names
  <2> QED
    BY <1>2, <1>4, <2>1 DEF AuthInv, WorkerInv, Presented
<1> QED
  BY <1>3, <1>4 DEF Issuing, Deleting

\* A token is as it was, and nobody begins to issue a pair for it; a request
\* that begins to delete it has found it unspent.
Calm(t) ==
    /\ refresh'[t] = refresh[t]
    /\ Bought(t)' = Bought(t)
    /\ \A w \in Issuing(t)' : w \in Issuing(t)
    /\ \A w \in Deleting(t)' : w \in Deleting(t) \/ ~refresh[t].spent

\* That keeps the bill of the token.
LEMMA CalmBill ==
    ASSUME AuthInv, ReuseInv, NEW t \in Tokens, Calm(t)
    PROVE  Bill(t)'
<1>1. Bill(t) /\ IsFiniteSet(Bought(t)) /\ Cardinality(Bought(t)) \in Nat
  BY FS_CardinalityType DEF ReuseInv, Bill
<1>2. Cardinality(Issuing(t)') <= Cardinality(Issuing(t)) /\ Cardinality(Issuing(t)') \in Nat
  BY Counts, NoMore DEF Calm
<1>3. refresh[t] # None => refresh[t].lost \in Nat
  BY DEF AuthInv, TypeOK, TokenRow
<1>4. refresh[t].spent =>
        Cardinality(Deleting(t)') <= Cardinality(Deleting(t)) /\ Cardinality(Deleting(t)') \in Nat
  BY Counts, NoMore DEF Calm
<1> QED
  BY <1>1, <1>2, <1>3, <1>4, Counts DEF Calm, Bill

\* A step of w that leaves the tokens and the pairs alone.
LEMMA CalmStep ==
    ASSUME AuthInv, ReuseInv, NEW w \in Workers, OthersStay(w), UNCHANGED <<refresh, pairs>>,
           pc'[w] # "idle" => Names(call'[w]),
           pc'[w] = "issue" => call'[w].token = None,
           pc'[w] = "delete" => ~refresh[call'[w].token].spent
    PROVE  ReuseInv'
<1>1. \A v \in Workers : pc'[v] # "idle" => Names(call'[v])
  BY DEF ReuseInv, OthersStay
<1>2. \A q \in pairs' : Names(q.call)
  BY DEF ReuseInv
<1>3. ASSUME NEW t \in Tokens PROVE Bill(t)'
  <2>1. t # None
    BY AuthAssumption
  <2>2. Calm(t)
    BY <2>1 DEF Calm, Bought, Issuing, Deleting, OthersStay
  <2> QED
    BY <2>2, CalmBill
<1> QED
  BY <1>1, <1>2, <1>3 DEF ReuseInv, Names

\* A request arrives, or ends without a pair.
LEMMA EndsReuse ==
    ASSUME AuthInv, ReuseInv, NEW w \in Workers,
           \/ StartRegister(w) \/ StartLogin(w) \/ StartRefresh(w)
           \/ Return(w) /\ UNCHANGED <<tables, pairs>>
    PROVE  ReuseInv'
<1>1. ASSUME NEW c, NEW label \in {"create", "login", "lookup"}, Start(w, c, label), Names(c)
      PROVE  ReuseInv'
  <2>1. OthersStay(w) /\ pc'[w] = label /\ call'[w] = c /\ UNCHANGED <<refresh, pairs>>
    BY <1>1 DEF Start, OthersStay, AuthInv, TypeOK, tables
  <2> QED
    BY <1>1, <2>1, CalmStep
<1>2. CASE StartRegister(w)
  <2>1. PICK e \in Emails, p \in Passwords, r \in AskedRoles :
           Start(w, [op |-> "register", email |-> e, password |-> p, role |-> r, token |-> None], "create")
    BY <1>2 DEF StartRegister
  <2> QED
    BY <1>1, <2>1 DEF Names
<1>3. CASE StartLogin(w)
  <2>1. PICK e \in Emails, p \in Passwords :
           Start(w, [op |-> "login", email |-> e, password |-> p, role |-> None, token |-> None], "login")
    BY <1>3 DEF StartLogin
  <2> QED
    BY <1>1, <2>1 DEF Names
<1>4. CASE StartRefresh(w)
  <2>1. PICK q \in pairs :
           Start(w, [op |-> "refresh", email |-> None, password |-> None, role |-> None,
                     token |-> q.token], "lookup")
    BY <1>4 DEF StartRefresh
  <2> QED
    BY <1>1, <2>1 DEF Names
<1>5. CASE Return(w) /\ UNCHANGED <<tables, pairs>>
  <2>1. OthersStay(w) /\ pc'[w] = "idle" /\ UNCHANGED <<refresh, pairs>>
    BY <1>5 DEF Return, OthersStay, AuthInv, TypeOK, tables
  <2> QED
    BY <2>1, CalmStep
<1> QED
  BY <1>2, <1>3, <1>4, <1>5

\* The reads, and the INSERT of a user.
LEMMA ReadsReuse ==
    ASSUME AuthInv, ReuseInv, NEW w \in Workers,
           CreateUser(w) \/ GetUserByEmail(w) \/ GetRefreshToken(w)
    PROVE  ReuseInv'
<1>1. OthersStay(w) /\ call' = call /\ UNCHANGED <<refresh, pairs>>
  BY DEF CreateUser, GetUserByEmail, GetRefreshToken, Issue, GoTo, OthersStay, AuthInv, TypeOK, tables
<1>2. pc[w] # "idle"
  BY DEF CreateUser, GetUserByEmail, GetRefreshToken
<1>3. CASE CreateUser(w) \/ GetUserByEmail(w)
  <2>1. pc'[w] = "issue" /\ pc[w] \in {"create", "login"}
    BY <1>3 DEF CreateUser, GetUserByEmail, Issue, GoTo, AuthInv, TypeOK
  <2>2. call[w].token = None
    BY <2>1 DEF AuthInv, WorkerInv, ReuseInv, Names
  <2> QED
    BY <1>1, <1>2, <2>1, <2>2, CalmStep DEF ReuseInv
<1>4. CASE GetRefreshToken(w)
  <2>1. pc'[w] = "delete" /\ ~refresh[call[w].token].spent
    BY <1>4 DEF GetRefreshToken, Redeemable, Stored, GoTo, AuthInv, TypeOK
  <2> QED
    BY <1>1, <1>2, <2>1, CalmStep DEF ReuseInv
<1> QED
  BY <1>3, <1>4

\* The DELETE: w leaves those that will delete and joins those that issue.
LEMMA DeleteReuse ==
    ASSUME AuthInv, ReuseInv, NEW w \in Workers, DeleteRefreshToken(w) \/ DeleteFails(w)
    PROVE  ReuseInv'
<1>1. OthersStay(w) /\ call' = call /\ pairs' = pairs /\ pc[w] = "delete" /\ pc'[w] = "issue"
  BY DEF DeleteRefreshToken, DeleteFails, Issue, GoTo, OthersStay, AuthInv, TypeOK
<1>2. PICK t0 \in Tokens : t0 = call[w].token /\ refresh[t0] # None /\ refresh[t0] \in TokenRow
  <2>1. Presented(call[w])
    BY <1>1 DEF AuthInv, WorkerInv
  <2> QED
    BY <2>1 DEF Presented, AuthInv, PairRight, TypeOK
<1>3. /\ \A t \in Tokens \ {t0} : refresh'[t] = refresh[t]
      /\ refresh'[t0] # None
      /\ \/ refresh'[t0].spent /\ refresh'[t0].lost = refresh[t0].lost
         \/ refresh'[t0].spent = refresh[t0].spent /\ refresh'[t0].lost = refresh[t0].lost + 1
  <2>1. CASE DeleteRefreshToken(w)
    <3>1. refresh' = [refresh EXCEPT ![t0] = [refresh[t0] EXCEPT !.spent = TRUE]]
      BY <1>2, <2>1 DEF DeleteRefreshToken
    <3>2. [refresh[t0] EXCEPT !.spent = TRUE] \in TokenRow
      BY <1>2 DEF TokenRow
    <3>3. refresh'[t0] = [refresh[t0] EXCEPT !.spent = TRUE]
      BY <1>2, <3>1 DEF AuthInv, TypeOK
    <3>4. refresh'[t0] # None
      BY <3>2, <3>3, AuthAssumption
    <3>5. refresh'[t0].spent /\ refresh'[t0].lost = refresh[t0].lost
      BY <1>2, <3>3 DEF TokenRow
    <3> QED
      BY <1>2, <3>1, <3>4, <3>5 DEF AuthInv, TypeOK
  <2>2. CASE DeleteFails(w)
    <3>1. refresh' = [refresh EXCEPT ![t0] = [refresh[t0] EXCEPT !.lost = @ + 1]]
      BY <1>2, <2>2 DEF DeleteFails
    <3>2. [refresh[t0] EXCEPT !.lost = @ + 1] \in TokenRow
      BY <1>2 DEF TokenRow
    <3>3. refresh'[t0] = [refresh[t0] EXCEPT !.lost = @ + 1]
      BY <1>2, <3>1 DEF AuthInv, TypeOK
    <3>4. refresh'[t0] # None
      BY <3>2, <3>3, AuthAssumption
    <3>5. refresh'[t0].spent = refresh[t0].spent /\ refresh'[t0].lost = refresh[t0].lost + 1
      BY <1>2, <3>3 DEF TokenRow
    <3> QED
      BY <1>2, <3>1, <3>4, <3>5 DEF AuthInv, TypeOK
  <2> QED
    BY <2>1, <2>2
<1>4. ASSUME NEW t \in Tokens, t # t0 PROVE Bill(t)'
  <2>1. Calm(t)
    BY <1>1, <1>2, <1>3, <1>4 DEF Calm, Bought, Issuing, Deleting, OthersStay
  <2> QED
    BY <2>1, CalmBill
<1>5. Bill(t0)'
  <2>1. Bill(t0) /\ Bought(t0)' = Bought(t0) /\ IsFiniteSet(Bought(t0))
        /\ Cardinality(Bought(t0)) \in Nat
    BY <1>1, <1>2, FS_CardinalityType DEF ReuseInv, Bill, Bought
  <2>2. Grows(Issuing(t0), Issuing(t0)', w)
    BY <1>1, <1>2 DEF Grows, Issuing, OthersStay
  <2>3. Cardinality(Issuing(t0)') <= Cardinality(Issuing(t0)) + 1 /\ Cardinality(Issuing(t0)') \in Nat
    BY <2>2, Counts, OneMore
  <2>4. w \in Deleting(t0) /\ \A v \in Deleting(t0)' : v \in Deleting(t0) /\ v # w
    BY <1>1, <1>2 DEF Deleting, OthersStay
  <2>5. Cardinality(Deleting(t0)') <= Cardinality(Deleting(t0)) - 1 /\ Cardinality(Deleting(t0)') \in Nat
    BY <2>4, Counts, OneLess
  <2>6. refresh[t0].lost \in Nat /\ refresh[t0].spent \in BOOLEAN
    BY <1>2 DEF TokenRow
  <2>7. Cardinality(Deleting(t0)) <= Cardinality(Workers) /\ Cardinality(Workers) \in Nat
        /\ Cardinality(Deleting(t0)) \in Nat /\ Cardinality(Issuing(t0)) \in Nat
    BY Counts
  <2> QED
    BY <1>2, <1>3, <2>1, <2>3, <2>5, <2>6, <2>7 DEF Bill
<1>6. \A v \in Workers : pc'[v] # "idle" => Names(call'[v])
  BY <1>1 DEF ReuseInv, OthersStay
<1>7. \A q \in pairs' : Names(q.call)
  BY <1>1 DEF ReuseInv
<1> QED
  BY <1>4, <1>5, <1>6, <1>7 DEF ReuseInv, Names

\* The pair: w leaves those that issue, and the pair may join the others.
LEMMA StoreReuse ==
    ASSUME AuthInv, ReuseInv, NEW w \in Workers, CreateRefreshToken(w) \/ AnswerLost(w)
    PROVE  ReuseInv'
<1>1. PICK n \in Tokens : StoreToken(w, n) /\ (pairs' = pairs \/ pairs' = pairs \cup {PairFor(w, n)})
  BY DEF CreateRefreshToken, AnswerLost
<1>2. OthersStay(w) /\ pc[w] = "issue" /\ pc'[w] = "idle"
  BY DEF CreateRefreshToken, AnswerLost, Return, OthersStay, AuthInv, TypeOK
<1>3. /\ refresh[n] = None /\ \A t \in Tokens \ {n} : refresh'[t] = refresh[t]
      /\ ~refresh'[n].spent /\ refresh'[n].lost = 0
  BY <1>1 DEF StoreToken, AuthInv, TypeOK
<1> DEFINE new == PairFor(w, n)
<1>4. pairs \subseteq pairs' /\ (\A q \in pairs' : q \in pairs \/ q = new) /\ new.call = call[w]
  <2>1. new.call = call[w]
    BY DEF PairFor
  <2> QED
    BY <1>1, <2>1
<1> HIDE DEF new
<1>5. Bought(n) = {} /\ Issuing(n) = {} /\ Deleting(n) = {}
  BY <1>3, NothingBought
<1>6. call[w].token # n
  BY <1>2, <1>5 DEF Issuing
<1>7. Bill(n)'
  <2>1. Bought(n)' = {} /\ Issuing(n)' = {} /\ Deleting(n)' = {}
    BY <1>2, <1>4, <1>5, <1>6 DEF Bought, Issuing, Deleting, OthersStay
  <2> QED
    BY <1>3, <2>1, FS_EmptySet DEF Bill
<1>8. ASSUME NEW t \in Tokens, t # n, t # call[w].token PROVE Bill(t)'
  <2>1. Calm(t)
    BY <1>2, <1>3, <1>4, <1>8 DEF Calm, Bought, Issuing, Deleting, OthersStay
  <2> QED
    BY <2>1, CalmBill
<1>9. ASSUME NEW t \in Tokens, t = call[w].token PROVE Bill(t)'
  <2>1. Bill(t) /\ IsFiniteSet(Bought(t)) /\ refresh'[t] = refresh[t]
    BY <1>3, <1>6, <1>9 DEF ReuseInv, Bill
  <2>2. Grows(Bought(t), Bought(t)', new)
    BY <1>4 DEF Grows, Bought
  <2>3. w \in Issuing(t) /\ \A v \in Issuing(t)' : v \in Issuing(t) /\ v # w
    BY <1>2, <1>9 DEF Issuing, OthersStay
  <2>4. \A v \in Deleting(t)' : v \in Deleting(t)
    BY <1>2 DEF Deleting, OthersStay
  <2>5. IsFiniteSet(Bought(t)') /\ Cardinality(Bought(t)') <= Cardinality(Bought(t)) + 1
        /\ Cardinality(Bought(t)') \in Nat /\ Cardinality(Bought(t)) \in Nat
    BY <2>1, <2>2, OneMore
  <2>6. Cardinality(Issuing(t)') <= Cardinality(Issuing(t)) - 1 /\ Cardinality(Issuing(t)') \in Nat
    BY <2>3, Counts, OneLess
  <2>7. Cardinality(Deleting(t)') <= Cardinality(Deleting(t)) /\ Cardinality(Deleting(t)') \in Nat
    BY <2>4, Counts, NoMore
  <2>8. refresh[t] # None => refresh[t].lost \in Nat
    BY DEF AuthInv, TypeOK, TokenRow
  <2>9. Cardinality(Workers) \in Nat /\ Cardinality(Deleting(t)) \in Nat /\ Cardinality(Issuing(t)) \in Nat
    BY Counts
  <2> QED
    BY <2>1, <2>5, <2>6, <2>7, <2>8, <2>9 DEF Bill
<1>10. \A v \in Workers : pc'[v] # "idle" => Names(call'[v])
  BY <1>2 DEF ReuseInv, OthersStay
<1>11. \A q \in pairs' : Names(q.call)
  BY <1>2, <1>4 DEF ReuseInv, Names
<1> QED
  BY <1>7, <1>8, <1>9, <1>10, <1>11 DEF ReuseInv, Names

\* What is bought with a token stays within its bill.
THEOREM ReuseInvariant == Spec => []ReuseInv
<1>1. Init => ReuseInv
  <2> SUFFICES ASSUME Init PROVE ReuseInv
    OBVIOUS
  <2>1. \A t : Bought(t) = {}
    BY DEF Init, Bought
  <2> QED
    BY <2>1, FS_EmptySet DEF Init, ReuseInv, Bill
<1>2. AuthInv /\ ReuseInv /\ [Next]_vars => ReuseInv'
  <2> SUFFICES ASSUME AuthInv, ReuseInv, [Next]_vars PROVE ReuseInv'
    OBVIOUS
  <2>1. ASSUME NEW w \in Workers, StartRegister(w) \/ StartLogin(w) \/ StartRefresh(w) \/ Serve(w)
        PROVE  ReuseInv'
    BY <2>1, EndsReuse, ReadsReuse, DeleteReuse, StoreReuse DEF Serve, Refuse, Fail
  <2>2. CASE Tick \/ UNCHANGED vars
    <3>1. UNCHANGED <<refresh, pc, call, pairs>>
      BY <2>2 DEF Tick, vars, tables
    <3>2. \A t \in Tokens : Calm(t)
      BY <3>1 DEF Calm, Bought, Issuing, Deleting
    <3>3. \A t \in Tokens : Bill(t)'
      BY <3>2, CalmBill
    <3> QED
      BY <3>1, <3>3 DEF ReuseInv, Names
  <2> QED
    BY <2>1, <2>2 DEF Next
<1> QED
  BY <1>1, <1>2, AuthInvariant, PTL DEF Spec

\* ReuseBound, for any number of requests: DeleteRefreshToken of RefreshToken
\* ends the use of a token but for the requests that GetRefreshToken has let
\* through, and for the DELETEs whose error is ignored.
THEOREM ReuseIsBounded == Spec => []ReuseBound
<1>1. AuthInv /\ ReuseInv => ReuseBound
  <2> SUFFICES ASSUME AuthInv, ReuseInv, NEW t \in Tokens, Bought(t) # {}
               PROVE  Cardinality(Bought(t)) <= Cardinality(Workers) + refresh[t].lost
    BY DEF ReuseBound, Bought
  <2>1. refresh[t] # None
    BY NothingBought
  <2>2. refresh[t].lost \in Nat /\ refresh[t].spent \in BOOLEAN
    BY <2>1 DEF AuthInv, TypeOK, TokenRow
  <2>3. Bill(t) /\ Cardinality(Bought(t)) \in Nat
    BY FS_CardinalityType DEF ReuseInv, Bill
  <2> QED
    BY <2>1, <2>2, <2>3, Counts DEF Bill
<1> QED
  BY <1>1, AuthInvariant, ReuseInvariant, PTL
=============================================================================
