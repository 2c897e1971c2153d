------------------------------ MODULE Accounts ------------------------------
(***************************************************************************)
(* Users and their sessions: logins, the tokens they give, and the         *)
(* handlers behind a token, those of internal/domain/user/handler.go and   *)
(* internal/domain/apikey/handler.go that change a user or a key.  A       *)
(* handler runs one statement of the database at a time, and other         *)
(* handlers run in between; it works on the row it read.                   *)
(*                                                                         *)
(* A session is a client: it holds one token, sends one request at a time  *)
(* and keeps the token that an answer refreshes (web/src/api.ts).  A       *)
(* request that is refused, or that fails in the database, changes         *)
(* nothing, and is left out unless it had changed something before.        *)
(***************************************************************************)
EXTENDS IdentityStore

CONSTANTS
  Sessions,  \* clients that are logged in, or may be
  Orders,    \* what they ask for
  TokenLife  \* expireHours, in units of the clock of tokens

ASSUME TokenAssumption == TokenLife \in Nat \ {0}

Ops      == {"edit", "delete", "create", "password", "newkey", "dropkey", "read"}
AdminOps == {"edit", "delete", "create"}

\* of: a user, for an edit, a deletion or a creation; role, enabled: the new
\* value, or None; password: the new one; key: the key to make or to delete.
ASSUME OrdersAssumption ==
  /\ Orders \subseteq [op : Ops, of : Users, role : Roles \cup {None},
                       enabled : BOOLEAN \cup {None}, password : Passwords, key : Keys \cup {None}]
  /\ \A o \in Orders : o.op = "newkey" => o.key \in Keys

VARIABLES
  token,  \* the token of each session, or None
  work,   \* the request that each session has under way
  born,   \* IDs that were given to a user or a key
  asked,  \* history: the rows, had every edit changed its own fields only
  mixed   \* history: users of whom an edit began while another had read the row

accountVars == <<token, work, born, asked, mixed>>
storeVars   == <<users, keys, lapsed, cached>>

Token == [of : Users, role : Roles, age : 0..TokenLife]
Idle  == [at |-> "idle", of |-> None, role |-> None, row |-> None, order |-> None]

Stages == Ops \cup {"idle", "login", "write", "clear", "erase", "droprow"}
Work   == [at : Stages, of : Users \cup {None}, role : Roles \cup {None},
           row : Row \cup {None}, order : Orders \cup {None}]

AccountsTypeOK ==
  /\ token \in [Sessions -> Token \cup {None}]
  /\ work  \in [Sessions -> Work]
  /\ born  \in SUBSET (Users \cup Keys)
  /\ asked \in PartialFunctions(Users, Row)
  /\ mixed \in SUBSET Users

AccountsInit ==
  /\ token = [s \in Sessions |-> None]
  /\ work  = [s \in Sessions |-> Idle]
  /\ born  = {Admin}
  /\ asked = users
  /\ mixed = {}

Goto(s, stage) == work' = [work EXCEPT ![s].at = stage]
Answer(s)      == work' = [work EXCEPT ![s] = Idle]

Given(new, old) == IF new = None THEN old ELSE new

----------------------------------------------------------------------------
(* Tokens *)

\* Generate, for the row that was read.
Generate(u, row) == [of |-> u, role |-> row.role, age |-> 0]

\* RefreshToken: the same from the claims of the old token.
RefreshToken(t, row) == [t EXCEPT !.age = 0]

Renewed(t, row) == Generate(t.of, row)

\* Validate: the time is not over.  ShouldRefresh: a quarter of it is left.
ValidAtLast(t) == t # None /\ t.age <= TokenLife

Valid(t)         == t # None /\ t.age < TokenLife
ShouldRefresh(t) == 4 * (TokenLife - t.age) <= TokenLife

\* The clock of a token moves.
Ages(s) ==
  /\ Valid(token[s])
  /\ token' = [token EXCEPT ![s].age = @ + 1]
  /\ UNCHANGED <<storeVars, work, born, asked, mixed>>

----------------------------------------------------------------------------
(* Login and SSOCallback: the row of an enabled user is read, and the token made
   of it after the time of the login was stored. *)

LoginReads(s, u) ==
  /\ work[s].at = "idle" /\ ~Valid(token[s]) /\ Enabled(u)
  /\ work' = [work EXCEPT ![s] = [Idle EXCEPT !.at = "login", !.of = u, !.row = users[u]]]
  /\ UNCHANGED <<storeVars, token, born, asked, mixed>>

LoginAnswers(s) ==
  /\ work[s].at = "login"
  /\ token' = [token EXCEPT ![s] = Generate(work[s].of, work[s].row)]
  /\ Answer(s)
  /\ UNCHANGED <<storeVars, born, asked, mixed>>

\* Register: a new user waits for an administrator to enable it.
Register(u) ==
  /\ u \notin born
  /\ \E r \in Roles, p \in Passwords :
       LET row == [enabled |-> FALSE, role |-> r, password |-> p]
       IN  users' = With(users, u, row) /\ asked' = With(asked, u, row)
  /\ born' = born \cup {u}
  /\ UNCHANGED <<keys, lapsed, cached, token, work, mixed>>

----------------------------------------------------------------------------
(* AuthMiddlewareWithUserValidation, then AdminRequired, which asks the token and
   not the row. *)

\* fullUser, which only ChangePassword works on.
FullUser(u, o) == IF o.op = "password" THEN users[u] ELSE None

Authorised(s, o) ==
  /\ work[s].at = "idle" /\ Valid(token[s])
  /\ Enabled(token[s].of)
  /\ o.op \in AdminOps => token[s].role = "admin"
  /\ work' = [work EXCEPT ![s] = [at |-> o.op, of |-> token[s].of, role |-> token[s].role,
                                  row |-> FullUser(token[s].of, o), order |-> o]]
  /\ token' = IF ShouldRefresh(token[s])
                THEN [token EXCEPT ![s] = Renewed(token[s], users[token[s].of])] ELSE token
  /\ UNCHANGED <<storeVars, born, asked, mixed>>

\* Profile, List and the others that only read.
Reads(s) ==
  /\ work[s].at = "read"
  /\ Answer(s)
  /\ UNCHANGED <<storeVars, token, born, asked, mixed>>

----------------------------------------------------------------------------
(* Update *)

\* Sessions that have read the row of a user and are to write it.
Editors(u) == {s \in Sessions : work[s].at = "write" /\ work[s].order.of = u}

EditReads(s) ==
  LET u == work[s].order.of IN
  /\ work[s].at = "edit"
  /\ IF Exists(u)
       THEN /\ work' = [work EXCEPT ![s].at = "write", ![s].row = users[u]]
            /\ mixed' = IF Editors(u) # {} THEN mixed \cup {u} ELSE mixed
       ELSE Answer(s) /\ UNCHANGED mixed
  /\ UNCHANGED <<storeVars, token, born, asked>>

Changed(row, o) == [row EXCEPT !.role = Given(o.role, @), !.enabled = Given(o.enabled, @)]

\* The row is written, and the user's keys leave the cache if the user was disabled.
EditWrites(s) ==
  LET o == work[s].order IN
  /\ work[s].at = "write"
  /\ users' = Update(users, o.of, Changed(work[s].row, o))
  /\ asked' = IF Exists(o.of) THEN [asked EXCEPT ![o.of] = Changed(@, o)] ELSE asked
  /\ IF o.enabled = FALSE THEN Goto(s, "clear") ELSE Answer(s)
  /\ UNCHANGED <<keys, lapsed, cached, token, born, mixed>>

EditClears(s) ==
  /\ work[s].at = "clear"
  /\ cached' = DeleteAPIKeysByUser(work[s].order.of)
  /\ Answer(s)
  /\ UNCHANGED <<users, keys, lapsed, token, born, asked, mixed>>

----------------------------------------------------------------------------
(* Delete and Create *)

DeleteClears(s) ==
  /\ work[s].at = "delete"
  /\ cached' = DeleteAPIKeysByUser(work[s].order.of)
  /\ Goto(s, "erase")
  /\ UNCHANGED <<users, keys, lapsed, token, born, asked, mixed>>

\* The user's keys go with the row if the connection has foreign keys on.
Erases(s) ==
  LET u == work[s].order.of IN
  /\ work[s].at = "erase"
  /\ users' = Without(users, {u}) /\ asked' = Without(asked, {u})
  /\ keys' \in {keys, Without(keys, {k \in DOMAIN keys : keys[k] = u})}
  /\ Answer(s)
  /\ UNCHANGED <<lapsed, cached, token, born, mixed>>

Creates(s) ==
  LET o == work[s].order IN
  /\ work[s].at = "create"
  /\ IF o.of \in born THEN UNCHANGED <<users, asked, born>>
     ELSE LET row == [enabled |-> TRUE, role |-> Given(o.role, "user"), password |-> o.password]
          IN  /\ users' = With(users, o.of, row) /\ asked' = With(asked, o.of, row)
              /\ born'  = born \cup {o.of}
  /\ Answer(s)
  /\ UNCHANGED <<keys, lapsed, cached, token, mixed>>

----------------------------------------------------------------------------
(* ChangePassword: the old password, which the client gives, is compared with the
   row that the middleware read, and so is the new one, which must differ. *)

ChangesPassword(s) ==
  LET w == work[s] IN
  /\ w.at = "password"
  /\ IF w.row.password = w.order.password THEN UNCHANGED <<users, asked>>
     ELSE /\ users' = UpdatePassword(users, w.of, w.order.password)
          /\ asked' = UpdatePassword(asked, w.of, w.order.password)
  /\ Answer(s)
  /\ UNCHANGED <<keys, lapsed, cached, token, born, mixed>>

----------------------------------------------------------------------------
(* GenerateKey and DeleteKey *)

\* The row is inserted for the user of the token, or refused when the user is gone
\* and the connection has foreign keys on.
GeneratesKey(s) ==
  LET k == work[s].order.key IN
  /\ work[s].at = "newkey"
  /\ IF k \in born THEN UNCHANGED <<keys, born>>
     ELSE \/ keys' = With(keys, k, work[s].of) /\ born' = born \cup {k}
          \/ ~Exists(work[s].of) /\ UNCHANGED <<keys, born>>
  /\ Answer(s)
  /\ UNCHANGED <<users, lapsed, cached, token, asked, mixed>>

\* The key leaves the cache, then the table.
DropKeyClears(s) ==
  LET k == work[s].order.key IN
  /\ work[s].at = "dropkey"
  /\ IF k \in DOMAIN keys /\ keys[k] = work[s].of
       THEN cached' = DeleteAPIKey(PrefixOf[k]) /\ Goto(s, "droprow")
       ELSE Answer(s) /\ UNCHANGED cached
  /\ UNCHANGED <<users, keys, lapsed, token, born, asked, mixed>>

DropKeyErases(s) ==
  /\ work[s].at = "droprow"
  /\ keys' = Without(keys, {work[s].order.key})
  /\ Answer(s)
  /\ UNCHANGED <<users, lapsed, cached, token, born, asked, mixed>>

----------------------------------------------------------------------------
Handles(s) ==
  \/ LoginAnswers(s)
  \/ Reads(s)
  \/ EditReads(s)    \/ EditWrites(s) \/ EditClears(s)
  \/ DeleteClears(s) \/ Erases(s)     \/ Creates(s)
  \/ ChangesPassword(s)
  \/ GeneratesKey(s) \/ DropKeyClears(s) \/ DropKeyErases(s)

AccountsNext ==
  \/ \E s \in Sessions : \/ Handles(s)
                         \/ Ages(s)
                         \/ \E u \in Users : LoginReads(s, u)
                         \/ \E o \in Orders : Authorised(s, o)
  \/ \E u \in Users : Register(u)

----------------------------------------------------------------------------
(* Properties *)

\* A password, once changed, stays until the next change, whatever edits of the user
\* run at the same time; and edits lose nothing unless they overlapped (Update of the
\* handler writes back the whole row that it read).
RowsAsAsked ==
  \A u \in DOMAIN users :
    /\ users[u].password = asked[u].password
    /\ u \notin mixed => users[u] = asked[u]

\* A user who is no administrator any more, or is disabled or gone, for good, in the
\* end does nothing of an administrator: the role in the token is replaced when the
\* token is renewed, or the token expires.
AdminsDemoted ==
  \A u \in Users :
    <>[](~(Enabled(u) /\ users[u].role = "admin")) =>
    <>[](\A s \in Sessions : ~(work[s].at # "idle" /\ work[s].of = u
                               /\ work[s].order # None /\ work[s].order.op \in AdminOps))
=============================================================================
