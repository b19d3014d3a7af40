------------------------------- MODULE Access -------------------------------
(***************************************************************************)
(* Who may act: users.py and transactions.py at an operator's shell beside  *)
(* the requests of the API.  One action is one SQL statement or one commit  *)
(* (READ COMMITTED); tokens are stateless, so the user row read by each     *)
(* request is the only thing that can end one early.  The login limiter     *)
(* has a module of its own: here it may refuse any login.                   *)
(***************************************************************************)
EXTENDS Integers, FiniteSets

CONSTANTS
  Users,       \* email addresses, already normalised
  Passwords,
  AccountKeys, \* canonical account keys
  Requests,    \* request threads of the API
  Operators,   \* shells
  TTL,         \* TOKEN_TTL
  MaxNow,      \* bound: the last instant of the clock
  MaxCommands, \* bound: commands an operator runs
  MaxRequests  \* bound: requests a thread serves

ASSUME AccessAssumption ==
  /\ TTL \in Nat \ {0} /\ MaxNow \in Nat
  /\ MaxCommands \in Nat /\ MaxRequests \in Nat

VARIABLES
  now,
  user,      \* users: the committed row of each address
  accounts,  \* accounts: committed <<owner, key>>
  stored,    \* transactions: committed [by, account], `by` being history
  tokens,    \* every token issued: [sub, exp]
  req,       \* thread -> the request it serves, or the last one's answer
  shell      \* operator -> the command it runs, or the last one's outcome

accessVars == <<now, user, accounts, stored, tokens, req, shell>>

NoPassword == "none"   \* password_hash IS NULL: nobody can log in
NoUser == "nobody"
NoKey == "no account"

NoRow == [exists |-> FALSE, active |-> FALSE, password |-> NoPassword]
IdleRequest == [pc |-> "idle", kind |-> "none", user |-> NoUser, key |-> NoKey,
                password |-> NoPassword, token |-> [sub |-> NoUser, exp |-> 0],
                account |-> <<NoUser, NoKey>>, goneAtStart |-> FALSE,
                answer |-> "none", served |-> 0]
IdleShell == [pc |-> "idle", command |-> "none", user |-> NoUser, arg |-> NoKey,
              loaded |-> NoRow, dirty |-> FALSE, outcome |-> "none", ran |-> 0]

AccessInit ==
  /\ now = 0
  /\ user = [u \in Users |-> NoRow]
  /\ accounts = {} /\ stored = {} /\ tokens = {}
  /\ req = [r \in Requests |-> IdleRequest]
  /\ shell = [o \in Operators |-> IdleShell]

NowTicks ==
  /\ now < MaxNow /\ now' = now + 1
  /\ UNCHANGED <<user, accounts, stored, tokens, req, shell>>

(***************************************************************************)
(* Requests                                                                 *)
(***************************************************************************)
Deactivated(u) == user[u].exists /\ ~user[u].active

CanServe(r) == req[r].pc = "idle" /\ req[r].served < MaxRequests

Reply(r, answer) == req' = [req EXCEPT ![r].answer = answer, ![r].pc = "idle"]

\* POST /v1/auth/token; _session opens the transaction.
BeginLogin(r, u, password) ==
  /\ CanServe(r)
  /\ req' = [req EXCEPT ![r] = [IdleRequest EXCEPT !.pc = "login", !.kind = "login",
               !.user = u, !.password = password, !.served = req[r].served + 1,
               !.goneAtStart = Deactivated(u)]]
  /\ UNCHANGED <<now, user, accounts, stored, tokens, shell>>

\* _login_limiter.check said no: 429.
Throttle(r) ==
  /\ req[r].pc = "login"
  /\ Reply(r, "429")
  /\ UNCHANGED <<now, user, accounts, stored, tokens, shell>>

\* UserRepository.authenticate: one SELECT, then the hash and the flag of
\* the row it returned.  Every failure is the same 401.
Authenticates(row, password) ==
  row.exists /\ row.password # NoPassword /\ row.password = password /\ row.active

Authenticate(r) ==
  /\ req[r].pc = "login"
  /\ IF Authenticates(user[req[r].user], req[r].password)
     THEN req' = [req EXCEPT ![r].pc = "issue"]
     ELSE Reply(r, "401")
  /\ UNCHANGED <<now, user, accounts, stored, tokens, shell>>

IssueToken(r) ==
  /\ req[r].pc = "issue"
  /\ tokens' = tokens \cup {[sub |-> req[r].user, exp |-> now + TTL]}
  /\ Reply(r, "token")
  /\ UNCHANGED <<now, user, accounts, stored, shell>>

\* POST /v1/transactions with a bearer token, for one of the account keys.
BeginEntry(r, token, key) ==
  /\ CanServe(r)
  /\ req' = [req EXCEPT ![r] = [IdleRequest EXCEPT !.pc = "decode", !.kind = "entry",
               !.user = token.sub, !.token = token, !.key = key,
               !.served = req[r].served + 1, !.goneAtStart = Deactivated(token.sub)]]
  /\ UNCHANGED <<now, user, accounts, stored, tokens, shell>>

\* decode_token: the instant of expiry is outside.
TokenExpired(token, at) == at >= token.exp

DecodeToken(r) ==
  /\ req[r].pc = "decode"
  /\ IF TokenExpired(req[r].token, now)
     THEN Reply(r, "401")
     ELSE req' = [req EXCEPT ![r].pc = "load"]
  /\ UNCHANGED <<now, user, accounts, stored, tokens, shell>>

\* Mutant: the row behind the token exists, whatever its flag says.
MayActIfExists(row) == row.exists

\* load_active_user: the row as it is now, not as the token remembers it.
MayAct(row) == row.exists /\ row.active

LoadActiveUser(r) ==
  /\ req[r].pc = "load"
  /\ IF MayAct(user[req[r].user])
     THEN req' = [req EXCEPT ![r].pc = "account"]
     ELSE Reply(r, "401")
  /\ UNCHANGED <<now, user, accounts, stored, tokens, shell>>

\* Mutant: by_key without the tenant.
AccountsFoundAnywhere(u, key) == {a \in accounts : a[2] = key}

\* AccountRepository.by_key: the scope's user is part of the WHERE.
AccountsFound(u, key) == {a \in accounts : a[1] = u /\ a[2] = key}

FindAccount(r) ==
  /\ req[r].pc = "account"
  /\ LET found == AccountsFound(req[r].user, req[r].key)
     IN IF found = {}
        THEN Reply(r, "404")
        ELSE \E a \in found :
               req' = [req EXCEPT ![r].pc = "insert", ![r].account = a]
  /\ UNCHANGED <<now, user, accounts, stored, tokens, shell>>

\* The handler flushes its INSERT and returns; the 201 leaves before the
\* dependency commits.
AnswerEntry(r) ==
  /\ req[r].pc = "insert"
  /\ req' = [req EXCEPT ![r].pc = "commit", ![r].answer = "201"]
  /\ UNCHANGED <<now, user, accounts, stored, tokens, shell>>

CommitEntry(r) ==
  /\ req[r].pc = "commit"
  /\ stored' = stored \cup {[by |-> req[r].user, account |-> req[r].account]}
  /\ req' = [req EXCEPT ![r].pc = "idle"]
  /\ UNCHANGED <<now, user, accounts, tokens, shell>>

\* The connection is lost: 500, unless the client has its answer already.
LoseRequest(r) ==
  /\ req[r].pc # "idle"
  /\ Reply(r, IF req[r].pc = "commit" THEN req[r].answer ELSE "500")
  /\ UNCHANGED <<now, user, accounts, stored, tokens, shell>>

(***************************************************************************)
(* The shells.  `dirty` marks an uncommitted write: it holds the row's lock *)
(* or the index entry until the transaction ends.                           *)
(***************************************************************************)
Creates(command) == command \in {"create", "register"}

Command(o, command, u, arg) ==
  /\ shell[o].pc = "idle" /\ shell[o].ran < MaxCommands
  /\ shell' = [shell EXCEPT ![o] = [IdleShell EXCEPT !.pc = "select",
                !.command = command, !.user = u, !.arg = arg, !.ran = shell[o].ran + 1]]
  /\ UNCHANGED <<now, user, accounts, stored, tokens, req>>

Finish(o, outcome) ==
  shell' = [shell EXCEPT ![o].pc = "idle", ![o].outcome = outcome, ![o].dirty = FALSE]

\* Is what this command would create committed already?
Taken(o) ==
  IF shell[o].command = "create" THEN user[shell[o].user].exists
  ELSE <<shell[o].user, shell[o].arg>> \in accounts

\* _require and _scope_for: the row must exist.  The latter asks no more: an
\* operator may act for a user who is deactivated.
SelectUser(o) ==
  /\ shell[o].pc = "select"
  /\ IF shell[o].command = "create"
     THEN IF Taken(o) THEN Finish(o, "already exists")
                      ELSE shell' = [shell EXCEPT ![o].pc = "write"]
     ELSE IF ~user[shell[o].user].exists THEN Finish(o, "no user")
          ELSE shell' = [shell EXCEPT ![o].loaded = user[shell[o].user],
                 ![o].pc = IF shell[o].command = "register" THEN "find" ELSE "write"]
  /\ UNCHANGED <<now, user, accounts, stored, tokens, req>>

\* AccountRepository.register: by_key before the INSERT.
SelectAccount(o) ==
  /\ shell[o].pc = "find"
  /\ IF Taken(o) THEN Finish(o, "already exists")
                 ELSE shell' = [shell EXCEPT ![o].pc = "write"]
  /\ UNCHANGED <<now, user, accounts, stored, tokens, req>>

\* Mutant: no unique key to wait on.
BlockedNever(o) == FALSE

\* The uncommitted write of another shell that this one has to wait for.
Blocked(o) ==
  \E other \in Operators \ {o} :
    /\ shell[other].dirty
    /\ shell[other].user = shell[o].user
    /\ IF Creates(shell[o].command)
       THEN /\ shell[other].command = shell[o].command
            /\ shell[other].arg = shell[o].arg
       ELSE ~Creates(shell[other].command)

\* The flush.  A duplicate key is the IntegrityError both repositories turn
\* into "already exists"; a deactivation of a row loaded as inactive changes
\* no attribute, so it emits no UPDATE.
Write(o) ==
  /\ shell[o].pc = "write" /\ ~Blocked(o)
  /\ IF Creates(shell[o].command) /\ Taken(o)
     THEN Finish(o, "already exists")
     ELSE shell' = [shell EXCEPT ![o].pc = "commit",
            ![o].dirty = ~(shell[o].command = "deactivate" /\ ~shell[o].loaded.active)]
  /\ UNCHANGED <<now, user, accounts, stored, tokens, req>>

\* Mutant: an UPDATE that writes back every column it loaded.
RowAfterWhole(s, row) ==
  CASE s.command = "create"       -> [exists |-> TRUE, active |-> TRUE, password |-> NoPassword]
    [] s.command = "set-password" -> [s.loaded EXCEPT !.password = s.arg]
    [] s.command = "deactivate"   -> [s.loaded EXCEPT !.active = FALSE]
    [] OTHER                      -> row

\* The row after the command: an UPDATE names the changed column only.
RowAfter(s, row) ==
  CASE s.command = "create"       -> [exists |-> TRUE, active |-> TRUE, password |-> NoPassword]
    [] s.command = "set-password" -> [row EXCEPT !.password = s.arg]
    [] s.command = "deactivate"   -> [row EXCEPT !.active = IF s.dirty THEN FALSE ELSE @]
    [] OTHER                      -> row

Commit(o) ==
  /\ shell[o].pc = "commit"
  /\ user' = [user EXCEPT ![shell[o].user] = RowAfter(shell[o], @)]
  /\ accounts' = IF shell[o].command = "register"
                 THEN accounts \cup {<<shell[o].user, shell[o].arg>>} ELSE accounts
  /\ Finish(o, "done")
  /\ UNCHANGED <<now, stored, tokens, req>>

\* SQLAlchemyError, Ctrl-C, a lost connection: the transaction rolls back.
LoseShell(o) ==
  /\ shell[o].pc # "idle"
  /\ Finish(o, "failed")
  /\ UNCHANGED <<now, user, accounts, stored, tokens, req>>

RequestStep(r) ==
  \/ \E u \in Users, p \in Passwords : BeginLogin(r, u, p)
  \/ Throttle(r) \/ Authenticate(r) \/ IssueToken(r)
  \/ \E t \in tokens, k \in AccountKeys : BeginEntry(r, t, k)
  \/ DecodeToken(r) \/ LoadActiveUser(r) \/ FindAccount(r)
  \/ AnswerEntry(r) \/ CommitEntry(r) \/ LoseRequest(r)

ShellStep(o) ==
  \/ \E u \in Users :
       \/ Command(o, "create", u, NoKey)
       \/ Command(o, "deactivate", u, NoKey)
       \/ \E p \in Passwords : Command(o, "set-password", u, p)
       \/ \E k \in AccountKeys : Command(o, "register", u, k)
  \/ SelectUser(o) \/ SelectAccount(o) \/ Write(o) \/ Commit(o) \/ LoseShell(o)

AccessNext ==
  \/ NowTicks
  \/ \E r \in Requests : RequestStep(r)
  \/ \E o \in Operators : ShellStep(o)

AccessSpec == AccessInit /\ [][AccessNext]_accessVars

-----------------------------------------------------------------------------
Rows == [exists : BOOLEAN, active : BOOLEAN, password : Passwords \cup {NoPassword}]
TokenSet == [sub : Users, exp : Nat]

AccessTypeOK ==
  /\ now \in 0..MaxNow
  /\ user \in [Users -> Rows]
  /\ accounts \subseteq Users \X AccountKeys
  /\ stored \subseteq [by : Users, account : Users \X AccountKeys]
  /\ tokens \subseteq TokenSet
  /\ req \in [Requests ->
       [pc : {"idle", "login", "issue", "decode", "load", "account", "insert", "commit"},
        kind : {"none", "login", "entry"}, user : Users \cup {NoUser},
        key : AccountKeys \cup {NoKey}, password : Passwords \cup {NoPassword},
        token : [sub : Users \cup {NoUser}, exp : Nat],
        account : (Users \cup {NoUser}) \X (AccountKeys \cup {NoKey}),
        goneAtStart : BOOLEAN,
        answer : {"none", "token", "201", "401", "404", "429", "500"},
        served : 0..MaxRequests]]
  /\ shell \in [Operators ->
       [pc : {"idle", "select", "find", "write", "commit"},
        command : {"none", "create", "set-password", "deactivate", "register"},
        user : Users \cup {NoUser}, arg : AccountKeys \cup Passwords \cup {NoKey},
        loaded : Rows, dirty : BOOLEAN,
        outcome : {"none", "done", "failed", "no user", "already exists"},
        ran : 0..MaxCommands]]

\* auth.py, "a deactivation takes effect on the very next request": what a
\* request that began after the commit gets is never a token nor a 201,
\* however long ago it logged in.
DeactivationTakesEffect ==
  \A r \in Requests : req[r].answer \in {"token", "201"} => ~req[r].goneAtStart

\* users.py, deactivate: nothing turns a user on again, not even a
\* set-password that loaded the row while it was still active.
DeactivationStands ==
  [][\A u \in Users : Deactivated(u) => Deactivated(u)']_accessVars

\* create and register: the SELECT before the INSERT cannot see a concurrent
\* writer; the unique keys decide.  A shell that is told it registered
\* something was the only one, one that is told "already exists" is right.
RegistrationIsDecided ==
  \A o \in Operators :
    /\ shell[o].pc = "idle" /\ shell[o].outcome = "already exists" => Taken(o)
    /\ shell[o].pc = "commit" /\ Creates(shell[o].command) => ~Taken(o)

\* AccountRepository: two tenants may register the same key; an entry lands
\* in the account of the user its token names, an account they registered.
TenantsAreSeparate ==
  \A row \in stored : row.account[1] = row.by /\ row.account \in accounts
=============================================================================
