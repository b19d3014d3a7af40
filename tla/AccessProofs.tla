----------------------------- MODULE AccessProofs -----------------------------
(***************************************************************************)
(* Proofs about the two machines behind a login, Access and LoginLimiter,   *)
(* for any number of users, requests, shells and threads: deactivated users *)
(* stay out, registrations are decided by the unique keys, tenants are kept *)
(* apart, nobody is refused by a window that is over, and calls that do not *)
(* overlap stay within the budget.                                          *)
(***************************************************************************)
EXTENDS LoginLimiter, Access, FiniteSetTheorems, TLAPS


Req == [pc : {"idle", "login", "issue", "decode", "load", "account", "insert", "commit"},
        kind : {"none", "login", "entry"}, user : Users \cup {NoUser},
        key : AccountKeys \cup {NoKey}, password : Passwords \cup {NoPassword},
        token : [sub : Users \cup {NoUser}, exp : Nat],
        account : (Users \cup {NoUser}) \X (AccountKeys \cup {NoKey}),
        goneAtStart : BOOLEAN,
        answer : {"none", "token", "201", "401", "404", "429", "500"},
        served : 0..MaxRequests]

Shell == [pc : {"idle", "select", "find", "write", "commit"},
          command : {"none", "create", "set-password", "deactivate", "register"},
          user : Users \cup {NoUser}, arg : AccountKeys \cup Passwords \cup {NoKey},
          loaded : Rows, dirty : BOOLEAN,
          outcome : {"none", "done", "failed", "no user", "already exists"},
          ran : 0..MaxCommands]

\* What a shell knows of the command it runs.
ShellIsSound(o) ==
  /\ shell[o].pc # "idle" => shell[o].command # "none"
  /\ shell[o].command # "none" => shell[o].user \in Users
  /\ shell[o].command = "create" => shell[o].arg = NoKey
  /\ shell[o].command = "set-password" => shell[o].arg \in Passwords
  /\ shell[o].command = "register" => shell[o].arg \in AccountKeys
  /\ shell[o].pc = "commit" /\ Creates(shell[o].command) => shell[o].dirty /\ ~Taken(o)
  /\ shell[o].pc = "find" => shell[o].command = "register"
  /\ shell[o].outcome = "already exists" => Creates(shell[o].command) /\ Taken(o)

\* Two shells about to commit do not create the same thing.
CreatesApart ==
  \A o, p \in Operators :
    /\ o # p /\ shell[o].pc = "commit" /\ shell[p].pc = "commit"
    /\ Creates(shell[o].command) /\ shell[o].command = shell[p].command
    => <<shell[o].user, shell[o].arg>> # <<shell[p].user, shell[p].arg>>

\* What a request knows of the user and the account it acts for.
RequestIsSound(r) ==
  /\ req[r].pc # "idle" => req[r].user \in Users
  /\ req[r].pc \in {"login", "decode", "load"} /\ req[r].goneAtStart => Deactivated(req[r].user)
  /\ req[r].pc \in {"issue", "account", "insert", "commit"} => ~req[r].goneAtStart
  /\ req[r].answer \in {"token", "201"} => ~req[r].goneAtStart
  /\ req[r].pc \in {"insert", "commit"} =>
       req[r].account \in accounts /\ req[r].account[1] = req[r].user

ShellsAreSound == (\A o \in Operators : ShellIsSound(o)) /\ CreatesApart
RequestsAreSound == \A r \in Requests : RequestIsSound(r)

AccessInv == AccessTypeOK /\ ShellsAreSound /\ RequestsAreSound /\ TenantsAreSeparate

-----------------------------------------------------------------------------
LEMMA TypeOKShape ==
  AccessTypeOK <=>
    /\ now \in 0..MaxNow
    /\ user \in [Users -> Rows]
    /\ accounts \subseteq Users \X AccountKeys
    /\ stored \subseteq [by : Users, account : Users \X AccountKeys]
    /\ tokens \subseteq TokenSet
    /\ req \in [Requests -> Req]
    /\ shell \in [Operators -> Shell]
BY DEF AccessTypeOK, Req, Shell

LEMMA InitIsTyped == AccessInit => AccessTypeOK
<1> SUFFICES ASSUME AccessInit PROVE AccessTypeOK
  OBVIOUS
<1>1. IdleRequest \in Req
  BY AccessAssumption DEF IdleRequest, Req
<1>2. NoRow \in Rows
  BY DEF NoRow, Rows
<1>3. IdleShell \in Shell
  BY <1>2, AccessAssumption DEF IdleShell, Shell
<1> QED
  BY <1>1, <1>2, <1>3, TypeOKShape, AccessAssumption DEF AccessInit

PCs == {"idle", "login", "issue", "decode", "load", "account", "insert", "commit"}
Answers == {"none", "token", "201", "401", "404", "429", "500"}

\* The updates a request step makes keep a request a request.
LEMMA ReqUpdates ==
  ASSUME NEW q \in Req
  PROVE  /\ \A pc \in PCs : [q EXCEPT !.pc = pc] \in Req
         /\ \A a \in Answers : [q EXCEPT !.answer = a] \in Req
         /\ \A a \in Users \X AccountKeys : [q EXCEPT !.account = a] \in Req
<1>1. \A pc \in PCs : [q EXCEPT !.pc = pc] \in Req
  BY DEF Req, PCs
<1>2. \A a \in Answers : [q EXCEPT !.answer = a] \in Req
  BY DEF Req, Answers
<1>3. ASSUME NEW a \in Users \X AccountKeys PROVE [q EXCEPT !.account = a] \in Req
  <2>1. a \in (Users \cup {NoUser}) \X (AccountKeys \cup {NoKey})
    OBVIOUS
  <2> QED BY <2>1 DEF Req
<1> QED BY <1>1, <1>2, <1>3

LEMMA ReqUpdated ==
  ASSUME req \in [Requests -> Req], NEW r \in Requests, NEW q \in Req,
         req' = [req EXCEPT ![r] = q]
  PROVE  req' \in [Requests -> Req]
OBVIOUS

LEMMA ReplyIsTyped ==
  ASSUME req \in [Requests -> Req], NEW r \in Requests, NEW a \in Answers, Reply(r, a)
  PROVE  req' \in [Requests -> Req]
<1>1. req' = [req EXCEPT ![r] = [[@ EXCEPT !.answer = a] EXCEPT !.pc = "idle"]]
  BY Zenon DEF Reply
<1>2. [[req[r] EXCEPT !.answer = a] EXCEPT !.pc = "idle"] \in Req
  BY ReqUpdates DEF PCs
<1> QED
  BY <1>1, <1>2

\* A request step keeps the types; what it writes for its user and account is
\* typed only because it knows them by then.
LEMMA RequestKeepsTypes ==
  ASSUME AccessTypeOK, NEW r \in Requests, RequestIsSound(r), RequestStep(r)
  PROVE  AccessTypeOK'
<1>0. /\ now \in 0..MaxNow /\ user \in [Users -> Rows] /\ accounts \subseteq Users \X AccountKeys
      /\ stored \subseteq [by : Users, account : Users \X AccountKeys]
      /\ tokens \subseteq TokenSet /\ req \in [Requests -> Req] /\ shell \in [Operators -> Shell]
  BY TypeOKShape
<1> DEFINE q == req[r]
<1>q. q \in Req
  BY <1>0
<1>u. ASSUME UNCHANGED <<now, user, accounts, stored, tokens, shell>>, req' \in [Requests -> Req]
      PROVE  AccessTypeOK'
  BY <1>0, <1>u DEF AccessTypeOK, Req, Shell
<1>1. ASSUME NEW u \in Users, NEW p \in Passwords, BeginLogin(r, u, p) PROVE AccessTypeOK'
  <2>1. req' = [req EXCEPT ![r] = [IdleRequest EXCEPT !.pc = "login", !.kind = "login",
                  !.user = u, !.password = p, !.served = req[r].served + 1,
                  !.goneAtStart = Deactivated(u)]]
    BY <1>1 DEF BeginLogin
  <2>2. req[r].served + 1 \in 0..MaxRequests
    BY <1>q, <1>1, AccessAssumption DEF Req, BeginLogin, CanServe
  <2>3. Deactivated(u) \in BOOLEAN
    BY <1>0 DEF Deactivated, Rows
  <2>4. [IdleRequest EXCEPT !.pc = "login", !.kind = "login",
           !.user = u, !.password = p, !.served = req[r].served + 1,
           !.goneAtStart = Deactivated(u)] \in Req
    BY <2>2, <2>3 DEF IdleRequest, Req
  <2> QED
    BY <1>0, <1>1, <1>u, <2>1, <2>4 DEF BeginLogin
<1>2. ASSUME NEW t \in tokens, NEW k \in AccountKeys, BeginEntry(r, t, k) PROVE AccessTypeOK'
  <2>1. req' = [req EXCEPT ![r] = [IdleRequest EXCEPT !.pc = "decode", !.kind = "entry",
                  !.user = t.sub, !.token = t, !.key = k,
                  !.served = req[r].served + 1, !.goneAtStart = Deactivated(t.sub)]]
    BY <1>2 DEF BeginEntry
  <2>2. req[r].served + 1 \in 0..MaxRequests
    BY <1>q, <1>2, AccessAssumption DEF Req, BeginEntry, CanServe
  <2>t. t \in TokenSet /\ t.sub \in Users
    BY <1>0 DEF TokenSet
  <2>3. Deactivated(t.sub) \in BOOLEAN
    BY <1>0, <2>t DEF Deactivated, Rows
  <2>4. [IdleRequest EXCEPT !.pc = "decode", !.kind = "entry",
           !.user = t.sub, !.token = t, !.key = k,
           !.served = req[r].served + 1, !.goneAtStart = Deactivated(t.sub)] \in Req
    BY <2>2, <2>3, <2>t DEF IdleRequest, Req, TokenSet
  <2> QED
    BY <1>0, <1>2, <1>u, <2>1, <2>4 DEF BeginEntry
<1>3. CASE Throttle(r)
  BY <1>0, <1>3, <1>u, ReplyIsTyped DEF Throttle, Answers
<1>4. CASE Authenticate(r)
  <2>1. CASE req' = [req EXCEPT ![r].pc = "issue"]
    BY <1>0, <1>4, <1>u, <1>q, <2>1, ReqUpdates DEF Authenticate, PCs
  <2> QED
    BY <1>0, <1>4, <1>u, <2>1, ReplyIsTyped DEF Authenticate, Answers
<1>5. CASE IssueToken(r)
  <2>1. req' \in [Requests -> Req]
    BY <1>0, <1>5, ReplyIsTyped DEF IssueToken, Answers
  <2>2. req[r].user \in Users /\ now + TTL \in Nat
    BY <1>5, <1>0, AccessAssumption DEF RequestIsSound, IssueToken
  <2>3. tokens' \subseteq TokenSet
    BY <1>0, <1>5, <2>2 DEF IssueToken, TokenSet
  <2> QED
    BY <1>0, <1>5, <2>1, <2>3 DEF IssueToken, AccessTypeOK, Req, Shell
<1>6. CASE DecodeToken(r)
  <2>1. CASE req' = [req EXCEPT ![r].pc = "load"]
    BY <1>0, <1>6, <1>u, <1>q, <2>1, ReqUpdates DEF DecodeToken, PCs
  <2> QED
    BY <1>0, <1>6, <1>u, <2>1, ReplyIsTyped DEF DecodeToken, Answers
<1>7. CASE LoadActiveUser(r)
  <2>1. CASE req' = [req EXCEPT ![r].pc = "account"]
    BY <1>0, <1>7, <1>u, <1>q, <2>1, ReqUpdates DEF LoadActiveUser, PCs
  <2> QED
    BY <1>0, <1>7, <1>u, <2>1, ReplyIsTyped DEF LoadActiveUser, Answers
<1>8. CASE FindAccount(r)
  <2>1. ASSUME NEW a \in accounts, req' = [req EXCEPT ![r].pc = "insert", ![r].account = a]
        PROVE  req' \in [Requests -> Req]
    <3>1. req' = [req EXCEPT ![r] = [[@ EXCEPT !.pc = "insert"] EXCEPT !.account = a]]
      BY <2>1, Zenon
    <3>2. [[req[r] EXCEPT !.pc = "insert"] EXCEPT !.account = a] \in Req
      BY <1>0, <1>q, ReqUpdates DEF PCs
    <3> QED
      BY <1>0, <3>1, <3>2
  <2> QED
    BY <1>0, <1>8, <1>u, <2>1, ReplyIsTyped DEF FindAccount, AccountsFound, Answers
<1>9. CASE AnswerEntry(r)
  <2>1. req' = [req EXCEPT ![r] = [[@ EXCEPT !.pc = "commit"] EXCEPT !.answer = "201"]]
    BY <1>9, Zenon DEF AnswerEntry
  <2>2. [[req[r] EXCEPT !.pc = "commit"] EXCEPT !.answer = "201"] \in Req
    BY <1>q, ReqUpdates DEF PCs, Answers
  <2> QED
    BY <1>0, <1>9, <1>u, <2>1, <2>2 DEF AnswerEntry
<1>10. CASE CommitEntry(r)
  <2>1. req' \in [Requests -> Req]
    BY <1>0, <1>10, <1>q, ReqUpdates DEF CommitEntry, PCs
  <2>2. req[r].user \in Users /\ req[r].account \in Users \X AccountKeys
    BY <1>0, <1>10 DEF RequestIsSound, CommitEntry
  <2>3. stored' \subseteq [by : Users, account : Users \X AccountKeys]
    BY <1>0, <1>10, <2>2 DEF CommitEntry
  <2> QED
    BY <1>0, <1>10, <2>1, <2>3 DEF CommitEntry, AccessTypeOK, Req, Shell
<1>11. CASE LoseRequest(r)
  <2>1. (IF req[r].pc = "commit" THEN req[r].answer ELSE "500") \in Answers
    BY <1>q DEF Req, Answers
  <2> QED
    BY <1>0, <1>11, <1>u, <2>1, ReplyIsTyped DEF LoseRequest
<1> QED
  BY <1>1, <1>2, <1>3, <1>4, <1>5, <1>6, <1>7, <1>8, <1>9, <1>10, <1>11 DEF RequestStep

-----------------------------------------------------------------------------
ShellPCs == {"idle", "select", "find", "write", "commit"}
Outcomes == {"none", "done", "failed", "no user", "already exists"}

LEMMA ShellUpdates ==
  ASSUME NEW s \in Shell
  PROVE  /\ \A pc \in ShellPCs : [s EXCEPT !.pc = pc] \in Shell
         /\ \A out \in Outcomes : [s EXCEPT !.outcome = out] \in Shell
         /\ \A d \in BOOLEAN : [s EXCEPT !.dirty = d] \in Shell
         /\ \A row \in Rows : [s EXCEPT !.loaded = row] \in Shell
BY DEF Shell, ShellPCs, Outcomes

LEMMA FinishIsTyped ==
  ASSUME shell \in [Operators -> Shell], NEW o \in Operators, NEW out \in Outcomes, Finish(o, out)
  PROVE  shell' \in [Operators -> Shell]
<1>1. shell' = [shell EXCEPT ![o] = [[[@ EXCEPT !.pc = "idle"] EXCEPT !.outcome = out] EXCEPT !.dirty = FALSE]]
  BY Zenon DEF Finish
<1>2. [[[shell[o] EXCEPT !.pc = "idle"] EXCEPT !.outcome = out] EXCEPT !.dirty = FALSE] \in Shell
  BY ShellUpdates DEF ShellPCs
<1> QED
  BY <1>1, <1>2

\* What a command makes of a row is a row.
LEMMA RowAfterIsTyped ==
  ASSUME NEW s \in Shell, NEW row \in Rows, s.command = "set-password" => s.arg \in Passwords
  PROVE  RowAfter(s, row) \in Rows
<1>1. CASE s.command = "create"
  BY <1>1 DEF RowAfter, Rows
<1>2. CASE s.command = "set-password"
  <2>1. RowAfter(s, row) = [row EXCEPT !.password = s.arg]
    BY <1>2 DEF RowAfter
  <2> QED
    BY <1>2, <2>1 DEF Rows
<1>3. CASE s.command = "deactivate"
  <2>1. RowAfter(s, row) = [row EXCEPT !.active = IF s.dirty THEN FALSE ELSE @]
    BY <1>3 DEF RowAfter
  <2>2. s.dirty \in BOOLEAN /\ row.active \in BOOLEAN
    BY DEF Shell, Rows
  <2>3. (IF s.dirty THEN FALSE ELSE row.active) \in BOOLEAN
    BY <2>2
  <2>4. \A b \in BOOLEAN : [row EXCEPT !.active = b] \in Rows
    BY DEF Rows
  <2> QED
    BY <2>1, <2>3, <2>4
<1>4. CASE s.command \in {"none", "register"}
  BY <1>4 DEF RowAfter
<1> QED
  BY <1>1, <1>2, <1>3, <1>4 DEF Shell

\* A shell step keeps the types.
LEMMA ShellKeepsTypes ==
  ASSUME AccessTypeOK, NEW o \in Operators, ShellIsSound(o), ShellStep(o)
  PROVE  AccessTypeOK'
<1>0. /\ now \in 0..MaxNow /\ user \in [Users -> Rows] /\ accounts \subseteq Users \X AccountKeys
      /\ stored \subseteq [by : Users, account : Users \X AccountKeys]
      /\ tokens \subseteq TokenSet /\ req \in [Requests -> Req] /\ shell \in [Operators -> Shell]
  BY TypeOKShape
<1>s. shell[o] \in Shell
  BY <1>0
<1>u. ASSUME UNCHANGED <<now, user, accounts, stored, tokens, req>>, shell' \in [Operators -> Shell]
      PROVE  AccessTypeOK'
  BY <1>0, <1>u DEF AccessTypeOK, Req, Shell
<1>1. ASSUME NEW command \in {"create", "set-password", "deactivate", "register"}, NEW u \in Users,
             NEW arg \in AccountKeys \cup Passwords \cup {NoKey}, Command(o, command, u, arg)
      PROVE  AccessTypeOK'
  <2>1. shell' = [shell EXCEPT ![o] = [IdleShell EXCEPT !.pc = "select",
                    !.command = command, !.user = u, !.arg = arg, !.ran = shell[o].ran + 1]]
    BY <1>1 DEF Command
  <2>2. shell[o].ran + 1 \in 0..MaxCommands
    <3>1. shell[o].ran \in 0..MaxCommands
      BY <1>s DEF Shell
    <3>2. shell[o].ran < MaxCommands
      BY <1>1 DEF Command
    <3> QED
      BY <3>1, <3>2, AccessAssumption
  <2>3. NoRow \in Rows
    BY DEF NoRow, Rows
  <2>4. [IdleShell EXCEPT !.pc = "select", !.command = command, !.user = u, !.arg = arg,
                          !.ran = shell[o].ran + 1] \in Shell
    BY <2>2, <2>3 DEF IdleShell, Shell
  <2>5. shell' \in [Operators -> Shell]
    BY <1>0, <2>1, <2>4
  <2> QED
    BY <1>1, <1>u, <2>5 DEF Command
<1>2. CASE SelectUser(o)
  <2>1. CASE shell' = [shell EXCEPT ![o].pc = "write"]
    BY <1>0, <1>2, <1>u, <1>s, <2>1, ShellUpdates DEF SelectUser, ShellPCs
  <2>2. ASSUME NEW pc \in ShellPCs,
               shell' = [shell EXCEPT ![o].loaded = user[shell[o].user], ![o].pc = pc]
        PROVE  shell' \in [Operators -> Shell]
    <3>1. shell' = [shell EXCEPT ![o] = [[@ EXCEPT !.loaded = user[shell[o].user]] EXCEPT !.pc = pc]]
      BY <2>2, Zenon
    <3>2. user[shell[o].user] \in Rows
      BY <1>0, <1>2 DEF ShellIsSound, SelectUser
    <3>3. [[shell[o] EXCEPT !.loaded = user[shell[o].user]] EXCEPT !.pc = pc] \in Shell
      BY <1>s, <3>2, ShellUpdates
    <3> QED
      BY <1>0, <3>1, <3>3
  <2>3. ASSUME NEW out \in Outcomes, Finish(o, out) PROVE shell' \in [Operators -> Shell]
    BY <1>0, <2>3, FinishIsTyped
  <2>4. CASE shell[o].command = "create"
    BY <1>0, <1>2, <1>u, <2>1, <2>3, <2>4 DEF SelectUser, Outcomes
  <2>5. CASE shell[o].command # "create" /\ ~user[shell[o].user].exists
    BY <1>2, <1>u, <2>3, <2>5 DEF SelectUser, Outcomes
  <2>6. CASE shell[o].command # "create" /\ user[shell[o].user].exists
    <3> DEFINE pc == IF shell[o].command = "register" THEN "find" ELSE "write"
    <3>1. shell' = [shell EXCEPT ![o].loaded = user[shell[o].user], ![o].pc = pc]
      BY <1>2, <2>6 DEF SelectUser
    <3>2. pc \in ShellPCs
      BY DEF ShellPCs
    <3>3. shell' \in [Operators -> Shell]
      BY <2>2, <3>1, <3>2
    <3> QED
      BY <1>2, <1>u, <3>3 DEF SelectUser
  <2> QED
    BY <2>4, <2>5, <2>6
<1>3. CASE SelectAccount(o)
  <2>1. CASE shell' = [shell EXCEPT ![o].pc = "write"]
    BY <1>0, <1>3, <1>u, <1>s, <2>1, ShellUpdates DEF SelectAccount, ShellPCs
  <2> QED
    BY <1>0, <1>3, <1>u, <2>1, FinishIsTyped DEF SelectAccount, Outcomes
<1>4. CASE Write(o)
  <2>1. ASSUME NEW d \in BOOLEAN, shell' = [shell EXCEPT ![o].pc = "commit", ![o].dirty = d]
        PROVE  shell' \in [Operators -> Shell]
    <3>1. shell' = [shell EXCEPT ![o] = [[@ EXCEPT !.pc = "commit"] EXCEPT !.dirty = d]]
      BY <2>1, Zenon
    <3>2. [[shell[o] EXCEPT !.pc = "commit"] EXCEPT !.dirty = d] \in Shell
      BY <1>s, ShellUpdates DEF ShellPCs
    <3> QED
      BY <1>0, <3>1, <3>2
  <2> QED
    BY <1>0, <1>4, <1>u, <2>1, FinishIsTyped DEF Write, Outcomes
<1>5. CASE Commit(o)
  <2>1. shell' \in [Operators -> Shell]
    BY <1>0, <1>5, FinishIsTyped DEF Commit, Outcomes
  <2>2. shell[o].user \in Users /\ shell[o].command # "none"
    BY <1>5 DEF ShellIsSound, Commit
  <2>3. RowAfter(shell[o], user[shell[o].user]) \in Rows
    <3>1. user[shell[o].user] \in Rows
      BY <1>0, <2>2
    <3> QED
      BY <3>1, <1>s, RowAfterIsTyped, <1>5 DEF ShellIsSound
  <2>4. user' \in [Users -> Rows]
    BY <1>0, <1>5, <2>2, <2>3 DEF Commit
  <2>5. accounts' \subseteq Users \X AccountKeys
    <3>1. CASE shell[o].command = "register"
      <4>1. accounts' = accounts \cup {<<shell[o].user, shell[o].arg>>}
        BY <1>5, <3>1 DEF Commit
      <4>2. shell[o].arg \in AccountKeys
        BY <3>1 DEF ShellIsSound
      <4> QED
        BY <1>0, <2>2, <4>1, <4>2
    <3>2. CASE shell[o].command # "register"
      BY <1>0, <1>5, <3>2 DEF Commit
    <3> QED
      BY <3>1, <3>2
  <2> QED
    BY <1>0, <1>5, <2>1, <2>4, <2>5 DEF Commit, AccessTypeOK, Req, Shell
<1>6. CASE LoseShell(o)
  BY <1>0, <1>6, <1>u, FinishIsTyped DEF LoseShell, Outcomes
<1>7. /\ \A p \in Passwords : p \in AccountKeys \cup Passwords \cup {NoKey}
      /\ \A k \in AccountKeys : k \in AccountKeys \cup Passwords \cup {NoKey}
      /\ NoKey \in AccountKeys \cup Passwords \cup {NoKey}
  OBVIOUS
<1> QED
  BY <1>1, <1>2, <1>3, <1>4, <1>5, <1>6, <1>7 DEF ShellStep
-----------------------------------------------------------------------------
\* What a step of one shell does to the store: rows and accounts are only
\* added, nobody is turned on again, and nothing else moves.  The creation of
\* a user finds no row only because of the unique key.
LEMMA ShellGrows ==
  ASSUME AccessTypeOK, NEW o \in Operators, ShellIsSound(o), ShellStep(o)
  PROVE  /\ UNCHANGED <<now, stored, tokens, req>>
         /\ accounts \subseteq accounts'
         /\ \A u \in Users : user[u].exists => user'[u].exists
         /\ \A u \in Users : Deactivated(u) => Deactivated(u)'
<1>0. user \in [Users -> Rows]
  BY TypeOKShape
<1>1. CASE Commit(o)
  <2>0. shell[o].user \in Users /\ shell[o].command # "none"
    BY <1>1 DEF Commit, ShellIsSound
  <2>1. UNCHANGED <<now, stored, tokens, req>> /\ accounts \subseteq accounts'
    BY <1>1 DEF Commit
  <2> DEFINE v == shell[o].user
             row == user[v]
             after == RowAfter(shell[o], row)
  <2>2. user' = [user EXCEPT ![v] = after]
    BY <1>1 DEF Commit
  <2>3. row.exists => after.exists
    BY <1>0, <2>0 DEF RowAfter, Rows
  <2>4. row.exists /\ ~row.active => after.exists /\ ~after.active
    <3>1. CASE shell[o].command = "create"
      <4>1. ~row.exists
        BY <1>1, <3>1 DEF Commit, ShellIsSound, Creates, Taken
      <4> QED
        BY <4>1
    <3>2. CASE shell[o].command = "set-password"
      BY <1>0, <2>0, <3>2 DEF RowAfter, Rows
    <3>3. CASE shell[o].command = "deactivate"
      BY <1>0, <2>0, <3>3 DEF RowAfter, Rows
    <3>4. CASE shell[o].command \notin {"create", "set-password", "deactivate"}
      BY <3>4 DEF RowAfter
    <3> QED
      BY <3>1, <3>2, <3>3, <3>4
  <2>5. \A u \in Users : user'[u] = IF u = v THEN after ELSE user[u]
    BY <1>0, <2>0, <2>2
  <2> QED
    BY <2>1, <2>3, <2>4, <2>5 DEF Deactivated
<1>2. CASE ~Commit(o)
  <2>1. UNCHANGED <<now, user, accounts, stored, tokens, req>>
    BY <1>2 DEF ShellStep, Command, SelectUser, SelectAccount, Write, LoseShell
  <2> QED
    BY <2>1 DEF Deactivated
<1> QED
  BY <1>1, <1>2

\* A shell moves only its own record.
LEMMA ShellsMoveAlone ==
  ASSUME AccessTypeOK, NEW o \in Operators, ShellStep(o), NEW p \in Operators, p # o
  PROVE  shell'[p] = shell[p]
<1>0. shell \in [Operators -> Shell]
  BY TypeOKShape
<1>1. ASSUME NEW c, NEW u, NEW a, Command(o, c, u, a) PROVE shell'[p] = shell[p]
  BY <1>0, <1>1 DEF Command
<1>2. CASE SelectUser(o)
  BY <1>0, <1>2 DEF SelectUser, Finish
<1>3. CASE SelectAccount(o)
  BY <1>0, <1>3 DEF SelectAccount, Finish
<1>4. CASE Write(o)
  BY <1>0, <1>4 DEF Write, Finish
<1>5. CASE Commit(o)
  BY <1>0, <1>5 DEF Commit, Finish
<1>6. CASE LoseShell(o)
  BY <1>0, <1>6 DEF LoseShell, Finish
<1> QED
  BY <1>1, <1>2, <1>3, <1>4, <1>5, <1>6 DEF ShellStep

\* The command of shell o and what it is about stay as they are.
SameCommand(o) ==
  /\ shell'[o].command = shell[o].command
  /\ shell'[o].user = shell[o].user
  /\ shell'[o].arg = shell[o].arg

\* What is taken stays taken.
LEMMA TakenStays ==
  ASSUME NEW o \in Operators, SameCommand(o), accounts \subseteq accounts',
         \A u \in Users : user[u].exists => user'[u].exists,
         shell[o].command # "none" => shell[o].user \in Users,
         Taken(o), shell[o].command # "none"
  PROVE  Taken(o)'
BY DEF Taken, SameCommand

LEMMA FinishedIsSound ==
  ASSUME shell \in [Operators -> Shell], NEW o \in Operators, NEW out \in Outcomes, Finish(o, out),
         ShellIsSound(o), accounts \subseteq accounts',
         \A u \in Users : user[u].exists => user'[u].exists,
         out = "already exists" => Creates(shell[o].command) /\ Taken(o)
  PROVE  ShellIsSound(o)'
<1>0. shell[o] \in Shell /\ DOMAIN shell = Operators
  OBVIOUS
<1>1. SameCommand(o) /\ shell'[o].pc = "idle" /\ shell'[o].outcome = out
  BY <1>0 DEF Finish, SameCommand, Shell
<1>2. out = "already exists" => Creates(shell[o].command) /\ Taken(o)'
  BY <1>1, TakenStays DEF Creates, ShellIsSound
<1> QED
  BY <1>1, <1>2 DEF ShellIsSound, SameCommand, Creates

\* The steps of a shell keep what it knows of its command.
LEMMA ShellStaysSound ==
  ASSUME AccessTypeOK, NEW o \in Operators, ShellIsSound(o), ShellStep(o)
  PROVE  ShellIsSound(o)'
<1>0. shell \in [Operators -> Shell] /\ shell[o] \in Shell
  BY TypeOKShape
<1>m. accounts \subseteq accounts' /\ \A u \in Users : user[u].exists => user'[u].exists
  BY ShellGrows
<1>f. ASSUME NEW out \in Outcomes, Finish(o, out),
             out = "already exists" => Creates(shell[o].command) /\ Taken(o)
      PROVE  ShellIsSound(o)'
  BY <1>0, <1>m, <1>f, FinishedIsSound
\* A step that only moves the program counter on, towards the write.
<1>w. ASSUME NEW pc \in {"find", "write"}, SameCommand(o), shell'[o].pc = pc,
             shell'[o].outcome = shell[o].outcome, shell[o].pc # "idle",
             pc = "find" => shell[o].command = "register"
      PROVE  ShellIsSound(o)'
  <2>1. shell[o].command # "none" /\ (Taken(o) => Taken(o)')
    BY <1>m, <1>w, TakenStays DEF ShellIsSound
  <2> QED
    BY <1>w, <2>1 DEF ShellIsSound, SameCommand, Creates
<1>1. ASSUME NEW c \in {"create", "set-password", "deactivate", "register"}, NEW u \in Users, NEW a,
             Command(o, c, u, a), c = "create" => a = NoKey, c = "set-password" => a \in Passwords,
             c = "register" => a \in AccountKeys
      PROVE  ShellIsSound(o)'
  <2>1. /\ shell'[o].pc = "select" /\ shell'[o].command = c /\ shell'[o].user = u
        /\ shell'[o].arg = a /\ shell'[o].outcome = "none"
    BY <1>0, <1>1 DEF Command, IdleShell
  <2> QED
    BY <1>1, <2>1 DEF ShellIsSound
<1>2. CASE SelectUser(o)
  <2>1. CASE shell[o].command = "create" /\ Taken(o)
    BY <1>2, <1>f, <2>1 DEF SelectUser, Outcomes, Creates
  <2>2. CASE shell[o].command = "create" /\ ~Taken(o)
    <3>1. shell' = [shell EXCEPT ![o].pc = "write"]
      BY <1>2, <2>2 DEF SelectUser
    <3> QED
      BY <1>0, <1>2, <1>w, <3>1 DEF SelectUser, SameCommand, Shell
  <2>3. CASE shell[o].command # "create" /\ ~user[shell[o].user].exists
    BY <1>2, <1>f, <2>3 DEF SelectUser, Outcomes
  <2>4. CASE shell[o].command # "create" /\ user[shell[o].user].exists
    <3> DEFINE pc == IF shell[o].command = "register" THEN "find" ELSE "write"
    <3>1. shell' = [shell EXCEPT ![o].loaded = user[shell[o].user], ![o].pc = pc]
      BY <1>2, <2>4 DEF SelectUser
    <3>2. SameCommand(o) /\ shell'[o].pc = pc /\ shell'[o].outcome = shell[o].outcome
      BY <1>0, <3>1 DEF SameCommand, Shell
    <3> QED
      BY <1>2, <1>w, <3>2 DEF SelectUser
  <2> QED
    BY <2>1, <2>2, <2>3, <2>4
<1>3. CASE SelectAccount(o)
  <2>1. CASE Taken(o)
    BY <1>3, <1>f, <2>1 DEF SelectAccount, Outcomes, Creates, ShellIsSound
  <2>2. CASE ~Taken(o)
    <3>1. shell' = [shell EXCEPT ![o].pc = "write"]
      BY <1>3, <2>2 DEF SelectAccount
    <3> QED
      BY <1>0, <1>3, <1>w, <3>1 DEF SelectAccount, SameCommand, Shell
  <2> QED
    BY <2>1, <2>2
<1>4. CASE Write(o)
  <2>1. CASE Creates(shell[o].command) /\ Taken(o)
    BY <1>4, <1>f, <2>1 DEF Write, Outcomes
  <2>2. CASE ~(Creates(shell[o].command) /\ Taken(o))
    <3> DEFINE d == ~(shell[o].command = "deactivate" /\ ~shell[o].loaded.active)
    <3>1. shell' = [shell EXCEPT ![o].pc = "commit", ![o].dirty = d] /\ UNCHANGED <<user, accounts>>
      BY <1>4, <2>2 DEF Write
    <3>2. /\ SameCommand(o) /\ shell'[o].pc = "commit" /\ shell'[o].outcome = shell[o].outcome
          /\ shell'[o].dirty = d
      BY <1>0, <3>1 DEF SameCommand, Shell
    <3>3. Creates(shell[o].command) => d
      BY DEF Creates
    <3>4. Taken(o)' <=> Taken(o)
      BY <3>1, <3>2 DEF Taken, SameCommand
    <3> QED
      BY <1>4, <2>2, <3>2, <3>3, <3>4 DEF ShellIsSound, SameCommand, Creates, Write
  <2> QED
    BY <2>1, <2>2
<1>5. CASE Commit(o)
  BY <1>5, <1>f DEF Commit, Outcomes
<1>6. CASE LoseShell(o)
  BY <1>6, <1>f DEF LoseShell, Outcomes
<1> QED
  BY <1>1, <1>2, <1>3, <1>4, <1>5, <1>6 DEF ShellStep

\* A step of one shell leaves what another knows true: the commit of what the
\* other is about to create is the one that CreatesApart rules out.
LEMMA OtherShellStaysSound ==
  ASSUME AccessTypeOK, ShellsAreSound, NEW o \in Operators, ShellStep(o),
         NEW p \in Operators, p # o
  PROVE  ShellIsSound(p)'
<1>0. ShellIsSound(o) /\ ShellIsSound(p) /\ CreatesApart /\ user \in [Users -> Rows]
  BY TypeOKShape DEF ShellsAreSound
<1>1. shell'[p] = shell[p]
  BY ShellsMoveAlone
<1>2. SameCommand(p)
  BY <1>1 DEF SameCommand
<1>m. accounts \subseteq accounts' /\ \A u \in Users : user[u].exists => user'[u].exists
  BY <1>0, ShellGrows
<1>3. Taken(p) /\ shell[p].command # "none" => Taken(p)'
  BY <1>0, <1>2, <1>m, TakenStays DEF ShellIsSound
<1>4. ASSUME shell[p].pc = "commit", Creates(shell[p].command) PROVE ~Taken(p)'
  <2>0. ~Taken(p) /\ shell[p].user \in Users /\ shell[p].command # "none"
    BY <1>0, <1>4 DEF ShellIsSound
  <2>1. CASE Commit(o)
    <3>1. CASE shell[p].command = "create"
      <4>1. shell[p].arg = NoKey /\ ~user[shell[p].user].exists
        BY <1>0, <2>0, <3>1 DEF ShellIsSound, Taken
      <4>2. shell[o].user \in Users
        BY <1>0, <2>1 DEF ShellIsSound, Commit
      <4>3. user' = [user EXCEPT ![shell[o].user] = RowAfter(shell[o], user[shell[o].user])]
        BY <2>1 DEF Commit
      <4>4. CASE shell[o].user # shell[p].user
        BY <1>0, <1>1, <3>1, <4>1, <4>2, <4>3, <4>4, <2>0 DEF Taken
      <4>5. CASE shell[o].user = shell[p].user
        <5>1. shell[o].command # "create"
          <6> SUFFICES ASSUME shell[o].command = "create" PROVE FALSE
            OBVIOUS
          <6>1. shell[o].arg = NoKey
            BY <1>0 DEF ShellIsSound
          <6> QED
            BY <1>0, <1>4, <2>1, <3>1, <4>1, <4>5, <6>1 DEF CreatesApart, Commit
        <5>2. RowAfter(shell[o], user[shell[o].user]).exists = user[shell[o].user].exists
          BY <1>0, <4>2, <5>1 DEF RowAfter, Rows
        <5> QED
          BY <1>0, <1>1, <3>1, <4>1, <4>2, <4>3, <4>5, <5>2 DEF Taken
      <4> QED
        BY <4>4, <4>5
    <3>2. CASE shell[p].command # "create"
      <4>1. shell[p].command = "register"
        BY <1>4, <3>2 DEF Creates
      <4>2. <<shell[p].user, shell[p].arg>> \notin accounts
        BY <2>0, <3>2 DEF Taken
      <4>3. CASE shell[o].command = "register"
        <5>1. <<shell[o].user, shell[o].arg>> # <<shell[p].user, shell[p].arg>>
          BY <1>0, <1>4, <2>1, <4>1, <4>3 DEF CreatesApart, Commit, Creates
        <5> QED
          BY <1>1, <2>1, <3>2, <4>2, <5>1, <4>3 DEF Commit, Taken
      <4>4. CASE shell[o].command # "register"
        BY <1>1, <2>1, <3>2, <4>2, <4>4 DEF Commit, Taken
      <4> QED
        BY <4>3, <4>4
    <3> QED
      BY <3>1, <3>2
  <2>2. CASE ~Commit(o)
    <3>1. UNCHANGED <<user, accounts>>
      BY <2>2 DEF ShellStep, Command, SelectUser, SelectAccount, Write, LoseShell
    <3> QED
      BY <1>1, <2>0, <3>1 DEF Taken
  <2> QED
    BY <2>1, <2>2
<1> QED
  BY <1>0, <1>1, <1>3, <1>4 DEF ShellIsSound, Creates

\* Only a flush that waits for nobody brings a shell to its commit.
LEMMA CommitsAreReached ==
  ASSUME AccessTypeOK, NEW o \in Operators, ShellStep(o), shell'[o].pc = "commit"
  PROVE  /\ ~Blocked(o) /\ SameCommand(o)
<1>0. shell \in [Operators -> Shell] /\ shell[o] \in Shell
  BY TypeOKShape
<1>1. ~\E c, u, a : Command(o, c, u, a)
  BY <1>0 DEF Command, IdleShell
<1>f. ASSUME NEW out, Finish(o, out) PROVE FALSE
  <2>1. shell'[o].pc = "idle"
    BY <1>0, <1>f DEF Finish, Shell
  <2> QED
    BY <2>1
<1>2. ~SelectUser(o)
  <2> SUFFICES ASSUME SelectUser(o) PROVE FALSE
    OBVIOUS
  <2>1. CASE shell' = [shell EXCEPT ![o].pc = "write"]
    BY <1>0, <2>1
  <2>2. CASE shell' = [shell EXCEPT ![o].loaded = user[shell[o].user],
                 ![o].pc = IF shell[o].command = "register" THEN "find" ELSE "write"]
    BY <1>0, <2>2
  <2> QED
    BY <1>f, <2>1, <2>2 DEF SelectUser
<1>3. ~SelectAccount(o)
  <2>1. ASSUME shell' = [shell EXCEPT ![o].pc = "write"] PROVE FALSE
    BY <1>0, <2>1
  <2> QED
    BY <1>f, <2>1 DEF SelectAccount
<1>4. ~Commit(o) /\ ~LoseShell(o)
  BY <1>f DEF Commit, LoseShell
<1>5. Write(o)
  BY <1>1, <1>2, <1>3, <1>4 DEF ShellStep
<1>6. SameCommand(o)
  <2> DEFINE d == ~(shell[o].command = "deactivate" /\ ~shell[o].loaded.active)
  <2>1. shell' = [shell EXCEPT ![o].pc = "commit", ![o].dirty = d]
    BY <1>5, <1>f DEF Write
  <2> QED
    BY <1>0, <2>1 DEF SameCommand, Shell
<1> QED
  BY <1>5, <1>6 DEF Write

\* Two shells never come to create the same thing: the second waits for the
\* uncommitted write of the first.
LEMMA CreatesStayApart ==
  ASSUME AccessTypeOK, ShellsAreSound, NEW o \in Operators, ShellStep(o)
  PROVE  CreatesApart'
<1>0. CreatesApart /\ \A p \in Operators : ShellIsSound(p)
  BY DEF ShellsAreSound
<1>1. ASSUME NEW p \in Operators, p # o, shell'[o].pc = "commit", shell[p].pc = "commit",
             Creates(shell'[o].command), shell'[o].command = shell[p].command
      PROVE  <<shell'[o].user, shell'[o].arg>> # <<shell[p].user, shell[p].arg>>
  <2>1. ~Blocked(o) /\ SameCommand(o)
    BY <1>1, CommitsAreReached
  <2>2. Creates(shell[p].command) /\ shell[p].dirty
    BY <1>0, <1>1 DEF ShellIsSound
  <2> QED
    BY <1>1, <2>1, <2>2 DEF Blocked, SameCommand
<1>2. \A p \in Operators : p # o => shell'[p] = shell[p]
  BY ShellsMoveAlone
<1> QED
  BY <1>0, <1>1, <1>2 DEF CreatesApart

LEMMA ShellsStaySound ==
  ASSUME AccessTypeOK, ShellsAreSound, NEW o \in Operators, ShellStep(o)
  PROVE  ShellsAreSound'
<1>1. ShellIsSound(o)'
  BY ShellStaysSound DEF ShellsAreSound
<1>2. \A p \in Operators : p # o => ShellIsSound(p)'
  BY OtherShellStaysSound
<1>3. CreatesApart'
  BY CreatesStayApart
<1> QED
  BY <1>1, <1>2, <1>3 DEF ShellsAreSound

-----------------------------------------------------------------------------
LEMMA RequestsMoveAlone ==
  ASSUME AccessTypeOK, NEW r \in Requests, RequestStep(r), NEW p \in Requests, p # r
  PROVE  req'[p] = req[p]
<1>0. req \in [Requests -> Req]
  BY TypeOKShape
<1>1. ASSUME NEW u, NEW w, BeginLogin(r, u, w) PROVE req'[p] = req[p]
  BY <1>0, <1>1 DEF BeginLogin
<1>2. ASSUME NEW t, NEW k, BeginEntry(r, t, k) PROVE req'[p] = req[p]
  BY <1>0, <1>2 DEF BeginEntry
<1>3. CASE Throttle(r)
  BY <1>0, <1>3 DEF Throttle, Reply
<1>4. CASE Authenticate(r)
  BY <1>0, <1>4 DEF Authenticate, Reply
<1>5. CASE IssueToken(r)
  BY <1>0, <1>5 DEF IssueToken, Reply
<1>6. CASE DecodeToken(r)
  BY <1>0, <1>6 DEF DecodeToken, Reply
<1>7. CASE LoadActiveUser(r)
  BY <1>0, <1>7 DEF LoadActiveUser, Reply
<1>8. CASE FindAccount(r)
  BY <1>0, <1>8 DEF FindAccount, Reply
<1>9. CASE AnswerEntry(r)
  BY <1>0, <1>9 DEF AnswerEntry
<1>10. CASE CommitEntry(r)
  BY <1>0, <1>10 DEF CommitEntry
<1>11. CASE LoseRequest(r)
  BY <1>0, <1>11 DEF LoseRequest, Reply
<1> QED
  BY <1>1, <1>2, <1>3, <1>4, <1>5, <1>6, <1>7, <1>8, <1>9, <1>10, <1>11 DEF RequestStep

\* The steps of a request keep what it knows; the row it reads at login and
\* at load_active_user is where one that began too late is turned away.
LEMMA RequestStaysSound ==
  ASSUME AccessTypeOK, NEW r \in Requests, RequestIsSound(r), RequestStep(r)
  PROVE  RequestIsSound(r)' /\ UNCHANGED <<now, user, accounts, shell>>
<1>0. req \in [Requests -> Req] /\ req[r] \in Req /\ user \in [Users -> Rows]
  BY TypeOKShape
<1>s. UNCHANGED <<now, user, accounts, shell>>
  BY DEF RequestStep, BeginLogin, Throttle, Authenticate, IssueToken, BeginEntry, DecodeToken,
         LoadActiveUser, FindAccount, AnswerEntry, CommitEntry, LoseRequest
<1>1. ASSUME NEW u \in Users, NEW w, BeginLogin(r, u, w) PROVE RequestIsSound(r)'
  <2>1. /\ req'[r].pc = "login" /\ req'[r].user = u /\ req'[r].answer = "none"
        /\ req'[r].goneAtStart = Deactivated(u) /\ user' = user
    BY <1>0, <1>1 DEF BeginLogin, IdleRequest
  <2> QED
    BY <2>1 DEF RequestIsSound, Deactivated
<1>2. ASSUME NEW t \in tokens, NEW k, BeginEntry(r, t, k) PROVE RequestIsSound(r)'
  <2>1. t.sub \in Users
    BY TypeOKShape DEF TokenSet
  <2>2. /\ req'[r].pc = "decode" /\ req'[r].user = t.sub /\ req'[r].answer = "none"
        /\ req'[r].goneAtStart = Deactivated(t.sub) /\ user' = user
    BY <1>0, <1>2 DEF BeginEntry, IdleRequest
  <2> QED
    BY <2>1, <2>2 DEF RequestIsSound, Deactivated
<1>a. ASSUME NEW a \in Answers, Reply(r, a), a \in {"token", "201"} => ~req[r].goneAtStart
      PROVE  RequestIsSound(r)'
  <2>1. /\ req'[r].pc = "idle" /\ req'[r].answer = a
        /\ req'[r].goneAtStart = req[r].goneAtStart
    BY <1>0, <1>a DEF Reply, Req
  <2> QED
    BY <1>a, <2>1 DEF RequestIsSound
<1>3. CASE Throttle(r)
  BY <1>3, <1>a DEF Throttle, Answers
<1>4. CASE Authenticate(r)
  <2>1. CASE Authenticates(user[req[r].user], req[r].password)
    <3>1. req' = [req EXCEPT ![r].pc = "issue"] /\ UNCHANGED <<user, accounts>>
      BY <1>4, <2>1 DEF Authenticate
    <3>2. /\ req'[r].pc = "issue" /\ req'[r].user = req[r].user
          /\ req'[r].goneAtStart = req[r].goneAtStart /\ req'[r].answer = req[r].answer
      BY <1>0, <3>1 DEF Req
    <3>3. ~Deactivated(req[r].user)
      BY <2>1 DEF Authenticates, Deactivated
    <3> QED
      BY <1>4, <3>1, <3>2, <3>3 DEF RequestIsSound, Authenticate
  <2>2. CASE ~Authenticates(user[req[r].user], req[r].password)
    BY <1>4, <1>a, <2>2 DEF Authenticate, Answers
  <2> QED
    BY <2>1, <2>2
<1>5. CASE IssueToken(r)
  BY <1>5, <1>a DEF IssueToken, Answers, RequestIsSound
<1>6. CASE DecodeToken(r)
  <2>1. CASE TokenExpired(req[r].token, now)
    BY <1>6, <1>a, <2>1 DEF DecodeToken, Answers
  <2>2. CASE ~TokenExpired(req[r].token, now)
    <3>1. req' = [req EXCEPT ![r].pc = "load"] /\ UNCHANGED <<user, accounts>>
      BY <1>6, <2>2 DEF DecodeToken
    <3>2. /\ req'[r].pc = "load" /\ req'[r].user = req[r].user
          /\ req'[r].goneAtStart = req[r].goneAtStart /\ req'[r].answer = req[r].answer
      BY <1>0, <3>1 DEF Req
    <3> QED
      BY <1>6, <3>1, <3>2 DEF RequestIsSound, DecodeToken, Deactivated
  <2> QED
    BY <2>1, <2>2
<1>7. CASE LoadActiveUser(r)
  <2>1. CASE MayAct(user[req[r].user])
    <3>1. req' = [req EXCEPT ![r].pc = "account"] /\ UNCHANGED <<user, accounts>>
      BY <1>7, <2>1 DEF LoadActiveUser
    <3>2. /\ req'[r].pc = "account" /\ req'[r].user = req[r].user
          /\ req'[r].goneAtStart = req[r].goneAtStart /\ req'[r].answer = req[r].answer
      BY <1>0, <3>1 DEF Req
    <3>3. ~Deactivated(req[r].user)
      BY <2>1 DEF MayAct, Deactivated
    <3> QED
      BY <1>7, <3>1, <3>2, <3>3 DEF RequestIsSound, LoadActiveUser
  <2>2. CASE ~MayAct(user[req[r].user])
    BY <1>7, <1>a, <2>2 DEF LoadActiveUser, Answers
  <2> QED
    BY <2>1, <2>2
<1>8. CASE FindAccount(r)
  <2>1. CASE AccountsFound(req[r].user, req[r].key) = {}
    BY <1>8, <1>a, <2>1 DEF FindAccount, Answers
  <2>2. ASSUME NEW a \in AccountsFound(req[r].user, req[r].key),
               req' = [req EXCEPT ![r].pc = "insert", ![r].account = a]
        PROVE  RequestIsSound(r)'
    <3>1. /\ req'[r].pc = "insert" /\ req'[r].user = req[r].user /\ req'[r].account = a
          /\ req'[r].goneAtStart = req[r].goneAtStart /\ req'[r].answer = req[r].answer
      BY <1>0, <2>2 DEF Req
    <3>2. a \in accounts /\ a[1] = req[r].user /\ UNCHANGED <<user, accounts>>
      BY <1>8, <2>2 DEF AccountsFound, FindAccount
    <3> QED
      BY <1>8, <3>1, <3>2 DEF RequestIsSound, FindAccount
  <2> QED
    BY <1>8, <2>1, <2>2 DEF FindAccount
<1>9. CASE AnswerEntry(r)
  <2>1. req' = [req EXCEPT ![r].pc = "commit", ![r].answer = "201"] /\ UNCHANGED <<user, accounts>>
    BY <1>9 DEF AnswerEntry
  <2>2. /\ req'[r].pc = "commit" /\ req'[r].user = req[r].user /\ req'[r].account = req[r].account
        /\ req'[r].goneAtStart = req[r].goneAtStart /\ req'[r].answer = "201"
    BY <1>0, <2>1 DEF Req
  <2> QED
    BY <1>9, <2>1, <2>2 DEF RequestIsSound, AnswerEntry
<1>10. CASE CommitEntry(r)
  <2>1. /\ req'[r].pc = "idle" /\ req'[r].goneAtStart = req[r].goneAtStart
        /\ req'[r].answer = req[r].answer
    BY <1>0, <1>10 DEF CommitEntry, Req
  <2>2. req[r].answer \in {"token", "201"} => ~req[r].goneAtStart
    BY DEF RequestIsSound
  <2> QED
    BY <1>s, <2>1, <2>2 DEF RequestIsSound
<1>11. CASE LoseRequest(r)
  <2>1. PICK got : /\ got = (IF req[r].pc = "commit" THEN req[r].answer ELSE "500")
                   /\ Reply(r, got)
    BY <1>11 DEF LoseRequest
  <2>2. got \in Answers
    BY <1>0, <2>1 DEF Req, Answers
  <2>3. got \in {"token", "201"} => ~req[r].goneAtStart
    BY <2>1 DEF RequestIsSound
  <2> QED
    BY <1>s, <1>a, <2>1, <2>2, <2>3
<1> QED
  BY <1>1, <1>2, <1>3, <1>4, <1>5, <1>6, <1>7, <1>8, <1>9, <1>10, <1>11, <1>s DEF RequestStep

\* A request stays sound when the store only grows under it.
LEMMA RequestsOutliveTheStore ==
  ASSUME NEW r \in Requests, RequestIsSound(r), req' = req, accounts \subseteq accounts',
         \A u \in Users : Deactivated(u) => Deactivated(u)'
  PROVE  RequestIsSound(r)'
BY DEF RequestIsSound

\* The one step that stores a row stores it in the account it looked up.
LEMMA TenantsStaySeparate ==
  ASSUME AccessTypeOK, NEW r \in Requests, RequestIsSound(r), RequestStep(r), TenantsAreSeparate
  PROVE  TenantsAreSeparate'
<1>1. CASE CommitEntry(r)
  <2>1. req[r].account \in accounts /\ req[r].account[1] = req[r].user
    BY <1>1 DEF CommitEntry, RequestIsSound
  <2> QED
    BY <1>1, <2>1 DEF CommitEntry, TenantsAreSeparate
<1>2. CASE ~CommitEntry(r)
  <2>1. UNCHANGED <<stored, accounts>>
    BY <1>2 DEF RequestStep, BeginLogin, Throttle, Authenticate, IssueToken, BeginEntry,
         DecodeToken, LoadActiveUser, FindAccount, AnswerEntry, LoseRequest
  <2> QED
    BY <2>1 DEF TenantsAreSeparate
<1> QED
  BY <1>1, <1>2

-----------------------------------------------------------------------------
LEMMA InitIsSound == AccessInit => AccessInv
<1> SUFFICES ASSUME AccessInit PROVE AccessInv
  OBVIOUS
<1>1. AccessTypeOK
  BY InitIsTyped
<1>2. ShellsAreSound
  BY DEF AccessInit, ShellsAreSound, ShellIsSound, CreatesApart, IdleShell
<1>3. RequestsAreSound
  BY DEF AccessInit, RequestsAreSound, RequestIsSound, IdleRequest
<1>4. TenantsAreSeparate
  BY DEF AccessInit, TenantsAreSeparate
<1> QED
  BY <1>1, <1>2, <1>3, <1>4 DEF AccessInv

LEMMA StepsKeepSound == AccessInv /\ [AccessNext]_accessVars => AccessInv'
<1> SUFFICES ASSUME AccessInv, [AccessNext]_accessVars PROVE AccessInv'
  OBVIOUS
<1>0. AccessTypeOK /\ ShellsAreSound /\ RequestsAreSound /\ TenantsAreSeparate
  BY DEF AccessInv
<1>1. CASE UNCHANGED <<user, accounts, stored, tokens, req, shell>> /\ now' \in 0..MaxNow
  <2>1. AccessTypeOK'
    BY <1>0, <1>1 DEF AccessTypeOK
  <2>2. ShellsAreSound'
    BY <1>0, <1>1 DEF ShellsAreSound, ShellIsSound, CreatesApart, Taken, Creates
  <2>3. RequestsAreSound' /\ TenantsAreSeparate'
    BY <1>0, <1>1 DEF RequestsAreSound, RequestIsSound, TenantsAreSeparate, Deactivated
  <2> QED
    BY <2>1, <2>2, <2>3 DEF AccessInv
<1>2. CASE NowTicks
  <2>1. now' \in 0..MaxNow
    <3>1. now \in 0..MaxNow /\ now < MaxNow /\ now' = now + 1
      BY <1>0, <1>2, TypeOKShape DEF NowTicks
    <3> QED
      BY <3>1, AccessAssumption
  <2> QED
    BY <1>1, <1>2, <2>1 DEF NowTicks
<1>3. CASE UNCHANGED accessVars
  <2>1. now' \in 0..MaxNow
    BY <1>0, <1>3 DEF accessVars, AccessTypeOK
  <2> QED
    BY <1>1, <1>3, <2>1 DEF accessVars
<1>4. ASSUME NEW r \in Requests, RequestStep(r) PROVE AccessInv'
  <2>0. RequestIsSound(r)
    BY <1>0 DEF RequestsAreSound
  <2>1. AccessTypeOK'
    BY <1>0, <1>4, <2>0, RequestKeepsTypes
  <2>2. RequestIsSound(r)' /\ UNCHANGED <<now, user, accounts, shell>>
    BY <1>0, <1>4, <2>0, RequestStaysSound
  <2>3. ASSUME NEW p \in Requests, p # r PROVE RequestIsSound(p)'
    <3>1. req'[p] = req[p]
      BY <1>0, <1>4, <2>3, RequestsMoveAlone
    <3> QED
      BY <1>0, <2>2, <3>1 DEF RequestsAreSound, RequestIsSound, Deactivated
  <2>4. RequestsAreSound'
    BY <2>2, <2>3 DEF RequestsAreSound
  <2>5. ShellsAreSound'
    BY <1>0, <2>2 DEF ShellsAreSound, ShellIsSound, CreatesApart, Taken, Creates
  <2>6. TenantsAreSeparate'
    BY <1>0, <1>4, <2>0, TenantsStaySeparate
  <2> QED
    BY <2>1, <2>4, <2>5, <2>6 DEF AccessInv
<1>5. ASSUME NEW o \in Operators, ShellStep(o) PROVE AccessInv'
  <2>0. ShellIsSound(o)
    BY <1>0 DEF ShellsAreSound
  <2>1. AccessTypeOK'
    BY <1>0, <1>5, <2>0, ShellKeepsTypes
  <2>2. ShellsAreSound'
    BY <1>0, <1>5, ShellsStaySound
  <2>3. /\ UNCHANGED <<stored, req>> /\ accounts \subseteq accounts'
        /\ \A u \in Users : Deactivated(u) => Deactivated(u)'
    BY <1>0, <1>5, <2>0, ShellGrows
  <2>4. RequestsAreSound'
    BY <1>0, <2>3, RequestsOutliveTheStore DEF RequestsAreSound
  <2>5. TenantsAreSeparate'
    BY <1>0, <2>3 DEF TenantsAreSeparate
  <2> QED
    BY <2>1, <2>2, <2>4, <2>5 DEF AccessInv
<1> QED
  BY <1>2, <1>3, <1>4, <1>5 DEF AccessNext

\* The inductive invariant holds in every reachable state.
THEOREM AccessIsSound == AccessSpec => []AccessInv
BY InitIsSound, StepsKeepSound, PTL DEF AccessSpec

\* Every variable of Access keeps its type.
THEOREM TypeCorrect == AccessSpec => []AccessTypeOK
<1>1. AccessInv => AccessTypeOK
  BY DEF AccessInv
<1> QED
  BY <1>1, AccessIsSound, PTL

\* A request that began after a deactivation was committed never gets a token
\* or stores an entry, however many requests and shells there are.
THEOREM DeactivationsTakeEffect == AccessSpec => []DeactivationTakesEffect
<1>1. AccessInv => DeactivationTakesEffect
  BY DEF AccessInv, RequestsAreSound, RequestIsSound, DeactivationTakesEffect
<1> QED
  BY <1>1, AccessIsSound, PTL

\* No step turns a deactivated user on again.
THEOREM DeactivationsStand == AccessSpec => DeactivationStands
<1>1. AccessInv /\ [AccessNext]_accessVars =>
        [\A u \in Users : Deactivated(u) => Deactivated(u)']_accessVars
  <2> SUFFICES ASSUME AccessInv, AccessNext
               PROVE  \A u \in Users : Deactivated(u) => Deactivated(u)'
    OBVIOUS
  <2>0. AccessTypeOK /\ ShellsAreSound /\ RequestsAreSound
    BY DEF AccessInv
  <2>1. CASE NowTicks
    BY <2>1 DEF NowTicks, Deactivated
  <2>2. ASSUME NEW r \in Requests, RequestStep(r)
        PROVE  \A u \in Users : Deactivated(u) => Deactivated(u)'
    <3>1. user' = user
      BY <2>0, <2>2, RequestStaysSound DEF RequestsAreSound
    <3> QED
      BY <3>1 DEF Deactivated
  <2>3. ASSUME NEW o \in Operators, ShellStep(o)
        PROVE  \A u \in Users : Deactivated(u) => Deactivated(u)'
    BY <2>0, <2>3, ShellGrows DEF ShellsAreSound
  <2> QED
    BY <2>1, <2>2, <2>3 DEF AccessNext
<1> QED
  BY <1>1, AccessIsSound, PTL DEF AccessSpec, DeactivationStands

\* A shell told "already exists" is right, and one about to commit a creation
\* is the only one: the unique keys decide what the SELECT cannot see.
THEOREM RegistrationsAreDecided == AccessSpec => []RegistrationIsDecided
<1>1. AccessInv => RegistrationIsDecided
  BY DEF AccessInv, ShellsAreSound, ShellIsSound, RegistrationIsDecided
<1> QED
  BY <1>1, AccessIsSound, PTL

\* Every stored entry lies in an account its own user registered.
THEOREM TenantsStayApart == AccessSpec => []TenantsAreSeparate
<1>1. AccessInv => TenantsAreSeparate
  BY DEF AccessInv
<1> QED
  BY <1>1, AccessIsSound, PTL
-----------------------------------------------------------------------------
(***************************************************************************)
(* LoginLimiter                                                             *)
(***************************************************************************)

(* The invariant *)

Entry == [spelling : Spellings, at : Nat, done : Nat, verdict : {"allowed", "refused", "error"}]
Opened == [startedAt : Nat, count : Nat]
Frame == [pc : {"idle", "sweep", "sweeping", "delete", "get", "count"},
          spelling : Spellings \cup {""}, at : Nat,
          size : {Cardinality(S) : S \in SUBSET Keys} \cup {0},
          expired : SUBSET Keys, got : Nat]

Shape ==
  /\ clock \in Nat
  /\ heap \in Seq(Opened)
  /\ DOMAIN windows \subseteq Keys
  /\ call \in [Threads -> Frame]
  /\ log \in Seq(Entry)

\* No time lies in the future, and a call knows whom it is for.
Timely ==
  /\ \A w \in 1..Len(heap) : heap[w].startedAt <= clock
  /\ \A t \in Threads : Busy(t) => call[t].spelling \in Spellings /\ call[t].at <= clock

\* The calls for an address that were let through since an instant.
Since(addr, from) == {i \in Admitted(addr) : log[i].done >= from}

\* Every call a window counted, up to the limit, was let through since the
\* window opened.
Backed(addr, from, count) ==
  \/ Cardinality(Since(addr, from)) >= count
  \/ Cardinality(Since(addr, from)) >= MaxAttempts

\* Every window belongs to one address: its key's, and that of the calls that
\* found it there, also when it was dropped since.
Owns(owner) ==
  /\ owner \in [1..Len(heap) -> Keys]
  /\ \A k \in DOMAIN windows : windows[k] \in 1..Len(heap) /\ owner[windows[k]] = k
  /\ \A t \in Threads :
       (call[t].pc = "count" /\ call[t].got # NoWindow) =>
         call[t].got \in 1..Len(heap) /\ owner[call[t].got] = LimiterKey(call[t].spelling)
  /\ \A w \in 1..Len(heap) : Backed(owner[w], heap[w].startedAt, heap[w].count)

Before(i) == {j \in Admitted(Address[log[i].spelling]) : j < i /\ log[j].done > log[i].at - Window}

LInv == Shape /\ Timely /\ NoFalseRefusal /\ \E owner \in [1..Len(heap) -> Keys] : Owns(owner)

-----------------------------------------------------------------------------
(* The log only grows *)

LEMMA SinceIsFinite ==
  ASSUME Shape, NEW addr, NEW from
  PROVE  IsFiniteSet(Since(addr, from)) /\ Cardinality(Since(addr, from)) \in Nat
  <1>1. Len(log) \in Nat
    BY DEF Shape
  <1>2. IsFiniteSet(1..Len(log)) /\ Since(addr, from) \subseteq 1..Len(log)
    BY <1>1, FS_Interval DEF Since, Admitted
  <1> QED BY <1>2, FS_Subset, FS_CardinalityType

LEMMA AppendProperties ==
  ASSUME Shape, NEW e \in Entry, log' = Append(log, e), NEW addr, NEW from
  PROVE  /\ Since(addr, from) \subseteq Since(addr, from)'
         /\ Len(log) + 1 \notin Since(addr, from)
         /\ (Address[e.spelling] = addr /\ e.verdict = "allowed" /\ e.done >= from) =>
               Since(addr, from)' = Since(addr, from) \cup {Len(log) + 1}
         /\ IsFiniteSet(Since(addr, from)')
  <1>1. /\ Len(log) \in Nat /\ log' \in Seq(Entry) /\ Len(log') = Len(log) + 1
        /\ log'[Len(log) + 1] = e /\ \A i \in 1..Len(log) : log'[i] = log[i]
    BY DEF Shape
  <1>2. IsFiniteSet(1..Len(log')) /\ Since(addr, from)' \subseteq 1..Len(log')
    BY <1>1, FS_Interval DEF Since, Admitted
  <1>3. IsFiniteSet(Since(addr, from)')
    BY <1>2, FS_Subset
  <1>4. Since(addr, from) \subseteq Since(addr, from)'
    BY <1>1 DEF Since, Admitted
  <1>5. Len(log) + 1 \notin Since(addr, from)
    BY <1>1 DEF Since, Admitted
  <1>6. ASSUME Address[e.spelling] = addr, e.verdict = "allowed", e.done >= from
        PROVE  Since(addr, from)' = Since(addr, from) \cup {Len(log) + 1}
    BY <1>1, <1>6 DEF Since, Admitted
  <1> QED BY <1>3, <1>4, <1>5, <1>6

LEMMA BackedGrows ==
  ASSUME Shape, NEW addr, NEW from, NEW count \in Nat, Backed(addr, from, count),
         log' = log \/ \E e \in Entry : log' = Append(log, e)
  PROVE  Backed(addr, from, count)'
  <1>1. CASE log' = log
    BY <1>1 DEF Backed, Since, Admitted
  <1>2. ASSUME NEW e \in Entry, log' = Append(log, e) PROVE Backed(addr, from, count)'
    <2>1. /\ Since(addr, from) \subseteq Since(addr, from)' /\ IsFiniteSet(Since(addr, from)')
      BY <1>2, AppendProperties
    <2>2. Cardinality(Since(addr, from)) <= Cardinality(Since(addr, from)')
      BY <2>1, FS_Subset
    <2>3. Cardinality(Since(addr, from)) \in Nat /\ Cardinality(Since(addr, from)') \in Nat
      BY <2>1, SinceIsFinite, FS_CardinalityType
    <2> QED BY <2>2, <2>3, LimiterAssumption DEF Backed
  <1> QED BY <1>1, <1>2

LEMMA CountedIsBacked ==
  ASSUME Shape, NEW e \in Entry, log' = Append(log, e), e.verdict = "allowed",
         NEW from, e.done >= from, NEW count \in Nat,
         Backed(Address[e.spelling], from, count)
  PROVE  Backed(Address[e.spelling], from, count + 1)'
  <1> DEFINE addr == Address[e.spelling]
  <1>1. /\ Since(addr, from)' = Since(addr, from) \cup {Len(log) + 1}
        /\ Len(log) + 1 \notin Since(addr, from)
    BY AppendProperties
  <1>2. IsFiniteSet(Since(addr, from)) /\ Cardinality(Since(addr, from)) \in Nat
    BY SinceIsFinite
  <1>3. Cardinality(Since(addr, from)') = Cardinality(Since(addr, from)) + 1
    BY <1>1, <1>2, FS_AddElement
  <1> QED BY <1>2, <1>3, LimiterAssumption DEF Backed

\* Refusals that were justified stay so, and so is a new one with enough behind it.
LEMMA RefusalsStand ==
  ASSUME Shape, NoFalseRefusal, NEW e \in Entry, log' = Append(log, e),
         e.verdict = "refused" =>
           \E from \in Nat : /\ from > e.at - Window
                             /\ Cardinality(Since(Address[e.spelling], from)) >= MaxAttempts
  PROVE  NoFalseRefusal'
  <1>1. /\ Len(log) \in Nat /\ log \in Seq(Entry) /\ log' \in Seq(Entry)
        /\ Len(log') = Len(log) + 1
        /\ log'[Len(log) + 1] = e /\ \A i \in 1..Len(log) : log'[i] = log[i]
    BY DEF Shape
  <1>2. ASSUME NEW i \in 1..Len(log) PROVE Before(i)' = Before(i)
    BY <1>1 DEF Before, Admitted
  <1>3. ASSUME NEW i \in 1..Len(log), log'[i].verdict = "refused"
        PROVE  Cardinality(Before(i)') >= MaxAttempts
    BY <1>1, <1>2, <1>3 DEF NoFalseRefusal, Before
  <1>4. ASSUME e.verdict = "refused", NEW n, n = Len(log) + 1
        PROVE  Cardinality(Before(n)') >= MaxAttempts
    <2> DEFINE addr == Address[e.spelling]
    <2>1. PICK from \in Nat : from > e.at - Window /\ Cardinality(Since(addr, from)) >= MaxAttempts
      BY <1>4
    <2>2. Before(n)' = {j \in 1..Len(log') : /\ Address[log'[j].spelling] = addr
                                             /\ log'[j].verdict = "allowed"
                                             /\ j < n /\ log'[j].done > e.at - Window}
      BY <1>1, <1>4 DEF Before, Admitted
    <2>3. Since(addr, from) \subseteq Before(n)'
      <3>1. SUFFICES ASSUME NEW j \in Since(addr, from) PROVE j \in Before(n)'
        OBVIOUS
      <3>2. /\ j \in 1..Len(log) /\ Address[log[j].spelling] = addr
            /\ log[j].verdict = "allowed" /\ log[j].done >= from
        BY DEF Since, Admitted
      <3>3. j < n /\ j \in 1..Len(log') /\ log'[j] = log[j] /\ log[j] \in Entry
        BY <1>1, <1>4, <3>2
      <3>4. log[j].done \in Nat /\ e.at \in Nat
        BY <3>3 DEF Entry
      <3>5. log[j].done > e.at - Window
        BY <2>1, <3>2, <3>4, LimiterAssumption
      <3> QED BY <2>2, <3>2, <3>3, <3>5
    <2>4. IsFiniteSet(Before(n)')
      <3>1. Before(n)' \subseteq 1..Len(log')
        BY <2>2
      <3>2. IsFiniteSet(1..Len(log'))
        BY <1>1, FS_Interval
      <3> QED BY <3>1, <3>2, FS_Subset
    <2>5. Cardinality(Since(addr, from)) <= Cardinality(Before(n)')
      BY <2>3, <2>4, FS_Subset
    <2>6. Cardinality(Since(addr, from)) \in Nat /\ Cardinality(Before(n)') \in Nat
      BY <2>4, SinceIsFinite, FS_CardinalityType
    <2> QED BY <2>1, <2>5, <2>6, LimiterAssumption
  <1>5. \A i \in 1..Len(log') : log'[i].verdict = "refused" => Cardinality(Before(i)') >= MaxAttempts
    BY <1>1, <1>3, <1>4
  <1> QED BY <1>5 DEF NoFalseRefusal, Before

-----------------------------------------------------------------------------
(* Steps *)

LEMMA Frames ==
  ASSUME Shape, NEW t \in Threads
  PROVE  /\ call[t] \in Frame /\ DOMAIN call = Threads
         /\ clock \in Nat /\ Len(heap) \in Nat /\ Len(log) \in Nat
         /\ \A w \in 1..Len(heap) : heap[w] \in Opened
  <1>1. call \in [Threads -> Frame] /\ clock \in Nat /\ log \in Seq(Entry)
        /\ heap \in Seq(Opened)
    BY DEF Shape
  <1>2. call[t] \in Frame /\ DOMAIN call = Threads
    BY <1>1
  <1>3. Len(heap) \in Nat /\ Len(log) \in Nat
    BY <1>1
  <1>4. \A w \in 1..Len(heap) : heap[w] \in Opened
    BY <1>1
  <1> QED BY <1>1, <1>2, <1>3, <1>4

\* The same with names of their own for a window's fields.
LEMMA WindowGrows ==
  ASSUME Shape, NEW addr, NEW w \in 1..Len(heap), Backed(addr, heap[w].startedAt, heap[w].count),
         log' = log \/ \E e \in Entry : log' = Append(log, e),
         heap'[w] = heap[w]
  PROVE  Backed(addr, heap[w].startedAt, heap[w].count)'
  <1>1. heap[w].startedAt \in Nat /\ heap[w].count \in Nat
    <2>1. heap \in Seq(Opened)
      BY DEF Shape
    <2>2. heap[w] \in Opened
      BY <2>1
    <2> QED BY <2>2 DEF Opened
  <1>2. PICK from, count : from = heap[w].startedAt /\ count = heap[w].count /\ count \in Nat
    BY <1>1
  <1>3. Backed(addr, from, count)'
    BY <1>2, BackedGrows
  <1>4. from = heap'[w].startedAt /\ count = heap'[w].count
    BY <1>2
  <1> QED BY <1>3, <1>4 DEF Backed

LEMMA AnswerProperties ==
  ASSUME Shape, Timely, NEW t \in Threads, Busy(t), NEW verdict \in {"allowed", "refused", "error"},
         Answer(t, verdict)
  PROVE  \E e \in Entry :
           /\ log' = Append(log, e) /\ e.verdict = verdict /\ e.done = clock /\ e.at = call[t].at
           /\ e.spelling = call[t].spelling
           /\ log' \in Seq(Entry) /\ call' \in [Threads -> Frame]
           /\ call'[t] = IdleCall /\ \A u \in Threads \ {t} : call'[u] = call[u]
  <1> DEFINE e == [spelling |-> call[t].spelling, at |-> call[t].at, done |-> clock,
                   verdict |-> verdict]
  <1>1. e \in Entry
    BY Frames DEF Timely, Entry, Frame
  <1>2. IdleCall \in Frame
    BY DEF IdleCall, Frame, NoWindow
  <1>3. log' = Append(log, e) /\ call' = [call EXCEPT ![t] = IdleCall]
    BY DEF Answer
  <1>4. log' \in Seq(Entry) /\ call' \in [Threads -> Frame]
    BY <1>1, <1>2, <1>3 DEF Shape
  <1>5. call'[t] = IdleCall /\ \A u \in Threads \ {t} : call'[u] = call[u]
    BY <1>3, Frames
  <1> QED BY <1>1, <1>3, <1>4, <1>5

\* A step of a call that opens and counts nothing.
LEMMA CalmStep ==
  ASSUME LInv, NEW t \in Threads, UNCHANGED <<clock, heap>>,
         DOMAIN windows' \subseteq DOMAIN windows,
         \A k \in DOMAIN windows' : windows'[k] = windows[k],
         log' = log \/ \E e \in Entry : log' = Append(log, e) /\ e.verdict = "error",
         Shape', \A u \in Threads \ {t} : call'[u] = call[u],
         call'[t].pc # "idle" => call'[t].spelling \in Spellings /\ call'[t].at <= clock,
         (call'[t].pc = "count" /\ call'[t].got # NoWindow) =>
            /\ LimiterKey(call'[t].spelling) \in DOMAIN windows
            /\ call'[t].got = windows[LimiterKey(call'[t].spelling)]
  PROVE  LInv'
  <1>1. PICK owner \in [1..Len(heap) -> Keys] : Owns(owner)
    BY DEF LInv
  <1>2. Shape /\ Timely /\ NoFalseRefusal
    BY DEF LInv
  <1>3. Timely'
    BY <1>2 DEF Timely, Busy
  <1>4. NoFalseRefusal'
    <2>1. CASE log' = log
      BY <1>2, <2>1 DEF NoFalseRefusal, Admitted
    <2>2. ASSUME NEW e \in Entry, log' = Append(log, e), e.verdict = "error"
          PROVE  NoFalseRefusal'
      BY <1>2, <2>2, RefusalsStand
    <2> QED BY <2>1, <2>2
  <1>5. ASSUME NEW w \in 1..Len(heap) PROVE Backed(owner[w], heap[w].startedAt, heap[w].count)'
    BY <1>1, <1>2, WindowGrows DEF Owns
  <1>6. ASSUME NEW u \in Threads, call'[u].pc = "count", call'[u].got # NoWindow
        PROVE  call'[u].got \in 1..Len(heap) /\ owner[call'[u].got] = LimiterKey(call'[u].spelling)
    BY <1>1, <1>6 DEF Owns
  <1>7. Owns(owner)'
    BY <1>1, <1>5, <1>6 DEF Owns, LimiterKey
  <1> QED BY <1>1, <1>3, <1>4, <1>7 DEF LInv

LEMMA EnterCheckStep ==
  ASSUME LInv, NEW t \in Threads, NEW s \in Spellings, EnterCheck(t, s) PROVE LInv'
  <1>1. Shape /\ Timely
    BY DEF LInv
  <1> DEFINE frame == [IdleCall EXCEPT !.pc = "sweep", !.spelling = s, !.at = clock]
  <1>2. frame \in Frame /\ frame.pc = "sweep" /\ frame.spelling = s /\ frame.at = clock
    BY <1>1 DEF IdleCall, NoWindow, Frame, Shape
  <1>3. call' = [call EXCEPT ![t] = frame] /\ UNCHANGED <<clock, heap, windows, log>>
    BY DEF EnterCheck
  <1> HIDE DEF frame
  <1>4. /\ call' \in [Threads -> Frame] /\ call'[t] = frame
        /\ \A u \in Threads \ {t} : call'[u] = call[u]
    BY <1>1, <1>2, <1>3 DEF Shape
  <1>5. Shape'
    BY <1>1, <1>3, <1>4 DEF Shape
  <1>6. clock <= clock
    BY <1>1 DEF Shape
  <1> QED BY <1>2, <1>3, <1>4, <1>5, <1>6, CalmStep

LEMMA BeginSweepStep ==
  ASSUME LInv, NEW t \in Threads, BeginSweep(t) PROVE LInv'
  <1>1. Shape /\ Timely
    BY DEF LInv
  <1> DEFINE frame == [call[t] EXCEPT !.pc = "sweeping", !.size = Cardinality(DOMAIN windows),
                                      !.expired = ExpiredKeys(call[t].at)]
  <1>2. /\ Cardinality(DOMAIN windows) \in {Cardinality(S) : S \in SUBSET Keys}
        /\ ExpiredKeys(call[t].at) \in SUBSET Keys
    BY <1>1 DEF Shape, ExpiredKeys
  <1>3. frame \in Frame /\ frame.pc = "sweeping" /\ frame.spelling = call[t].spelling
        /\ frame.at = call[t].at
    BY <1>1, <1>2, Frames DEF Frame
  <1>4. /\ call' = [call EXCEPT ![t] = frame] /\ UNCHANGED <<clock, heap, windows, log>>
        /\ Busy(t)
    BY <1>1, Frames DEF BeginSweep, Busy
  <1> HIDE DEF frame
  <1>5. /\ call' \in [Threads -> Frame] /\ call'[t] = frame
        /\ \A u \in Threads \ {t} : call'[u] = call[u]
    BY <1>1, <1>3, <1>4 DEF Shape
  <1>6. Shape'
    BY <1>1, <1>4, <1>5 DEF Shape
  <1>7. call[t].spelling \in Spellings /\ call[t].at <= clock
    BY <1>1, <1>4 DEF Timely
  <1> QED BY <1>3, <1>4, <1>5, <1>6, <1>7, CalmStep

\* A call that fails: its frame is gone, and the log says so.
LEMMA ErrorStep ==
  ASSUME LInv, NEW t \in Threads, Busy(t), Answer(t, "error"), UNCHANGED <<clock, heap, windows>>
  PROVE  LInv'
  <1>1. Shape /\ Timely
    BY DEF LInv
  <1>2. PICK e \in Entry :
          /\ log' = Append(log, e) /\ e.verdict = "error"
          /\ log' \in Seq(Entry) /\ call' \in [Threads -> Frame]
          /\ call'[t] = IdleCall /\ \A u \in Threads \ {t} : call'[u] = call[u]
    BY <1>1, AnswerProperties
  <1>3. Shape'
    BY <1>1, <1>2 DEF Shape
  <1>4. IdleCall.pc = "idle"
    BY DEF IdleCall
  <1> QED BY <1>2, <1>3, <1>4, CalmStep

\* A call that goes on: all but its spelling and its instant may change.
LEMMA GoingOnStep ==
  ASSUME LInv, NEW t \in Threads, Busy(t), UNCHANGED <<clock, heap, log>>,
         NEW frame \in Frame, call' = [call EXCEPT ![t] = frame],
         frame.spelling = call[t].spelling, frame.at = call[t].at,
         DOMAIN windows' \subseteq DOMAIN windows,
         \A k \in DOMAIN windows' : windows'[k] = windows[k],
         (frame.pc = "count" /\ frame.got # NoWindow) =>
            /\ LimiterKey(frame.spelling) \in DOMAIN windows
            /\ frame.got = windows[LimiterKey(frame.spelling)]
  PROVE  LInv'
  <1>1. Shape /\ Timely
    BY DEF LInv
  <1>2. /\ call' \in [Threads -> Frame] /\ call'[t] = frame
        /\ \A u \in Threads \ {t} : call'[u] = call[u]
    BY <1>1 DEF Shape
  <1>3. Shape'
    BY <1>1, <1>2 DEF Shape
  <1>4. call[t].spelling \in Spellings /\ call[t].at <= clock
    BY <1>1 DEF Timely
  <1> QED BY <1>2, <1>3, <1>4, CalmStep

LEMMA EndSweepStep ==
  ASSUME LInv, NEW t \in Threads, EndSweep(t) PROVE LInv'
  <1>1. Shape
    BY DEF LInv
  <1>2. Busy(t) /\ UNCHANGED <<clock, heap, windows>>
    BY DEF EndSweep, Busy
  <1>3. CASE Answer(t, "error")
    BY <1>2, <1>3, ErrorStep
  <1>4. CASE \E seen \in SUBSET (call[t].expired \cup ExpiredKeys(call[t].at)) :
               /\ call' = [call EXCEPT ![t].expired = seen,
                                       ![t].pc = IF seen = {} THEN "get" ELSE "delete"]
               /\ UNCHANGED log
    <2>1. PICK seen \in SUBSET (call[t].expired \cup ExpiredKeys(call[t].at)) :
            /\ call' = [call EXCEPT ![t].expired = seen,
                                    ![t].pc = IF seen = {} THEN "get" ELSE "delete"]
            /\ UNCHANGED log
      BY <1>4
    <2>2. PICK frame : frame = [call[t] EXCEPT !.expired = seen,
                                  !.pc = IF seen = {} THEN "get" ELSE "delete"]
      OBVIOUS
    <2>3. seen \in SUBSET Keys
      BY <1>1, Frames DEF Shape, Frame, ExpiredKeys
    <2>4. /\ frame \in Frame /\ frame.pc \in {"get", "delete"}
          /\ frame.spelling = call[t].spelling /\ frame.at = call[t].at
      BY <1>1, <2>2, <2>3, Frames DEF Frame
    <2>5. call' = [call EXCEPT ![t] = frame]
      BY <1>1, <2>1, <2>2, Frames
    <2> QED BY <1>2, <2>1, <2>4, <2>5, GoingOnStep
  <1> QED BY <1>3, <1>4 DEF EndSweep

LEMMA DeleteExpiredStep ==
  ASSUME LInv, NEW t \in Threads, DeleteExpired(t) PROVE LInv'
  <1>1. Shape
    BY DEF LInv
  <1>2. Busy(t) /\ UNCHANGED <<clock, heap>>
    BY DEF DeleteExpired, Busy
  <1>3. PICK key \in call[t].expired :
          IF key \in DOMAIN windows
          THEN /\ windows' = [k \in DOMAIN windows \ {key} |-> windows[k]]
               /\ call' = [call EXCEPT ![t].expired = @ \ {key},
                             ![t].pc = IF call[t].expired = {key} THEN "get" ELSE @]
               /\ UNCHANGED log
          ELSE Answer(t, "error") /\ UNCHANGED windows
    BY DEF DeleteExpired
  <1>4. CASE key \notin DOMAIN windows
    BY <1>2, <1>3, <1>4, ErrorStep
  <1>5. CASE key \in DOMAIN windows
    <2>1. PICK frame : frame = [call[t] EXCEPT !.expired = @ \ {key},
                                  !.pc = IF call[t].expired = {key} THEN "get" ELSE @]
      OBVIOUS
    <2>2. call[t].pc = "delete"
      BY DEF DeleteExpired
    <2>3. /\ frame \in Frame /\ frame.pc \in {"get", "delete"}
          /\ frame.spelling = call[t].spelling /\ frame.at = call[t].at
      BY <1>1, <2>1, <2>2, Frames DEF Frame
    <2>4. call' = [call EXCEPT ![t] = frame]
      BY <1>1, <1>3, <1>5, <2>1, Frames
    <2>5. DOMAIN windows' \subseteq DOMAIN windows
          /\ \A k \in DOMAIN windows' : windows'[k] = windows[k]
      BY <1>3, <1>5
    <2> QED BY <1>2, <1>3, <1>5, <2>3, <2>4, <2>5, GoingOnStep
  <1> QED BY <1>4, <1>5

LEMMA GetWindowStep ==
  ASSUME LInv, NEW t \in Threads, GetWindow(t) PROVE LInv'
  <1>1. Shape /\ \E owner \in [1..Len(heap) -> Keys] : Owns(owner)
    BY DEF LInv
  <1>2. Busy(t) /\ UNCHANGED <<clock, heap, windows, log>>
    BY DEF GetWindow, Busy
  <1>3. PICK key : key = LimiterKey(call[t].spelling)
    OBVIOUS
  <1>4. PICK got : got = IF key \in DOMAIN windows THEN windows[key] ELSE NoWindow
    OBVIOUS
  <1>5. got \in Nat
    BY <1>1, <1>4 DEF Owns, NoWindow
  <1>6. PICK frame : frame = [call[t] EXCEPT !.pc = "count", !.got = got]
    OBVIOUS
  <1>7. /\ frame \in Frame /\ frame.got = got
        /\ frame.spelling = call[t].spelling /\ frame.at = call[t].at
    BY <1>1, <1>5, <1>6, Frames DEF Frame
  <1>8. call' = [call EXCEPT ![t] = frame]
    BY <1>1, <1>3, <1>4, <1>6, Frames DEF GetWindow
  <1> QED BY <1>2, <1>3, <1>4, <1>7, <1>8, GoingOnStep

\* A window is built and takes its key.  The call that opens it is let
\* through, and is the one call the window has counted.
LEMMA OpenWindowStep ==
  ASSUME LInv, NEW t \in Threads, OpenWindow(t) PROVE LInv'
  <1>1. Shape /\ Timely /\ NoFalseRefusal
    BY DEF LInv
  <1>2. PICK owner \in [1..Len(heap) -> Keys] : Owns(owner)
    BY DEF LInv
  <1>3. Busy(t) /\ clock' = clock /\ Answer(t, Verdict(1))
    BY DEF OpenWindow, Busy
  <1>4. Verdict(1) = "allowed"
    BY LimiterAssumption DEF Verdict
  <1>5. PICK e \in Entry :
          /\ log' = Append(log, e) /\ e.verdict = "allowed" /\ e.done = clock
          /\ e.spelling = call[t].spelling /\ e.at = call[t].at
          /\ log' \in Seq(Entry) /\ call' \in [Threads -> Frame]
          /\ call'[t] = IdleCall /\ \A u \in Threads \ {t} : call'[u] = call[u]
    BY <1>1, <1>3, <1>4, AnswerProperties
  <1>6. \A u \in Threads : call'[u].pc # "idle" => u # t /\ call'[u] = call[u]
    <2>1. IdleCall.pc = "idle"
      BY DEF IdleCall
    <2> QED BY <1>5, <2>1
  <1>7. PICK key, from : key = Address[e.spelling] /\ from = call[t].at
    OBVIOUS
  <1>8. /\ call[t].spelling \in Spellings /\ from \in Nat /\ from <= clock /\ key \in Keys
        /\ clock \in Nat /\ Len(heap) \in Nat
    BY <1>1, <1>3, <1>5, <1>7, Frames DEF Timely, Frame, Keys
  <1>9. PICK last : last = Len(heap) + 1
    OBVIOUS
  <1>10. PICK built : built = [startedAt |-> from, count |-> 1]
    OBVIOUS
  <1>11. built \in Opened /\ built.startedAt = from /\ built.count = 1
    BY <1>8, <1>10 DEF Opened
  <1>12. /\ heap' = Append(heap, built)
         /\ windows' = [k \in DOMAIN windows \cup {key} |-> IF k = key THEN last ELSE windows[k]]
    BY <1>5, <1>7, <1>9, <1>10 DEF OpenWindow, LimiterKey
  <1>13. /\ heap' \in Seq(Opened) /\ Len(heap') = last /\ heap'[last] = built
         /\ \A w \in 1..Len(heap) : heap'[w] = heap[w]
         /\ \A w \in 1..Len(heap') : w \in 1..Len(heap) \/ w = last
         /\ last \in 1..Len(heap') /\ last \notin 1..Len(heap)
         /\ \A w \in 1..Len(heap) : w \in 1..Len(heap')
    BY <1>1, <1>8, <1>9, <1>11, <1>12 DEF Shape
  <1>14. Shape'
    <2>1. DOMAIN windows' \subseteq Keys
      BY <1>1, <1>8, <1>12 DEF Shape
    <2> QED BY <1>1, <1>3, <1>5, <1>13, <2>1 DEF Shape
  <1>15. Timely'
    <2>1. \A w \in 1..Len(heap') : heap'[w].startedAt <= clock'
      BY <1>1, <1>3, <1>8, <1>11, <1>13 DEF Timely
    <2>2. \A u \in Threads : Busy(u)' => call'[u].spelling \in Spellings /\ call'[u].at <= clock'
      BY <1>1, <1>3, <1>6 DEF Timely, Busy
    <2> QED BY <2>1, <2>2 DEF Timely
  <1>16. NoFalseRefusal'
    BY <1>1, <1>5, RefusalsStand
  <1>17. PICK owners : owners = [w \in 1..last |-> IF w = last THEN key ELSE owner[w]]
    OBVIOUS
  <1>18. /\ owners \in [1..Len(heap') -> Keys] /\ owners[last] = key
         /\ \A w \in 1..Len(heap) : owners[w] = owner[w]
    BY <1>2, <1>8, <1>13, <1>17
  <1>19. Backed(key, from, 0)
    <2>1. Cardinality(Since(key, from)) \in Nat
      BY <1>1, SinceIsFinite
    <2> QED BY <2>1 DEF Backed
  <1>20. Backed(key, from, 1)'
    <2>1. e.done >= from
      BY <1>5, <1>8
    <2>2. Backed(Address[e.spelling], from, 0 + 1)'
      BY <1>1, <1>5, <1>7, <1>19, <2>1, CountedIsBacked
    <2> QED BY <1>7, <2>2 DEF Backed
  <1>21. ASSUME NEW w \in 1..Len(heap') PROVE Backed(owners[w], heap[w].startedAt, heap[w].count)'
    <2>1. CASE w = last
      <3>1. owners[w] = key /\ heap'[w].startedAt = from /\ heap'[w].count = 1
        BY <1>11, <1>13, <1>18, <2>1
      <3> QED BY <1>20, <3>1 DEF Backed
    <2>2. CASE w \in 1..Len(heap)
      <3>1. Backed(owner[w], heap[w].startedAt, heap[w].count)'
        BY <1>1, <1>2, <1>5, <1>13, <2>2, WindowGrows DEF Owns
      <3>2. owners[w] = owner[w]
        BY <1>18, <2>2
      <3> QED BY <3>1, <3>2 DEF Backed
    <2> QED BY <1>13, <2>1, <2>2
  <1>22. \A k \in DOMAIN windows' : windows'[k] \in 1..Len(heap') /\ owners[windows'[k]] = k
    BY <1>2, <1>12, <1>13, <1>18 DEF Owns
  <1>23. \A u \in Threads : (call'[u].pc = "count" /\ call'[u].got # NoWindow) =>
           call'[u].got \in 1..Len(heap') /\ owners[call'[u].got] = LimiterKey(call'[u].spelling)
    BY <1>2, <1>13, <1>18, <1>6 DEF Owns
  <1>24. Owns(owners)'
    BY <1>18, <1>21, <1>22, <1>23 DEF Owns, LimiterKey
  <1> QED BY <1>14, <1>15, <1>16, <1>18, <1>24 DEF LInv

\* One more call in the window found, which may have been dropped since.  As
\* it is not over, a refusal has the calls it counted behind it.
LEMMA CountCallStep ==
  ASSUME LInv, NEW t \in Threads, CountCall(t) PROVE LInv'
  <1>1. Shape /\ Timely /\ NoFalseRefusal
    BY DEF LInv
  <1>2. PICK owner \in [1..Len(heap) -> Keys] : Owns(owner)
    BY DEF LInv
  <1>3. PICK found : found = call[t].got
    OBVIOUS
  <1>4. Busy(t) /\ clock' = clock /\ windows' = windows /\ call[t].pc = "count"
        /\ found # NoWindow /\ ~IsExpired(found, call[t].at)
    BY <1>3 DEF CountCall, Busy, NeedsNewWindow
  <1>5. found \in 1..Len(heap) /\ owner[found] = LimiterKey(call[t].spelling)
        /\ Backed(owner[found], heap[found].startedAt, heap[found].count)
    BY <1>2, <1>3, <1>4 DEF Owns
  <1>6. heap[found] \in Opened /\ clock \in Nat /\ call[t].at \in Nat
    BY <1>1, <1>5, Frames DEF Frame
  <1>7. PICK from, count, next :
          from = heap[found].startedAt /\ count = heap[found].count /\ next = [heap[found] EXCEPT !.count = @ + 1]
    OBVIOUS
  <1>8. /\ from \in Nat /\ count \in Nat /\ from <= clock
        /\ next \in Opened /\ next.startedAt = from /\ next.count = count + 1
    BY <1>1, <1>5, <1>6, <1>7 DEF Timely, Opened
  <1>9. from > call[t].at - Window
    BY <1>4, <1>6, <1>7, <1>8, LimiterAssumption DEF IsExpired
  <1>10. Answer(t, Verdict(count + 1)) /\ heap' = [heap EXCEPT ![found] = next]
    BY <1>1, <1>3, <1>5, <1>7, Frames DEF CountCall
  <1>11. Verdict(count + 1) \in {"allowed", "refused", "error"}
    BY DEF Verdict
  <1>12. PICK e \in Entry :
          /\ log' = Append(log, e) /\ e.verdict = Verdict(count + 1) /\ e.done = clock
          /\ e.spelling = call[t].spelling /\ e.at = call[t].at
          /\ log' \in Seq(Entry) /\ call' \in [Threads -> Frame]
          /\ call'[t] = IdleCall /\ \A u \in Threads \ {t} : call'[u] = call[u]
    BY <1>1, <1>4, <1>10, <1>11, AnswerProperties
  <1>13. PICK key : key = Address[e.spelling]
    OBVIOUS
  <1>14. key = owner[found] /\ Backed(key, from, count)
    BY <1>5, <1>7, <1>12, <1>13 DEF LimiterKey
  <1>15. \A u \in Threads : call'[u].pc # "idle" => u # t /\ call'[u] = call[u]
    <2>1. IdleCall.pc = "idle"
      BY DEF IdleCall
    <2> QED BY <1>12, <2>1
  <1>16. /\ heap' \in Seq(Opened) /\ Len(heap') = Len(heap) /\ heap'[found] = next
         /\ \A w \in 1..Len(heap) : w # found => heap'[w] = heap[w]
    BY <1>1, <1>5, <1>8, <1>10 DEF Shape
  <1>17. Shape'
    BY <1>1, <1>4, <1>12, <1>16 DEF Shape
  <1>18. Timely'
    <2>1. \A w \in 1..Len(heap') : heap'[w].startedAt <= clock'
      BY <1>1, <1>4, <1>8, <1>16 DEF Timely
    <2>2. \A u \in Threads : Busy(u)' => call'[u].spelling \in Spellings /\ call'[u].at <= clock'
      BY <1>1, <1>4, <1>15 DEF Timely, Busy
    <2> QED BY <2>1, <2>2 DEF Timely
  <1>19. Cardinality(Since(key, from)) \in Nat
    BY <1>1, SinceIsFinite
  <1>20. e.verdict # "allowed" => Cardinality(Since(key, from)) >= MaxAttempts
    BY <1>8, <1>12, <1>14, <1>19, LimiterAssumption DEF Verdict, Backed
  <1>21. NoFalseRefusal'
    BY <1>1, <1>8, <1>9, <1>12, <1>13, <1>20, RefusalsStand
  <1>22. Backed(key, from, count + 1)'
    <2>1. CASE e.verdict = "allowed"
      <3>1. e.done >= from
        BY <1>6, <1>8, <1>12
      <3>2. Backed(Address[e.spelling], from, count + 1)'
        BY <1>1, <1>8, <1>12, <1>13, <1>14, <2>1, <3>1, CountedIsBacked
      <3> QED BY <1>13, <3>2 DEF Backed
    <2>2. CASE e.verdict # "allowed"
      <3>1. Backed(key, from, count + 1) /\ count + 1 \in Nat
        BY <1>8, <1>20, <2>2 DEF Backed
      <3> QED BY <1>1, <1>12, <3>1, BackedGrows
    <2> QED BY <2>1, <2>2
  <1>23. ASSUME NEW w \in 1..Len(heap') PROVE Backed(owner[w], heap[w].startedAt, heap[w].count)'
    <2>1. CASE w = found
      <3>1. owner[w] = key /\ heap'[w].startedAt = from /\ heap'[w].count = count + 1
        BY <1>8, <1>14, <1>16, <2>1
      <3> QED BY <1>22, <3>1 DEF Backed
    <2>2. CASE w # found
      <3>1. w \in 1..Len(heap) /\ heap'[w] = heap[w]
        BY <1>16, <2>2
      <3> QED BY <1>1, <1>2, <1>12, <3>1, WindowGrows DEF Owns
    <2> QED BY <2>1, <2>2
  <1>24. \A u \in Threads : (call'[u].pc = "count" /\ call'[u].got # NoWindow) =>
           call'[u].got \in 1..Len(heap') /\ owner[call'[u].got] = LimiterKey(call'[u].spelling)
    BY <1>2, <1>15, <1>16 DEF Owns
  <1>25. owner \in [1..Len(heap') -> Keys]
    BY <1>16
  <1>26. Owns(owner)'
    <2>1. \A k \in DOMAIN windows' : windows'[k] \in 1..Len(heap') /\ owner[windows'[k]] = k
      BY <1>2, <1>4, <1>16 DEF Owns
    <2> QED BY <1>23, <1>24, <1>25, <2>1 DEF Owns, LimiterKey
  <1> QED BY <1>17, <1>18, <1>21, <1>25, <1>26 DEF LInv

LEMMA ClockStep ==
  ASSUME LInv, clock' \in Nat, clock' >= clock, UNCHANGED <<heap, windows, call, log>>
  PROVE  LInv'
  <1>1. Shape /\ Timely /\ NoFalseRefusal
    BY DEF LInv
  <1>2. PICK owner \in [1..Len(heap) -> Keys] : Owns(owner)
    BY DEF LInv
  <1>3. Shape'
    BY <1>1 DEF Shape
  <1>4. Timely'
    <2>1. ASSUME NEW w \in 1..Len(heap) PROVE heap[w].startedAt <= clock'
      <3>1. heap[w] \in Opened /\ clock \in Nat
        BY <1>1 DEF Shape
      <3>2. heap[w].startedAt \in Nat /\ heap[w].startedAt <= clock
        BY <1>1, <3>1 DEF Opened, Timely
      <3> QED BY <3>1, <3>2
    <2>2. ASSUME NEW u \in Threads, Busy(u)
          PROVE  call[u].spelling \in Spellings /\ call[u].at <= clock'
      <3>1. call[u].at \in Nat /\ clock \in Nat
        BY <1>1, Frames DEF Frame
      <3> QED BY <1>1, <2>2, <3>1 DEF Timely
    <2> QED BY <2>1, <2>2 DEF Timely, Busy
  <1>5. NoFalseRefusal'
    BY <1>1 DEF NoFalseRefusal, Admitted
  <1>6. Owns(owner)'
    BY <1>2 DEF Owns, Backed, Since, Admitted, LimiterKey
  <1> QED BY <1>2, <1>3, <1>4, <1>5, <1>6 DEF LInv

-----------------------------------------------------------------------------
(* The invariant holds *)

LEMMA LimiterStarts == LimiterInit => LInv
  <1> SUFFICES ASSUME LimiterInit PROVE LInv
    OBVIOUS
  <1>1. clock = 0 /\ heap = <<>> /\ windows = <<>> /\ log = <<>>
        /\ call = [t \in Threads |-> IdleCall]
    BY DEF LimiterInit
  <1>2. Len(heap) = 0 /\ Len(log) = 0 /\ DOMAIN windows = {}
    BY <1>1
  <1>3. IdleCall \in Frame /\ IdleCall.pc = "idle"
    BY DEF IdleCall, Frame, NoWindow
  <1>4. \A t \in Threads : call[t].pc = "idle"
    BY <1>1, <1>3
  <1>5. Shape
    BY <1>1, <1>2, <1>3 DEF Shape
  <1>6. Timely
    BY <1>2, <1>4 DEF Timely, Busy
  <1>7. NoFalseRefusal
    BY <1>2 DEF NoFalseRefusal
  <1>8. PICK owner : owner = [w \in 1..Len(heap) |-> CHOOSE k \in Keys : TRUE]
    OBVIOUS
  <1>9. owner \in [1..Len(heap) -> Keys] /\ Owns(owner)
    BY <1>2, <1>4, <1>8 DEF Owns
  <1> QED BY <1>5, <1>6, <1>7, <1>9 DEF LInv

LEMMA LimiterSteps == LInv /\ [LimiterNext]_limiterVars => LInv'
  <1> SUFFICES ASSUME LInv, [LimiterNext]_limiterVars PROVE LInv'
    OBVIOUS
  <1>1. clock \in Nat
    BY DEF LInv, Shape
  <1>2. CASE ClockTicks
    BY <1>1, <1>2, ClockStep DEF ClockTicks
  <1>3. ASSUME NEW t \in Threads, CheckStep(t) PROVE LInv'
    BY <1>3, EnterCheckStep, BeginSweepStep, EndSweepStep, DeleteExpiredStep, GetWindowStep,
       OpenWindowStep, CountCallStep DEF CheckStep
  <1>4. CASE UNCHANGED limiterVars
    BY <1>1, <1>4, ClockStep DEF limiterVars
  <1> QED BY <1>2, <1>3, <1>4 DEF LimiterNext

\* Nobody is locked out by a window that is over: check() answers 429 only
\* when MaxAttempts calls for that user row were let through within the last
\* window's length, whatever the threads did to the dictionary meanwhile.
THEOREM RefusalsAreRight == LimiterSpec => []NoFalseRefusal
  <1>1. LInv => NoFalseRefusal
    BY DEF LInv
  <1> QED BY <1>1, LimiterStarts, LimiterSteps, PTL DEF LimiterSpec

-----------------------------------------------------------------------------
(* One call at a time: the invariant *)

\* The calls for an address let through while a window opened then was open.
Within(addr, from) == {i \in Admitted(addr) : from <= log[i].at /\ log[i].at < from + Window}

Sole == \A t, u \in Threads : Busy(t) /\ Busy(u) => t = u

NoneFailed == \A i \in 1..Len(log) : log[i].verdict # "error"

\* What the one call under way read of the dictionary still holds.
KnowsTable(t) ==
  /\ call[t].pc = "sweeping" =>
       call[t].size = Cardinality(DOMAIN windows) /\ call[t].expired = ExpiredKeys(call[t].at)
  /\ call[t].pc = "delete" => call[t].expired \subseteq ExpiredKeys(call[t].at)
  /\ call[t].pc = "count" =>
       call[t].got = IF LimiterKey(call[t].spelling) \in DOMAIN windows
                     THEN windows[LimiterKey(call[t].spelling)] ELSE NoWindow

InUse(owner, w) == owner[w] \in DOMAIN windows /\ windows[owner[w]] = w

\* A window stays in use until it is over, so that an address's windows
\* follow each other.
InTurn(owner) ==
  /\ owner \in [1..Len(heap) -> Keys]
  /\ \A k \in DOMAIN windows : windows[k] \in 1..Len(heap) /\ owner[windows[k]] = k
  /\ \A w \in 1..Len(heap), t \in Threads : Busy(t) => heap[w].startedAt <= call[t].at
  /\ \A w \in 1..Len(heap) : ~InUse(owner, w) =>
       /\ heap[w].startedAt + Window <= clock
       /\ \A t \in Threads : Busy(t) => heap[w].startedAt + Window <= call[t].at
  /\ \A v, w \in 1..Len(heap) :
       v < w /\ owner[v] = owner[w] => heap[v].startedAt + Window <= heap[w].startedAt

\* A window let through what it counted up to the limit, first the call that
\* opened it, and every call that was let through has its window.
Accounts(owner) ==
  /\ \A w \in 1..Len(heap) :
       /\ Cardinality(Within(owner[w], heap[w].startedAt)) <= heap[w].count
       /\ Cardinality(Within(owner[w], heap[w].startedAt)) <= MaxAttempts
       /\ \E i \in Within(owner[w], heap[w].startedAt) : log[i].at = heap[w].startedAt
  /\ \A i \in 1..Len(log) : log[i].verdict = "allowed" =>
       \E w \in 1..Len(heap) : owner[w] = Address[log[i].spelling] /\ i \in Within(owner[w], heap[w].startedAt)

Sequential ==
  /\ Sole /\ NoneFailed /\ \A t \in Threads : KnowsTable(t)
  /\ \E owner \in [1..Len(heap) -> Keys] : InTurn(owner) /\ Accounts(owner)

\* The facts about sizes that the steps rest on.
LEMMA Numbers ==
  ASSUME Shape
  PROVE  /\ clock \in Nat /\ Len(heap) \in Nat /\ Len(log) \in Nat
         /\ \A w \in 1..Len(heap) : heap[w].startedAt \in Nat /\ heap[w].count \in Nat
         /\ \A i \in 1..Len(log) : log[i] \in Entry /\ log[i].at \in Nat
         /\ \A t \in Threads : call[t] \in Frame /\ call[t].at \in Nat /\ call[t].expired \in SUBSET Keys
         /\ Window \in Nat \ {0} /\ MaxAttempts \in Nat \ {0}
  <1>1. heap \in Seq(Opened) /\ log \in Seq(Entry) /\ call \in [Threads -> Frame] /\ clock \in Nat
    BY DEF Shape
  <1>2. \A w \in 1..Len(heap) : heap[w] \in Opened
    BY <1>1
  <1>3. \A i \in 1..Len(log) : log[i] \in Entry
    BY <1>1
  <1>4. \A t \in Threads : call[t] \in Frame
    BY <1>1
  <1>5. Len(heap) \in Nat /\ Len(log) \in Nat
    BY <1>1
  <1>6. \A o \in Opened : o.startedAt \in Nat /\ o.count \in Nat
    BY DEF Opened
  <1>7. \A f \in Frame : f.at \in Nat /\ f.expired \in SUBSET Keys
    BY DEF Frame
  <1>8. \A e \in Entry : e.at \in Nat
    BY DEF Entry
  <1> QED BY <1>1, <1>2, <1>3, <1>4, <1>5, <1>6, <1>7, <1>8, LimiterAssumption

LEMMA WithinIsFinite ==
  ASSUME Shape, NEW addr, NEW from
  PROVE  /\ Within(addr, from) \subseteq 1..Len(log)
         /\ IsFiniteSet(Within(addr, from)) /\ Cardinality(Within(addr, from)) \in Nat
  <1>1. IsFiniteSet(1..Len(log)) /\ Within(addr, from) \subseteq 1..Len(log)
    BY Numbers, FS_Interval DEF Within, Admitted
  <1> QED BY <1>1, FS_Subset, FS_CardinalityType

\* A call that is let through is one more within its window, and in no other's.
LEMMA WithinGrows ==
  ASSUME Shape, NEW e \in Entry, log' = Append(log, e), NEW addr, NEW from
  PROVE  LET counted == /\ Address[e.spelling] = addr /\ e.verdict = "allowed"
                        /\ from <= e.at /\ e.at < from + Window
         IN  /\ counted => /\ Within(addr, from)' = Within(addr, from) \cup {Len(log) + 1}
                           /\ Cardinality(Within(addr, from)') = Cardinality(Within(addr, from)) + 1
             /\ ~counted => Within(addr, from)' = Within(addr, from)
  <1> DEFINE counted == /\ Address[e.spelling] = addr /\ e.verdict = "allowed"
                        /\ from <= e.at /\ e.at < from + Window
             n == Len(log)
  <1>1. /\ n \in Nat /\ Len(log') = n + 1 /\ log'[n + 1] = e
        /\ \A i \in 1..n : log'[i] = log[i]
    BY DEF Shape
  <1>2. Within(addr, from) = {i \in 1..n : /\ Address[log[i].spelling] = addr /\ log[i].verdict = "allowed"
                                           /\ from <= log[i].at /\ log[i].at < from + Window}
    BY DEF Within, Admitted
  <1>3. Within(addr, from)' = {i \in 1..(n + 1) :
                                 /\ Address[log'[i].spelling] = addr /\ log'[i].verdict = "allowed"
                                 /\ from <= log'[i].at /\ log'[i].at < from + Window}
    BY <1>1 DEF Within, Admitted
  <1>4. \A i \in 1..(n + 1) : i \in 1..n \/ i = n + 1
    BY <1>1
  <1>5. 1..n \subseteq 1..(n + 1) /\ n + 1 \in 1..(n + 1) /\ n + 1 \notin 1..n
    BY <1>1
  <1>6. IsFiniteSet(Within(addr, from)) /\ Cardinality(Within(addr, from)) \in Nat
    BY WithinIsFinite
  <1> HIDE DEF n
  <1>7. ASSUME counted
        PROVE  /\ Within(addr, from)' = Within(addr, from) \cup {n + 1}
               /\ Cardinality(Within(addr, from)') = Cardinality(Within(addr, from)) + 1
    <2>1. Within(addr, from)' = Within(addr, from) \cup {n + 1}
      BY <1>1, <1>2, <1>3, <1>4, <1>5, <1>7
    <2>2. n + 1 \notin Within(addr, from)
      BY <1>2, <1>5
    <2> QED BY <1>6, <2>1, <2>2, FS_AddElement
  <1>8. ASSUME ~counted PROVE Within(addr, from)' = Within(addr, from)
    BY <1>1, <1>2, <1>3, <1>4, <1>5, <1>8
  <1> QED BY <1>7, <1>8 DEF n

\* Two windows of an interval: the first was opened before it began.
LEMMA SequentialIsWithinBudget ==
  ASSUME Shape, Sequential
  PROVE  WithinBudget
  <1>1. PICK owner \in [1..Len(heap) -> Keys] : InTurn(owner) /\ Accounts(owner)
    BY DEF Sequential
  <1>2. SUFFICES ASSUME NEW addr \in Keys, NEW from \in Nat
                 PROVE  Cardinality(Within(addr, from)) <= 2 * MaxAttempts - 1
    BY DEF WithinBudget, Within
  <1> DEFINE Calls == Within(addr, from)
             Mine == {w \in 1..Len(heap) : owner[w] = addr}
             Of(w) == Within(addr, heap[w].startedAt)
  <1>3. ASSUME NEW i \in Calls
        PROVE  \E w \in Mine : /\ i \in Of(w) /\ from < heap[w].startedAt + Window
                               /\ heap[w].startedAt < from + Window
    <2>1. i \in 1..Len(log) /\ Address[log[i].spelling] = addr /\ log[i].verdict = "allowed"
          /\ from <= log[i].at /\ log[i].at < from + Window
      BY DEF Within, Admitted
    <2>2. PICK w \in 1..Len(heap) : owner[w] = Address[log[i].spelling] /\ i \in Within(owner[w], heap[w].startedAt)
      BY <1>1, <2>1 DEF Accounts
    <2>3. w \in Mine /\ i \in Of(w)
      BY <2>1, <2>2
    <2>4. heap[w].startedAt <= log[i].at /\ log[i].at < heap[w].startedAt + Window
      BY <2>2 DEF Within
    <2>5. heap[w].startedAt \in Nat /\ log[i].at \in Nat /\ Window \in Nat
      BY <2>1, Numbers
    <2>6. from < heap[w].startedAt + Window /\ heap[w].startedAt < from + Window
      BY <2>1, <2>4, <2>5
    <2> QED BY <2>3, <2>6
  <1>4. ASSUME NEW v \in Mine, NEW w \in Mine, v # w
        PROVE  \/ heap[v].startedAt + Window <= heap[w].startedAt
               \/ heap[w].startedAt + Window <= heap[v].startedAt
    <2>1. v < w \/ w < v
      BY <1>4, Numbers
    <2> QED BY <1>1, <2>1 DEF InTurn
  <1>5. ASSUME NEW w \in Mine
        PROVE  /\ IsFiniteSet(Of(w)) /\ Cardinality(Of(w)) \in Nat /\ Cardinality(Of(w)) <= MaxAttempts
               /\ \E i \in Of(w) : log[i].at = heap[w].startedAt
               /\ heap[w].startedAt \in Nat
    <2>1. w \in 1..Len(heap) /\ owner[w] = addr
      OBVIOUS
    <2> QED BY <1>1, <2>1, WithinIsFinite, Numbers DEF Accounts
  <1>6. MaxAttempts \in Nat \ {0} /\ Window \in Nat \ {0}
    BY Numbers
  <1>7. IsFiniteSet(Calls) /\ Cardinality(Calls) \in Nat
    BY WithinIsFinite
  <1> DEFINE Late == {w \in Mine : from <= heap[w].startedAt /\ heap[w].startedAt < from + Window}
             Early == {w \in Mine : heap[w].startedAt < from /\ from < heap[w].startedAt + Window}
  <1>8. \A i \in Calls : \E w \in Late \cup Early : i \in Of(w)
    <2> SUFFICES ASSUME NEW i \in Calls PROVE \E w \in Late \cup Early : i \in Of(w)
      OBVIOUS
    <2>1. PICK w \in Mine : /\ i \in Of(w) /\ from < heap[w].startedAt + Window
                            /\ heap[w].startedAt < from + Window
      BY <1>3
    <2>2. heap[w].startedAt \in Nat
      BY <1>5
    <2>3. from <= heap[w].startedAt \/ heap[w].startedAt < from
      BY <2>2
    <2>4. w \in Late \cup Early
      BY <2>1, <2>3
    <2> QED BY <2>1, <2>4
  <1>9. \A v, w \in Late : v = w
    <2> SUFFICES ASSUME NEW v \in Late, NEW w \in Late, v # w PROVE FALSE
      OBVIOUS
    <2>1. /\ heap[v].startedAt \in Nat /\ heap[w].startedAt \in Nat
          /\ from <= heap[v].startedAt /\ heap[v].startedAt < from + Window
          /\ from <= heap[w].startedAt /\ heap[w].startedAt < from + Window
      BY <1>5
    <2>2. \/ heap[v].startedAt + Window <= heap[w].startedAt
          \/ heap[w].startedAt + Window <= heap[v].startedAt
      BY <1>4
    <2> QED BY <1>6, <2>1, <2>2
  <1>10. \A v, w \in Early : v = w
    <2> SUFFICES ASSUME NEW v \in Early, NEW w \in Early, v # w PROVE FALSE
      OBVIOUS
    <2>1. /\ heap[v].startedAt \in Nat /\ heap[w].startedAt \in Nat
          /\ heap[v].startedAt < from /\ from < heap[v].startedAt + Window
          /\ heap[w].startedAt < from /\ from < heap[w].startedAt + Window
      BY <1>5
    <2>2. \/ heap[v].startedAt + Window <= heap[w].startedAt
          \/ heap[w].startedAt + Window <= heap[v].startedAt
      BY <1>4
    <2> QED BY <1>6, <2>1, <2>2
  <1>11. PICK A : /\ IsFiniteSet(A) /\ Cardinality(A) \in Nat /\ Cardinality(A) <= MaxAttempts - 1
                  /\ \A i \in Calls, w \in Early : i \in Of(w) => i \in A
    <2>1. CASE Early = {}
      <3>1. IsFiniteSet({}) /\ Cardinality({}) = 0
        BY FS_EmptySet
      <3> QED BY <1>6, <2>1, <3>1
    <2>2. CASE Early # {}
      <3>1. PICK w \in Early : TRUE
        BY <2>2
      <3>2. w \in Mine /\ heap[w].startedAt < from
        OBVIOUS
      <3>3. PICK i \in Of(w) : log[i].at = heap[w].startedAt
        BY <1>5, <3>2
      <3>4. i \notin Calls
        <4>1. log[i].at \in Nat /\ i \in 1..Len(log)
          BY Numbers, WithinIsFinite
        <4>2. ~(from <= log[i].at)
          BY <3>2, <3>3, <4>1
        <4> QED BY <4>2 DEF Within
      <3>5. IsFiniteSet(Of(w) \ {i}) /\ Cardinality(Of(w) \ {i}) = Cardinality(Of(w)) - 1
        BY <1>5, <3>2, <3>3, FS_RemoveElement
      <3>6. Cardinality(Of(w)) \in Nat /\ Cardinality(Of(w)) <= MaxAttempts
        BY <1>5, <3>2
      <3>7. Cardinality(Of(w) \ {i}) \in Nat
        BY <3>5, FS_CardinalityType
      <3>8. \A j \in Calls, v \in Early : j \in Of(v) => j \in Of(w) \ {i}
        BY <1>10, <3>4
      <3>9. Cardinality(Of(w) \ {i}) <= MaxAttempts - 1
        <4> DEFINE a == Cardinality(Of(w) \ {i})
                   b == Cardinality(Of(w))
        <4>1. a = b - 1 /\ b \in Nat /\ b <= MaxAttempts
          BY <3>5, <3>6
        <4> HIDE DEF a, b
        <4>2. a <= MaxAttempts - 1
          BY <1>6, <4>1
        <4> QED BY <4>2 DEF a
      <3> QED BY <3>5, <3>7, <3>8, <3>9
    <2> QED BY <2>1, <2>2
  <1>12. PICK B : /\ IsFiniteSet(B) /\ Cardinality(B) \in Nat /\ Cardinality(B) <= MaxAttempts
                  /\ \A i \in Calls, w \in Late : i \in Of(w) => i \in B
    <2>1. CASE Late = {}
      <3>1. IsFiniteSet({}) /\ Cardinality({}) = 0
        BY FS_EmptySet
      <3> QED BY <1>6, <2>1, <3>1
    <2>2. CASE Late # {}
      <3>1. PICK w \in Late : TRUE
        BY <2>2
      <3>2. w \in Mine
        OBVIOUS
      <3>3. \A j \in Calls, v \in Late : j \in Of(v) => j \in Of(w)
        BY <1>9
      <3> QED BY <1>5, <3>2, <3>3
    <2> QED BY <2>1, <2>2
  <1>13. Calls \subseteq A \cup B
    BY <1>8, <1>11, <1>12
  <1>14. IsFiniteSet(A \cup B) /\ Cardinality(A \cup B) <= Cardinality(A) + Cardinality(B)
         /\ Cardinality(A \cup B) \in Nat
    <2>1. IsFiniteSet(A \cup B) /\ Cardinality(A \cup B) = Cardinality(A) + Cardinality(B) - Cardinality(A \cap B)
      BY <1>11, <1>12, FS_Union
    <2>2. IsFiniteSet(A \cap B)
      BY <1>11, FS_Subset
    <2>3. Cardinality(A \cap B) \in Nat /\ Cardinality(A \cup B) \in Nat
      BY <2>1, <2>2, FS_CardinalityType
    <2> QED BY <1>11, <1>12, <2>1, <2>3
  <1>15. Cardinality(Calls) <= Cardinality(A \cup B)
    BY <1>13, <1>14, FS_Subset
  <1> HIDE DEF Calls
  <1>16. Cardinality(Calls) <= 2 * MaxAttempts - 1
    BY <1>6, <1>7, <1>11, <1>12, <1>14, <1>15
  <1> QED BY <1>16 DEF Calls

\* The one call under way goes on and perhaps drops windows that are over.
LEMMA SoleGoesOn ==
  ASSUME LInv, Sequential, NEW t \in Threads, Busy(t), UNCHANGED <<clock, heap, log>>,
         NEW frame, call' = [call EXCEPT ![t] = frame],
         frame.spelling = call[t].spelling, frame.at = call[t].at,
         DOMAIN windows' \subseteq DOMAIN windows,
         \A k \in DOMAIN windows' : windows'[k] = windows[k],
         \A k \in DOMAIN windows : k \in DOMAIN windows' \/ IsExpired(windows[k], call[t].at),
         KnowsTable(t)'
  PROVE  Sequential'
  <1>1. Shape /\ Timely
    BY DEF LInv
  <1>2. Sole /\ NoneFailed /\ \A u \in Threads : KnowsTable(u)
    BY DEF Sequential
  <1>3. PICK owner \in [1..Len(heap) -> Keys] : InTurn(owner) /\ Accounts(owner)
    BY DEF Sequential
  <1>4. call'[t] = frame /\ \A u \in Threads \ {t} : call'[u] = call[u] /\ ~Busy(u)
    BY <1>1, <1>2 DEF Shape, Sole
  <1>5. \A u \in Threads : Busy(u)' => u = t
    BY <1>4 DEF Busy
  <1>6. Sole'
    BY <1>5 DEF Sole
  <1>7. ASSUME NEW u \in Threads PROVE KnowsTable(u)'
    <2>1. CASE u = t
      BY <2>1
    <2>2. CASE u # t
      BY <1>4, <2>2 DEF KnowsTable, Busy
    <2> QED BY <2>1, <2>2
  <1>8. NoneFailed'
    BY <1>2 DEF NoneFailed
  <1>9. Accounts(owner)'
    BY <1>3 DEF Accounts, Within, Admitted
  <1>10. InTurn(owner)'
    <2>1. owner \in [1..Len(heap') -> Keys]
      OBVIOUS
    <2>2. \A k \in DOMAIN windows' : windows'[k] \in 1..Len(heap') /\ owner[windows'[k]] = k
      BY <1>3 DEF InTurn
    <2>3. \A w \in 1..Len(heap'), u \in Threads : Busy(u)' => heap'[w].startedAt <= call'[u].at
      BY <1>3, <1>4, <1>5 DEF InTurn
    <2>4. ASSUME NEW w \in 1..Len(heap'), ~InUse(owner, w)'
          PROVE  /\ heap'[w].startedAt + Window <= clock'
                 /\ \A u \in Threads : Busy(u)' => heap'[w].startedAt + Window <= call'[u].at
      <3>1. CASE ~InUse(owner, w)
        BY <1>3, <1>4, <1>5, <3>1 DEF InTurn
      <3>2. CASE InUse(owner, w)
        <4>1. IsExpired(w, call[t].at)
          BY <2>4, <3>2 DEF InUse
        <4>2. heap[w].startedAt + Window <= call[t].at
          BY <4>1 DEF IsExpired
        <4>3. call[t].at <= clock
          BY <1>1 DEF Timely
        <4>4. call[t].at \in Nat /\ clock \in Nat /\ heap[w].startedAt + Window \in Nat
          BY <1>1, Numbers
        <4>5. heap[w].startedAt + Window <= clock
          <5> DEFINE over == heap[w].startedAt + Window
          <5>1. over \in Nat /\ over <= call[t].at
            BY <4>2, <4>4
          <5> HIDE DEF over
          <5>2. over <= clock
            BY <4>3, <4>4, <5>1
          <5> QED BY <5>2 DEF over
        <4> QED BY <1>4, <1>5, <4>2, <4>5
      <3> QED BY <3>1, <3>2
    <2>5. \A v, w \in 1..Len(heap') :
            v < w /\ owner[v] = owner[w] => heap'[v].startedAt + Window <= heap'[w].startedAt
      BY <1>3 DEF InTurn
    <2> QED BY <2>1, <2>2, <2>3, <2>4, <2>5 DEF InTurn
  <1>11. owner \in [1..Len(heap') -> Keys]
    OBVIOUS
  <1> QED BY <1>6, <1>7, <1>8, <1>9, <1>10, <1>11 DEF Sequential

LEMMA EnterStaysSequential ==
  ASSUME LInv, LInv', Sequential, NEW t \in Threads, NEW s \in Spellings, EnterCheck(t, s), ~overlapped'
  PROVE  Sequential'
  <1>1. Shape /\ Timely
    BY DEF LInv
  <1>2. \A u \in Threads : ~Busy(u)
    BY DEF EnterCheck
  <1>3. NoneFailed
    BY DEF Sequential
  <1>4. PICK owner \in [1..Len(heap) -> Keys] : InTurn(owner) /\ Accounts(owner)
    BY DEF Sequential
  <1> DEFINE frame == [IdleCall EXCEPT !.pc = "sweep", !.spelling = s, !.at = clock]
  <1>5. /\ UNCHANGED <<clock, heap, windows, log>>
        /\ call'[t] = frame /\ \A u \in Threads \ {t} : call'[u] = call[u]
    BY <1>1 DEF EnterCheck, Shape
  <1>6. frame.pc = "sweep" /\ frame.at = clock
    BY DEF IdleCall
  <1> HIDE DEF frame
  <1>7. \A u \in Threads : Busy(u)' => u = t
    BY <1>2, <1>5 DEF Busy
  <1>8. Sole' /\ NoneFailed' /\ \A u \in Threads : KnowsTable(u)'
    <2>1. Sole' /\ NoneFailed'
      BY <1>3, <1>5, <1>7 DEF Sole, NoneFailed
    <2>2. \A u \in Threads : call'[u].pc \in {"idle", "sweep"}
      BY <1>5, <1>6, <1>7 DEF Busy
    <2> QED BY <2>1, <2>2 DEF KnowsTable
  <1>9. Accounts(owner)'
    BY <1>4, <1>5 DEF Accounts, Within, Admitted
  <1>10. InTurn(owner)'
    <2>1. \A w \in 1..Len(heap'), u \in Threads : Busy(u)' => heap'[w].startedAt <= call'[u].at
      BY <1>1, <1>5, <1>6, <1>7 DEF Timely
    <2>2. \A w \in 1..Len(heap') : ~InUse(owner, w)' =>
            /\ heap'[w].startedAt + Window <= clock'
            /\ \A u \in Threads : Busy(u)' => heap'[w].startedAt + Window <= call'[u].at
      BY <1>4, <1>5, <1>6, <1>7 DEF InTurn, InUse
    <2> QED BY <1>4, <1>5, <2>1, <2>2 DEF InTurn
  <1>11. owner \in [1..Len(heap') -> Keys]
    BY <1>5
  <1> QED BY <1>8, <1>9, <1>10, <1>11 DEF Sequential

LEMMA SweepStaysSequential ==
  ASSUME LInv, Sequential, NEW t \in Threads, BeginSweep(t) \/ EndSweep(t)
  PROVE  Sequential'
  <1>1. Shape /\ Busy(t) /\ KnowsTable(t)
    BY DEF LInv, BeginSweep, EndSweep, Busy, Sequential
  <1>2. call[t] \in Frame /\ DOMAIN call = Threads
    BY <1>1, Frames
  <1>3. CASE BeginSweep(t)
    <2> DEFINE frame == [call[t] EXCEPT !.pc = "sweeping", !.size = Cardinality(DOMAIN windows),
                                        !.expired = ExpiredKeys(call[t].at)]
    <2>1. /\ frame.pc = "sweeping" /\ frame.spelling = call[t].spelling /\ frame.at = call[t].at
          /\ frame.size = Cardinality(DOMAIN windows) /\ frame.expired = ExpiredKeys(call[t].at)
      BY <1>2 DEF Frame
    <2>2. call' = [call EXCEPT ![t] = frame] /\ UNCHANGED <<clock, heap, windows, log>>
      BY <1>2, <1>3 DEF BeginSweep
    <2> HIDE DEF frame
    <2>3. call'[t] = frame
      BY <1>2, <2>2
    <2>4. KnowsTable(t)'
      BY <2>1, <2>2, <2>3 DEF KnowsTable, ExpiredKeys, IsExpired
    <2> QED BY <1>1, <2>1, <2>2, <2>4, SoleGoesOn
  <1>4. CASE EndSweep(t)
    <2>1. /\ call[t].pc = "sweeping" /\ UNCHANGED <<clock, heap, windows>>
          /\ call[t].size = Cardinality(DOMAIN windows) /\ call[t].expired = ExpiredKeys(call[t].at)
      BY <1>1, <1>4 DEF EndSweep, KnowsTable
    <2>2. PICK seen \in SUBSET (call[t].expired \cup ExpiredKeys(call[t].at)) :
            /\ call' = [call EXCEPT ![t].expired = seen,
                                    ![t].pc = IF seen = {} THEN "get" ELSE "delete"]
            /\ UNCHANGED log
      BY <1>4, <2>1 DEF EndSweep
    <2> DEFINE frame == [call[t] EXCEPT !.expired = seen,
                                        !.pc = IF seen = {} THEN "get" ELSE "delete"]
    <2>3. /\ frame.pc \in {"get", "delete"} /\ frame.spelling = call[t].spelling
          /\ frame.at = call[t].at /\ frame.expired = seen
      BY <1>2 DEF Frame
    <2>4. call' = [call EXCEPT ![t] = frame]
      BY <1>2, <2>2
    <2> HIDE DEF frame
    <2>5. call'[t] = frame
      BY <1>2, <2>4
    <2>6. KnowsTable(t)'
      BY <2>1, <2>3, <2>5 DEF KnowsTable, ExpiredKeys, IsExpired
    <2> QED BY <1>1, <2>1, <2>2, <2>3, <2>4, <2>6, SoleGoesOn
  <1> QED BY <1>3, <1>4

LEMMA DeleteStaysSequential ==
  ASSUME LInv, Sequential, NEW t \in Threads, DeleteExpired(t)
  PROVE  Sequential'
  <1>1. Shape /\ Busy(t) /\ KnowsTable(t) /\ call[t].pc = "delete" /\ UNCHANGED <<clock, heap>>
    BY DEF LInv, DeleteExpired, Busy, Sequential
  <1>2. call[t] \in Frame /\ DOMAIN call = Threads
    BY <1>1, Frames
  <1>3. PICK key \in call[t].expired :
          IF key \in DOMAIN windows
          THEN /\ windows' = [k \in DOMAIN windows \ {key} |-> windows[k]]
               /\ call' = [call EXCEPT ![t].expired = @ \ {key},
                             ![t].pc = IF call[t].expired = {key} THEN "get" ELSE @]
               /\ UNCHANGED log
          ELSE Answer(t, "error") /\ UNCHANGED windows
    BY DEF DeleteExpired
  <1>4. /\ call[t].expired \subseteq DOMAIN windows
        /\ \A k \in call[t].expired : IsExpired(windows[k], call[t].at)
    BY <1>1 DEF KnowsTable, ExpiredKeys
  <1> DEFINE frame == [call[t] EXCEPT !.expired = @ \ {key},
                                      !.pc = IF call[t].expired = {key} THEN "get" ELSE @]
  <1>5. /\ frame.pc \in {"get", "delete"} /\ frame.spelling = call[t].spelling
        /\ frame.at = call[t].at /\ frame.expired = call[t].expired \ {key}
    BY <1>1, <1>2 DEF Frame
  <1>6. /\ call' = [call EXCEPT ![t] = frame] /\ UNCHANGED log
        /\ windows' = [k \in DOMAIN windows \ {key} |-> windows[k]]
    BY <1>2, <1>3, <1>4
  <1> HIDE DEF frame
  <1>7. call'[t] = frame
    BY <1>2, <1>6
  <1>8. KnowsTable(t)'
    <2>1. \A k \in call[t].expired \ {key} : k \in DOMAIN windows' /\ windows'[k] = windows[k]
      BY <1>4, <1>6
    <2>2. call[t].expired \ {key} \subseteq ExpiredKeys(call[t].at)'
      BY <1>1, <1>4, <1>5, <1>7, <2>1 DEF ExpiredKeys, IsExpired
    <2> QED BY <1>5, <1>7, <2>2 DEF KnowsTable, ExpiredKeys, IsExpired
  <1>9. /\ DOMAIN windows' \subseteq DOMAIN windows
        /\ \A k \in DOMAIN windows' : windows'[k] = windows[k]
        /\ \A k \in DOMAIN windows : k \in DOMAIN windows' \/ IsExpired(windows[k], call[t].at)
    BY <1>4, <1>6
  <1> QED BY <1>1, <1>5, <1>6, <1>8, <1>9, SoleGoesOn

LEMMA GetStaysSequential ==
  ASSUME LInv, Sequential, NEW t \in Threads, GetWindow(t)
  PROVE  Sequential'
  <1>1. Shape /\ Busy(t) /\ UNCHANGED <<clock, heap, windows, log>>
    BY DEF LInv, GetWindow, Busy
  <1>2. call[t] \in Frame /\ DOMAIN call = Threads
    BY <1>1, Frames
  <1> DEFINE key == LimiterKey(call[t].spelling)
             got == IF key \in DOMAIN windows THEN windows[key] ELSE NoWindow
             frame == [call[t] EXCEPT !.pc = "count", !.got = got]
  <1>3. /\ frame.pc = "count" /\ frame.spelling = call[t].spelling
        /\ frame.at = call[t].at /\ frame.got = got
    BY <1>2 DEF Frame
  <1>4. call' = [call EXCEPT ![t] = frame]
    BY <1>2 DEF GetWindow
  <1> HIDE DEF frame
  <1>5. call'[t] = frame
    BY <1>2, <1>4
  <1>6. KnowsTable(t)'
    BY <1>1, <1>3, <1>5 DEF KnowsTable
  <1> QED BY <1>1, <1>3, <1>4, <1>6, SoleGoesOn

\* When the call under way returns no call is under way, and what it logs.
LEMMA SoleReturns ==
  ASSUME LInv, Sequential, NEW t \in Threads, Busy(t), NEW verdict \in {"allowed", "refused"}, Answer(t, verdict)
  PROVE  /\ Sole' /\ NoneFailed' /\ (\A u \in Threads : ~Busy(u)' /\ KnowsTable(u)')
         /\ \E e \in Entry :
              /\ log' = Append(log, e) /\ e.verdict = verdict /\ e.at = call[t].at
              /\ Address[e.spelling] = LimiterKey(call[t].spelling) /\ LimiterKey(call[t].spelling) \in Keys
              /\ Len(log') = Len(log) + 1 /\ log'[Len(log) + 1] = e
              /\ \A i \in 1..Len(log) : log'[i] = log[i]
              /\ \A i \in 1..Len(log') : i \in 1..Len(log) \/ i = Len(log) + 1
  <1>1. Shape /\ Timely /\ Sole /\ NoneFailed
    BY DEF LInv, Sequential
  <1>2. verdict \in {"allowed", "refused", "error"}
    OBVIOUS
  <1>3. PICK e \in Entry :
          /\ log' = Append(log, e) /\ e.verdict = verdict /\ e.at = call[t].at
          /\ e.spelling = call[t].spelling
          /\ call'[t] = IdleCall /\ \A u \in Threads \ {t} : call'[u] = call[u]
    BY <1>1, <1>2, AnswerProperties
  <1>4. /\ Len(log') = Len(log) + 1 /\ log'[Len(log) + 1] = e
        /\ \A i \in 1..Len(log) : log'[i] = log[i]
        /\ \A i \in 1..Len(log') : i \in 1..Len(log) \/ i = Len(log) + 1
    <2>1. log \in Seq(Entry) /\ Len(log) \in Nat
      BY <1>1, Numbers DEF Shape
    <2> QED BY <1>3, <2>1
  <1>5. \A u \in Threads : call'[u].pc = "idle"
    <2>1. IdleCall.pc = "idle"
      BY DEF IdleCall
    <2>2. \A u \in Threads \ {t} : call[u].pc = "idle"
      BY <1>1 DEF Sole, Busy
    <2> QED BY <1>3, <2>1, <2>2
  <1>6. (\A u \in Threads : ~Busy(u)' /\ KnowsTable(u)') /\ Sole'
    BY <1>5 DEF Busy, KnowsTable, Sole
  <1>7. NoneFailed'
    BY <1>1, <1>3, <1>4 DEF NoneFailed
  <1>8. call[t].spelling \in Spellings
    BY <1>1 DEF Timely
  <1> QED BY <1>3, <1>4, <1>6, <1>7, <1>8 DEF LimiterKey, Keys

\* A window is opened when the address's last one is over.
LEMMA OpenStaysSequential ==
  ASSUME LInv, Sequential, NEW t \in Threads, OpenWindow(t)
  PROVE  Sequential'
  <1>1. Shape /\ Timely /\ KnowsTable(t)
    BY DEF LInv, Sequential
  <1>2. PICK owner \in [1..Len(heap) -> Keys] : InTurn(owner) /\ Accounts(owner)
    BY DEF Sequential
  <1>3. PICK key, from, size, n, built :
          /\ key = LimiterKey(call[t].spelling) /\ from = call[t].at /\ size = Len(heap) /\ n = Len(log)
          /\ built = [startedAt |-> from, count |-> 1]
    OBVIOUS
  <1>4. /\ Busy(t) /\ clock' = clock /\ Answer(t, "allowed") /\ NeedsNewWindow(t)
        /\ call[t].got = IF key \in DOMAIN windows THEN windows[key] ELSE NoWindow
        /\ heap' = Append(heap, built)
        /\ windows' = [k \in DOMAIN windows \cup {key} |-> IF k = key THEN size + 1 ELSE windows[k]]
    <2>1. Verdict(1) = "allowed"
      BY LimiterAssumption DEF Verdict
    <2>2. call[t].pc = "count"
      BY DEF OpenWindow
    <2>3. call[t].got = IF key \in DOMAIN windows THEN windows[key] ELSE NoWindow
      BY <1>1, <1>3, <2>2 DEF KnowsTable
    <2>4. Busy(t)
      BY <2>2 DEF Busy
    <2> QED BY <1>3, <2>1, <2>3, <2>4 DEF OpenWindow
  <1>5. PICK e \in Entry :
          /\ log' = Append(log, e) /\ e.verdict = "allowed" /\ e.at = from
          /\ Address[e.spelling] = key /\ key \in Keys
          /\ Len(log') = n + 1 /\ log'[n + 1] = e
          /\ \A i \in 1..n : log'[i] = log[i]
          /\ \A i \in 1..Len(log') : i \in 1..n \/ i = n + 1
    BY <1>3, <1>4, SoleReturns
  <1>6. Sole' /\ NoneFailed' /\ \A u \in Threads : ~Busy(u)' /\ KnowsTable(u)'
    BY <1>4, SoleReturns
  <1>7. /\ size \in Nat /\ n \in Nat /\ from \in Nat /\ clock \in Nat /\ from <= clock
        /\ Window \in Nat \ {0} /\ MaxAttempts \in Nat \ {0}
        /\ \A w \in 1..size : heap[w].startedAt \in Nat
    BY <1>1, <1>3, <1>4, Numbers DEF Timely
  <1>8. ASSUME NEW w \in 1..size, owner[w] = key PROVE heap[w].startedAt + Window <= from
    <2>1. CASE InUse(owner, w)
      <3>1. key \in DOMAIN windows /\ windows[key] = w /\ w # 0
        BY <1>7, <1>8, <2>1 DEF InUse
      <3>2. call[t].got = w /\ w # NoWindow
        BY <1>4, <3>1 DEF NoWindow
      <3>3. IsExpired(w, from)
        BY <1>3, <1>4, <3>2 DEF NeedsNewWindow
      <3> QED BY <3>3 DEF IsExpired
    <2>2. CASE ~InUse(owner, w)
      BY <1>2, <1>3, <1>4, <2>2 DEF InTurn
    <2> QED BY <2>1, <2>2
  <1>9. /\ built.startedAt = from /\ built.count = 1
        /\ Len(heap') = size + 1 /\ heap'[size + 1] = built
        /\ \A w \in 1..size : heap'[w] = heap[w]
    <2>1. heap \in Seq(Opened)
      BY <1>1 DEF Shape
    <2>2. built.startedAt = from /\ built.count = 1 /\ built \in Opened
      BY <1>3, <1>7 DEF Opened
    <2>3. heap' = Append(heap, built) /\ size = Len(heap)
      BY <1>3, <1>4
    <2> QED BY <2>1, <2>2, <2>3
  <1>10. \A w \in 1..(size + 1) : w \in 1..size \/ w = size + 1
    BY <1>7
  <1>11. size + 1 \in 1..(size + 1) /\ size + 1 \notin 1..size /\ 1..size \subseteq 1..(size + 1)
    BY <1>7
  <1>12. PICK owners : owners = [w \in 1..(size + 1) |-> IF w = size + 1 THEN key ELSE owner[w]]
    OBVIOUS
  <1>13. /\ owners \in [1..(size + 1) -> Keys] /\ owners[size + 1] = key
         /\ \A w \in 1..size : owners[w] = owner[w]
    BY <1>2, <1>3, <1>5, <1>10, <1>11, <1>12
  <1>14. InTurn(owners)'
    <2>1. \A k \in DOMAIN windows : windows[k] \in 1..size /\ owner[windows[k]] = k
      BY <1>2, <1>3 DEF InTurn
    <2>2. DOMAIN windows' = DOMAIN windows \cup {key} /\ windows'[key] = size + 1
          /\ \A k \in DOMAIN windows \ {key} : windows'[k] = windows[k]
      BY <1>4
    <2>3. \A k \in DOMAIN windows' : windows'[k] \in 1..(size + 1) /\ owners[windows'[k]] = k
      BY <1>11, <1>13, <2>1, <2>2
    <2>4. ASSUME NEW w \in 1..(size + 1), ~InUse(owners, w)'
          PROVE  heap'[w].startedAt + Window <= clock'
      <3>1. w # size + 1
        BY <1>13, <2>2, <2>4 DEF InUse
      <3>2. w \in 1..size /\ heap'[w] = heap[w] /\ heap[w].startedAt \in Nat
        BY <1>7, <1>9, <1>10, <3>1
      <3>3. CASE owner[w] = key
        <4>1. heap[w].startedAt + Window <= from
          BY <1>8, <3>2, <3>3
        <4> QED BY <1>4, <1>7, <3>2, <4>1
      <3>4. CASE owner[w] # key
        <4>1. owners[w] = owner[w]
          BY <1>13, <3>2
        <4>2. ~InUse(owner, w)
          BY <2>2, <2>4, <3>4, <4>1 DEF InUse
        <4> QED BY <1>2, <1>3, <1>4, <3>2, <4>2 DEF InTurn
      <3> QED BY <3>3, <3>4
    <2>5. ASSUME NEW v \in 1..(size + 1), NEW w \in 1..(size + 1), v < w, owners[v] = owners[w]
          PROVE  heap'[v].startedAt + Window <= heap'[w].startedAt
      <3>1. v \in 1..size /\ heap'[v] = heap[v]
        BY <1>7, <1>9, <2>5
      <3>2. CASE w = size + 1
        <4>1. owner[v] = key /\ heap'[w].startedAt = from
          BY <1>9, <1>13, <2>5, <3>1, <3>2
        <4> QED BY <1>8, <3>1, <4>1
      <3>3. CASE w \in 1..size
        <4>1. owner[v] = owner[w] /\ heap'[w] = heap[w]
          BY <1>9, <1>13, <2>5, <3>1, <3>3
        <4> QED BY <1>2, <1>3, <2>5, <3>1, <3>3, <4>1 DEF InTurn
      <3> QED BY <1>10, <3>2, <3>3
    <2>6. 1..Len(heap') = 1..(size + 1)
      BY <1>9
    <2>7. owners \in [1..Len(heap') -> Keys]
      BY <1>13, <2>6
    <2>8. \A k \in DOMAIN windows' : windows'[k] \in 1..Len(heap') /\ owners[windows'[k]] = k
      BY <2>3, <2>6
    <2>9. \A w \in 1..Len(heap'), u \in Threads : ~Busy(u)'
      BY <1>6
    <2>10. \A w \in 1..Len(heap') : ~InUse(owners, w)' => heap'[w].startedAt + Window <= clock'
      BY <2>4, <2>6
    <2>11. \A v, w \in 1..Len(heap') :
             v < w /\ owners[v] = owners[w] => heap'[v].startedAt + Window <= heap'[w].startedAt
      BY <2>5, <2>6
    <2> QED BY <1>6, <2>7, <2>8, <2>10, <2>11 DEF InTurn
  <1>15. ASSUME NEW w \in 1..size, NEW s, s = heap[w].startedAt, NEW a, a = owner[w]
         PROVE  Within(a, s)' = Within(a, s)
    <2>1. s \in Nat /\ (a = key => s + Window <= from)
      BY <1>7, <1>8, <1>15
    <2>2. ~(Address[e.spelling] = a /\ e.verdict = "allowed" /\ s <= e.at /\ e.at < s + Window)
      BY <1>5, <1>7, <2>1
    <2> QED BY <1>1, <1>5, <2>2, WithinGrows
  <1>16. Within(key, from)' = {n + 1} /\ Cardinality({n + 1}) = 1
    <2>1. Within(key, from) = {}
      <3> SUFFICES ASSUME NEW i \in Within(key, from) PROVE FALSE
        OBVIOUS
      <3>1. i \in 1..Len(log) /\ log[i].verdict = "allowed" /\ Address[log[i].spelling] = key /\ from <= log[i].at
        BY DEF Within, Admitted
      <3>2. PICK w \in 1..Len(heap) : owner[w] = key /\ i \in Within(owner[w], heap[w].startedAt)
        BY <1>2, <3>1 DEF Accounts
      <3>3. log[i].at < heap[w].startedAt + Window
        BY <3>2 DEF Within
      <3>4. heap[w].startedAt + Window <= from /\ heap[w].startedAt \in Nat
        BY <1>3, <1>7, <1>8, <3>2
      <3>5. log[i].at \in Nat
        BY <1>1, <3>1, Numbers
      <3> QED BY <1>7, <3>1, <3>3, <3>4, <3>5
    <2>2. Within(key, from)' = Within(key, from) \cup {Len(log) + 1}
      <3>1. from <= e.at /\ e.at < from + Window
        BY <1>5, <1>7
      <3> QED BY <1>1, <1>5, <3>1, WithinGrows
    <2> QED BY <1>3, <2>1, <2>2, FS_Singleton
  <1>17. Accounts(owners)'
    <2>1. ASSUME NEW w \in 1..(size + 1), NEW s, s = heap'[w].startedAt, NEW a, a = owners[w]
          PROVE  /\ Cardinality(Within(a, s)') <= heap'[w].count
                 /\ Cardinality(Within(a, s)') <= MaxAttempts
                 /\ \E i \in Within(a, s)' : log'[i].at = s
      <3>1. CASE w = size + 1
        <4>1. s = from /\ a = key /\ heap'[w].count = 1
          BY <1>9, <1>13, <2>1, <3>1
        <4>2. Within(a, s)' = Within(key, from)'
          BY <4>1 DEF Within, Admitted
        <4>3. Cardinality(Within(a, s)') = 1 /\ n + 1 \in Within(a, s)'
          BY <1>16, <4>2
        <4>4. log'[n + 1].at = s
          BY <1>5, <4>1
        <4>5. 1 <= MaxAttempts
          BY <1>7
        <4> QED BY <4>1, <4>3, <4>4, <4>5
      <3>2. CASE w \in 1..size
        <4>1. s = heap[w].startedAt /\ a = owner[w] /\ heap'[w].count = heap[w].count
          BY <1>9, <1>13, <2>1, <3>2
        <4>2. Within(a, s)' = Within(a, s)
          BY <1>15, <3>2, <4>1
        <4>3. /\ Cardinality(Within(a, s)) <= heap[w].count
              /\ Cardinality(Within(a, s)) <= MaxAttempts
              /\ \E i \in Within(a, s) : log[i].at = s
          BY <1>2, <1>3, <3>2, <4>1 DEF Accounts
        <4>4. \A i \in Within(a, s) : log'[i] = log[i]
          BY <1>1, <1>3, <1>5, WithinIsFinite
        <4> QED BY <4>1, <4>2, <4>3, <4>4
      <3> QED BY <1>10, <3>1, <3>2
    <2>2. ASSUME NEW i \in 1..Len(log'), log'[i].verdict = "allowed"
          PROVE  \E w \in 1..(size + 1) : /\ owners[w] = Address[log'[i].spelling]
                                          /\ \A s : s = heap'[w].startedAt => i \in Within(owners[w], s)'
      <3>1. CASE i = n + 1
        <4>1. i \in Within(key, from)' /\ log'[i] = e
          BY <1>5, <1>16, <3>1
        <4>2. \A s : s = heap'[size + 1].startedAt => i \in Within(key, s)'
          BY <1>9, <4>1 DEF Within, Admitted
        <4> QED BY <1>5, <1>11, <1>13, <4>1, <4>2
      <3>2. CASE i \in 1..n
        <4>1. log'[i] = log[i]
          BY <1>5, <3>2
        <4>2. PICK w \in 1..size : owner[w] = Address[log[i].spelling] /\ i \in Within(owner[w], heap[w].startedAt)
          BY <1>2, <1>3, <2>2, <3>2, <4>1 DEF Accounts
        <4>3. ASSUME NEW s, s = heap'[w].startedAt PROVE i \in Within(owners[w], s)'
          <5>1. s = heap[w].startedAt /\ owners[w] = owner[w]
            BY <1>9, <1>13, <4>3
          <5>2. Within(owner[w], s)' = Within(owner[w], s)
            BY <1>15, <5>1
          <5> QED BY <4>2, <5>1, <5>2 DEF Within, Admitted
        <4> QED BY <1>11, <1>13, <4>1, <4>2, <4>3
      <3> QED BY <1>5, <3>1, <3>2
    <2>3. 1..Len(heap') = 1..(size + 1)
      BY <1>9
    <2>4. ASSUME NEW w \in 1..Len(heap')
          PROVE  /\ Cardinality(Within(owners[w], heap[w].startedAt)') <= heap'[w].count
                 /\ Cardinality(Within(owners[w], heap[w].startedAt)') <= MaxAttempts
                 /\ \E i \in Within(owners[w], heap[w].startedAt)' : log'[i].at = heap'[w].startedAt
      <3>1. PICK s, a : s = heap'[w].startedAt /\ a = owners[w]
        OBVIOUS
      <3>2. w \in 1..(size + 1)
        BY <2>3
      <3>3. /\ Cardinality(Within(a, s)') <= heap'[w].count
            /\ Cardinality(Within(a, s)') <= MaxAttempts
            /\ \E i \in Within(a, s)' : log'[i].at = s
        BY <2>1, <3>1, <3>2
      <3>4. Within(owners[w], heap[w].startedAt)' = Within(a, s)'
        BY <3>1 DEF Within, Admitted
      <3> QED BY <3>1, <3>3, <3>4
    <2>5. ASSUME NEW i \in 1..Len(log'), log'[i].verdict = "allowed"
          PROVE  \E w \in 1..Len(heap') : /\ owners[w] = Address[log'[i].spelling]
                                          /\ i \in Within(owners[w], heap[w].startedAt)'
      <3>1. PICK w \in 1..(size + 1) : /\ owners[w] = Address[log'[i].spelling]
                                       /\ \A s : s = heap'[w].startedAt => i \in Within(owners[w], s)'
        BY <2>2, <2>5
      <3>2. PICK s : s = heap'[w].startedAt
        OBVIOUS
      <3>3. i \in Within(owners[w], s)'
        BY <3>1, <3>2
      <3>4. Within(owners[w], heap[w].startedAt)' = Within(owners[w], s)'
        BY <3>2 DEF Within, Admitted
      <3> QED BY <2>3, <3>1, <3>3, <3>4
    <2> QED BY <2>4, <2>5 DEF Accounts
  <1>18. owners \in [1..Len(heap') -> Keys]
    BY <1>14 DEF InTurn
  <1> QED BY <1>6, <1>14, <1>17, <1>18 DEF Sequential

\* A call is counted in its address's window in use, and in no other.
LEMMA CountStaysSequential ==
  ASSUME LInv, Sequential, NEW t \in Threads, CountCall(t)
  PROVE  Sequential'
  <1>1. Shape /\ Timely /\ KnowsTable(t)
    BY DEF LInv, Sequential
  <1>2. PICK owner \in [1..Len(heap) -> Keys] : InTurn(owner) /\ Accounts(owner)
    BY DEF Sequential
  <1>3. PICK key, found, at, size, n :
          /\ key = LimiterKey(call[t].spelling) /\ found = call[t].got /\ at = call[t].at
          /\ size = Len(heap) /\ n = Len(log)
    OBVIOUS
  <1>4. /\ Busy(t) /\ clock' = clock /\ windows' = windows
        /\ found # NoWindow /\ ~IsExpired(found, at)
        /\ key \in DOMAIN windows /\ windows[key] = found
    <2>1. call[t].pc = "count"
      BY DEF CountCall
    <2>2. found = IF key \in DOMAIN windows THEN windows[key] ELSE NoWindow
      BY <1>1, <1>3, <2>1 DEF KnowsTable
    <2>3. Busy(t)
      BY <2>1 DEF Busy
    <2> QED BY <1>3, <2>2, <2>3 DEF CountCall, NeedsNewWindow
  <1>5. found \in 1..size /\ owner[found] = key
    BY <1>2, <1>3, <1>4 DEF InTurn
  <1>6. PICK from, count, next :
          /\ from = heap[found].startedAt /\ count = heap[found].count
          /\ next = [heap[found] EXCEPT !.count = @ + 1]
    OBVIOUS
  <1>7. /\ size \in Nat /\ n \in Nat /\ from \in Nat /\ count \in Nat /\ at \in Nat /\ clock \in Nat
        /\ Window \in Nat \ {0} /\ MaxAttempts \in Nat \ {0}
        /\ \A w \in 1..size : heap[w].startedAt \in Nat
    BY <1>1, <1>3, <1>5, <1>6, Numbers
  <1>8. from <= at /\ at < from + Window
    <2>1. from <= at
      BY <1>2, <1>3, <1>4, <1>5, <1>6 DEF InTurn
    <2>2. ~(at >= from + Window)
      BY <1>4, <1>6 DEF IsExpired
    <2> QED BY <1>7, <2>1, <2>2
  <1>9. next \in Opened /\ next.startedAt = from /\ next.count = count + 1
    <2>1. heap[found] \in Opened
      BY <1>1, <1>3, <1>5 DEF Shape
    <2> QED BY <1>6, <1>7, <2>1 DEF Opened
  <1>10. Answer(t, Verdict(count + 1)) /\ heap' = [heap EXCEPT ![found] = next]
    BY <1>1, <1>3, <1>5, <1>6, Frames DEF CountCall
  <1>11. /\ Len(heap') = size /\ heap'[found] = next
         /\ \A w \in 1..size : w # found => heap'[w] = heap[w]
    BY <1>1, <1>3, <1>5, <1>9, <1>10 DEF Shape
  <1>12. Verdict(count + 1) \in {"allowed", "refused"}
    BY DEF Verdict
  <1>13. PICK e \in Entry :
           /\ log' = Append(log, e) /\ e.verdict = Verdict(count + 1) /\ e.at = at
           /\ Address[e.spelling] = key /\ key \in Keys
           /\ Len(log') = n + 1 /\ log'[n + 1] = e
           /\ \A i \in 1..n : log'[i] = log[i]
           /\ \A i \in 1..Len(log') : i \in 1..n \/ i = n + 1
    BY <1>3, <1>4, <1>10, <1>12, SoleReturns
  <1>14. Sole' /\ NoneFailed' /\ \A u \in Threads : ~Busy(u)' /\ KnowsTable(u)'
    BY <1>4, <1>10, <1>12, SoleReturns
  <1>15. \A w \in 1..size : heap'[w].startedAt = heap[w].startedAt
    BY <1>6, <1>9, <1>11
  <1>16. InTurn(owner)'
    <2>1. owner \in [1..Len(heap') -> Keys]
      BY <1>2, <1>3, <1>11
    <2>2. \A k \in DOMAIN windows' : windows'[k] \in 1..Len(heap') /\ owner[windows'[k]] = k
      BY <1>2, <1>3, <1>4, <1>11 DEF InTurn
    <2>3. \A w \in 1..Len(heap') : ~InUse(owner, w)' => heap'[w].startedAt + Window <= clock'
      BY <1>2, <1>3, <1>4, <1>11, <1>15 DEF InTurn, InUse
    <2>4. \A v, w \in 1..Len(heap') :
            v < w /\ owner[v] = owner[w] => heap'[v].startedAt + Window <= heap'[w].startedAt
      BY <1>2, <1>3, <1>11, <1>15 DEF InTurn
    <2> QED BY <1>14, <2>1, <2>2, <2>3, <2>4 DEF InTurn
  <1>17. ASSUME NEW w \in 1..size, w # found, NEW s, s = heap[w].startedAt, NEW a, a = owner[w]
         PROVE  Within(a, s)' = Within(a, s)
    <2>1. s \in Nat /\ (a = key => s + Window <= at)
      BY <1>2, <1>3, <1>4, <1>7, <1>17 DEF InTurn, InUse
    <2>2. ~(Address[e.spelling] = a /\ e.verdict = "allowed" /\ s <= e.at /\ e.at < s + Window)
      BY <1>7, <1>13, <2>1
    <2> QED BY <1>1, <1>13, <2>2, WithinGrows
  <1>18. /\ Cardinality(Within(key, from)) \in Nat /\ Cardinality(Within(key, from)) <= count
         /\ Cardinality(Within(key, from)) <= MaxAttempts
         /\ \E i \in Within(key, from) : log[i].at = from
    BY <1>1, <1>2, <1>3, <1>5, <1>6, WithinIsFinite DEF Accounts
  <1>19. /\ Within(key, from) \subseteq Within(key, from)'
         /\ Cardinality(Within(key, from)') <= count + 1
         /\ Cardinality(Within(key, from)') <= MaxAttempts
         /\ e.verdict = "allowed" => n + 1 \in Within(key, from)'
    <2>1. CASE e.verdict = "allowed"
      <3>1. /\ Within(key, from)' = Within(key, from) \cup {n + 1}
            /\ Cardinality(Within(key, from)') = Cardinality(Within(key, from)) + 1
        BY <1>1, <1>3, <1>8, <1>13, <2>1, WithinGrows
      <3>2. count + 1 <= MaxAttempts
        BY <1>13, <2>1 DEF Verdict
      <3>3. PICK c : c = Cardinality(Within(key, from)) /\ c \in Nat /\ c <= count
        BY <1>18
      <3>4. c + 1 <= count + 1 /\ c + 1 <= MaxAttempts
        BY <1>7, <3>2, <3>3
      <3> QED BY <3>1, <3>3, <3>4
    <2>2. CASE e.verdict # "allowed"
      <3>1. Within(key, from)' = Within(key, from)
        BY <1>1, <1>13, <2>2, WithinGrows
      <3> QED BY <1>7, <1>18, <2>2, <3>1
    <2> QED BY <2>1, <2>2
  <1>20. ASSUME NEW w \in 1..size, NEW s, s = heap[w].startedAt, NEW a, a = owner[w]
         PROVE  /\ Within(a, s) \subseteq Within(a, s)'
                /\ Cardinality(Within(a, s)') <= heap'[w].count
                /\ Cardinality(Within(a, s)') <= MaxAttempts
                /\ \E i \in Within(a, s)' : log'[i].at = s
    <2>1. /\ Within(a, s) \subseteq Within(a, s)'
          /\ Cardinality(Within(a, s)') <= heap'[w].count
          /\ Cardinality(Within(a, s)') <= MaxAttempts
      <3>1. CASE w = found
        <4>1. a = key /\ s = from /\ heap'[w].count = count + 1
          BY <1>5, <1>6, <1>9, <1>11, <1>20, <3>1
        <4>2. Within(a, s)' = Within(key, from)' /\ Within(a, s) = Within(key, from)
          BY <4>1 DEF Within, Admitted
        <4> QED BY <1>19, <4>1, <4>2
      <3>2. CASE w # found
        <4>1. Within(a, s)' = Within(a, s) /\ heap'[w] = heap[w]
          BY <1>11, <1>17, <1>20, <3>2
        <4> QED BY <1>2, <1>3, <1>20, <4>1 DEF Accounts
      <3> QED BY <3>1, <3>2
    <2>2. PICK i \in Within(a, s) : log[i].at = s
      BY <1>2, <1>3, <1>20 DEF Accounts
    <2>3. log'[i] = log[i]
      BY <1>1, <1>3, <1>13, WithinIsFinite
    <2> QED BY <2>1, <2>2, <2>3
  <1>21. ASSUME NEW i \in 1..Len(log'), log'[i].verdict = "allowed"
         PROVE  \E w \in 1..size : /\ owner[w] = Address[log'[i].spelling]
                                   /\ \A s : s = heap[w].startedAt => i \in Within(owner[w], s)'
    <2>1. CASE i = n + 1
      <3>1. i \in Within(key, from)' /\ log'[i] = e
        BY <1>13, <1>19, <1>21, <2>1
      <3>2. \A s : s = heap[found].startedAt => i \in Within(owner[found], s)'
        BY <1>5, <1>6, <3>1 DEF Within, Admitted
      <3> QED BY <1>5, <1>13, <3>1, <3>2
    <2>2. CASE i \in 1..n
      <3>1. log'[i] = log[i]
        BY <1>13, <2>2
      <3>2. PICK w \in 1..size : /\ owner[w] = Address[log[i].spelling]
                                 /\ i \in Within(owner[w], heap[w].startedAt)
        BY <1>2, <1>3, <1>21, <2>2, <3>1 DEF Accounts
      <3>3. ASSUME NEW s, s = heap[w].startedAt PROVE i \in Within(owner[w], s)'
        <4>1. PICK a : a = owner[w]
          OBVIOUS
        <4>2. Within(a, s) \subseteq Within(a, s)' /\ i \in Within(a, s)
          BY <1>20, <3>2, <3>3, <4>1
        <4>3. i \in Within(a, s)'
          BY <4>2
        <4> QED BY <4>1, <4>3 DEF Within, Admitted
      <3> QED BY <3>1, <3>2, <3>3
    <2> QED BY <1>13, <2>1, <2>2
  <1>22. Accounts(owner)'
    <2>1. ASSUME NEW w \in 1..Len(heap')
          PROVE  /\ Cardinality(Within(owner[w], heap[w].startedAt)') <= heap'[w].count
                 /\ Cardinality(Within(owner[w], heap[w].startedAt)') <= MaxAttempts
                 /\ \E i \in Within(owner[w], heap[w].startedAt)' : log'[i].at = heap'[w].startedAt
      <3>1. PICK s, a : s = heap[w].startedAt /\ a = owner[w]
        OBVIOUS
      <3>2. w \in 1..size /\ heap'[w].startedAt = s
        BY <1>11, <1>15, <3>1
      <3>3. /\ Cardinality(Within(a, s)') <= heap'[w].count
            /\ Cardinality(Within(a, s)') <= MaxAttempts
            /\ \E i \in Within(a, s)' : log'[i].at = s
        BY <1>20, <3>1, <3>2
      <3>4. Within(owner[w], heap[w].startedAt)' = Within(a, s)'
        BY <3>1, <3>2 DEF Within, Admitted
      <3> QED BY <3>2, <3>3, <3>4
    <2>2. ASSUME NEW i \in 1..Len(log'), log'[i].verdict = "allowed"
          PROVE  \E w \in 1..Len(heap') : /\ owner[w] = Address[log'[i].spelling]
                                          /\ i \in Within(owner[w], heap[w].startedAt)'
      <3>1. PICK w \in 1..size : /\ owner[w] = Address[log'[i].spelling]
                                 /\ \A s : s = heap[w].startedAt => i \in Within(owner[w], s)'
        BY <1>21, <2>2
      <3>2. PICK s : s = heap[w].startedAt
        OBVIOUS
      <3>3. i \in Within(owner[w], s)' /\ heap'[w].startedAt = s
        BY <1>15, <3>1, <3>2
      <3>4. Within(owner[w], heap[w].startedAt)' = Within(owner[w], s)'
        BY <3>3 DEF Within, Admitted
      <3> QED BY <1>11, <3>1, <3>3, <3>4
    <2> QED BY <2>1, <2>2 DEF Accounts
  <1>23. owner \in [1..Len(heap') -> Keys]
    BY <1>16 DEF InTurn
  <1> QED BY <1>14, <1>16, <1>22, <1>23 DEF Sequential

\* The passing of time ends windows and nothing else.
LEMMA ClockStaysSequential ==
  ASSUME Shape, Sequential, clock' \in Nat, clock' >= clock, UNCHANGED <<heap, windows, call, log>>
  PROVE  Sequential'
  <1>1. Sole' /\ NoneFailed' /\ \A t \in Threads : KnowsTable(t)'
    BY DEF Sequential, Sole, NoneFailed, KnowsTable, Busy, ExpiredKeys, IsExpired
  <1>2. PICK owner \in [1..Len(heap) -> Keys] : InTurn(owner) /\ Accounts(owner)
    BY DEF Sequential
  <1>3. Accounts(owner)'
    BY <1>2 DEF Accounts, Within, Admitted
  <1>4. ASSUME NEW w \in 1..Len(heap), ~InUse(owner, w)
        PROVE  /\ heap[w].startedAt + Window <= clock'
               /\ \A t \in Threads : Busy(t) => heap[w].startedAt + Window <= call[t].at
    <2>1. PICK over : over = heap[w].startedAt + Window
      OBVIOUS
    <2>2. over \in Nat /\ clock \in Nat
      BY <2>1, Numbers
    <2>3. over <= clock /\ \A t \in Threads : Busy(t) => over <= call[t].at
      BY <1>2, <1>4, <2>1 DEF InTurn
    <2>4. over <= clock'
      BY <2>2, <2>3
    <2> QED BY <2>1, <2>3, <2>4
  <1>5. InTurn(owner)'
    BY <1>2, <1>4 DEF InTurn, InUse, Busy
  <1> QED BY <1>1, <1>2, <1>3, <1>5 DEF Sequential

LEMMA StartsSequential == LimiterInit => Sequential
  <1> SUFFICES ASSUME LimiterInit PROVE Sequential
    OBVIOUS
  <1>1. Len(heap) = 0 /\ Len(log) = 0 /\ DOMAIN windows = {}
    BY DEF LimiterInit
  <1>2. \A t \in Threads : call[t].pc = "idle"
    BY DEF LimiterInit, IdleCall
  <1>3. Sole /\ NoneFailed /\ \A t \in Threads : KnowsTable(t)
    BY <1>1, <1>2 DEF Sole, Busy, NoneFailed, KnowsTable
  <1>4. PICK owner : owner = [w \in 1..Len(heap) |-> CHOOSE k \in Keys : TRUE]
    OBVIOUS
  <1>5. owner \in [1..Len(heap) -> Keys]
    BY <1>1, <1>4
  <1>6. InTurn(owner) /\ Accounts(owner)
    BY <1>1, <1>5 DEF InTurn, Accounts
  <1> QED BY <1>3, <1>5, <1>6 DEF Sequential

LEMMA StepsStaySequential ==
  LInv /\ LInv' /\ (~overlapped => Sequential) /\ [LimiterNext]_limiterVars => (~overlapped' => Sequential')
  <1> SUFFICES ASSUME LInv, LInv', ~overlapped => Sequential, [LimiterNext]_limiterVars, ~overlapped'
               PROVE  Sequential'
    OBVIOUS
  <1>1. Shape /\ clock \in Nat
    BY DEF LInv, Shape
  <1>2. CASE ClockTicks
    BY <1>1, <1>2, ClockStaysSequential DEF ClockTicks
  <1>3. ASSUME NEW t \in Threads, CheckStep(t) PROVE Sequential'
    <2>1. ASSUME NEW s \in Spellings, EnterCheck(t, s) PROVE Sequential'
      <3>1. Sequential
        BY <2>1 DEF EnterCheck
      <3> QED BY <2>1, <3>1, EnterStaysSequential
    <2>2. CASE BeginSweep(t) \/ EndSweep(t) \/ DeleteExpired(t) \/ GetWindow(t)
               \/ OpenWindow(t) \/ CountCall(t)
      <3>1. Sequential
        BY <2>2 DEF BeginSweep, EndSweep, DeleteExpired, GetWindow, OpenWindow, CountCall
      <3> QED BY <2>2, <3>1, SweepStaysSequential, DeleteStaysSequential, GetStaysSequential,
                 OpenStaysSequential, CountStaysSequential
    <2> QED BY <1>3, <2>1, <2>2 DEF CheckStep
  <1>4. CASE UNCHANGED limiterVars
    BY <1>1, <1>4, ClockStaysSequential DEF limiterVars
  <1> QED BY <1>2, <1>3, <1>4 DEF LimiterNext

\* As long as no two calls to check() overlap, any interval as long as the
\* window lets at most 2 * MaxAttempts - 1 calls for one user row through to
\* the password check, the boundary burst rate_limit.py accepts, however the
\* address is spelled and whenever the calls come; and no call raises.
THEOREM BudgetHolds == LimiterSpec => []SequentialBudget
  <1> DEFINE SInv == ~overlapped => Sequential
  <1>1. LimiterInit => SInv
    BY StartsSequential
  <1>2. LInv /\ LInv' /\ SInv /\ [LimiterNext]_limiterVars => SInv'
    BY StepsStaySequential
  <1>3. LInv /\ SInv => SequentialBudget
    BY SequentialIsWithinBudget DEF SequentialBudget, Sequential, NoneFailed, LInv
  <1> HIDE DEF SInv
  <1> QED BY <1>1, <1>2, <1>3, LimiterStarts, LimiterSteps, PTL DEF LimiterSpec

=============================================================================
