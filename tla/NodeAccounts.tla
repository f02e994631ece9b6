---------------------------- MODULE NodeAccounts ----------------------------
(***************************************************************************)
(* The accounts of the people who run agents: registration with a one-time *)
(* password, sessions, a wish to be deleted, and the agents bound to an     *)
(* account.  Everything is kept in memory and changed without a lock; the   *)
(* accounts and the sessions are written to a file after each change, and   *)
(* an error of that is swallowed.  Passwords and one-time passwords of other *)
(* accounts are refusals that change nothing.                               *)
(***************************************************************************)
EXTENDS ServerThreads, Naturals

CONSTANTS
  Email,       \* addresses
  AgentId,       \* agents that sign to be bound
  MaxCall,     \* bound on the calls that pass their checks
  MaxReboot   \* bound on the restarts

ASSUME AccountsAssumption == MaxCall \in Nat /\ MaxReboot \in Nat /\ "none" \notin Email

\* Accounts, one-time passwords and tokens are numbered by the call that made them.
Number == 1 .. MaxCall

VARIABLES
  operators,   \* _by_id: the accounts by number, NoOperator where there is none
  byEmail,     \* _by_email
  otps,        \* _otps: the number of the account that a password was made for
  sessions,    \* _sessions: the account of each token, 0 when it is not valid
  bindings,    \* _bindings: pairs of account and agent
  opFile,      \* the file: accounts, tokens, and whether it can be read
  nodeUp,      \* whether the node runs
  serving,     \* the threads: step, operation and its arguments, texts to write
  calls,       \* number of calls
  reboots,    \* number of restarts
  provedWith,  \* history: the one-time password that an account was verified with
  promised,    \* history: what callers were told and no later call may change
  mishap       \* history: whether calls overlapped, and whether a write failed

accountVars == <<operators, byEmail, otps, sessions, bindings, opFile, nodeUp, serving, calls,
                 reboots, provedWith, promised, mishap>>

NoOperator == [email |-> "none", verified |-> FALSE, leaving |-> FALSE]
NoOne      == [n \in Number |-> NoOperator]
NoToken    == [n \in Number |-> 0]
OperatorDb(ops, tokens) == [readable |-> TRUE, operators |-> ops, sessions |-> tokens]
TornDb     == [readable |-> FALSE, operators |-> NoOne, sessions |-> NoToken]
NoCall     == [pc |-> "idle", op |-> "none", email |-> "none", n |-> 0, agent |-> "none", otp |-> 0,
               kept |-> {}, ops |-> NoOne, tokens |-> NoToken]

AccountsInit ==
  /\ operators = NoOne /\ byEmail = [e \in Email |-> 0] /\ otps = [e \in Email |-> 0]
  /\ sessions = NoToken /\ bindings = {}
  /\ opFile = OperatorDb(NoOne, NoToken) /\ nodeUp = TRUE
  /\ serving = [t \in Thread |-> NoCall]
  /\ calls = 0 /\ reboots = 0
  /\ provedWith = [n \in Number |-> 0]
  /\ promised = [verified |-> {}, loggedOut |-> {}, leaving |-> {}, bound |-> {}, staying |-> {}]
  /\ mishap = [raced |-> FALSE, unsaved |-> FALSE]

Goes(t, pc) == serving' = [serving EXCEPT ![t].pc = pc]

---------------------------------------------------------------------------
(* The calls, up to the first change.  A call that is refused changes nothing. *)

Called(t, c) ==
  /\ nodeUp /\ serving[t].pc = "idle" /\ calls < MaxCall
  /\ calls' = calls + 1
  /\ serving' = [serving EXCEPT ![t] = c]
  /\ UNCHANGED <<operators, byEmail, otps, sessions, bindings, opFile, provedWith>>

\* register: the address is free ...
RegisterOperator(t, e) ==
  /\ byEmail[e] = 0
  /\ Called(t, [NoCall EXCEPT !.pc = "insert", !.op = "register", !.email = e, !.n = calls + 1])
  /\ UNCHANGED promised

\* verify_email: the password is the one that is kept for the address ...
VerifyEmail(t, e, otp) ==
  /\ otps[e] = otp /\ otp # 0 /\ byEmail[e] # 0
  /\ Called(t, [NoCall EXCEPT !.pc = "verify", !.op = "verify", !.email = e, !.n = byEmail[e],
                              !.otp = otp])
  /\ UNCHANGED promised

\* login: the account of the address is verified; the token is a new one.
Login(t, e) ==
  /\ byEmail[e] # 0 /\ operators[byEmail[e]].verified
  /\ Called(t, [NoCall EXCEPT !.pc = "login", !.op = "login", !.email = e, !.n = calls + 1])
  /\ UNCHANGED promised

\* _operator_from_request, _require_operator: the account of a token.
OperatorOf(token) ==
  IF sessions[token] # 0 /\ operators[sessions[token]] # NoOperator THEN sessions[token] ELSE 0

Logout(t, token) ==
  /\ sessions[token] # 0
  /\ Called(t, [NoCall EXCEPT !.pc = "logout", !.op = "logout", !.n = token])
  /\ UNCHANGED promised

\* request_deletion, cancel_deletion, by a session.
Deletion(t, token, op) ==
  /\ OperatorOf(token) # 0 /\ op \in {"leave", "stay"}
  /\ Called(t, [NoCall EXCEPT !.pc = op, !.op = op, !.n = OperatorOf(token)])
  /\ promised' = [promised EXCEPT !.leaving = @ \ {OperatorOf(token)}, !.staying = @ \ {OperatorOf(token)}]

\* bind and unbind an agent, by a session; bind demands the agent's signature.
Bind(t, token, a) ==
  /\ OperatorOf(token) # 0
  /\ Called(t, [NoCall EXCEPT !.pc = "bind", !.op = "bind", !.n = OperatorOf(token), !.agent = a])
  /\ UNCHANGED promised

Unbind(t, token, a) ==
  LET pair == <<OperatorOf(token), a>> IN
  /\ pair[1] # 0 /\ pair \in bindings
  /\ Called(t, [NoCall EXCEPT !.pc = "unbind", !.op = "unbind", !.n = pair[1], !.agent = a,
                              !.kept = bindings \ {pair}])
  /\ promised' = [promised EXCEPT !.bound = @ \ {pair}]

\* consume_propose, in every proposal: the count of the day, which is in the same file.
ConsumePropose(t) ==
  /\ Called(t, [NoCall EXCEPT !.pc = "dump", !.op = "propose", !.n = calls + 1])
  /\ UNCHANGED promised

---------------------------------------------------------------------------
(* The changes.                                                            *)

\* ... the account gets its address ...
Insert(t) ==
  LET c == serving[t] IN
  /\ c.pc = "insert"
  /\ operators' = [operators EXCEPT ![c.n] = [NoOperator EXCEPT !.email = c.email]]
  /\ byEmail' = [byEmail EXCEPT ![c.email] = c.n]
  /\ Goes(t, "otp")
  /\ UNCHANGED <<otps, sessions, bindings, opFile, provedWith, promised>>

\* ... and a one-time password.
GiveOtp(t) ==
  LET c == serving[t] IN
  /\ c.pc = "otp"
  /\ otps' = [otps EXCEPT ![c.email] = c.n]
  /\ Goes(t, "dump")
  /\ UNCHANGED <<operators, byEmail, sessions, bindings, opFile, provedWith, promised>>

\* ... the account is verified; the password is forgotten, unless another call of
\* the same password has done that before: this one then ends in an error.
Verify(t) ==
  LET c == serving[t] IN
  /\ c.pc = "verify"
  /\ operators' = [operators EXCEPT ![c.n].verified = TRUE]
  /\ provedWith' = [provedWith EXCEPT ![c.n] = c.otp]
  /\ otps' = [otps EXCEPT ![c.email] = 0]
  /\ serving' = [serving EXCEPT ![t] = IF otps[c.email] = 0 THEN NoCall ELSE [c EXCEPT !.pc = "dump"]]
  /\ UNCHANGED <<byEmail, sessions, bindings, opFile, promised>>

\* login, logout and the wish to be deleted are one assignment each.
Assign(t) ==
  LET c == serving[t] IN
  /\ c.pc \in {"login", "logout", "leave", "stay"}
  /\ sessions' = CASE c.op = "login"  -> [sessions EXCEPT ![c.n] = byEmail[c.email]]
                   [] c.op = "logout" -> [sessions EXCEPT ![c.n] = 0]
                   [] OTHER           -> sessions
  /\ operators' = IF c.op \in {"leave", "stay"}
                  THEN [operators EXCEPT ![c.n].leaving = c.op = "leave"] ELSE operators
  /\ Goes(t, "dump")
  /\ UNCHANGED <<byEmail, otps, bindings, opFile, provedWith, promised>>

\* The list gets the pair, or is replaced by the one that was made without it.
Rebind(t) ==
  LET c == serving[t] IN
  /\ c.pc \in {"bind", "unbind"}
  /\ bindings' = IF c.op = "bind" THEN bindings \cup {<<c.n, c.agent>>} ELSE c.kept
  /\ Goes(t, "answer")
  /\ UNCHANGED <<operators, byEmail, otps, sessions, opFile, provedWith, promised>>

---------------------------------------------------------------------------
(* The file.                                                               *)

\* Mutant: verify_email does not save.
Persists_NotVerify(op) == op # "verify"

\* The operations that end with _maybe_persist; bindings are never saved.
Persists(op) == op \in {"register", "verify", "login", "logout", "leave", "stay", "propose"}

\* save_operator_registry: the text has the accounts of one moment ...
DumpOperators(t) ==
  /\ serving[t].pc = "dump"
  /\ serving' = IF Persists(serving[t].op)
                THEN [serving EXCEPT ![t].pc = "tokens", ![t].ops = operators]
                ELSE [serving EXCEPT ![t].pc = "answer"]
  /\ UNCHANGED <<operators, byEmail, otps, sessions, bindings, opFile, provedWith, promised>>

\* ... and the tokens of a later one; write_text opens the file, which empties it ...
DumpTokens(t) ==
  /\ serving[t].pc = "tokens"
  /\ serving' = [serving EXCEPT ![t].pc = "write", ![t].tokens = sessions]
  /\ opFile' = TornDb
  /\ UNCHANGED <<operators, byEmail, otps, sessions, bindings, provedWith, promised>>

\* ... and writes it.
WriteFile(t) ==
  /\ serving[t].pc = "write"
  /\ opFile' = OperatorDb(serving[t].ops, serving[t].tokens)
  /\ Goes(t, "answer")
  /\ UNCHANGED <<operators, byEmail, otps, sessions, bindings, provedWith, promised>>

\* An error on the way is swallowed by _maybe_persist.
WriteFails(t) ==
  /\ serving[t].pc \in {"tokens", "write"}
  /\ Goes(t, "answer")
  /\ UNCHANGED <<operators, byEmail, otps, sessions, bindings, opFile, provedWith, promised>>

\* The endpoint answers.
AnswerCall(t) ==
  LET c == serving[t] IN
  /\ c.pc = "answer"
  /\ promised' = CASE c.op = "verify" -> [promised EXCEPT !.verified = @ \cup {c.n}]
                   [] c.op = "logout" -> [promised EXCEPT !.loggedOut = @ \cup {c.n}]
                   [] c.op = "leave"  -> [promised EXCEPT !.leaving = @ \cup {c.n}]
                   [] c.op = "stay"   -> [promised EXCEPT !.staying = @ \cup {c.n}]
                   [] c.op = "bind"   -> [promised EXCEPT !.bound = @ \cup {<<c.n, c.agent>>}]
                   [] OTHER           -> promised
  /\ serving' = [serving EXCEPT ![t] = NoCall]
  /\ UNCHANGED <<operators, byEmail, otps, sessions, bindings, opFile, provedWith>>

\* The process ends and starts from the file, if it can be read: the accounts, in
\* their order, and the tokens.  One-time passwords and bindings are gone.
RestartNode ==
  /\ nodeUp /\ reboots < MaxReboot
  /\ reboots' = reboots + 1
  /\ nodeUp' = opFile.readable
  /\ operators' = opFile.operators /\ sessions' = opFile.sessions
  /\ byEmail' = [e \in Email |->
       LET of == {n \in Number : opFile.operators[n].email = e} IN
       IF of = {} THEN 0 ELSE CHOOSE n \in of : \A k \in of : k <= n]
  /\ otps' = [e \in Email |-> 0] /\ bindings' = {}
  /\ serving' = [t \in Thread |-> NoCall]
  /\ promised' = [promised EXCEPT !.bound = {}]
  /\ UNCHANGED <<opFile, calls, provedWith, mishap>>

\* The endpoints that need no session, and those of one.
AddressCall(t) ==
  \/ ConsumePropose(t)
  \/ \E e \in Email : RegisterOperator(t, e) \/ Login(t, e) \/ \E otp \in Number : VerifyEmail(t, e, otp)

SessionCall(t) ==
  \E token \in Number :
    \/ Logout(t, token)
    \/ \E op \in {"leave", "stay"} : Deletion(t, token, op)
    \/ \E a \in AgentId : Bind(t, token, a) \/ Unbind(t, token, a)

Serves(t) ==
  \/ Insert(t) \/ GiveOtp(t) \/ Verify(t) \/ Assign(t) \/ Rebind(t)
  \/ DumpOperators(t) \/ DumpTokens(t) \/ WriteFile(t) \/ AnswerCall(t)

AccountsNext ==
  \/ /\ \E t \in Thread : AddressCall(t) \/ SessionCall(t)
     /\ mishap' = [mishap EXCEPT !.raced = @ \/ ~Alone(serving')]
     /\ UNCHANGED <<nodeUp, reboots>>
  \/ (\E t \in Thread : Serves(t)) /\ UNCHANGED <<nodeUp, calls, reboots, mishap>>
  \/ /\ \E t \in Thread : WriteFails(t)
     /\ mishap' = [mishap EXCEPT !.unsaved = TRUE] /\ UNCHANGED <<nodeUp, calls, reboots>>
  \/ RestartNode

AccountsSpec == AccountsInit /\ [][AccountsNext]_accountVars

---------------------------------------------------------------------------
(* Properties.                                                             *)

\* An account is verified with the password of its own registration and is the only
\* one of its address, as long as calls do not overlap.
OwnedByAddress ==
  ~mishap.raced =>
    \A n \in Number :
      /\ operators[n].verified => provedWith[n] = n
      /\ operators[n] # NoOperator => byEmail[operators[n].email] = n

\* A valid token is one of a verified account, as long as calls do not overlap: the
\* tokens in the file are of a later moment than its accounts.
TokensAreOfVerified ==
  ~mishap.raced => \A k \in Number : OperatorOf(k) # 0 => operators[OperatorOf(k)].verified

\* What a caller was told holds until a later call changes it, also after a restart,
\* as long as calls do not overlap and no write failed.
PromisesAreKept ==
  nodeUp /\ ~mishap.raced /\ ~mishap.unsaved =>
    /\ \A n \in promised.verified : operators[n].verified
    /\ \A k \in promised.loggedOut : sessions[k] = 0
    /\ \A n \in promised.leaving : operators[n].leaving
    /\ \A n \in promised.staying : ~operators[n].leaving
    /\ promised.bound \subseteq bindings

\* operators.py, operator_persist.py, operator_bindings.py: accounts belong to those who
\* proved their address, and answers survive the process.
AccountsAreSound == OwnedByAddress /\ TokensAreOfVerified /\ PromisesAreKept

---------------------------------------------------------------------------
(* The inductive invariant of AccountsAreSound (ServiceProofs).            *)

Operator  == [email : Email \cup {"none"}, verified : BOOLEAN, leaving : BOOLEAN]
Tokens    == [Number -> 0 .. MaxCall]
Pair      == Number \X AgentId
Changes   == {"verify", "login", "logout", "leave", "stay", "bind", "unbind"}
Writing   == {"dump", "tokens", "write"}
CallRecord ==
  [pc : Changes \cup Writing \cup {"idle", "insert", "otp", "answer"},
   op : Changes \cup {"none", "register", "propose"}, email : Email \cup {"none"}, n : 0 .. MaxCall,
   agent : AgentId \cup {"none"}, otp : 0 .. MaxCall, kept : SUBSET Pair,
   ops : [Number -> Operator], tokens : Tokens]

\* A call has the arguments of its operation and is at a step of it.
CallOK(c) ==
  /\ c \in CallRecord
  /\ c.pc = "idle" => c = NoCall
  /\ c.pc # "idle" => c.n \in Number
  /\ c.pc \in {"insert", "otp"} => c.op = "register"
  /\ c.pc \in Changes => c.op = c.pc
  /\ c.pc \in Writing => Persists(c.op)
  /\ c.op \in {"register", "verify", "login"} => c.email \in Email
  /\ c.op \in {"bind", "unbind"} => c.agent \in AgentId

AccountsTypeOK ==
  /\ operators \in [Number -> Operator] /\ sessions \in Tokens /\ bindings \in SUBSET Pair
  /\ byEmail \in [Email -> 0 .. MaxCall] /\ otps \in [Email -> 0 .. MaxCall]
  /\ opFile \in [readable : BOOLEAN, operators : [Number -> Operator], sessions : Tokens]
  /\ serving \in [Thread -> CallRecord] /\ \A t \in Thread : CallOK(serving[t])
  /\ nodeUp \in BOOLEAN /\ calls \in 0 .. MaxCall /\ provedWith \in [Number -> 0 .. MaxCall]
  /\ promised \in [verified : SUBSET Number, loggedOut : SUBSET Number, leaving : SUBSET Number,
                   bound : SUBSET Pair, staying : SUBSET Number]
  /\ mishap \in [raced : BOOLEAN, unsaved : BOOLEAN]

\* Accounts and tokens that belong together, in memory or in the file.
WellKept(ops, tokens) ==
  /\ \A n \in Number : ops[n].verified => provedWith[n] = n
  /\ \A n \in Number : ops[n].email = "none" => ops[n] = NoOperator
  /\ \A n, k \in Number : ops[n].email = ops[k].email /\ ops[n].email # "none" => n = k
  /\ \A n \in Number : ops[n].email # "none" => n <= calls
  /\ \A k \in Number : tokens[k] # 0 => ops[tokens[k]].verified /\ k <= calls

Registered ==
  /\ WellKept(operators, sessions) /\ WellKept(opFile.operators, opFile.sessions)
  /\ \A e \in Email, n \in Number : byEmail[e] = n <=> operators[n].email = e
  /\ \A e \in Email : otps[e] # 0 => otps[e] = byEmail[e]
  /\ promised.bound \subseteq bindings
  /\ \A n \in promised.verified \cup promised.loggedOut \cup promised.leaving \cup promised.staying :
       n <= calls

\* What the call under way has seen and done, while no other is.
SeenAndDone(c) ==
  /\ c.pc # "idle" => c.n <= calls
  /\ c.pc = "insert" => /\ byEmail[c.email] = 0 /\ operators[c.n] = NoOperator
                        /\ c.n \notin promised.verified \cup promised.leaving
  /\ c.pc = "otp"    => byEmail[c.email] = c.n
  /\ c.pc = "verify" => c.otp = c.n /\ byEmail[c.email] = c.n /\ otps[c.email] = c.n
  /\ c.pc = "login"  => /\ byEmail[c.email] # 0 /\ operators[byEmail[c.email]].verified
                        /\ c.n \notin promised.loggedOut
  /\ c.op \in {"leave", "stay"} =>
       operators[c.n].email # "none" /\ c.n \notin promised.leaving \cup promised.staying
  /\ c.pc = "unbind" => promised.bound \subseteq c.kept
  /\ c.pc \in {"tokens", "write"} => c.ops = operators
  /\ c.pc = "write"  => c.tokens = sessions
  /\ c.pc \in Writing \cup {"answer"} =>
       /\ c.op = "verify" => operators[c.n].verified
       /\ c.op = "logout" => sessions[c.n] = 0
       /\ c.op \in {"leave", "stay"} => operators[c.n].leaving = (c.op = "leave")
       /\ c.op = "bind"   => <<c.n, c.agent>> \in bindings

\* What was answered holds of these accounts and tokens.
Honoured(ops, tokens) ==
  /\ \A n \in promised.verified : ops[n].verified
  /\ \A k \in promised.loggedOut : tokens[k] = 0
  /\ \A n \in promised.leaving : ops[n].leaving
  /\ \A n \in promised.staying : ~ops[n].leaving

\* It holds in memory and in the file, and the file is the memory but for what the
\* call under way is about to write.
AnswersSurvive ==
  /\ Honoured(operators, sessions)
  /\ opFile.readable => Honoured(opFile.operators, opFile.sessions)
  /\ \/ \E t \in Thread : serving[t].pc \in Writing \cup {"otp"}
     \/ opFile = OperatorDb(operators, sessions)

\* Inductive together with AccountsTypeOK, and implies AccountsAreSound.
AccountsInv ==
  ~mishap.raced =>
    /\ Alone(serving) /\ Registered
    /\ \A t \in Thread : SeenAndDone(serving[t])
    /\ nodeUp /\ ~mishap.unsaved => AnswersSurvive
=============================================================================
