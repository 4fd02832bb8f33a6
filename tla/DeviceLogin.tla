----------------------------- MODULE DeviceLogin ----------------------------
(***************************************************************************)
(* How a Mac comes to belong to an account, and ceases to: the login       *)
(* command asks for a code, a person approves it in the console, the       *)
(* command polls until the coordinator issues a token (device.go,          *)
(* LoginCommand.swift), the daemon presents the token whenever it          *)
(* registers (ProviderClient.swift, hub.go), and "remove this Mac" unbinds *)
(* the node and revokes the token (RevokeNode).  Transactions run at READ  *)
(* COMMITTED; requests and answers get lost; the login command may be      *)
(* interrupted, the daemon restarted.  A poll draws its token before it is *)
(* known to succeed, so the poll names the token.                          *)
(***************************************************************************)
CONSTANTS
    Attempt,   \* runs of the login command, each with a device code
    Poll,      \* the polls that may be under way, and the tokens they draw
    LoginOf,   \* the attempt a poll belongs to
    Mac,
    MacOf,     \* the Mac an attempt runs on
    User,
    None

ASSUME DeviceLoginAssumption ==
    /\ LoginOf \in [Poll -> Attempt]
    /\ MacOf \in [Attempt -> Mac]
    /\ None \notin User \cup Poll

VARIABLES
    cli,         \* the state of each login command
    waiting,     \* the poll whose answer it waits for
    missed,      \* attempts that did not get to use the answer of some poll
    approvedBy,  \* device_codes.user_id, with approved_at
    expired,     \* attempts whose expires_at has passed
    consumed,    \* those with a consumed_at
    holder,      \* the poll whose transaction has the row locked
    unread,      \* history: attempts whose row a poll could not read
    told,        \* <<u, a>>: the console has told u that a is approved
    poll,        \* how far the handler of each poll is, or what it answered
    issuedTo,    \* provider_tokens: the user of each token, None if no row
    revoked,     \* those with revoked = true
    saved,       \* the token in credentials.json of each Mac
    override,    \* authTokenOverride of each Mac's daemon
    carried,     \* the token a registration of each Mac has resolved
    binding,     \* provider_nodes.bound_with_token, None if no row
    removals     \* what was removed while no registration was under way

cliVars == <<cli, waiting, missed>>
codeVars == <<approvedBy, expired, consumed, holder, unread, told>>
pollVars == <<poll>>
tokenVars == <<issuedTo, revoked>>
macVars == <<saved, override>>
nodeVars == <<carried, binding, removals>>
vars == <<cliVars, codeVars, pollVars, tokenVars, macVars, nodeVars>>

Answer == {"token", "authorization_pending", "slow_down", "expired_token",
           "invalid_grant", "error"}
PollsOf(a) == {p \in Poll : LoginOf[p] = a}
Token == Poll
\* The tokens the logins of a Mac have been issued so far.
TokensOf(m) == {t \in Token : issuedTo[t] # None /\ MacOf[LoginOf[t]] = m}
Removal == [mac : Mac, with : Token, known : SUBSET Token]

TypeOK ==
    /\ cli \in [Attempt -> {"new", "refused", "polling", "linked", "failed"}]
    /\ waiting \in [Attempt -> Poll \cup {None}]
    /\ approvedBy \in [Attempt -> User \cup {None}]
    /\ expired \subseteq Attempt /\ consumed \subseteq Attempt
    /\ missed \subseteq Attempt /\ unread \subseteq Attempt
    /\ holder \in [Attempt -> Poll \cup {None}]
    /\ told \subseteq User \X Attempt
    /\ poll \in [Poll -> {"free", "sent", "redeeming"} \cup Answer]
    /\ issuedTo \in [Token -> User \cup {None}]
    /\ revoked \subseteq Token
    /\ saved \in [Mac -> Token \cup {None}]
    /\ override \in [Mac -> Token \cup {None}]
    /\ carried \in [Mac -> Token \cup {None}]
    /\ binding \in [Mac -> Token \cup {None}]
    /\ removals \subseteq Removal
    /\ \A a \in Attempt : waiting[a] # None => LoginOf[waiting[a]] = a
    /\ \A a \in Attempt : holder[a] # None =>
           LoginOf[holder[a]] = a /\ poll[holder[a]] = "redeeming"

Init ==
    /\ cli = [a \in Attempt |-> "new"]
    /\ waiting = [a \in Attempt |-> None]
    /\ missed = {}
    /\ approvedBy = [a \in Attempt |-> None]
    /\ expired = {} /\ consumed = {} /\ unread = {} /\ told = {}
    /\ holder = [a \in Attempt |-> None]
    /\ poll = [p \in Poll |-> "free"]
    /\ issuedTo = [t \in Token |-> None]
    /\ revoked = {}
    /\ saved = [m \in Mac |-> None]
    /\ override = [m \in Mac |-> None]
    /\ carried = [m \in Mac |-> None]
    /\ binding = [m \in Mac |-> None]
    /\ removals = {}

-----------------------------------------------------------------------------
(* The code and its approval.                                              *)

\* HandleDeviceCode and its answer.  Refused: limited, failed, or the answer
\* got lost, so that nobody ever sees the code.  A Mac runs one login at a time.
Start(a) ==
    /\ cli[a] = "new"
    /\ \A b \in Attempt : MacOf[b] = MacOf[a] => cli[b] # "polling"
    /\ \E s \in {"polling", "refused"} : cli' = [cli EXCEPT ![a] = s]
    /\ UNCHANGED <<waiting, missed, codeVars, pollVars, tokenVars, macVars,
                   nodeVars>>

CodeShown(a) == cli[a] \notin {"new", "refused"}
RowFree(a) == holder[a] = None

\* Without approved_at IS NULL.
ApproveAgain(u, a) ==
    /\ CodeShown(a) /\ RowFree(a) /\ a \notin expired
    /\ approvedBy' = [approvedBy EXCEPT ![a] = u]
    /\ told' \in {told, told \cup {<<u, a>>}}
    /\ UNCHANGED <<expired, consumed, holder, unread, cliVars, pollVars,
                   tokenVars, macVars, nodeVars>>

\* ApproveDeviceCode for a user who typed the code, from the Mac's screen or
\* from the link it opened; the console's answer may not reach them.
Approve(u, a) ==
    /\ CodeShown(a) /\ RowFree(a)
    /\ approvedBy[a] = None /\ a \notin expired
    /\ approvedBy' = [approvedBy EXCEPT ![a] = u]
    /\ told' \in {told, told \cup {<<u, a>>}}
    /\ UNCHANGED <<expired, consumed, holder, unread, cliVars, pollVars,
                   tokenVars, macVars, nodeVars>>

\* Ten minutes pass.
Expire(a) ==
    /\ CodeShown(a) /\ a \notin expired
    /\ expired' = expired \cup {a}
    /\ UNCHANGED <<approvedBy, consumed, holder, unread, told, cliVars,
                   pollVars, tokenVars, macVars, nodeVars>>

-----------------------------------------------------------------------------
(* The polls.                                                              *)

SendPoll(a) ==
    /\ cli[a] = "polling" /\ waiting[a] = None
    /\ \E p \in PollsOf(a) :
         /\ poll[p] = "free" /\ issuedTo[p] = None
         /\ poll' = [poll EXCEPT ![p] = "sent"]
         /\ waiting' = [waiting EXCEPT ![a] = p]
    /\ UNCHANGED <<cli, missed, codeVars, tokenVars, macVars, nodeVars>>

\* What becomes of a poll whose handler is done.
Reply(p, answer) ==
    poll' = [poll EXCEPT ![p] =
                IF waiting[LoginOf[p]] = p THEN answer ELSE "free"]

\* The rate limit; a body that cannot be read, no database, a transaction that
\* does not begin.
TurnAway(p) ==
    /\ poll[p] = "sent"
    /\ Reply(p, "slow_down") \/ Reply(p, "error")
    /\ UNCHANGED <<cliVars, codeVars, tokenVars, macVars, nodeVars>>

\* The SELECT fails, perhaps while it waits for the lock: whatever the error,
\* RedeemDeviceCode takes the code for an unknown one.
ReadFails(p) ==
    /\ poll[p] = "sent"
    /\ Reply(p, "invalid_grant")
    /\ unread' = unread \cup {LoginOf[p]}
    /\ UNCHANGED <<approvedBy, expired, consumed, holder, told, cliVars,
                   tokenVars, macVars, nodeVars>>

\* RedeemDeviceCode up to its last early return, once it has the row.
Status(a) ==
    CASE a \in consumed -> "invalid_grant"
      [] a \notin consumed /\ a \in expired -> "expired_token"
      [] a \notin consumed \cup expired /\ approvedBy[a] = None ->
            "authorization_pending"
      [] OTHER -> "ok"

\* Without FOR UPDATE.
RedeemUnlocked(p) ==
    /\ poll[p] = "sent" /\ Status(LoginOf[p]) = "ok"
    /\ poll' = [poll EXCEPT ![p] = "redeeming"]
    /\ UNCHANGED <<cliVars, codeVars, tokenVars, macVars, nodeVars>>

RedeemRefused(p) ==
    /\ poll[p] = "sent" /\ RowFree(LoginOf[p])
    /\ Status(LoginOf[p]) # "ok"
    /\ Reply(p, Status(LoginOf[p]))
    /\ UNCHANGED <<cliVars, codeVars, tokenVars, macVars, nodeVars>>

RedeemLock(p) ==
    LET a == LoginOf[p] IN
    /\ poll[p] = "sent" /\ RowFree(a)
    /\ Status(a) = "ok"
    /\ poll' = [poll EXCEPT ![p] = "redeeming"]
    /\ holder' = [holder EXCEPT ![a] = p]
    /\ UNCHANGED <<approvedBy, expired, consumed, unread, told, cliVars,
                   tokenVars, macVars, nodeVars>>

\* A transaction that ends without the rollback of the deferred call.
StillLocked(p) == [a \in Attempt |-> holder[a]]

Unlocked(p) ==
    [a \in Attempt |-> IF holder[a] = p THEN None ELSE holder[a]]

\* The error of the commit is ignored.
RedeemAbortUnnoticed(p) ==
    /\ poll[p] = "redeeming"
    /\ holder' = Unlocked(p)
    /\ Reply(p, "token")
    /\ UNCHANGED <<approvedBy, expired, consumed, unread, told, cliVars,
                   tokenVars, macVars, nodeVars>>

\* The commit; when its acknowledgement is lost the handler reports an error.
RedeemCommit(p) ==
    LET a == LoginOf[p] IN
    /\ poll[p] = "redeeming"
    /\ consumed' = consumed \cup {a}
    /\ issuedTo' = [issuedTo EXCEPT ![p] = approvedBy[a]]
    /\ holder' = Unlocked(p)
    /\ Reply(p, "token") \/ Reply(p, "error")
    /\ UNCHANGED <<approvedBy, expired, unread, told, revoked, cliVars,
                   macVars, nodeVars>>

RedeemAbort(p) ==
    /\ poll[p] = "redeeming"
    /\ holder' = Unlocked(p)
    /\ Reply(p, "error")
    /\ UNCHANGED <<approvedBy, expired, consumed, unread, told, cliVars,
                   tokenVars, macVars, nodeVars>>

-----------------------------------------------------------------------------
(* The login command between two polls.                                    *)

Continues == {"authorization_pending", "slow_down"}

Answered(a, answers) ==
    /\ cli[a] = "polling" /\ waiting[a] # None
    /\ poll[waiting[a]] \in answers
    /\ waiting' = [waiting EXCEPT ![a] = None]
    /\ poll' = [poll EXCEPT ![waiting[a]] = "free"]

\* Any answer but a token, or that it is too early, ends the login.
LoginFailedSoon(a) ==
    /\ Answered(a, Answer \ {"authorization_pending", "token"})
    /\ cli' = [cli EXCEPT ![a] = "failed"]
    /\ missed' = IF poll[waiting[a]] = "error" THEN missed \cup {a} ELSE missed
    /\ UNCHANGED <<codeVars, tokenVars, macVars, nodeVars>>

KeepPolling(a) ==
    /\ Answered(a, Continues)
    /\ UNCHANGED <<cli, missed, codeVars, tokenVars, macVars, nodeVars>>

LoginFailed(a) ==
    /\ Answered(a, Answer \ (Continues \cup {"token"}))
    /\ cli' = [cli EXCEPT ![a] = "failed"]
    /\ missed' = IF poll[waiting[a]] = "error" THEN missed \cup {a} ELSE missed
    /\ UNCHANGED <<codeVars, tokenVars, macVars, nodeVars>>

\* The token is saved, and the daemon restarted if it is installed as a
\* service.
Linked(a) ==
    LET m == MacOf[a] IN
    /\ Answered(a, {"token"})
    /\ cli' = [cli EXCEPT ![a] = "linked"]
    /\ saved' = [saved EXCEPT ![m] = waiting[a]]
    /\ override' \in {override, [override EXCEPT ![m] = waiting[a]]}
    /\ UNCHANGED <<missed, codeVars, tokenVars, nodeVars>>

\* CredentialsStore.save throws, before or after it has replaced the file,
\* and the command polls again.
SaveThrows(a) ==
    /\ Answered(a, {"token"})
    /\ saved' \in {saved, [saved EXCEPT ![MacOf[a]] = waiting[a]]}
    /\ missed' = missed \cup {a}
    /\ UNCHANGED <<cli, codeVars, tokenVars, override, nodeVars>>

\* The request timed out, or its answer got lost, and the command polls again.
PollThrows(a) ==
    /\ cli[a] = "polling" /\ waiting[a] # None
    /\ waiting' = [waiting EXCEPT ![a] = None]
    /\ missed' = missed \cup {a}
    /\ poll' = IF poll[waiting[a]] \in Answer
               THEN [poll EXCEPT ![waiting[a]] = "free"] ELSE poll
    /\ UNCHANGED <<cli, codeVars, tokenVars, macVars, nodeVars>>

\* The deadline, which is later than the code's expiry.
Deadline(a) ==
    /\ cli[a] = "polling" /\ waiting[a] = None /\ a \in expired
    /\ cli' = [cli EXCEPT ![a] = "failed"]
    /\ UNCHANGED <<waiting, missed, codeVars, pollVars, tokenVars, macVars,
                   nodeVars>>

\* Ctrl-C, or the Mac goes down.
Interrupt(a) ==
    /\ cli[a] = "polling"
    /\ cli' = [cli EXCEPT ![a] = "failed"]
    /\ waiting' = [waiting EXCEPT ![a] = None]
    /\ missed' = missed \cup {a}
    /\ poll' = IF waiting[a] # None /\ poll[waiting[a]] \in Answer
               THEN [poll EXCEPT ![waiting[a]] = "free"] ELSE poll
    /\ UNCHANGED <<codeVars, tokenVars, macVars, nodeVars>>

-----------------------------------------------------------------------------
(* The daemon and its node.                                                *)

\* main.swift hands the saved token to the client as its override.
DaemonStart(m) ==
    /\ override[m] # saved[m]
    /\ override' = [override EXCEPT ![m] = saved[m]]
    /\ UNCHANGED <<cliVars, codeVars, pollVars, tokenVars, saved, nodeVars>>

Presented(m) == IF override[m] # None THEN override[m] ELSE saved[m]

\* A registration; HandleWS resolves the token it presents.  The next
\* registration comes when this one is through.
ResolveToken(m) ==
    /\ carried[m] = None /\ Presented(m) # None
    /\ issuedTo[Presented(m)] # None /\ Presented(m) \notin revoked
    /\ carried' = [carried EXCEPT ![m] = Presented(m)]
    /\ UNCHANGED <<cliVars, codeVars, pollVars, tokenVars, macVars, binding,
                   removals>>

BindNode(m) ==
    /\ carried[m] # None
    /\ binding' = [binding EXCEPT ![m] = carried[m]]
    /\ carried' = [carried EXCEPT ![m] = None]
    /\ UNCHANGED <<cliVars, codeVars, pollVars, tokenVars, macVars, removals>>

BindFails(m) ==
    /\ carried[m] # None
    /\ carried' = [carried EXCEPT ![m] = None]
    /\ UNCHANGED <<cliVars, codeVars, pollVars, tokenVars, macVars, binding,
                   removals>>

\* The token outlives the node.
RevokeNodeOnly(u, m) ==
    LET t == binding[m] IN
    /\ t # None /\ issuedTo[t] = u
    /\ binding' = [binding EXCEPT ![m] = None]
    /\ removals' = IF carried[m] # None THEN removals
                   ELSE removals \cup {[mac |-> m, with |-> t,
                                        known |-> TokensOf(m)]}
    /\ UNCHANGED <<cliVars, codeVars, pollVars, tokenVars, macVars, carried>>

\* RevokeNode by the owner.  removals notes it for the properties, unless a
\* registration of the Mac is under way.
RevokeNode(u, m) ==
    LET t == binding[m] IN
    /\ t # None /\ issuedTo[t] = u
    /\ binding' = [binding EXCEPT ![m] = None]
    /\ revoked' = revoked \cup {t}
    /\ removals' = IF carried[m] # None THEN removals
                   ELSE removals \cup {[mac |-> m, with |-> t,
                                        known |-> TokensOf(m)]}
    /\ UNCHANGED <<cliVars, codeVars, pollVars, issuedTo, macVars, carried>>

-----------------------------------------------------------------------------
Server(p) == TurnAway(p) \/ ReadFails(p) \/ RedeemRefused(p)
               \/ RedeemLock(p) \/ RedeemCommit(p) \/ RedeemAbort(p)
Cli(a) == SendPoll(a) \/ KeepPolling(a) \/ LoginFailed(a) \/ Linked(a)
            \/ SaveThrows(a) \/ PollThrows(a) \/ Deadline(a)
Daemon(m) == DaemonStart(m) \/ ResolveToken(m) \/ BindNode(m) \/ BindFails(m)

Next ==
    \/ \E a \in Attempt : Start(a) \/ Expire(a) \/ Interrupt(a) \/ Cli(a)
    \/ \E p \in Poll : Server(p)
    \/ \E u \in User, a \in Attempt : Approve(u, a)
    \/ \E m \in Mac : Daemon(m)
    \/ \E u \in User, m \in Mac : RevokeNode(u, m)

Spec == Init /\ [][Next]_vars

-----------------------------------------------------------------------------
\* One login issues one token, however many of its polls overlap: the row
\* lock and consumed_at of RedeemDeviceCode.
OneTokenPerLogin ==
    \A p, q \in Poll : issuedTo[p] # None /\ issuedTo[q] # None
                         /\ LoginOf[p] = LoginOf[q] => p = q

\* Whoever the console told that their Mac is linked owns what that login
\* yields: no later approval takes it away, and the Mac's earnings go to them.
ApproverOwns ==
    \A u \in User, a \in Attempt : <<u, a>> \in told =>
        \A p \in PollsOf(a) : issuedTo[p] \in {None, u}

\* What a Mac has saved as its token is a token: HandleDeviceToken answers
\* after the commit.
SavedIsIssued == \A m \in Mac : saved[m] # None => issuedTo[saved[m]] # None

\* A login fails only if its code ran out, if the command was interrupted, met
\* an error or did not get to use an answer, or if the row of the code could not
\* be read for one of its polls (which postgres.go answers as if the code were
\* unknown).  Being limited, asking too early, and polls that overlap are no
\* reason.  A code that was approved runs out like any other.
FailedForAReason ==
    \A a \in Attempt : cli[a] = "failed" => a \in expired \cup missed \cup unread

\* A removed Mac does not come back with the token that it had, however the
\* daemon is restarted and however often it reconnects.
RemovedTokenIsDead == \A r \in removals : binding[r.mac] # r.with
=============================================================================
