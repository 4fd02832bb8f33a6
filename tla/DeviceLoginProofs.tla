-------------------------- MODULE DeviceLoginProofs -------------------------
(***************************************************************************)
(* What holds of device login and node removal for any number of logins,   *)
(* overlapping polls, Macs and users.                                      *)
(***************************************************************************)
EXTENDS DeviceLogin, TLAPS

\* A poll is redeeming while it has the row, which nobody has redeemed then.
RedeemerHasRow ==
    \A p \in Poll : poll[p] = "redeeming" =>
        /\ holder[LoginOf[p]] = p
        /\ LoginOf[p] \notin consumed
        /\ approvedBy[LoginOf[p]] # None

\* A token is issued to the approver of a login, and consumes the login.
IssuedByLogin ==
    \A p \in Poll : issuedTo[p] # None =>
        /\ LoginOf[p] \in consumed
        /\ issuedTo[p] = approvedBy[LoginOf[p]]

ToldApprover == \A u \in User, a \in Attempt :
    <<u, a>> \in told => approvedBy[a] = u

AnswerIsIssued == \A p \in Poll : poll[p] = "token" => issuedTo[p] # None

\* No registration carries what a removal has revoked.
RemovedIsRevoked ==
    \A r \in removals : r.with \in revoked /\ carried[r.mac] # r.with

\* Whoever waits is polling, for its own poll, and a poll nobody waits for has
\* been missed.
WaitingOrMissed ==
    /\ \A a \in Attempt : waiting[a] # None => cli[a] = "polling"
    /\ \A p \in Poll : poll[p] # "free" /\ waiting[LoginOf[p]] # p
                          => LoginOf[p] \in missed

\* Nothing is polled or redeemed before the code was shown.
ShownFirst ==
    /\ \A a \in consumed : cli[a] \notin {"new", "refused"}
    /\ \A p \in Poll : poll[p] # "free" =>
           cli[LoginOf[p]] \notin {"new", "refused"}

\* What is redeemed is on its way to the login command, or missed.
RedeemedIsUsed ==
    \A a \in consumed : cli[a] = "polling" =>
        \/ a \in missed
        \/ waiting[a] # None /\ poll[waiting[a]] \in {"token", "error"}

AnswersAreTrue == \A p \in Poll :
    /\ poll[p] = "expired_token" => LoginOf[p] \in expired
    /\ poll[p] = "invalid_grant" => LoginOf[p] \in missed \cup unread

RowInv == RedeemerHasRow /\ IssuedByLogin /\ OneTokenPerLogin /\ ToldApprover
TokenInv == AnswerIsIssued /\ SavedIsIssued
RemovalInv == RemovedIsRevoked /\ RemovedTokenIsDead
FailureInv == ShownFirst /\ WaitingOrMissed /\ RedeemedIsUsed
                /\ AnswersAreTrue /\ FailedForAReason
LoginInv == TypeOK /\ RowInv /\ TokenInv /\ RemovalInv /\ FailureInv

-----------------------------------------------------------------------------
USE DeviceLoginAssumption
    DEF cliVars, codeVars, pollVars, tokenVars, macVars, nodeVars

\* What Status returns, and what "ok" means.
LEMMA StatusIsAnAnswer ==
    ASSUME NEW a
    PROVE  /\ Status(a) # "ok" => Status(a) \in Answer \ {"token", "error"}
           /\ Status(a) = "ok" => a \notin consumed /\ approvedBy[a] # None
           /\ Status(a) = "invalid_grant" => a \in consumed
           /\ Status(a) = "expired_token" => a \in expired
    BY DEF Status, Answer

\* Every step keeps the types.
LEMMA TypesStep ==
    ASSUME TypeOK, [Next]_vars
    PROVE  TypeOK'
<1> USE DEF TypeOK, Answer, Token
<1>1. ASSUME NEW a \in Attempt, Start(a)  PROVE TypeOK'
    BY <1>1 DEF Start
<1>2. ASSUME NEW a \in Attempt, Expire(a)  PROVE TypeOK'
    BY <1>2 DEF Expire, CodeShown
<1>3. ASSUME NEW a \in Attempt, Interrupt(a)  PROVE TypeOK'
    BY <1>3 DEF Interrupt
<1>4. ASSUME NEW a \in Attempt, SendPoll(a)  PROVE TypeOK'
    BY <1>4 DEF SendPoll, PollsOf
<1>5. ASSUME NEW a \in Attempt, KeepPolling(a)  PROVE TypeOK'
    BY <1>5 DEF KeepPolling, Answered, Continues
<1>6. ASSUME NEW a \in Attempt, LoginFailed(a)  PROVE TypeOK'
    BY <1>6 DEF LoginFailed, Answered, Continues
<1>7. ASSUME NEW a \in Attempt, Linked(a)  PROVE TypeOK'
    BY <1>7 DEF Linked, Answered
<1>8. ASSUME NEW a \in Attempt, SaveThrows(a)  PROVE TypeOK'
    BY <1>8 DEF SaveThrows, Answered
<1>9. ASSUME NEW a \in Attempt, PollThrows(a)  PROVE TypeOK'
    BY <1>9 DEF PollThrows
<1>10. ASSUME NEW a \in Attempt, Deadline(a)  PROVE TypeOK'
    BY <1>10 DEF Deadline
<1>11. ASSUME NEW p \in Poll, TurnAway(p) \/ ReadFails(p)
      PROVE  TypeOK'
    BY <1>11 DEF TurnAway, ReadFails, Reply
<1>12. ASSUME NEW p \in Poll, RedeemRefused(p)  PROVE TypeOK'
    BY <1>12, StatusIsAnAnswer DEF RedeemRefused, Reply, RowFree
<1>13. ASSUME NEW p \in Poll, RedeemLock(p)  PROVE TypeOK'
    BY <1>13 DEF RedeemLock, RowFree
<1>14. ASSUME NEW p \in Poll, RedeemCommit(p)  PROVE TypeOK'
    BY <1>14 DEF RedeemCommit, Reply, Unlocked
<1>15. ASSUME NEW p \in Poll, RedeemAbort(p)  PROVE TypeOK'
    BY <1>15 DEF RedeemAbort, Reply, Unlocked
<1>16. ASSUME NEW u \in User, NEW a \in Attempt, Approve(u, a)  PROVE TypeOK'
    BY <1>16 DEF Approve
<1>17. ASSUME NEW m \in Mac, DaemonStart(m)  PROVE TypeOK'
    BY <1>17 DEF DaemonStart
<1>18. ASSUME NEW m \in Mac, ResolveToken(m)  PROVE TypeOK'
    BY <1>18 DEF ResolveToken, Presented
<1>19. ASSUME NEW m \in Mac, BindNode(m)  PROVE TypeOK'
    BY <1>19 DEF BindNode
<1>20. ASSUME NEW m \in Mac, BindFails(m)  PROVE TypeOK'
    BY <1>20 DEF BindFails
<1>21. ASSUME NEW u \in User, NEW m \in Mac, RevokeNode(u, m)  PROVE TypeOK'
    BY <1>21 DEF RevokeNode, TokensOf, Removal
<1>22. CASE UNCHANGED vars
    BY <1>22 DEF vars
<1> QED
    BY <1>1, <1>2, <1>3, <1>4, <1>5, <1>6, <1>7, <1>8, <1>9, <1>10, <1>11,
       <1>12, <1>13, <1>14, <1>15, <1>16, <1>17, <1>18, <1>19, <1>20, <1>21,
       <1>22
    DEF Next, Server, Cli, Daemon

\* The row lock makes a redemption see what the last one did.
LEMMA RowStep ==
    ASSUME TypeOK, RowInv, [Next]_vars
    PROVE  RowInv'
<1> USE DEF TypeOK, Token, RowInv, RedeemerHasRow, IssuedByLogin,
            OneTokenPerLogin, ToldApprover
<1>1. ASSUME NEW a \in Attempt, Start(a)  PROVE RowInv'
    BY <1>1 DEF Start
<1>2. ASSUME NEW a \in Attempt, Expire(a)  PROVE RowInv'
    BY <1>2 DEF Expire, CodeShown
<1>3. ASSUME NEW a \in Attempt, Interrupt(a)  PROVE RowInv'
    BY <1>3 DEF Interrupt
<1>4. ASSUME NEW a \in Attempt, SendPoll(a)  PROVE RowInv'
    BY <1>4 DEF SendPoll, PollsOf
<1>5. ASSUME NEW a \in Attempt, KeepPolling(a)  PROVE RowInv'
    BY <1>5 DEF KeepPolling, Answered, Continues
<1>6. ASSUME NEW a \in Attempt, LoginFailed(a)  PROVE RowInv'
    BY <1>6 DEF LoginFailed, Answered, Continues
<1>7. ASSUME NEW a \in Attempt, Linked(a)  PROVE RowInv'
    BY <1>7 DEF Linked, Answered
<1>8. ASSUME NEW a \in Attempt, SaveThrows(a)  PROVE RowInv'
    BY <1>8 DEF SaveThrows, Answered
<1>9. ASSUME NEW a \in Attempt, PollThrows(a)  PROVE RowInv'
    BY <1>9 DEF PollThrows
<1>10. ASSUME NEW a \in Attempt, Deadline(a)  PROVE RowInv'
    BY <1>10 DEF Deadline
<1>11. ASSUME NEW p \in Poll, TurnAway(p) \/ ReadFails(p)
      PROVE  RowInv'
    BY <1>11 DEF TurnAway, ReadFails, Reply
<1>12. ASSUME NEW p \in Poll, RedeemRefused(p)  PROVE RowInv'
    BY <1>12, StatusIsAnAnswer DEF RedeemRefused, Reply, RowFree, Answer
<1>13. ASSUME NEW p \in Poll, RedeemLock(p)  PROVE RowInv'
    BY <1>13, StatusIsAnAnswer DEF RedeemLock, RowFree
<1>14. ASSUME NEW p \in Poll, RedeemCommit(p)  PROVE RowInv'
    BY <1>14 DEF RedeemCommit, Reply, Unlocked
<1>15. ASSUME NEW p \in Poll, RedeemAbort(p)  PROVE RowInv'
    BY <1>15 DEF RedeemAbort, Reply, Unlocked
<1>16. ASSUME NEW u \in User, NEW a \in Attempt, Approve(u, a)  PROVE RowInv'
    BY <1>16 DEF Approve, RowFree
<1>17. ASSUME NEW m \in Mac, DaemonStart(m)  PROVE RowInv'
    BY <1>17 DEF DaemonStart
<1>18. ASSUME NEW m \in Mac, ResolveToken(m)  PROVE RowInv'
    BY <1>18 DEF ResolveToken, Presented
<1>19. ASSUME NEW m \in Mac, BindNode(m)  PROVE RowInv'
    BY <1>19 DEF BindNode
<1>20. ASSUME NEW m \in Mac, BindFails(m)  PROVE RowInv'
    BY <1>20 DEF BindFails
<1>21. ASSUME NEW u \in User, NEW m \in Mac, RevokeNode(u, m)  PROVE RowInv'
    BY <1>21 DEF RevokeNode
<1>22. CASE UNCHANGED vars
    BY <1>22 DEF vars
<1> QED
    BY <1>1, <1>2, <1>3, <1>4, <1>5, <1>6, <1>7, <1>8, <1>9, <1>10, <1>11,
       <1>12, <1>13, <1>14, <1>15, <1>16, <1>17, <1>18, <1>19, <1>20, <1>21,
       <1>22
    DEF Next, Server, Cli, Daemon

\* A token is answered and saved after it is issued.
LEMMA TokenStep ==
    ASSUME TypeOK, TokenInv, RowInv, [Next]_vars
    PROVE  TokenInv'
<1> USE DEF TypeOK, Token, TokenInv, AnswerIsIssued, SavedIsIssued, RowInv,
            RedeemerHasRow
<1>1. ASSUME NEW a \in Attempt, Start(a)  PROVE TokenInv'
    BY <1>1 DEF Start
<1>2. ASSUME NEW a \in Attempt, Expire(a)  PROVE TokenInv'
    BY <1>2 DEF Expire, CodeShown
<1>3. ASSUME NEW a \in Attempt, Interrupt(a)  PROVE TokenInv'
    BY <1>3 DEF Interrupt
<1>4. ASSUME NEW a \in Attempt, SendPoll(a)  PROVE TokenInv'
    BY <1>4 DEF SendPoll, PollsOf
<1>5. ASSUME NEW a \in Attempt, KeepPolling(a)  PROVE TokenInv'
    BY <1>5 DEF KeepPolling, Answered, Continues
<1>6. ASSUME NEW a \in Attempt, LoginFailed(a)  PROVE TokenInv'
    BY <1>6 DEF LoginFailed, Answered, Continues
<1>7. ASSUME NEW a \in Attempt, Linked(a)  PROVE TokenInv'
    BY <1>7 DEF Linked, Answered
<1>8. ASSUME NEW a \in Attempt, SaveThrows(a)  PROVE TokenInv'
    BY <1>8 DEF SaveThrows, Answered
<1>9. ASSUME NEW a \in Attempt, PollThrows(a)  PROVE TokenInv'
    BY <1>9 DEF PollThrows
<1>10. ASSUME NEW a \in Attempt, Deadline(a)  PROVE TokenInv'
    BY <1>10 DEF Deadline
<1>11. ASSUME NEW p \in Poll, TurnAway(p) \/ ReadFails(p)
      PROVE  TokenInv'
    BY <1>11 DEF TurnAway, ReadFails, Reply
<1>12. ASSUME NEW p \in Poll, RedeemRefused(p)  PROVE TokenInv'
    BY <1>12, StatusIsAnAnswer DEF RedeemRefused, Reply, RowFree, Answer
<1>13. ASSUME NEW p \in Poll, RedeemLock(p)  PROVE TokenInv'
    BY <1>13 DEF RedeemLock, RowFree
<1>14. ASSUME NEW p \in Poll, RedeemCommit(p)  PROVE TokenInv'
    BY <1>14 DEF RedeemCommit, Reply, Unlocked
<1>15. ASSUME NEW p \in Poll, RedeemAbort(p)  PROVE TokenInv'
    BY <1>15 DEF RedeemAbort, Reply, Unlocked
<1>16. ASSUME NEW u \in User, NEW a \in Attempt, Approve(u, a)
      PROVE  TokenInv'
    BY <1>16 DEF Approve
<1>17. ASSUME NEW m \in Mac, DaemonStart(m)  PROVE TokenInv'
    BY <1>17 DEF DaemonStart
<1>18. ASSUME NEW m \in Mac, ResolveToken(m)  PROVE TokenInv'
    BY <1>18 DEF ResolveToken, Presented
<1>19. ASSUME NEW m \in Mac, BindNode(m)  PROVE TokenInv'
    BY <1>19 DEF BindNode
<1>20. ASSUME NEW m \in Mac, BindFails(m)  PROVE TokenInv'
    BY <1>20 DEF BindFails
<1>21. ASSUME NEW u \in User, NEW m \in Mac, RevokeNode(u, m)
      PROVE  TokenInv'
    BY <1>21 DEF RevokeNode
<1>22. CASE UNCHANGED vars
    BY <1>22 DEF vars
<1> QED
    BY <1>1, <1>2, <1>3, <1>4, <1>5, <1>6, <1>7, <1>8, <1>9, <1>10, <1>11,
       <1>12, <1>13, <1>14, <1>15, <1>16, <1>17, <1>18, <1>19, <1>20, <1>21,
       <1>22
    DEF Next, Server, Cli, Daemon

\* What a removal has revoked is not resolved again.
LEMMA RemovalStep ==
    ASSUME TypeOK, RemovalInv, [Next]_vars
    PROVE  RemovalInv'
<1> USE DEF TypeOK, Token, Removal, RemovalInv, RemovedIsRevoked,
            RemovedTokenIsDead
<1>1. ASSUME NEW a \in Attempt, Start(a)  PROVE RemovalInv'
    BY <1>1 DEF Start
<1>2. ASSUME NEW a \in Attempt, Expire(a)  PROVE RemovalInv'
    BY <1>2 DEF Expire, CodeShown
<1>3. ASSUME NEW a \in Attempt, Interrupt(a)  PROVE RemovalInv'
    BY <1>3 DEF Interrupt
<1>4. ASSUME NEW a \in Attempt, SendPoll(a)  PROVE RemovalInv'
    BY <1>4 DEF SendPoll, PollsOf
<1>5. ASSUME NEW a \in Attempt, KeepPolling(a)  PROVE RemovalInv'
    BY <1>5 DEF KeepPolling, Answered, Continues
<1>6. ASSUME NEW a \in Attempt, LoginFailed(a)  PROVE RemovalInv'
    BY <1>6 DEF LoginFailed, Answered, Continues
<1>7. ASSUME NEW a \in Attempt, Linked(a)  PROVE RemovalInv'
    BY <1>7 DEF Linked, Answered
<1>8. ASSUME NEW a \in Attempt, SaveThrows(a)  PROVE RemovalInv'
    BY <1>8 DEF SaveThrows, Answered
<1>9. ASSUME NEW a \in Attempt, PollThrows(a)  PROVE RemovalInv'
    BY <1>9 DEF PollThrows
<1>10. ASSUME NEW a \in Attempt, Deadline(a)  PROVE RemovalInv'
    BY <1>10 DEF Deadline
<1>11. ASSUME NEW p \in Poll, TurnAway(p) \/ ReadFails(p)
      PROVE  RemovalInv'
    BY <1>11 DEF TurnAway, ReadFails, Reply
<1>12. ASSUME NEW p \in Poll, RedeemRefused(p)  PROVE RemovalInv'
    BY <1>12 DEF RedeemRefused, Reply, RowFree
<1>13. ASSUME NEW p \in Poll, RedeemLock(p)  PROVE RemovalInv'
    BY <1>13 DEF RedeemLock, RowFree
<1>14. ASSUME NEW p \in Poll, RedeemCommit(p)  PROVE RemovalInv'
    BY <1>14 DEF RedeemCommit, Reply, Unlocked
<1>15. ASSUME NEW p \in Poll, RedeemAbort(p)  PROVE RemovalInv'
    BY <1>15 DEF RedeemAbort, Reply, Unlocked
<1>16. ASSUME NEW u \in User, NEW a \in Attempt, Approve(u, a)
      PROVE  RemovalInv'
    BY <1>16 DEF Approve
<1>17. ASSUME NEW m \in Mac, DaemonStart(m)  PROVE RemovalInv'
    BY <1>17 DEF DaemonStart
<1>18. ASSUME NEW m \in Mac, ResolveToken(m)  PROVE RemovalInv'
    BY <1>18 DEF ResolveToken, Presented
<1>19. ASSUME NEW m \in Mac, BindNode(m)  PROVE RemovalInv'
    BY <1>19 DEF BindNode
<1>20. ASSUME NEW m \in Mac, BindFails(m)  PROVE RemovalInv'
    BY <1>20 DEF BindFails
<1>21. ASSUME NEW u \in User, NEW m \in Mac, RevokeNode(u, m)
      PROVE  RemovalInv'
    BY <1>21 DEF RevokeNode
<1>22. CASE UNCHANGED vars
    BY <1>22 DEF vars
<1> QED
    BY <1>1, <1>2, <1>3, <1>4, <1>5, <1>6, <1>7, <1>8, <1>9, <1>10, <1>11,
       <1>12, <1>13, <1>14, <1>15, <1>16, <1>17, <1>18, <1>19, <1>20, <1>21,
       <1>22
    DEF Next, Server, Cli, Daemon

\* What the login command did not get to use, it has missed.
LEMMA FailureStep ==
    ASSUME TypeOK, FailureInv, [Next]_vars
    PROVE  FailureInv'
<1> USE DEF TypeOK, Answer, FailureInv, ShownFirst, WaitingOrMissed,
            RedeemedIsUsed, AnswersAreTrue, FailedForAReason
<1>1. ASSUME NEW a \in Attempt, Start(a)  PROVE FailureInv'
    BY <1>1, SMTT(20) DEF Start
<1>2. ASSUME NEW a \in Attempt, Expire(a)  PROVE FailureInv'
    BY <1>2, SMTT(20) DEF Expire, CodeShown
<1>3. ASSUME NEW a \in Attempt, Interrupt(a)  PROVE FailureInv'
    BY <1>3, SMTT(20) DEF Interrupt
<1>4. ASSUME NEW a \in Attempt, SendPoll(a)  PROVE FailureInv'
    BY <1>4, SMTT(20) DEF SendPoll, PollsOf
<1>5. ASSUME NEW a \in Attempt, KeepPolling(a)  PROVE FailureInv'
    BY <1>5, SMTT(20) DEF KeepPolling, Answered, Continues
<1>6. ASSUME NEW a \in Attempt, LoginFailed(a)  PROVE FailureInv'
    BY <1>6, SMTT(20) DEF LoginFailed, Answered, Continues
<1>7. ASSUME NEW a \in Attempt, Linked(a)  PROVE FailureInv'
    BY <1>7, SMTT(20) DEF Linked, Answered
<1>8. ASSUME NEW a \in Attempt, SaveThrows(a)  PROVE FailureInv'
    BY <1>8, SMTT(20) DEF SaveThrows, Answered
<1>9. ASSUME NEW a \in Attempt, PollThrows(a)  PROVE FailureInv'
    BY <1>9, SMTT(20) DEF PollThrows
<1>10. ASSUME NEW a \in Attempt, Deadline(a)  PROVE FailureInv'
    BY <1>10, SMTT(20) DEF Deadline
<1>11. ASSUME NEW p \in Poll, TurnAway(p) \/ ReadFails(p)
      PROVE  FailureInv'
    BY <1>11, SMTT(20) DEF TurnAway, ReadFails, Reply
<1>12. ASSUME NEW p \in Poll, RedeemRefused(p)  PROVE FailureInv'
    BY <1>12, StatusIsAnAnswer, SMTT(20) DEF RedeemRefused, Reply, RowFree
<1>13. ASSUME NEW p \in Poll, RedeemLock(p)  PROVE FailureInv'
    BY <1>13, StatusIsAnAnswer, SMTT(20) DEF RedeemLock, RowFree
<1>14. ASSUME NEW p \in Poll, RedeemCommit(p)  PROVE FailureInv'
    BY <1>14, SMTT(20) DEF RedeemCommit, Reply, Unlocked
<1>15. ASSUME NEW p \in Poll, RedeemAbort(p)  PROVE FailureInv'
    BY <1>15, SMTT(20) DEF RedeemAbort, Reply, Unlocked
<1>16. ASSUME NEW u \in User, NEW a \in Attempt, Approve(u, a)
      PROVE  FailureInv'
    BY <1>16, SMTT(20) DEF Approve
<1>17. ASSUME NEW m \in Mac, DaemonStart(m)  PROVE FailureInv'
    BY <1>17, SMTT(20) DEF DaemonStart
<1>18. ASSUME NEW m \in Mac, ResolveToken(m)  PROVE FailureInv'
    BY <1>18, SMTT(20) DEF ResolveToken, Presented
<1>19. ASSUME NEW m \in Mac, BindNode(m)  PROVE FailureInv'
    BY <1>19, SMTT(20) DEF BindNode
<1>20. ASSUME NEW m \in Mac, BindFails(m)  PROVE FailureInv'
    BY <1>20, SMTT(20) DEF BindFails
<1>21. ASSUME NEW u \in User, NEW m \in Mac, RevokeNode(u, m)
      PROVE  FailureInv'
    BY <1>21, SMTT(20) DEF RevokeNode
<1>22. CASE UNCHANGED vars
    BY <1>22 DEF vars
<1> QED
    BY <1>1, <1>2, <1>3, <1>4, <1>5, <1>6, <1>7, <1>8, <1>9, <1>10, <1>11,
       <1>12, <1>13, <1>14, <1>15, <1>16, <1>17, <1>18, <1>19, <1>20, <1>21,
       <1>22
    DEF Next, Server, Cli, Daemon

-----------------------------------------------------------------------------
\* The invariant the theorems below rest on.
THEOREM LoginIsSound == Spec => []LoginInv
<1>1. Init => LoginInv
    BY DEF Init, LoginInv, TypeOK, Answer, Token, RowInv, RedeemerHasRow,
        IssuedByLogin, OneTokenPerLogin, ToldApprover, TokenInv,
        AnswerIsIssued, SavedIsIssued, RemovalInv, RemovedIsRevoked,
        RemovedTokenIsDead, FailureInv, ShownFirst, WaitingOrMissed,
        RedeemedIsUsed, AnswersAreTrue, FailedForAReason, Removal
<1>2. LoginInv /\ [Next]_vars => LoginInv'
    BY TypesStep, RowStep, TokenStep, RemovalStep, FailureStep DEF LoginInv
<1> QED BY <1>1, <1>2, PTL DEF Spec

\* The types, for any sets of logins, polls, Macs and users.
THEOREM LoginTypes == Spec => []TypeOK
    BY LoginIsSound, PTL DEF LoginInv

\* RedeemDeviceCode issues one token per login, however many polls overlap.
THEOREM RedeemsOnce == Spec => []OneTokenPerLogin
    BY LoginIsSound, PTL DEF LoginInv, RowInv

\* Whom the console told that their Mac is linked owns the login's token.
THEOREM ApproverKeepsMac == Spec => []ApproverOwns
<1>1. LoginInv => ApproverOwns
    BY DEF LoginInv, RowInv, TypeOK, Token, IssuedByLogin, ToldApprover,
           ApproverOwns, PollsOf
<1> QED BY <1>1, LoginIsSound, PTL

\* A Mac's credentials file holds a token that provider_tokens knows.
THEOREM SavedTokensExist == Spec => []SavedIsIssued
    BY LoginIsSound, PTL DEF LoginInv, TokenInv

\* A login fails because its code ran out, an answer was missed or the row of its
\* code could not be read (LoginCommand, RedeemDeviceCode).
THEOREM LoginsFailForAReason == Spec => []FailedForAReason
    BY LoginIsSound, PTL DEF LoginInv, FailureInv

\* A removed Mac does not come back with the token it had.
THEOREM RemovedTokensStayDead == Spec => []RemovedTokenIsDead
    BY LoginIsSound, PTL DEF LoginInv, RemovalInv
-----------------------------------------------------------------------------
(* From the approval to the node: who owns a Mac.                          *)

\* A token of the Mac's own logins, which provider_tokens has.
OwnToken(t, m) == MacOf[LoginOf[t]] = m /\ issuedTo[t] # None

\* What is saved, handed to the daemon, presented and bound on a Mac was
\* issued to a login on that Mac.
TokensStayHome ==
    \A m \in Mac :
        /\ saved[m] # None => OwnToken(saved[m], m)
        /\ override[m] # None => OwnToken(override[m], m)
        /\ carried[m] # None => OwnToken(carried[m], m)
        /\ binding[m] # None => OwnToken(binding[m], m)

\* A node is bound in the name of a user who approved the code of a login on
\* that very Mac, and that login was redeemed.
OwnerHasApproved ==
    \A m \in Mac : binding[m] # None =>
        LET a == LoginOf[binding[m]] IN
        /\ MacOf[a] = m /\ a \in consumed
        /\ approvedBy[a] # None /\ issuedTo[binding[m]] = approvedBy[a]

LEMMA HomeStep ==
    ASSUME TypeOK, RowInv, TokenInv, TokensStayHome, [Next]_vars
    PROVE  TokensStayHome'
<1> USE DEF TypeOK, Token
\* A token that has been issued stays so.
<1>1. \A t \in Token : issuedTo[t] # None => issuedTo'[t] # None
    <2>1. ASSUME NEW p \in Poll, RedeemCommit(p)
          PROVE  \A t \in Token : issuedTo[t] # None => issuedTo'[t] # None
        <3>1. approvedBy[LoginOf[p]] # None
            BY <2>1 DEF RedeemCommit, RowInv, RedeemerHasRow
        <3> QED BY <2>1, <3>1 DEF RedeemCommit
    <2>2. CASE UNCHANGED issuedTo
        BY <2>2
    <2> QED BY <2>1, <2>2
            DEF Next, Server, Cli, Daemon, Start, Expire, Interrupt, SendPoll,
                KeepPolling, LoginFailed, Linked, SaveThrows, PollThrows,
                Deadline, TurnAway, ReadFails, RedeemRefused, RedeemLock,
                RedeemAbort, Approve, DaemonStart, ResolveToken, BindNode, BindFails,
                RevokeNode, vars
<1> USE DEF OwnToken, TokensStayHome
<1>2. CASE UNCHANGED <<saved, override, carried, binding>>
    BY <1>1, <1>2
\* The answer to a poll is a token of the login that polls.
<1>3. ASSUME NEW a \in Attempt, Answered(a, {"token"})
      PROVE  /\ waiting[a] \in Token /\ MacOf[LoginOf[waiting[a]]] = MacOf[a]
             /\ issuedTo'[waiting[a]] # None
    BY <1>1, <1>3 DEF Answered, TokenInv, AnswerIsIssued
<1>4. ASSUME NEW a \in Attempt, Linked(a) \/ SaveThrows(a) PROVE TokensStayHome'
    <2>1. /\ UNCHANGED <<carried, binding>>
          /\ \A m \in Mac :
               /\ saved'[m] = saved[m] \/ (m = MacOf[a] /\ saved'[m] = waiting[a])
               /\ \/ override'[m] = override[m]
                  \/ m = MacOf[a] /\ override'[m] = waiting[a]
        BY <1>4 DEF Linked, SaveThrows
    <2>2. /\ waiting[a] \in Token /\ MacOf[LoginOf[waiting[a]]] = MacOf[a]
          /\ issuedTo'[waiting[a]] # None
        BY <1>3, <1>4 DEF Linked, SaveThrows
    <2> QED BY <1>1, <2>1, <2>2
<1>5. ASSUME NEW m \in Mac, DaemonStart(m) PROVE TokensStayHome'
    <2>1. /\ UNCHANGED <<saved, carried, binding>>
          /\ \A n \in Mac : override'[n] \in {override[n], saved[n]}
        BY <1>5 DEF DaemonStart
    <2> QED BY <1>1, <2>1
<1>6. ASSUME NEW m \in Mac, ResolveToken(m) PROVE TokensStayHome'
    BY <1>1, <1>6 DEF ResolveToken, Presented
<1>7. ASSUME NEW m \in Mac, BindNode(m) \/ BindFails(m) PROVE TokensStayHome'
    <2>1. /\ UNCHANGED <<saved, override>>
          /\ \A n \in Mac : /\ carried'[n] \in {None, carried[n]}
                            /\ binding'[n] \in {binding[n], carried[n]}
        BY <1>7 DEF BindNode, BindFails
    <2> QED BY <1>1, <2>1
<1>8. ASSUME NEW u \in User, NEW m \in Mac, RevokeNode(u, m)
      PROVE  TokensStayHome'
    BY <1>1, <1>8 DEF RevokeNode
<1> HIDE DEF OwnToken, TokensStayHome
<1> QED BY <1>2, <1>4, <1>5, <1>6, <1>7, <1>8
        DEF Next, Server, Cli, Daemon, Start, Expire, Interrupt, SendPoll,
            KeepPolling, LoginFailed, PollThrows, Deadline, TurnAway, ReadFails,
            RedeemRefused, RedeemLock, RedeemCommit, RedeemAbort, Approve, vars

\* Earnings of a Mac go to users who approved a login on it, whatever was
\* lost, repeated, removed or restarted in between.
THEOREM OwnersHaveApproved == Spec => []OwnerHasApproved
<1>1. Init => TokensStayHome
    BY DEF Init, TokensStayHome
<1>2. LoginInv /\ TokensStayHome /\ [Next]_vars => TokensStayHome'
    BY HomeStep DEF LoginInv
<1>3. LoginInv /\ TokensStayHome => OwnerHasApproved
    BY DEF LoginInv, TypeOK, Token, RowInv, IssuedByLogin, TokensStayHome,
           OwnToken, OwnerHasApproved
<1> QED BY <1>1, <1>2, <1>3, LoginIsSound, PTL DEF Spec
=============================================================================
