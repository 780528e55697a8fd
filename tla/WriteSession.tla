---------------------------- MODULE WriteSession ----------------------------
(***************************************************************************)
(* Native write transactions on Postgres: the Transaction handle of        *)
(* crates/semantic-engine/src/reads.rs, the PgSession below it and the      *)
(* autocommit path of crates/semantic-postgres/src/write.rs, the Lease on a *)
(* pooled connection of lib.rs, and the server as that code uses it.        *)
(*                                                                         *)
(* A call on a handle is a future: its caller may drop it at any await, and *)
(* a deadline may end it.  What it sent by then stays in the connection and *)
(* is run in order by the server; its answer is thrown away.  A connection  *)
(* whose lease is dropped is closed unless finish() has marked it clean,    *)
(* and the server learns of that later.                                     *)
(***************************************************************************)
EXTENDS Naturals, Sequences

CONSTANTS
    Handles,        \* transactions, explicit and autocommit
    Autocommits,    \* those that are one WriteConnection::apply
    Connections,    \* server sessions
    Tables,         \* tables written
    None,           \* nothing
    MaxCalls,       \* bound: query and execute_write calls per handle
    MaxLosses       \* bound: connections lost to the network or the server

ASSUME ConstantsAssumption ==
    /\ Autocommits \subseteq Handles
    /\ None \notin Handles \cup Connections \cup Tables
    /\ None \notin {"ok", "error", "lost", "call", "task"}
    /\ None \notin {"Committed", "Aborted", "OutcomeUnknown", "Refused"}
    /\ MaxCalls \in Nat \ {0} /\ MaxLosses \in Nat

VARIABLES
    call,       \* handle -> the call in progress (Calls)
    goal,       \* handle -> the table that call writes, or None for a query
    calls,      \* handle -> how many query and write calls it has begun
    poisoned,   \* handle -> Transaction.poisoned
    broken,     \* handle -> PgSession.poisoned
    expired,    \* handle -> whether PgSession.expires has passed
    lease,      \* handle -> the connection in PgSession.lease, or None
    finishing,  \* handle -> the connection finish() took from it, or None
    finisher,   \* handle -> who runs that finish: "call", "task" or None
    cleanup,    \* handle -> whether a spawned finish(false) is still to run
    reply,      \* handle -> the answer it awaits: "ok", "error", "lost" or None
    outcome,    \* handle -> what its owner was told at the end, or None
    accepted,   \* handle -> tables whose write was reported applied
    refused,    \* history: handle -> a query or write call did not succeed
    issued,     \* handles whose commit receipt the connector has issued
    conn,       \* connection -> "pooled", "leased", "lost" or "closing"
    owner,      \* connection -> the handle that leased it last, or None
    txn,        \* connection -> its transaction on the server (Transactions)
    queue,      \* connection -> requests the server has not answered
    wrote,      \* connection -> tables its transaction has changed
    locked,     \* table -> the connection with its SHARE ROW EXCLUSIVE lock
    durable,    \* handle -> tables whose changes the server has committed
    losses      \* connections lost so far

sessionVars == <<poisoned, broken, expired, lease>>
finishVars == <<finishing, finisher, cleanup>>
toldVars == <<outcome, accepted, refused, issued>>
serverVars == <<txn, wrote, locked, durable>>
vars == <<call, goal, calls, sessionVars, finishVars, reply, toldVars, conn,
          owner, queue, serverVars, losses>>

Calls == {"new", "ready", "binding", "scanning", "applying", "committing",
          "rolling", "gone"}
Outcomes == {"Committed", "Aborted", "OutcomeUnknown", "Refused"}
Transactions == {"none", "active", "failed"}
Statements == {"bind", "scan", "write"}
Requests == [op : Statements \cup {"commit", "rollback"},
             table : Tables \cup {None}, wanted : BOOLEAN]

Init ==
    /\ call = [h \in Handles |-> "new"]
    /\ goal = [h \in Handles |-> None]
    /\ calls = [h \in Handles |-> 0]
    /\ poisoned = [h \in Handles |-> FALSE]
    /\ broken = [h \in Handles |-> FALSE]
    /\ expired = [h \in Handles |-> FALSE]
    /\ lease = [h \in Handles |-> None]
    /\ finishing = [h \in Handles |-> None]
    /\ finisher = [h \in Handles |-> None]
    /\ cleanup = [h \in Handles |-> FALSE]
    /\ reply = [h \in Handles |-> None]
    /\ outcome = [h \in Handles |-> None]
    /\ accepted = [h \in Handles |-> {}]
    /\ refused = [h \in Handles |-> FALSE]
    /\ issued = {}
    /\ conn = [c \in Connections |-> "pooled"]
    /\ owner = [c \in Connections |-> None]
    /\ txn = [c \in Connections |-> "none"]
    /\ queue = [c \in Connections |-> <<>>]
    /\ wrote = [c \in Connections |-> {}]
    /\ locked = [t \in Tables |-> None]
    /\ durable = [h \in Handles |-> {}]
    /\ losses = 0

-----------------------------------------------------------------------------
(* What the calls have in common.                                          *)

Goto(h, to) == call' = [call EXCEPT ![h] = to]

(* The connection drops the answers nobody awaits any longer.              *)
Unwanted(q) == [i \in DOMAIN q |-> [q[i] EXCEPT !.wanted = FALSE]]
Forget(c) == queue' = [queue EXCEPT ![c] = Unwanted(@)]

(* A request on a lost connection is answered by an error at once.         *)
Send(h, c, op, table) ==
    IF conn[c] = "lost"
    THEN /\ reply' = [reply EXCEPT ![h] = "lost"]
         /\ UNCHANGED queue
    ELSE /\ queue' = [queue EXCEPT ![c] =
                Append(@, [op |-> op, table |-> table, wanted |-> TRUE])]
         /\ reply' = [reply EXCEPT ![h] = None]

(* Mutant: any connection goes back to the pool.                           *)
CloseMutant(h, c) ==
    /\ conn' = [conn EXCEPT ![c] = "pooled"]
    /\ Forget(c)
    /\ reply' = [reply EXCEPT ![h] = None]

(* Lease::drop on a connection that is not clean: it is closed, and what   *)
(* it is running may be cancelled.                                         *)
Close(h, c) ==
    /\ conn' = [conn EXCEPT ![c] = "closing"]
    /\ Forget(c)
    /\ reply' = [reply EXCEPT ![h] = None]

(* lease.take(): closes the connection if the session still has one.       *)
DropLease(h) ==
    /\ lease' = [lease EXCEPT ![h] = None]
    /\ IF lease[h] = None
       THEN /\ reply' = [reply EXCEPT ![h] = None]
            /\ UNCHANGED <<conn, queue>>
       ELSE Close(h, lease[h])

(* The session's last owner goes, unless a spawned or running finish still *)
(* has it.                                                                 *)
DropSession(h) ==
    IF cleanup[h] \/ finishing[h] # None
    THEN UNCHANGED <<lease, reply, conn, queue>>
    ELSE DropLease(h)

(* PgSession::check                                                        *)
SessionChecks(h) == ~broken[h] /\ ~expired[h]

(* The session's mutex is free.                                            *)
Unlocked(h) ==
    /\ call[h] \notin {"binding", "scanning", "applying"}
    /\ finishing[h] = None

-----------------------------------------------------------------------------
(* Opening.                                                                *)

(* open(): BEGIN on a pooled connection, then the expiry task.             *)
Open(h, c) ==
    /\ call[h] = "new"
    /\ conn[c] = "pooled"
    /\ conn' = [conn EXCEPT ![c] = "leased"]
    /\ owner' = [owner EXCEPT ![c] = h]
    /\ txn' = [txn EXCEPT ![c] = "active"]
    /\ lease' = [lease EXCEPT ![h] = c]
    /\ Goto(h, "ready")
    /\ UNCHANGED <<goal, calls, poisoned, broken, expired, finishVars, reply,
                   toldVars, queue, wrote, locked, durable, losses>>

(* A setup query fails or the caller stops waiting: the lease is dropped.  *)
OpenFails(h, c) ==
    /\ call[h] = "new"
    /\ conn[c] = "pooled"
    /\ conn' = [conn EXCEPT ![c] = "closing"]
    /\ owner' = [owner EXCEPT ![c] = h]
    /\ txn' = [txn EXCEPT ![c] = "active"]
    /\ outcome' = [outcome EXCEPT ![h] = "Refused"]
    /\ Goto(h, "gone")
    /\ UNCHANGED <<goal, calls, sessionVars, finishVars, reply, accepted,
                   refused, issued, queue, wrote, locked, durable, losses>>

-----------------------------------------------------------------------------
(* query and execute_write.                                                *)

(* Transaction::check, then poisoned until the call has succeeded; the     *)
(* targets and sources are bound through the session.  An autocommit has   *)
(* one call, which binds nothing.                                          *)
StartCall(h, g) ==
    /\ call[h] = "ready"
    /\ calls[h] < MaxCalls
    /\ h \in Autocommits => calls[h] = 0 /\ g # None
    /\ ~poisoned[h]
    /\ SessionChecks(h)
    /\ calls' = [calls EXCEPT ![h] = @ + 1]
    /\ goal' = [goal EXCEPT ![h] = g]
    /\ poisoned' = [poisoned EXCEPT ![h] = TRUE]
    /\ Goto(h, IF h \in Autocommits THEN "applying" ELSE "binding")
    /\ Send(h, lease[h], IF h \in Autocommits THEN "write" ELSE "bind", g)
    /\ UNCHANGED <<broken, expired, lease, finishVars, toldVars, conn, owner,
                   serverVars, losses>>

(* The handle or its session refuses the call.                             *)
RefuseCall(h) ==
    /\ call[h] = "ready"
    /\ h \notin Autocommits
    /\ calls[h] < MaxCalls
    /\ poisoned[h] \/ ~SessionChecks(h)
    /\ calls' = [calls EXCEPT ![h] = @ + 1]
    /\ poisoned' = [poisoned EXCEPT ![h] = TRUE]
    /\ refused' = [refused EXCEPT ![h] = TRUE]
    /\ UNCHANGED <<call, goal, broken, expired, lease, finishVars, reply,
                   outcome, accepted, issued, conn, owner, queue, serverVars,
                   losses>>

(* Targets and sources are bound: a query scans, a write may have a source *)
(* to scan first.                                                          *)
Scan(h) ==
    /\ call[h] = "binding"
    /\ reply[h] = "ok"
    /\ SessionChecks(h)
    /\ Goto(h, "scanning")
    /\ Send(h, lease[h], "scan", None)
    /\ UNCHANGED <<goal, calls, sessionVars, finishVars, toldVars, conn, owner,
                   serverVars, losses>>

(* PgSession::apply with its input staged.                                 *)
Apply(h) ==
    /\ call[h] \in {"binding", "scanning"}
    /\ goal[h] # None
    /\ reply[h] = "ok"
    /\ SessionChecks(h)
    /\ Goto(h, "applying")
    /\ Send(h, lease[h], "write", goal[h])
    /\ UNCHANGED <<goal, calls, sessionVars, finishVars, toldVars, conn, owner,
                   serverVars, losses>>

(* Binding ends with an error of the server, of planning or of the         *)
(* session, or at the deadline: only the handle is poisoned.               *)
BindingFails(h) ==
    /\ \/ call[h] = "binding"
       \/ call[h] = "scanning" /\ reply[h] = "ok"
    /\ Goto(h, "ready")
    /\ refused' = [refused EXCEPT ![h] = TRUE]
    /\ reply' = [reply EXCEPT ![h] = None]
    /\ Forget(lease[h])
    /\ UNCHANGED <<goal, calls, sessionVars, finishVars, outcome, accepted,
                   issued, conn, owner, serverVars, losses>>

(* A scan was read to its end, or a write was answered.                    *)
CallSucceeds(h) ==
    /\ call[h] = IF goal[h] = None THEN "scanning" ELSE "applying"
    /\ reply[h] = "ok"
    /\ Goto(h, "ready")
    /\ poisoned' = [poisoned EXCEPT ![h] = FALSE]
    /\ accepted' = IF call[h] = "applying"
                   THEN [accepted EXCEPT ![h] = @ \cup {goal[h]}]
                   ELSE accepted
    /\ reply' = [reply EXCEPT ![h] = None]
    /\ UNCHANGED <<goal, calls, broken, expired, lease, finishVars, outcome,
                   refused, issued, conn, owner, queue, serverVars, losses>>

(* Mutant: a failed statement leaves handle and session usable.            *)
StatementFailsMutant(h) ==
    /\ call[h] \in {"scanning", "applying"}
    /\ Goto(h, "ready")
    /\ poisoned' = [poisoned EXCEPT ![h] = FALSE]
    /\ refused' = [refused EXCEPT ![h] = TRUE]
    /\ reply' = [reply EXCEPT ![h] = None]
    /\ Forget(lease[h])
    /\ UNCHANGED <<goal, calls, broken, expired, lease, finishVars, outcome,
                   accepted, issued, conn, owner, serverVars, losses>>

(* An error of the server, a spent budget, a deadline or a cancelled       *)
(* context in a scan or a write: the session is poisoned and its           *)
(* connection closed.  apply() reports Aborted for its statement.          *)
StatementFails(h) ==
    /\ call[h] \in {"scanning", "applying"}
    /\ Goto(h, "ready")
    /\ broken' = [broken EXCEPT ![h] = TRUE]
    /\ DropLease(h)
    /\ refused' = [refused EXCEPT ![h] = TRUE]
    /\ UNCHANGED <<goal, calls, poisoned, expired, finishVars, outcome,
                   accepted, issued, owner, serverVars, losses>>

(* The plan had its rows before a scan was read: SessionScanGuard poisons  *)
(* the session although the query succeeds.                                *)
ScanAbandoned(h) ==
    /\ call[h] = "scanning"
    /\ goal[h] = None
    /\ Goto(h, "ready")
    /\ broken' = [broken EXCEPT ![h] = TRUE]
    /\ poisoned' = [poisoned EXCEPT ![h] = FALSE]
    /\ DropLease(h)
    /\ UNCHANGED <<goal, calls, expired, finishVars, toldVars, owner,
                   serverVars, losses>>

(* Mutant: the dropped operation does not clean up after itself.           *)
CancelCallMutant(h) ==
    /\ call[h] \in {"binding", "scanning", "applying"}
    /\ h \notin Autocommits
    /\ Goto(h, "ready")
    /\ refused' = [refused EXCEPT ![h] = TRUE]
    /\ poisoned' = [poisoned EXCEPT ![h] = FALSE]
    /\ reply' = [reply EXCEPT ![h] = None]
    /\ Forget(lease[h])
    /\ UNCHANGED <<goal, calls, broken, expired, lease, finishVars, outcome,
                   accepted, issued, conn, owner, serverVars, losses>>

(* The caller drops the call's future and keeps the handle: the handle     *)
(* stays poisoned, SessionOperation spawns finish(false), and a scan's     *)
(* guard closes the connection.                                            *)
CancelCall(h) ==
    /\ call[h] \in {"binding", "scanning", "applying"}
    /\ h \notin Autocommits
    /\ Goto(h, "ready")
    /\ refused' = [refused EXCEPT ![h] = TRUE]
    /\ cleanup' = [cleanup EXCEPT ![h] = TRUE]
    /\ IF call[h] = "scanning"
       THEN /\ broken' = [broken EXCEPT ![h] = TRUE]
            /\ DropLease(h)
       ELSE /\ reply' = [reply EXCEPT ![h] = None]
            /\ Forget(lease[h])
            /\ UNCHANGED <<broken, lease, conn>>
    /\ UNCHANGED <<goal, calls, poisoned, expired, finishing, finisher,
                   outcome, accepted, issued, owner, serverVars, losses>>

-----------------------------------------------------------------------------
(* finish(): COMMIT or ROLLBACK on the lease it has taken.                 *)

(* Mutant: two arguments swapped.                                          *)
TakeAndSendMutant(h, op, who) ==
    /\ finishing' = [finishing EXCEPT ![h] = lease[h]]
    /\ finisher' = [finisher EXCEPT ![h] = op]
    /\ lease' = [lease EXCEPT ![h] = None]
    /\ Send(h, lease[h], who, None)

TakeAndSend(h, op, who) ==
    /\ finishing' = [finishing EXCEPT ![h] = lease[h]]
    /\ finisher' = [finisher EXCEPT ![h] = who]
    /\ lease' = [lease EXCEPT ![h] = None]
    /\ Send(h, lease[h], op, None)

(* Transaction::commit, or an autocommit whose write was applied.          *)
Commit(h) ==
    /\ call[h] = "ready"
    /\ h \in Autocommits => accepted[h] # {}
    /\ ~poisoned[h]
    /\ SessionChecks(h)
    /\ Goto(h, "committing")
    /\ TakeAndSend(h, "commit", "call")
    /\ UNCHANGED <<goal, calls, poisoned, broken, expired, cleanup, toldVars,
                   conn, owner, serverVars, losses>>

(* A poisoned or expired handle or session cannot commit; the handle is    *)
(* consumed.                                                               *)
RefuseCommit(h) ==
    /\ call[h] = "ready"
    /\ h \in Autocommits => accepted[h] # {}
    /\ poisoned[h] \/ ~SessionChecks(h)
    /\ outcome' = [outcome EXCEPT ![h] = "Refused"]
    /\ Goto(h, "gone")
    /\ DropSession(h)
    /\ UNCHANGED <<goal, calls, poisoned, broken, expired, finishVars,
                   accepted, refused, issued, owner, serverVars, losses>>

(* Transaction::rollback, or an autocommit whose context was cancelled     *)
(* between its write and its commit.                                       *)
StartRollback(h) ==
    /\ call[h] = "ready"
    /\ h \in Autocommits => calls[h] > 0
    /\ Goto(h, "rolling")
    /\ UNCHANGED <<goal, calls, sessionVars, finishVars, reply, toldVars, conn,
                   owner, queue, serverVars, losses>>

Rollback(h) ==
    /\ call[h] = "rolling"
    /\ finishing[h] = None
    /\ IF lease[h] = None
       THEN /\ Goto(h, "gone")
            /\ outcome' = [outcome EXCEPT ![h] = "Aborted"]
            /\ UNCHANGED <<lease, finishing, finisher, reply, queue>>
       ELSE /\ TakeAndSend(h, "rollback", "call")
            /\ UNCHANGED <<call, outcome>>
    /\ UNCHANGED <<goal, calls, poisoned, broken, expired, cleanup, accepted,
                   refused, issued, conn, owner, serverVars, losses>>

(* The finish that a dropped call spawned gets its turn.                   *)
Cleanup(h) ==
    /\ cleanup[h]
    /\ finishing[h] = None
    /\ cleanup' = [cleanup EXCEPT ![h] = FALSE]
    /\ IF lease[h] = None
       THEN UNCHANGED <<lease, finishing, finisher, reply, queue>>
       ELSE TakeAndSend(h, "rollback", "task")
    /\ UNCHANGED <<call, goal, calls, poisoned, broken, expired, toldVars,
                   conn, owner, serverVars, losses>>

(* What a finish reports when its outcome is known or not.                 *)
Finished(h, told) ==
    /\ finishing' = [finishing EXCEPT ![h] = None]
    /\ finisher' = [finisher EXCEPT ![h] = None]
    /\ IF finisher[h] = "call"
       THEN /\ outcome' = [outcome EXCEPT ![h] =
                  IF call[h] = "rolling" THEN "Aborted" ELSE told]
            /\ Goto(h, "gone")
       ELSE UNCHANGED <<outcome, call>>

(* Acknowledged: the lease is clean, a commit gets its receipt.            *)
FinishAcknowledged(h) ==
    LET c == finishing[h]
    IN /\ c # None
       /\ reply[h] = "ok"
       /\ Finished(h, "Committed")
       /\ conn' = [conn EXCEPT ![c] = IF @ = "lost" THEN "closing"
                                                    ELSE "pooled"]
       /\ reply' = [reply EXCEPT ![h] = None]
       /\ issued' = IF call[h] = "committing" THEN issued \cup {h} ELSE issued
       /\ UNCHANGED <<goal, calls, sessionVars, cleanup, accepted, refused,
                      owner, queue, serverVars, losses>>

(* The database answers COMMIT with an error: it has rolled back.          *)
FinishRejected(h) ==
    /\ finishing[h] # None
    /\ reply[h] = "error"
    /\ Finished(h, "Aborted")
    /\ Close(h, finishing[h])
    /\ UNCHANGED <<goal, calls, sessionVars, cleanup, accepted, refused,
                   issued, owner, serverVars, losses>>

(* Mutant: a missing acknowledgement is taken for a rollback.              *)
FinishUnansweredMutant(h) ==
    /\ finishing[h] # None
    /\ reply[h] \in {None, "lost"}
    /\ Finished(h, "Aborted")
    /\ Close(h, finishing[h])
    /\ UNCHANGED <<goal, calls, sessionVars, cleanup, accepted, refused,
                   issued, owner, serverVars, losses>>

(* No answer: the connection failed, or the 30 seconds or the deadline of  *)
(* the autocommit passed.  The answer may be under way.                    *)
FinishUnanswered(h) ==
    /\ finishing[h] # None
    /\ reply[h] \in {None, "lost"}
    /\ Finished(h, "OutcomeUnknown")
    /\ Close(h, finishing[h])
    /\ UNCHANGED <<goal, calls, sessionVars, cleanup, accepted, refused,
                   issued, owner, serverVars, losses>>

-----------------------------------------------------------------------------
(* Dropped handles and futures, and time.                                  *)

(* A handle dropped between calls closes its connection, unless a spawned  *)
(* finish still holds the session.                                         *)
DropHandle(h) ==
    /\ call[h] = "ready"
    /\ h \notin Autocommits
    /\ Goto(h, "gone")
    /\ DropSession(h)
    /\ UNCHANGED <<goal, calls, poisoned, broken, expired, finishVars,
                   toldVars, owner, serverVars, losses>>

(* An autocommit, commit or rollback future is dropped with its lease;     *)
(* nobody is told anything.                                                *)
DropFuture(h) ==
    /\ \/ call[h] \in {"committing", "rolling"}
       \/ call[h] \in {"ready", "applying"} /\ h \in Autocommits
    /\ Goto(h, "gone")
    /\ IF finisher[h] = "call"
       THEN /\ Close(h, finishing[h])
            /\ finishing' = [finishing EXCEPT ![h] = None]
            /\ finisher' = [finisher EXCEPT ![h] = None]
            /\ UNCHANGED lease
       ELSE /\ DropSession(h)
            /\ UNCHANGED <<finishing, finisher>>
    /\ UNCHANGED <<goal, calls, poisoned, broken, expired, cleanup,
                   toldVars, owner, serverVars, losses>>

(* PgSession.expires passes.                                               *)
Expire(h) ==
    /\ call[h] # "new"
    /\ lease[h] # None
    /\ ~expired[h]
    /\ expired' = [expired EXCEPT ![h] = TRUE]
    /\ UNCHANGED <<call, goal, calls, poisoned, broken, lease, finishVars,
                   reply, toldVars, conn, owner, queue, serverVars, losses>>

(* Mutant: nothing watches the clock between calls.                        *)
ExpiryTaskMutant(h) == FALSE /\ UNCHANGED vars

(* The task spawned by open() takes the lease when the mutex is free.      *)
ExpiryTask(h) ==
    /\ expired[h]
    /\ lease[h] # None
    /\ Unlocked(h)
    /\ DropLease(h)
    /\ UNCHANGED <<call, goal, calls, poisoned, broken, expired, finishVars,
                   toldVars, owner, serverVars, losses>>

-----------------------------------------------------------------------------
(* The server, as the code uses it.                                        *)

(* Answer the first request of c, if anybody awaits that.                  *)
Answer(c, with) ==
    /\ queue' = [queue EXCEPT ![c] = Tail(@)]
    /\ reply' = IF Head(queue[c]).wanted
                THEN [reply EXCEPT ![owner[c]] = with] ELSE reply

Unlock(c) ==
    locked' = [t \in Tables |-> IF locked[t] = c THEN None ELSE locked[t]]

EndTransaction(c) ==
    /\ txn' = [txn EXCEPT ![c] = "none"]
    /\ wrote' = [wrote EXCEPT ![c] = {}]
    /\ Unlock(c)

clientVars == <<call, goal, calls, sessionVars, finishVars, toldVars>>

(* A statement of a working transaction; a write waits for its table.      *)
RunStatement(c) ==
    /\ queue[c] # <<>>
    /\ txn[c] = "active"
    /\ LET request == Head(queue[c])
       IN /\ request.op \in Statements
          /\ IF request.op = "write"
             THEN /\ locked[request.table] \in {None, c}
                  /\ locked' = [locked EXCEPT ![request.table] = c]
                  /\ wrote' = [wrote EXCEPT ![c] = @ \cup {request.table}]
             ELSE UNCHANGED <<locked, wrote>>
    /\ Answer(c, "ok")
    /\ UNCHANGED <<clientVars, conn, owner, txn, durable, losses>>

(* An error, a statement timeout, a deadlock or a cancellation fails the   *)
(* transaction; a failed transaction refuses every further statement.      *)
RejectStatement(c) ==
    /\ queue[c] # <<>>
    /\ Head(queue[c]).op \in Statements
    /\ txn[c] # "none"
    /\ txn' = [txn EXCEPT ![c] = "failed"]
    /\ Answer(c, "error")
    /\ UNCHANGED <<clientVars, conn, owner, wrote, locked, durable, losses>>

(* COMMIT of a failed transaction rolls it back and is no error.           *)
RunCommit(c) ==
    /\ queue[c] # <<>>
    /\ Head(queue[c]).op = "commit"
    /\ txn[c] # "none"
    /\ durable' = IF txn[c] = "active"
                  THEN [durable EXCEPT ![owner[c]] = wrote[c]] ELSE durable
    /\ EndTransaction(c)
    /\ Answer(c, "ok")
    /\ UNCHANGED <<clientVars, conn, owner, losses>>

(* A serialization failure or a deferred constraint.                       *)
RejectCommit(c) ==
    /\ queue[c] # <<>>
    /\ Head(queue[c]).op = "commit"
    /\ txn[c] = "active"
    /\ EndTransaction(c)
    /\ Answer(c, "error")
    /\ UNCHANGED <<clientVars, conn, owner, durable, losses>>

RunRollback(c) ==
    /\ queue[c] # <<>>
    /\ Head(queue[c]).op = "rollback"
    /\ txn[c] # "none"
    /\ EndTransaction(c)
    /\ Answer(c, "ok")
    /\ UNCHANGED <<clientVars, conn, owner, durable, losses>>

(* The network fails, or the server ends an idle transaction with its      *)
(* connection.  What was sent may still be run.                            *)
Lose(c) ==
    /\ losses < MaxLosses
    /\ conn[c] = "leased"
    /\ losses' = losses + 1
    /\ conn' = [conn EXCEPT ![c] = "lost"]
    /\ reply' = IF \E i \in DOMAIN queue[c] : queue[c][i].wanted
                THEN [reply EXCEPT ![owner[c]] = "lost"] ELSE reply
    /\ Forget(c)
    /\ UNCHANGED <<clientVars, owner, serverVars>>

(* The server notices a closed or lost connection and rolls back; the pool *)
(* replaces a closed one.                                                  *)
Disconnect(c) ==
    /\ conn[c] \in {"closing", "lost"}
    /\ conn[c] = "lost" => txn[c] # "none" \/ queue[c] # <<>>
    /\ EndTransaction(c)
    /\ queue' = [queue EXCEPT ![c] = <<>>]
    /\ IF conn[c] = "closing"
       THEN /\ conn' = [conn EXCEPT ![c] = "pooled"]
            /\ owner' = [owner EXCEPT ![c] = None]
       ELSE UNCHANGED <<conn, owner>>
    /\ UNCHANGED <<clientVars, reply, durable, losses>>

-----------------------------------------------------------------------------
Statement(h) ==
    \/ Scan(h) \/ Apply(h) \/ BindingFails(h)
    \/ CallSucceeds(h) \/ StatementFails(h)

Finish(h) ==
    \/ Rollback(h) \/ Cleanup(h)
    \/ FinishAcknowledged(h) \/ FinishRejected(h) \/ FinishUnanswered(h)

Caller(h) ==
    \/ \E c \in Connections : Open(h, c) \/ OpenFails(h, c)
    \/ \E g \in Tables \cup {None} : StartCall(h, g)
    \/ RefuseCall(h) \/ ScanAbandoned(h) \/ CancelCall(h)
    \/ Commit(h) \/ RefuseCommit(h) \/ StartRollback(h)
    \/ DropHandle(h) \/ DropFuture(h)

Server(c) ==
    \/ RunStatement(c) \/ RejectStatement(c)
    \/ RunCommit(c) \/ RejectCommit(c) \/ RunRollback(c)
    \/ Lose(c) \/ Disconnect(c)

Next ==
    \/ \E h \in Handles : \/ Statement(h) \/ Finish(h) \/ Caller(h)
                          \/ Expire(h) \/ ExpiryTask(h)
    \/ \E c \in Connections : Server(c)

Spec == Init /\ [][Next]_vars

(* The runtime polls what is ready, deadlines pass and timers fire.        *)
(* Callers owe nothing, nor does the server, except that it notices a      *)
(* closed connection.                                                      *)
Fairness ==
    /\ \A h \in Handles : /\ WF_vars(Statement(h)) /\ WF_vars(Finish(h))
                          /\ WF_vars(Expire(h)) /\ WF_vars(ExpiryTask(h))
    /\ \A c \in Connections : WF_vars(Disconnect(c))

FairSpec == Spec /\ Fairness

-----------------------------------------------------------------------------
(* Properties.                                                             *)

(* Every variable holds a value of its kind; in particular a request that  *)
(* is sent is sent on a connection.                                        *)
TypeOK ==
    /\ call \in [Handles -> Calls]
    /\ goal \in [Handles -> Tables \cup {None}]
    /\ calls \in [Handles -> 0 .. MaxCalls]
    /\ poisoned \in [Handles -> BOOLEAN]
    /\ broken \in [Handles -> BOOLEAN]
    /\ expired \in [Handles -> BOOLEAN]
    /\ lease \in [Handles -> Connections \cup {None}]
    /\ finishing \in [Handles -> Connections \cup {None}]
    /\ finisher \in [Handles -> {"call", "task", None}]
    /\ cleanup \in [Handles -> BOOLEAN]
    /\ reply \in [Handles -> {"ok", "error", "lost", None}]
    /\ outcome \in [Handles -> Outcomes \cup {None}]
    /\ accepted \in [Handles -> SUBSET Tables]
    /\ refused \in [Handles -> BOOLEAN]
    /\ issued \subseteq Handles
    /\ conn \in [Connections -> {"pooled", "leased", "lost", "closing"}]
    /\ owner \in [Connections -> Handles \cup {None}]
    /\ txn \in [Connections -> Transactions]
    /\ queue \in [Connections -> Seq(Requests)]
    /\ wrote \in [Connections -> SUBSET Tables]
    /\ locked \in [Tables -> Connections \cup {None}]
    /\ durable \in [Handles -> SUBSET Tables]
    /\ losses \in 0 .. MaxLosses

(* Committed, and a receipt, mean that the server has committed every      *)
(* write the caller was told of; the server answers the COMMIT of a failed *)
(* transaction with no error, so only the poison flags can tell.           *)
CommittedIsDurable ==
    \A h \in Handles :
        outcome[h] = "Committed" \/ h \in issued => durable[h] = accepted[h]

(* After Aborted or a refused commit nothing of the transaction is or      *)
(* becomes durable, whatever is still in the connection; a lost answer to  *)
(* COMMIT is never reported as a rollback.                                 *)
AbortedIsNotDurable ==
    \A h \in Handles : outcome[h] \in {"Aborted", "Refused"} => durable[h] = {}

(* What becomes durable is exactly what the caller was told had been       *)
(* applied, and nothing of a transaction in which a call failed or was     *)
(* dropped, although its statement may have run and its connection lives.  *)
AllOrNothing ==
    \A h \in Handles :
        durable[h] # {} => durable[h] = accepted[h] /\ ~refused[h]

(* A connection that waits in the pool has no transaction, no lock, no     *)
(* request on the way and no holder ("Incomplete work is never recycled"). *)
PooledIsIdle ==
    \A c \in Connections : conn[c] = "pooled" =>
        /\ txn[c] = "none" /\ queue[c] = <<>> /\ wrote[c] = {}
        /\ \A t \in Tables : locked[t] # c
        /\ \A h \in Handles : lease[h] # c /\ finishing[h] # c

(* Every native transaction, with its table locks, ends: also when its     *)
(* handle is forgotten, its calls are dropped or its server does not       *)
(* answer.                                                                 *)
TransactionsEnd ==
    \A c \in Connections : txn[c] # "none" ~> txn[c] = "none"

(* To its callers a native write is atomic, isolated and truthfully        *)
(* reported: sessions, leases, queues and losses are not to be told from   *)
(* transactions that end at one moment.                                    *)
Begun(h) ==
    IF call[h] = "new" THEN "idle"
    ELSE IF \E c \in Connections : owner[c] = h /\ txn[c] # "none" THEN "open" ELSE "over"
WrittenBy(h) == UNION {wrote[c] : c \in {d \in Connections : owner[d] = h}}
HolderOf(t) == IF locked[t] = None THEN None ELSE owner[locked[t]]
Writes == INSTANCE AtomicWrites WITH
            state <- [h \in Handles |-> Begun(h)],
            written <- [h \in Handles |-> WrittenBy(h)],
            holder <- [t \in Tables |-> HolderOf(t)]
ImplementsWrites == Writes!Spec
=============================================================================
