------------------------- MODULE WriteSessionProofs -------------------------
(***************************************************************************)
(* What WriteSession promises, for every number of handles, connections    *)
(* and tables.  The invariant has three parts: who holds a connection, what *)
(* is under way on it, and what the server has done of what the handle was *)
(* told.  A COMMIT is only ever sent on an idle connection whose           *)
(* transaction is active and has done exactly what was accepted, because   *)
(* everything else leaves one of the poison flags behind.  With it, every  *)
(* step is a step of AtomicWrites, or none.                                *)
(***************************************************************************)
EXTENDS WriteSession, TLAPS

Busy(h) == call[h] \in {"binding", "scanning", "applying"}
Holds(h, c) == lease[h] = c \/ finishing[h] = c

(* A handle holds at most one connection, which is leased to it.           *)
Holders(h) ==
    /\ \A c \in Connections : Holds(h, c) => owner[c] = h /\ conn[c] \in {"leased", "lost"}
    /\ finishing[h] # None => lease[h] = None
    /\ finishing[h] = None <=> finisher[h] = None
    /\ finisher[h] = "call" => call[h] \in {"committing", "rolling"}

Owners ==
    /\ \A c, d \in Connections : owner[c] = owner[d] /\ owner[c] # None => c = d
    /\ \A c \in Connections : owner[c] # None => call[owner[c]] # "new"

Fresh(h) ==
    call[h] = "new" =>
        /\ lease[h] = None /\ finishing[h] = None
        /\ ~poisoned[h] /\ ~broken[h] /\ ~cleanup[h] /\ ~refused[h]
        /\ accepted[h] = {} /\ durable[h] = {}

(* Only a transaction has changes and locks, and none waits in the pool.   *)
Idle(c) ==
    /\ txn[c] = "none" => wrote[c] = {} /\ \A t \in Tables : locked[t] # c
    /\ conn[c] = "pooled" => txn[c] = "none" /\ Len(queue[c]) = 0

(* An answer is awaited by the owner of the connection for the last        *)
(* request, the one that its present call or finish has sent.              *)
Awaited(c) ==
    \A i \in 1 .. Len(queue[c]) : queue[c][i].wanted =>
        /\ i = Len(queue[c]) /\ conn[c] = "leased" /\ owner[c] # None /\ reply[owner[c]] = None
        /\ IF queue[c][i].op \in Statements
           THEN Busy(owner[c]) /\ lease[owner[c]] = c
           ELSE finishing[owner[c]] = c /\ (queue[c][i].op = "rollback" => call[owner[c]] # "committing")

(* A COMMIT on its way is alone, and would commit what was accepted.       *)
Committing(c) ==
    \A i \in 1 .. Len(queue[c]) : queue[c][i].op = "commit" =>
        /\ Len(queue[c]) = 1 /\ owner[c] # None
        /\ txn[c] = "active" /\ wrote[c] = accepted[owner[c]]
        /\ lease[owner[c]] # c
        /\ ~refused[owner[c]] /\ durable[owner[c]] = {}
        /\ call[owner[c]] \in {"committing", "gone"}
        /\ outcome[owner[c]] \in {None, "OutcomeUnknown"} /\ owner[c] \notin issued

(* A write names its table. *)
Named(c) == \A i \in 1 .. Len(queue[c]) : queue[c][i].op = "write" => queue[c][i].table # None

(* While a call runs, the server has done what was accepted, and the       *)
(* call's write when that is answered.                                     *)
Sent(h) == CASE call[h] = "binding" -> "bind" [] call[h] = "scanning" -> "scan" [] call[h] = "applying" -> "write"
Working(h) ==
    Busy(h) =>
        /\ lease[h] # None /\ poisoned[h] /\ ~broken[h] /\ ~refused[h] /\ ~cleanup[h]
        /\ call[h] = "applying" => goal[h] # None
        /\ conn[lease[h]] = "leased" =>
             /\ reply[h] = None =>
                  /\ Len(queue[lease[h]]) = 1 /\ txn[lease[h]] = "active" /\ wrote[lease[h]] = accepted[h]
                  /\ queue[lease[h]][1].op = Sent(h) /\ queue[lease[h]][1].wanted
                  /\ call[h] = "applying" => queue[lease[h]][1].table = goal[h]
             /\ reply[h] = "ok" =>
                  /\ Len(queue[lease[h]]) = 0 /\ txn[lease[h]] = "active"
                  /\ wrote[lease[h]] = accepted[h] \cup (IF call[h] = "applying" THEN {goal[h]} ELSE {})

(* Between calls, a handle that is not poisoned stands where its server does. *)
Clean(h) ==
    /\ cleanup[h] => poisoned[h]
    /\ call[h] = "ready" /\ ~poisoned[h] /\ ~broken[h] =>
        /\ ~refused[h]
        /\ ~expired[h] => lease[h] # None
        /\ lease[h] # None /\ conn[lease[h]] = "leased" =>
              Len(queue[lease[h]]) = 0 /\ txn[lease[h]] = "active" /\ wrote[lease[h]] = accepted[h]

(* A finish that is answered has nothing left to run.                      *)
Finishing(h) ==
    /\ finishing[h] # None /\ reply[h] \in {"ok", "error"} => Len(queue[finishing[h]]) = 0
    /\ finishing[h] # None /\ reply[h] = "ok" => txn[finishing[h]] = "none"
    /\ call[h] = "committing" =>
         /\ finisher[h] = "call"
         /\ reply[h] = "ok" => durable[h] = accepted[h]
         /\ reply[h] = "error" => durable[h] = {}

Told(h) ==
    /\ durable[h] # {} => /\ durable[h] = accepted[h] /\ ~refused[h]
                          /\ call[h] \in {"committing", "gone"} /\ outcome[h] \notin {"Aborted", "Refused"}
    /\ outcome[h] # None \/ h \in issued => call[h] = "gone"
    /\ outcome[h] = "Committed" \/ h \in issued => durable[h] = accepted[h]

Handle(h) == Holders(h) /\ Fresh(h) /\ Working(h) /\ Clean(h) /\ Finishing(h) /\ Told(h)
Connection(c) == Idle(c) /\ Awaited(c) /\ Committing(c) /\ Named(c)

IInv ==
    /\ TypeOK /\ Owners
    /\ \A h \in Handles : Handle(h)
    /\ \A c \in Connections : Connection(c)

-----------------------------------------------------------------------------
(* Queues.                                                                 *)

(* Nobody waits for the requests of a connection that was forgotten, which are otherwise the same. *)
LEMMA UnwantedKeeps ==
    ASSUME NEW q \in Seq(Requests)
    PROVE  /\ Unwanted(q) \in Seq(Requests) /\ Len(Unwanted(q)) = Len(q)
           /\ \A i \in 1 .. Len(q) : /\ Unwanted(q)[i].op = q[i].op
                                     /\ Unwanted(q)[i].table = q[i].table
                                     /\ ~Unwanted(q)[i].wanted
<1>1. DOMAIN q = 1 .. Len(q) /\ Len(q) \in Nat /\ \A i \in 1 .. Len(q) : q[i] \in Requests
  OBVIOUS
<1>2. Unwanted(q) = [i \in 1 .. Len(q) |-> [q[i] EXCEPT !.wanted = FALSE]]
  BY <1>1 DEF Unwanted
<1>3. \A i \in 1 .. Len(q) : Unwanted(q)[i] = [q[i] EXCEPT !.wanted = FALSE]
  BY <1>2
<1>4. \A i \in 1 .. Len(q) : Unwanted(q)[i] \in Requests /\ Unwanted(q)[i].op = q[i].op
                              /\ Unwanted(q)[i].table = q[i].table /\ ~Unwanted(q)[i].wanted
  BY <1>1, <1>3 DEF Requests
<1>5. Unwanted(q) \in [1 .. Len(q) -> Requests]
  BY <1>2, <1>4
<1> QED
  BY <1>1, <1>4, <1>5

LEMMA ForgetEffect ==
    ASSUME TypeOK, NEW c \in Connections, Forget(c)
    PROVE  /\ queue' \in [Connections -> Seq(Requests)]
           /\ \A d \in Connections \ {c} : queue'[d] = queue[d]
           /\ Len(queue'[c]) = Len(queue[c])
           /\ \A i \in 1 .. Len(queue[c]) : /\ queue'[c][i].op = queue[c][i].op
                                            /\ queue'[c][i].table = queue[c][i].table
                                            /\ ~queue'[c][i].wanted
BY UnwantedKeeps DEF TypeOK, Forget

(* What is sent comes last. *)
LEMMA SendEffect ==
    ASSUME TypeOK, NEW h \in Handles, NEW c \in Connections,
           NEW op \in Statements \cup {"commit", "rollback"}, NEW t \in Tables \cup {None}, Send(h, c, op, t)
    PROVE  /\ queue' \in [Connections -> Seq(Requests)]
           /\ reply' \in [Handles -> {"ok", "error", "lost", None}]
           /\ \A d \in Connections \ {c} : queue'[d] = queue[d]
           /\ \A k \in Handles \ {h} : reply'[k] = reply[k]
           /\ conn[c] = "lost" => queue'[c] = queue[c] /\ reply'[h] = "lost"
           /\ conn[c] # "lost" =>
                 /\ reply'[h] = None
                 /\ Len(queue'[c]) = Len(queue[c]) + 1
                 /\ \A i \in 1 .. Len(queue[c]) : queue'[c][i] = queue[c][i]
                 /\ queue'[c][Len(queue[c]) + 1].op = op
                 /\ queue'[c][Len(queue[c]) + 1].table = t
                 /\ queue'[c][Len(queue[c]) + 1].wanted
<1> DEFINE r == [op |-> op, table |-> t, wanted |-> TRUE]
<1>1. r \in Requests /\ r.op = op /\ r.table = t /\ r.wanted
  BY DEF Requests
<1> HIDE DEF r
<1>2. CASE conn[c] = "lost"
  BY <1>2 DEF Send, TypeOK
<1>3. CASE conn[c] # "lost"
  <2>1. queue' = [queue EXCEPT ![c] = Append(@, r)] /\ reply' = [reply EXCEPT ![h] = None]
    BY <1>3 DEF Send, r
  <2>2. queue[c] \in Seq(Requests)
    BY DEF TypeOK
  <2>3. /\ Append(queue[c], r) \in Seq(Requests) /\ Len(Append(queue[c], r)) = Len(queue[c]) + 1
        /\ \A i \in 1 .. Len(queue[c]) : Append(queue[c], r)[i] = queue[c][i]
        /\ Append(queue[c], r)[Len(queue[c]) + 1] = r
    BY <1>1, <2>2
  <2> QED
    BY <1>1, <1>3, <2>1, <2>3 DEF TypeOK
<1> QED
  BY <1>2, <1>3

(* The first request is answered, to who awaits that. *)
LEMMA AnswerEffect ==
    ASSUME TypeOK, NEW c \in Connections, NEW with \in {"ok", "error"}, queue[c] # <<>>, Awaited(c), Answer(c, with)
    PROVE  /\ queue' \in [Connections -> Seq(Requests)]
           /\ reply' \in [Handles -> {"ok", "error", "lost", None}]
           /\ \A d \in Connections \ {c} : queue'[d] = queue[d]
           /\ Len(queue[c]) > 0 /\ Len(queue'[c]) = Len(queue[c]) - 1
           /\ \A i \in 1 .. Len(queue[c]) - 1 : queue'[c][i] = queue[c][i + 1]
           /\ queue[c][1].wanted => Len(queue[c]) = 1 /\ owner[c] \in Handles /\ reply'[owner[c]] = with
           /\ \A k \in Handles : reply'[k] # reply[k] => k = owner[c] /\ queue[c][1].wanted
<1>1. queue[c] \in Seq(Requests) /\ owner[c] \in Handles \cup {None}
  BY DEF TypeOK
<1>2. Len(queue[c]) \in Nat /\ Len(queue[c]) > 0 /\ Head(queue[c]) = queue[c][1]
  BY <1>1
<1>3. Tail(queue[c]) \in Seq(Requests) /\ Len(Tail(queue[c])) = Len(queue[c]) - 1
        /\ \A i \in 1 .. Len(queue[c]) - 1 : Tail(queue[c])[i] = queue[c][i + 1]
  BY <1>1, <1>2
<1>4. queue[c][1].wanted => Len(queue[c]) = 1 /\ owner[c] \in Handles
  <2>1. 1 \in 1 .. Len(queue[c])
    BY <1>2
  <2> QED
    BY <1>1, <2>1 DEF Awaited
<1> QED
  BY <1>2, <1>3, <1>4 DEF Answer, TypeOK

-----------------------------------------------------------------------------
(* What a step leaves alone.                                               *)

SameHandle(k) ==
    /\ call'[k] = call[k] /\ goal'[k] = goal[k] /\ poisoned'[k] = poisoned[k] /\ broken'[k] = broken[k]
    /\ expired'[k] = expired[k] /\ lease'[k] = lease[k] /\ finishing'[k] = finishing[k]
    /\ finisher'[k] = finisher[k] /\ cleanup'[k] = cleanup[k] /\ reply'[k] = reply[k]
    /\ outcome'[k] = outcome[k] /\ accepted'[k] = accepted[k] /\ refused'[k] = refused[k]
    /\ durable'[k] = durable[k] /\ (k \in issued' <=> k \in issued)
SameConnection(d) ==
    /\ conn'[d] = conn[d] /\ owner'[d] = owner[d] /\ txn'[d] = txn[d]
    /\ wrote'[d] = wrote[d] /\ queue'[d] = queue[d]
    /\ \A t \in Tables : locked'[t] = d => locked[t] = d

(* A step of handle h on connection c leaves the other handles in order. *)
LEMMA OtherHandles ==
    ASSUME IInv, NEW h, NEW c,
           \A k \in Handles \ {h} : SameHandle(k) /\ (c \in Connections => ~Holds(k, c)),
           \A d \in Connections \ {c} : SameConnection(d)
    PROVE  \A k \in Handles \ {h} : Handle(k)'
<1>1. TypeOK /\ \A k \in Handles : Handle(k)
  BY DEF IInv
<1>2. ASSUME NEW k \in Handles \ {h} PROVE Handle(k)'
  <2>1. SameHandle(k) /\ Handle(k) /\ lease[k] \in Connections \cup {None} /\ finishing[k] \in Connections \cup {None}
    BY <1>1 DEF TypeOK
  <2>2. \A d \in Connections : Holds(k, d) => d # c /\ SameConnection(d)
    BY <2>1
  <2>3. \A d \in Connections : Holds(k, d)' <=> Holds(k, d)
    BY <2>1 DEF Holds, SameHandle
  <2>4. Holders(k)'
    BY <2>1, <2>2, <2>3 DEF Handle, Holders, SameHandle, SameConnection
  <2>5. Fresh(k)' /\ Told(k)'
    BY <2>1 DEF Handle, Fresh, Told, SameHandle
  <2>6. lease[k] # None => SameConnection(lease[k])
    BY <2>1, <2>2 DEF Holds
  <2>7. finishing[k] # None => SameConnection(finishing[k])
    BY <2>1, <2>2 DEF Holds
  <2>8. Working(k)'
    BY <2>1, <2>6 DEF Handle, Working, Busy, Sent, SameHandle, SameConnection
  <2>9. Clean(k)'
    BY <2>1, <2>6 DEF Handle, Clean, SameHandle, SameConnection
  <2>10. Finishing(k)'
    BY <2>1, <2>7 DEF Handle, Finishing, SameHandle, SameConnection
  <2> QED
    BY <2>4, <2>5, <2>8, <2>9, <2>10 DEF Handle
<1> QED
  BY <1>2

(* And so for the connections of others. *)
LEMMA OtherConnections ==
    ASSUME IInv, NEW h, \A k \in Handles \ {h} : SameHandle(k),
           NEW d \in Connections, SameConnection(d), owner[d] # h \/ owner[d] = None
    PROVE  Connection(d)'
<1>1. SameConnection(d) /\ Connection(d) /\ (owner[d] # h \/ owner[d] = None) /\ owner[d] \in Handles \cup {None}
  BY DEF IInv, TypeOK
<1>2. owner[d] # None => SameHandle(owner[d])
  BY <1>1
<1>3. Idle(d)'
  BY <1>1 DEF Connection, Idle, SameConnection
<1>4. Awaited(d)'
  BY <1>1, <1>2 DEF Connection, Awaited, Busy, SameConnection, SameHandle
<1>5. Committing(d)'
  BY <1>1, <1>2 DEF Connection, Committing, SameConnection, SameHandle
<1>6. Named(d)'
  BY <1>1 DEF Connection, Named, SameConnection
<1> QED
  BY <1>3, <1>4, <1>5, <1>6 DEF Connection

-----------------------------------------------------------------------------
(* Steps of a handle, by what they do to its connection.                   *)

Elsewhere(h, c) ==
    /\ \A k \in Handles \ {h} : SameHandle(k)
    /\ \A d \in Connections \ {c} : SameConnection(d)

LEMMA OnlyOwn ==
    ASSUME IInv, NEW h \in Handles, NEW c \in Connections, Holds(h, c)
    PROVE  /\ owner[c] = h /\ conn[c] \in {"leased", "lost"} /\ call[h] # "new"
           /\ \A k \in Handles \ {h} : ~Holds(k, c)
           /\ \A d \in Connections \ {c} : owner[d] # h
           /\ lease[h] = c => finishing[h] = None
           /\ finishing[h] = c => lease[h] = None
BY ConstantsAssumption DEF IInv, Handle, Holders, Owners, TypeOK, Holds

LEMMA OthersStay ==
    ASSUME IInv, NEW h \in Handles, NEW c \in Connections, Holds(h, c), Elsewhere(h, c)
    PROVE  /\ \A k \in Handles \ {h} : Handle(k)'
           /\ \A d \in Connections \ {c} : Connection(d)'
<1>1. \A k \in Handles \ {h} : Handle(k)'
  BY OnlyOwn, OtherHandles DEF Elsewhere
<1>2. ASSUME NEW d \in Connections \ {c} PROVE Connection(d)'
  BY OnlyOwn, OtherConnections DEF Elsewhere
<1> QED
  BY <1>1, <1>2

LEMMA OwnersStay ==
    ASSUME IInv, TypeOK', NEW h \in Handles, NEW c, Elsewhere(h, c), call'[h] # "new",
           c \in Connections => owner'[c] = owner[c]
    PROVE  Owners'
<1>1. TypeOK /\ Owners
  BY DEF IInv
<1>2. \A d \in Connections : owner'[d] = owner[d]
  BY DEF Elsewhere, SameConnection
<1>3. \A k \in Handles \ {h} : call'[k] = call[k]
  BY DEF Elsewhere, SameHandle
<1> QED
  BY <1>1, <1>2, <1>3 DEF Owners, TypeOK

(* What decides on a COMMIT that may be on its way. *)
SameFate(k) ==
    /\ call'[k] = call[k] /\ lease'[k] = lease[k] /\ accepted'[k] = accepted[k] /\ refused'[k] = refused[k]
    /\ durable'[k] = durable[k] /\ outcome'[k] = outcome[k] /\ (k \in issued' <=> k \in issued)

(* Steps of a handle that take nothing from the server and send nothing. *)
LEMMA HandleOnly ==
    ASSUME IInv, TypeOK', NEW h \in Handles, Elsewhere(h, None), Handle(h)', call'[h] # "new", call'[h] = "committing" => call[h] = "committing",
           reply[h] = None /\ (Busy(h) \/ finishing[h] # None) =>
               reply'[h] = None /\ lease'[h] = lease[h] /\ finishing'[h] = finishing[h] /\ (Busy(h) => Busy(h)'),
           call[h] \in {"committing", "gone"} => SameFate(h)
    PROVE  IInv'
<1>1. TypeOK /\ Owners /\ (\A k \in Handles : Handle(k)) /\ (\A d \in Connections : Connection(d))
  BY DEF IInv
<1>2. \A d \in Connections : SameConnection(d)
  BY ConstantsAssumption DEF Elsewhere
<1>3. Owners'
  BY <1>2, OwnersStay DEF SameConnection
<1>4. ASSUME NEW d \in Connections, owner[d] = h PROVE Connection(d)'
  <2>1. SameConnection(d) /\ Connection(d)
    BY <1>1, <1>2
  <2>2. Idle(d)' /\ Named(d)'
    BY <2>1 DEF Connection, Idle, Named, SameConnection
  <2>3. Awaited(d)'
    BY <2>1, <1>4, ConstantsAssumption DEF Connection, Awaited, SameConnection, Busy
  <2>4. Committing(d)'
    BY <2>1, <1>4 DEF Connection, Committing, SameConnection, SameFate
  <2> QED
    BY <2>2, <2>3, <2>4 DEF Connection
<1>5. \A k \in Handles \ {h} : Handle(k)'
  <2>1. \A k \in Handles \ {h} : SameHandle(k)
    BY DEF Elsewhere
  <2>2. \A d \in Connections \ {None} : SameConnection(d)
    BY <1>2
  <2> QED
    BY <2>1, <2>2, ConstantsAssumption, OtherHandles
<1>6. ASSUME NEW d \in Connections, owner[d] # h PROVE Connection(d)'
  BY <1>2, <1>6, OtherConnections DEF Elsewhere
<1> QED
  BY <1>3, <1>4, <1>5, <1>6 DEF IInv

(* A connection that loses its lease is closed: nobody waits for it. *)
LEMMA LeaseDropped ==
    ASSUME IInv, TypeOK', NEW h \in Handles, lease[h] # None, DropLease(h), Elsewhere(h, lease[h]),
           UNCHANGED <<owner, serverVars>>, finishing'[h] = finishing[h], finisher'[h] = finisher[h],
           call'[h] \notin {"new", "committing"}, ~Busy(h)', Clean(h)', Told(h)'
    PROVE  IInv'
<1>1. TypeOK /\ (\A k \in Handles : Handle(k)) /\ (\A d \in Connections : Connection(d))
  BY DEF IInv
<1>2. PICK c \in Connections : c = lease[h]
  BY <1>1 DEF TypeOK
<1>3. lease' = [lease EXCEPT ![h] = None] /\ conn' = [conn EXCEPT ![c] = "closing"] /\ Forget(c)
  BY <1>2 DEF DropLease, Close, Forget
<1>4. Holds(h, c) /\ finishing[h] = None /\ finisher[h] = None /\ Elsewhere(h, c)
  BY <1>1, <1>2 DEF Holds, Handle, Holders
<1>5. Handle(h)'
  BY <1>1, <1>3, <1>4, ConstantsAssumption DEF Handle, Holders, Holds, Fresh, Working, Finishing, TypeOK
<1>6. Owners'
  BY <1>4, OwnersStay
<1>7. Connection(c)'
  <2>1. /\ Connection(c) /\ owner'[c] = owner[c] /\ owner[c] = h /\ txn'[c] = txn[c] /\ wrote'[c] = wrote[c]
        /\ locked' = locked /\ conn'[c] = "closing"
    BY <1>1, <1>3, <1>4, OnlyOwn DEF TypeOK, serverVars
  <2>2. /\ Len(queue'[c]) = Len(queue[c])
        /\ \A i \in 1 .. Len(queue[c]) : /\ queue'[c][i].op = queue[c][i].op
                                         /\ queue'[c][i].table = queue[c][i].table
                                         /\ ~queue'[c][i].wanted
    BY <1>1, <1>3, ForgetEffect
  <2>3. Idle(c)' /\ Awaited(c)' /\ Named(c)'
    BY <2>1, <2>2 DEF Connection, Idle, Awaited, Named
  <2>4. Committing(c)'
    BY <1>2, <2>1, <2>2 DEF Connection, Committing
  <2> QED
    BY <2>3, <2>4 DEF Connection
<1> QED
  BY <1>4, <1>5, <1>6, <1>7, OthersStay DEF IInv

(* A call that leaves its connection leaves its handle poisoned. *)
LEMMA CallForgotten ==
    ASSUME IInv, TypeOK', NEW h \in Handles, Busy(h), Forget(lease[h]), Elsewhere(h, lease[h]),
           UNCHANGED <<owner, serverVars, conn, lease, finishing, finisher, poisoned>>,
           call'[h] = "ready", reply'[h] = None, Told(h)'
    PROVE  IInv'
<1>1. TypeOK /\ (\A k \in Handles : Handle(k)) /\ (\A d \in Connections : Connection(d))
  BY DEF IInv
<1>2. PICK c \in Connections : c = lease[h] /\ poisoned[h]
  BY <1>1 DEF TypeOK, Handle, Working
<1>3. Forget(c)
  BY <1>2 DEF Forget
<1>4. Holds(h, c) /\ finishing[h] = None /\ finisher[h] = None /\ Elsewhere(h, c)
  BY <1>1, <1>2, ConstantsAssumption DEF Holds, Handle, Holders
<1>5. Handle(h)'
  <2>1. \A d \in Connections : Holds(h, d)' => d = c
    BY <1>2, <1>4, ConstantsAssumption DEF Holds
  <2> QED
    BY <1>1, <1>2, <1>4, <2>1, ConstantsAssumption DEF Handle, Holders, Fresh, Working, Clean, Finishing, Busy, Holds
<1>6. Owners'
  BY <1>4, OwnersStay
<1>7. Connection(c)'
  <2>1. /\ Connection(c) /\ owner'[c] = owner[c] /\ txn'[c] = txn[c] /\ wrote'[c] = wrote[c]
        /\ locked' = locked /\ conn'[c] = conn[c]
    BY <1>1 DEF serverVars
  <2>2. /\ Len(queue'[c]) = Len(queue[c])
        /\ \A i \in 1 .. Len(queue[c]) : /\ queue'[c][i].op = queue[c][i].op
                                         /\ queue'[c][i].table = queue[c][i].table
                                         /\ ~queue'[c][i].wanted
    BY <1>1, <1>3, ForgetEffect
  <2>3. Idle(c)' /\ Awaited(c)' /\ Named(c)'
    BY <2>1, <2>2 DEF Connection, Idle, Awaited, Named
  <2>4. owner[c] = h
    BY <1>4, OnlyOwn
  <2>5. Committing(c)'
    <3>1. \A i \in 1 .. Len(queue[c]) : queue[c][i].op # "commit"
      BY <1>2, <2>1, <2>4 DEF Connection, Committing
    <3> QED
      BY <2>2, <3>1 DEF Committing
  <2> QED
    BY <2>3, <2>5 DEF Connection
<1> QED
  BY <1>4, <1>5, <1>6, <1>7, OthersStay DEF IInv

(* A finish that ends without acknowledgement closes its connection; a     *)
(* COMMIT that may still run there is one whose outcome is unknown.        *)
LEMMA FinishClosed ==
    ASSUME IInv, TypeOK', NEW h \in Handles, finishing[h] # None, Close(h, finishing[h]), Elsewhere(h, finishing[h]),
           UNCHANGED <<owner, serverVars, accepted, refused, issued, lease>>,
           finishing'[h] = None, finisher'[h] = None,
           call'[h] = IF finisher[h] = "call" THEN "gone" ELSE call[h],
           Clean(h)', Told(h)',
           outcome'[h] \in {outcome[h], None, "OutcomeUnknown"} \/ call[h] \notin {"committing", "gone"} \/ reply[h] = "error"
    PROVE  IInv'
<1>1. TypeOK /\ (\A k \in Handles : Handle(k)) /\ (\A d \in Connections : Connection(d))
  BY DEF IInv
<1>2. PICK c \in Connections : c = finishing[h]
  BY <1>1 DEF TypeOK
<1>3. conn' = [conn EXCEPT ![c] = "closing"] /\ Forget(c)
  BY <1>2 DEF Close, Forget
<1>4. /\ Holds(h, c) /\ Elsewhere(h, c) /\ lease[h] = None /\ finisher[h] # None
      /\ call'[h] \notin {"new", "committing"} /\ ~Busy(h)'
  <2>1. Holds(h, c) /\ Elsewhere(h, c) /\ lease[h] = None /\ finisher[h] # None
    BY <1>1, <1>2 DEF Holds, Handle, Holders
  <2>2. call[h] # "new" /\ (call[h] = "committing" => finisher[h] = "call") /\ ~Busy(h)
    BY <1>1, <2>1, OnlyOwn DEF Handle, Finishing, Working
  <2> QED
    BY <2>1, <2>2 DEF Busy
<1>5. Handle(h)'
  BY <1>1, <1>4, ConstantsAssumption DEF Handle, Holders, Holds, Fresh, Working, Finishing
<1>6. Owners'
  BY <1>4, OwnersStay
<1>7. Connection(c)'
  <2>1. /\ Connection(c) /\ owner'[c] = owner[c] /\ owner[c] = h /\ txn'[c] = txn[c] /\ wrote'[c] = wrote[c]
        /\ locked' = locked /\ conn'[c] = "closing"
    BY <1>1, <1>3, <1>4, OnlyOwn DEF TypeOK, serverVars
  <2>2. /\ Len(queue'[c]) = Len(queue[c])
        /\ \A i \in 1 .. Len(queue[c]) : /\ queue'[c][i].op = queue[c][i].op
                                         /\ queue'[c][i].table = queue[c][i].table
                                         /\ ~queue'[c][i].wanted
    BY <1>1, <1>3, ForgetEffect
  <2>3. Idle(c)' /\ Awaited(c)' /\ Named(c)'
    BY <2>1, <2>2 DEF Connection, Idle, Awaited, Named
  <2>4. Committing(c)'
    <3>1. reply[h] = "error" => Len(queue[c]) = 0
      BY <1>1, <1>2, ConstantsAssumption DEF Handle, Finishing
    <3> QED
      BY <1>2, <1>4, <2>1, <2>2, <3>1, ConstantsAssumption DEF Connection, Committing, serverVars
  <2> QED
    BY <2>3, <2>4 DEF Connection
<1> QED
  BY <1>4, <1>5, <1>6, <1>7, OthersStay DEF IInv

(* A call sends its request on an idle connection of an active transaction. *)
LEMMA CallSends ==
    ASSUME IInv, TypeOK', NEW h \in Handles, NEW op \in Statements, NEW t \in Tables \cup {None},
           lease[h] # None, finishing[h] = None, call[h] \notin {"committing", "gone"},
           conn[lease[h]] = "leased" =>
              Len(queue[lease[h]]) = 0 /\ txn[lease[h]] = "active" /\ wrote[lease[h]] = accepted[h],
           Send(h, lease[h], op, t), Elsewhere(h, lease[h]),
           UNCHANGED <<conn, owner, serverVars, lease, finishing, finisher, cleanup, broken, accepted, refused, outcome, issued>>,
           Busy(h)', poisoned'[h], ~broken[h], ~refused[h], ~cleanup[h], outcome[h] = None, h \notin issued, durable[h] = {},
           op = Sent(h)', call'[h] = "applying" => t = goal'[h], op = "write" => t # None
    PROVE  IInv'
<1>1. TypeOK /\ (\A k \in Handles : Handle(k)) /\ (\A d \in Connections : Connection(d))
  BY DEF IInv
<1>2. PICK c \in Connections : c = lease[h]
  BY <1>1 DEF TypeOK
<1>3. /\ Holds(h, c) /\ finishing[h] = None /\ finisher[h] = None /\ Elsewhere(h, c)
      /\ owner[c] = h /\ conn[c] \in {"leased", "lost"}
  BY <1>1, <1>2 DEF Holds, Handle, Holders
<1>4. /\ conn[c] = "lost" => queue'[c] = queue[c] /\ reply'[h] = "lost"
      /\ conn[c] = "leased" =>
           /\ reply'[h] = None
           /\ Len(queue'[c]) = Len(queue[c]) + 1 /\ Len(queue[c]) + 1 = 1
           /\ queue'[c][Len(queue[c]) + 1].op = op
           /\ queue'[c][Len(queue[c]) + 1].table = t
           /\ queue'[c][Len(queue[c]) + 1].wanted
  BY <1>1, <1>2, SendEffect
<1>5. conn[c] = "leased" => /\ reply'[h] = None /\ Len(queue'[c]) = 1 /\ queue'[c][1].op = op
                            /\ queue'[c][1].table = t /\ queue'[c][1].wanted
  BY <1>4
<1>6. /\ conn'[c] = conn[c] /\ owner'[c] = h /\ txn'[c] = txn[c] /\ wrote'[c] = wrote[c] /\ lease'[h] = c
      /\ locked' = locked /\ durable'[h] = durable[h] /\ call'[h] \in {"binding", "scanning", "applying"}
  BY <1>2, <1>3 DEF serverVars, Busy
<1>7. Handle(h)'
  <2>1. Holders(h)'
    BY <1>1, <1>2, <1>3, <1>6, ConstantsAssumption DEF Handle, Holders, Holds
  <2>2. Fresh(h)' /\ Told(h)' /\ Clean(h)' /\ Finishing(h)'
    BY <1>3, <1>6, ConstantsAssumption DEF Fresh, Told, Clean, Finishing
  <2>3. Working(h)'
    BY <1>2, <1>5, <1>6, ConstantsAssumption DEF Working, Sent
  <2> QED
    BY <2>1, <2>2, <2>3 DEF Handle
<1>8. Owners'
  BY <1>3, <1>6, OwnersStay
<1>9. Connection(c)'
  <2>1. CASE conn[c] = "leased"
    <3>0. 1 .. Len(queue'[c]) = {1}
      <4>1. 1 .. 1 = {1}
        OBVIOUS
      <4>2. Len(queue'[c]) = 1
        BY <1>5, <2>1
      <4> QED
        BY <4>1, <4>2
    <3>1. /\ 1 .. Len(queue'[c]) = {1} /\ op \notin {"commit", "rollback"} /\ owner'[c] # None
          /\ txn'[c] = "active" /\ conn'[c] = "leased"
      BY <1>2, <1>6, <2>1, <3>0, ConstantsAssumption DEF Statements
    <3>2. Idle(c)'
      BY <1>5, <3>1 DEF Idle
    <3>3. Awaited(c)'
      BY <1>5, <1>6, <2>1, <3>1 DEF Awaited
    <3>4. Committing(c)' /\ Named(c)'
      BY <1>5, <2>1, <3>1 DEF Committing, Named
    <3> QED
      BY <3>2, <3>3, <3>4 DEF Connection
  <2>2. CASE conn[c] = "lost"
    <3>1. Idle(c)' /\ Named(c)'
      BY <1>1, <1>4, <1>6, <2>2 DEF Connection, Idle, Named
    <3>2. Awaited(c)'
      BY <1>1, <1>4, <1>6, <2>2 DEF Connection, Awaited
    <3>3. Committing(c)'
      BY <1>1, <1>2, <1>3, <1>4, <2>2 DEF Connection, Committing
    <3> QED
      BY <3>1, <3>2, <3>3 DEF Connection
  <2> QED
    BY <1>3, <2>1, <2>2
<1> QED
  BY <1>3, <1>7, <1>8, <1>9, OthersStay DEF IInv

(* COMMIT goes out alone, after everything that was accepted. *)
LEMMA CommitSends ==
    ASSUME IInv, TypeOK', NEW h \in Handles, Commit(h)
    PROVE  IInv'
<1>1. TypeOK /\ (\A k \in Handles : Handle(k)) /\ (\A d \in Connections : Connection(d))
  BY DEF IInv
<1>2. PICK c \in Connections :
      /\ c = lease[h] /\ call[h] = "ready" /\ ~poisoned[h] /\ ~broken[h] /\ ~refused[h]
      /\ conn[c] = "leased" => Len(queue[c]) = 0 /\ txn[c] = "active" /\ wrote[c] = accepted[h]
  BY <1>1 DEF Commit, SessionChecks, TypeOK, Handle, Clean
<1>3. /\ Holds(h, c) /\ finishing[h] = None /\ owner[c] = h /\ conn[c] \in {"leased", "lost"}
      /\ durable[h] = {} /\ outcome[h] = None /\ h \notin issued
  <2>1. Holds(h, c) /\ Handle(h) /\ call[h] \notin {"committing", "gone"}
    BY <1>1, <1>2 DEF Holds
  <2>2. finishing[h] = None /\ owner[c] = h /\ conn[c] \in {"leased", "lost"}
    BY <1>2, <2>1, OnlyOwn, ConstantsAssumption
  <2>3. durable[h] = {} /\ outcome[h] = None /\ h \notin issued
    BY <2>1 DEF Handle, Told
  <2> QED
    BY <2>1, <2>2, <2>3
<1>4. PICK op \in Statements \cup {"commit", "rollback"}, t \in Tables \cup {None} :
         op = "commit" /\ Send(h, c, op, t)
  BY <1>2 DEF Commit, TakeAndSend, Send
<1>5. /\ \A d \in Connections \ {c} : queue'[d] = queue[d]
      /\ \A k \in Handles \ {h} : reply'[k] = reply[k]
      /\ conn[c] = "lost" => queue'[c] = queue[c] /\ reply'[h] = "lost"
      /\ conn[c] = "leased" =>
           /\ reply'[h] = None
           /\ Len(queue'[c]) = Len(queue[c]) + 1 /\ Len(queue[c]) + 1 = 1
           /\ queue'[c][Len(queue[c]) + 1].op = "commit"
           /\ queue'[c][Len(queue[c]) + 1].wanted
  BY <1>1, <1>2, <1>4, SendEffect
<1>6. conn[c] = "leased" => /\ reply'[h] = None /\ Len(queue'[c]) = 1 /\ queue'[c][1].op = "commit"
                            /\ queue'[c][1].wanted
  BY <1>5
<1>7. /\ call'[h] = "committing" /\ finishing'[h] = c /\ finisher'[h] = "call" /\ lease'[h] = None
      /\ conn' = conn /\ owner' = owner /\ txn' = txn /\ wrote' = wrote /\ locked' = locked /\ durable' = durable
      /\ UNCHANGED <<poisoned, broken, cleanup, accepted, refused, outcome, issued>>
  BY <1>1, <1>2 DEF Commit, Goto, TakeAndSend, TypeOK, toldVars, serverVars
<1>8. Elsewhere(h, c)
  BY <1>1, <1>5 DEF Elsewhere, SameHandle, SameConnection, Commit, Goto, TakeAndSend, TypeOK, toldVars, serverVars
<1>9. Handle(h)'
  <2>1. \A d \in Connections : Holds(h, d)' => d = c
    BY <1>7, ConstantsAssumption DEF Holds
  <2>2. Holders(h)'
    BY <1>3, <1>7, <2>1, ConstantsAssumption DEF Holders
  <2>3. Fresh(h)' /\ Told(h)' /\ Clean(h)' /\ Working(h)'
    BY <1>1, <1>3, <1>7, ConstantsAssumption DEF Fresh, Told, Handle, Clean, Working, Busy
  <2>4. Finishing(h)'
    BY <1>3, <1>5, <1>6, <1>7, ConstantsAssumption DEF Finishing
  <2> QED
    BY <2>2, <2>3, <2>4 DEF Handle
<1>10. Owners'
  BY <1>7, <1>8, OwnersStay
<1>11. Connection(c)'
  <2>1. CASE conn[c] = "leased"
    <3>0. 1 .. Len(queue'[c]) = {1}
      <4>1. 1 .. 1 = {1}
        OBVIOUS
      <4>2. Len(queue'[c]) = 1
        BY <1>6, <2>1
      <4> QED
        BY <4>1, <4>2
    <3>1. /\ 1 .. Len(queue'[c]) = {1} /\ owner'[c] = h /\ h # None
          /\ txn'[c] = "active" /\ conn'[c] = "leased" /\ wrote'[c] = accepted'[h]
      BY <1>2, <1>3, <1>7, <2>1, <3>0, ConstantsAssumption
    <3>2. Idle(c)'
      BY <1>6, <3>1 DEF Idle
    <3>3. Awaited(c)'
      BY <1>6, <1>7, <2>1, <3>1 DEF Awaited, Statements
    <3>4. Committing(c)' /\ Named(c)'
      BY <1>2, <1>3, <1>6, <1>7, <2>1, <3>1, ConstantsAssumption DEF Committing, Named
    <3> QED
      BY <3>2, <3>3, <3>4 DEF Connection
  <2>2. CASE conn[c] = "lost"
    <3>1. Idle(c)' /\ Named(c)'
      BY <1>1, <1>5, <1>7, <2>2 DEF Connection, Idle, Named
    <3>2. Awaited(c)'
      BY <1>1, <1>5, <1>7, <2>2 DEF Connection, Awaited
    <3>3. Committing(c)'
      BY <1>1, <1>2, <1>3, <1>5, <2>2 DEF Connection, Committing
    <3> QED
      BY <3>1, <3>2, <3>3 DEF Connection
  <2> QED
    BY <1>3, <2>1, <2>2
<1> QED
  BY <1>3, <1>8, <1>9, <1>10, <1>11, OthersStay DEF IInv

(* ROLLBACK follows whatever is still on its way. *)
LEMMA RollbackSends ==
    ASSUME IInv, TypeOK', NEW h \in Handles, NEW who \in {"call", "task"}, lease[h] # None,
           TakeAndSend(h, "rollback", who), Elsewhere(h, lease[h]),
           UNCHANGED <<call, poisoned, broken, accepted, refused, outcome, issued, conn, owner, serverVars>>,
           cleanup'[h] => cleanup[h],
           IF who = "call" THEN call[h] = "rolling" ELSE cleanup[h]
    PROVE  IInv'
<1>1. TypeOK /\ (\A k \in Handles : Handle(k)) /\ (\A d \in Connections : Connection(d))
  BY DEF IInv
<1>2. PICK c \in Connections : c = lease[h]
  BY <1>1 DEF TypeOK
<1>3. /\ Holds(h, c) /\ finishing[h] = None /\ owner[c] = h /\ conn[c] \in {"leased", "lost"}
      /\ call[h] # "new" /\ call[h] # "committing" /\ ~Busy(h) /\ Elsewhere(h, c)
      /\ finisher[h] = None /\ (cleanup[h] => poisoned[h])
  BY <1>1, <1>2, OnlyOwn, ConstantsAssumption DEF Holds, Handle, Holders, Working, Finishing, Busy, Clean
<1>4. PICK op \in Statements \cup {"commit", "rollback"}, t \in Tables \cup {None} :
         op = "rollback" /\ Send(h, c, op, t)
  BY <1>2 DEF TakeAndSend, Send
<1>5. /\ conn[c] = "lost" => queue'[c] = queue[c] /\ reply'[h] = "lost"
      /\ conn[c] = "leased" =>
           /\ reply'[h] = None
           /\ Len(queue'[c]) = Len(queue[c]) + 1
           /\ \A i \in 1 .. Len(queue[c]) : queue'[c][i] = queue[c][i]
           /\ queue'[c][Len(queue[c]) + 1].op = "rollback"
           /\ queue'[c][Len(queue[c]) + 1].wanted
  BY <1>1, <1>2, <1>4, SendEffect
<1>6. /\ finishing'[h] = c /\ finisher'[h] = who /\ lease'[h] = None /\ call'[h] = call[h]
      /\ conn'[c] = conn[c] /\ owner'[c] = h /\ txn'[c] = txn[c] /\ wrote'[c] = wrote[c] /\ locked' = locked
      /\ durable'[h] = durable[h]
  BY <1>1, <1>2, <1>3 DEF TakeAndSend, TypeOK, serverVars
<1>7. Handle(h)'
  <2>1. \A d \in Connections : Holds(h, d)' => d = c
    BY <1>6, ConstantsAssumption DEF Holds
  <2>2. Holders(h)'
    BY <1>3, <1>6, <2>1, ConstantsAssumption DEF Holders
  <2>3. Fresh(h)' /\ Working(h)' /\ Clean(h)'
    BY <1>1, <1>3, <1>6, ConstantsAssumption DEF Fresh, Handle, Clean, Working, Busy
  <2>4. Told(h)'
    BY <1>1, <1>6 DEF Handle, Told
  <2>5. Finishing(h)'
    BY <1>3, <1>5, <1>6, ConstantsAssumption DEF Finishing
  <2> QED
    BY <2>2, <2>3, <2>4, <2>5 DEF Handle
<1>8. Owners'
  BY <1>3, <1>6, OwnersStay
<1>9. Connection(c)'
  <2>1. Len(queue[c]) \in Nat /\ ~\E i \in 1 .. Len(queue[c]) : queue[c][i].wanted \/ queue[c][i].op = "commit"
    BY <1>1, <1>2, <1>3, ConstantsAssumption DEF Connection, Awaited, Committing, TypeOK
  <2>2. \A i \in 1 .. Len(queue'[c]) : i \in 1 .. Len(queue[c]) \/ i = Len(queue[c]) + 1
    BY <1>3, <1>5, <2>1
  <2>3. Idle(c)' /\ Named(c)'
    BY <1>1, <1>3, <1>5, <1>6, <2>1, <2>2 DEF Connection, Idle, Named
  <2>4. Awaited(c)'
    BY <1>3, <1>5, <1>6, <2>1, <2>2, ConstantsAssumption DEF Awaited, Statements
  <2>5. Committing(c)'
    BY <1>3, <1>5, <2>1, <2>2 DEF Committing
  <2> QED
    BY <2>3, <2>4, <2>5 DEF Connection
<1> QED
  BY <1>3, <1>7, <1>8, <1>9, OthersStay DEF IInv

-----------------------------------------------------------------------------
(* The steps of callers and of the runtime.                                *)

LEMMA CloseEffect ==
    ASSUME TypeOK, NEW h \in Handles, NEW c \in Connections, Close(h, c)
    PROVE  /\ queue' \in [Connections -> Seq(Requests)]
           /\ conn' \in [Connections -> {"pooled", "leased", "lost", "closing"}]
           /\ reply' \in [Handles -> {"ok", "error", "lost", None}]
           /\ \A d \in Connections \ {c} : conn'[d] = conn[d] /\ queue'[d] = queue[d]
           /\ \A k \in Handles \ {h} : reply'[k] = reply[k]
<1>1. Forget(c)
  BY DEF Close, Forget
<1>2. queue' \in [Connections -> Seq(Requests)] /\ \A d \in Connections \ {c} : queue'[d] = queue[d]
  BY <1>1, ForgetEffect
<1> QED
  BY <1>2 DEF Close, TypeOK

LEMMA DropLeaseEffect ==
    ASSUME TypeOK, NEW h \in Handles, lease[h] # None, DropLease(h)
    PROVE  /\ queue' \in [Connections -> Seq(Requests)]
           /\ conn' \in [Connections -> {"pooled", "leased", "lost", "closing"}]
           /\ reply' \in [Handles -> {"ok", "error", "lost", None}]
           /\ lease' \in [Handles -> Connections \cup {None}]
           /\ \A d \in Connections \ {lease[h]} : conn'[d] = conn[d] /\ queue'[d] = queue[d]
           /\ \A k \in Handles \ {h} : reply'[k] = reply[k] /\ lease'[k] = lease[k]
<1>1. PICK c \in Connections : c = lease[h]
  BY DEF TypeOK
<1>2. Close(h, c)
  BY <1>1 DEF DropLease, Close, Forget
<1> QED
  BY <1>1, <1>2, CloseEffect DEF DropLease, TypeOK

LEMMA RefuseCallKeeps ==
    ASSUME IInv, NEW h \in Handles, RefuseCall(h)
    PROVE  IInv'
<1>1. TypeOK /\ Handle(h)
  BY DEF IInv
<1>2. TypeOK'
  BY <1>1, ConstantsAssumption DEF TypeOK, RefuseCall, finishVars, serverVars
<1>3. Elsewhere(h, None)
  BY <1>1 DEF TypeOK, RefuseCall, finishVars, serverVars, Elsewhere, SameHandle, SameConnection
<1>4. Handle(h)'
  BY <1>1 DEF TypeOK, RefuseCall, finishVars, serverVars, Handle, Holders, Holds, Fresh, Working, Busy, Clean, Finishing, Told
<1> QED
  BY <1>2, <1>3, <1>4, HandleOnly DEF RefuseCall, finishVars, Busy

LEMMA StartRollbackKeeps ==
    ASSUME IInv, NEW h \in Handles, StartRollback(h)
    PROVE  IInv'
<1>1. TypeOK /\ Handle(h)
  BY DEF IInv
<1>2. /\ call[h] = "ready" /\ call' = [call EXCEPT ![h] = "rolling"]
      /\ UNCHANGED <<goal, calls, sessionVars, finishVars, reply, toldVars, conn, owner, queue, serverVars, losses>>
  BY DEF StartRollback, Goto
<1>3. TypeOK'
  BY <1>1, <1>2 DEF TypeOK, sessionVars, finishVars, toldVars, serverVars, Calls
<1>4. Elsewhere(h, None)
  BY <1>1, <1>2 DEF TypeOK, sessionVars, finishVars, toldVars, serverVars, Elsewhere, SameHandle, SameConnection
<1>5. Handle(h)'
  BY <1>1, <1>2 DEF TypeOK, sessionVars, finishVars, toldVars, serverVars, Handle, Holders, Holds, Fresh, Working, Busy, Clean,
     Finishing, Told
<1> QED
  BY <1>1, <1>2, <1>3, <1>4, <1>5, HandleOnly DEF TypeOK, sessionVars, finishVars, Busy

LEMMA CallSucceedsKeeps ==
    ASSUME IInv, NEW h \in Handles, CallSucceeds(h)
    PROVE  IInv'
<1>1. TypeOK /\ Handle(h)
  BY DEF IInv
<1>2. /\ call[h] = IF goal[h] = None THEN "scanning" ELSE "applying"
      /\ reply[h] = "ok" /\ call' = [call EXCEPT ![h] = "ready"]
      /\ poisoned' = [poisoned EXCEPT ![h] = FALSE]
      /\ accepted' = IF call[h] = "applying" THEN [accepted EXCEPT ![h] = @ \cup {goal[h]}] ELSE accepted
      /\ reply' = [reply EXCEPT ![h] = None]
      /\ UNCHANGED <<goal, calls, broken, expired, lease, finishVars, outcome,
                   refused, issued, conn, owner, queue, serverVars, losses>>
  BY DEF CallSucceeds, Goto
<1>3. accepted' \in [Handles -> SUBSET Tables]
  BY <1>1, <1>2 DEF TypeOK
<1>4. TypeOK'
  BY <1>1, <1>2, <1>3 DEF TypeOK, finishVars, serverVars, Calls
<1>5. Elsewhere(h, None)
  BY <1>1, <1>2 DEF TypeOK, finishVars, serverVars, Elsewhere, SameHandle, SameConnection
<1>6. Handle(h)'
  <2>1. /\ call'[h] = "ready" /\ ~poisoned'[h] /\ reply'[h] = None
        /\ accepted'[h] = accepted[h] \cup (IF call[h] = "applying" THEN {goal[h]} ELSE {})
        /\ UNCHANGED <<broken, expired, lease, finishVars, outcome, refused, issued, conn, owner, queue, serverVars>>
    BY <1>1, <1>2 DEF TypeOK
  <2>2. Busy(h) /\ call[h] \notin {"new", "ready", "committing", "rolling", "gone"}
    BY <1>2 DEF Busy
  <2>3. Holders(h)' /\ Fresh(h)' /\ Working(h)' /\ Finishing(h)'
    BY <1>1, <2>1, <2>2, ConstantsAssumption DEF finishVars, Handle, Holders, Holds, Fresh, Working, Busy, Finishing
  <2>4. Told(h)'
    BY <1>1, <2>1, <2>2, ConstantsAssumption DEF serverVars, Handle, Told
  <2>5. Clean(h)'
    BY <1>1, <1>2, <2>1, <2>2, ConstantsAssumption DEF finishVars, serverVars, Handle, Working, Clean
  <2> QED
    BY <2>3, <2>4, <2>5 DEF Handle
<1> QED
  BY <1>1, <1>2, <1>4, <1>5, <1>6, ConstantsAssumption, HandleOnly DEF TypeOK

LEMMA ExpireKeeps ==
    ASSUME IInv, NEW h \in Handles, Expire(h)
    PROVE  IInv'
<1>1. TypeOK /\ Handle(h)
  BY DEF IInv
<1>2. TypeOK'
  BY <1>1 DEF TypeOK, Expire, finishVars, toldVars, serverVars
<1>3. Elsewhere(h, None)
  BY <1>1 DEF TypeOK, Expire, finishVars, toldVars, serverVars, Elsewhere, SameHandle, SameConnection
<1>4. Handle(h)'
  BY <1>1 DEF TypeOK, Expire, finishVars, toldVars, serverVars, Handle, Holders, Holds, Fresh, Working, Busy, Sent, Clean, Finishing, Told
<1> QED
  BY <1>2, <1>3, <1>4, HandleOnly DEF Expire, finishVars, toldVars, serverVars, Busy, SameFate

(* A session that is still held elsewhere, or has no connection, leaves nothing behind. *)
LEMMA SessionStays ==
    ASSUME NEW h \in Handles, DropSession(h), cleanup[h] \/ finishing[h] # None \/ lease[h] = None, TypeOK
    PROVE  /\ reply' = reply \/ (finishing[h] = None /\ reply' = [reply EXCEPT ![h] = None])
           /\ UNCHANGED <<lease, conn, queue>>
<1>1. CASE cleanup[h] \/ finishing[h] # None
  <2>1. reply' = reply /\ lease' = lease /\ conn' = conn /\ queue' = queue
    BY <1>1 DEF DropSession
  <2>2. UNCHANGED <<lease, conn, queue>>
    BY <2>1
  <2>3. reply' = reply
    BY <2>1
  <2> QED
    BY <2>2, <2>3
<1>2. CASE ~(cleanup[h] \/ finishing[h] # None)
  <2>1. DropLease(h) /\ lease[h] = None /\ finishing[h] = None
    BY <1>2 DEF DropSession
  <2>2. reply' = [reply EXCEPT ![h] = None] /\ UNCHANGED <<conn, queue>>
    BY <2>1 DEF DropLease
  <2>3. lease' = [lease EXCEPT ![h] = None]
    BY <2>1 DEF DropLease
  <2>4. lease' = lease
    BY <2>1, <2>3 DEF TypeOK
  <2> QED
    BY <2>1, <2>2, <2>4
<1> QED
  BY <1>1, <1>2

(* A handle or future that goes without its connection. *)
LEMMA LeaveKeeps ==
    ASSUME IInv, TypeOK', NEW h \in Handles, NEW to \in {"gone"},
           call[h] \in {"ready", "rolling"}, call' = [call EXCEPT ![h] = to], finisher[h] # "call",
           lease[h] = None \/ cleanup[h] \/ finishing[h] # None,
           reply' = reply \/ (finishing[h] = None /\ reply' = [reply EXCEPT ![h] = None]),
           outcome' = outcome \/ outcome' = [outcome EXCEPT ![h] = "Refused"],
           UNCHANGED <<goal, calls, poisoned, broken, expired, lease, finishVars, conn, queue,
                       accepted, refused, issued, owner, serverVars, losses>>
    PROVE  IInv'
<1>1. TypeOK /\ Handle(h)
  BY DEF IInv
<1>2. Elsewhere(h, None)
  BY <1>1 DEF TypeOK, finishVars, serverVars, Elsewhere, SameHandle, SameConnection
<1>3. Handle(h)'
  <2>1. /\ call'[h] = "gone" /\ outcome'[h] \in {outcome[h], "Refused"}
        /\ finishing[h] # None => reply'[h] = reply[h]
        /\ UNCHANGED <<poisoned, broken, expired, lease, finishVars, conn, queue, accepted, refused, issued, owner, serverVars>>
    BY <1>1 DEF TypeOK
  <2>2. Holders(h)' /\ Fresh(h)' /\ Working(h)' /\ Clean(h)' /\ Finishing(h)'
    BY <1>1, <2>1 DEF finishVars, serverVars, Handle, Holders, Holds, Fresh, Working, Busy, Clean, Finishing
  <2>3. Told(h)'
    BY <1>1, <2>1, ConstantsAssumption DEF serverVars, Handle, Told
  <2> QED
    BY <2>2, <2>3 DEF Handle
<1>4. ~Busy(h)
  BY DEF Busy
<1>5. call'[h] # "new" /\ (reply[h] = None => reply'[h] = None)
  BY <1>1 DEF TypeOK
<1> QED
  BY <1>2, <1>3, <1>4, <1>5, HandleOnly DEF finishVars

LEMMA RefuseCommitKeeps ==
    ASSUME IInv, NEW h \in Handles, RefuseCommit(h)
    PROVE  IInv'
<1>1. TypeOK /\ Handle(h)
  BY DEF IInv
<1>2. /\ call[h] = "ready" /\ outcome' = [outcome EXCEPT ![h] = "Refused"] /\ call' = [call EXCEPT ![h] = "gone"]
      /\ DropSession(h)
      /\ UNCHANGED <<goal, calls, poisoned, broken, expired, finishVars, accepted, refused, issued, owner, serverVars, losses>>
  BY DEF RefuseCommit, Goto
<1>3. finisher[h] # "call"
  BY <1>1, <1>2 DEF Handle, Holders
<1>4. CASE cleanup[h] \/ finishing[h] # None \/ lease[h] = None
  <2>1. /\ reply' = reply \/ (finishing[h] = None /\ reply' = [reply EXCEPT ![h] = None])
        /\ UNCHANGED <<lease, conn, queue>>
    BY <1>1, <1>2, <1>4, SessionStays
  <2>2. TypeOK'
    BY <1>1, <1>2, <2>1 DEF TypeOK, finishVars, serverVars, Calls, Outcomes
  <2> QED
    BY <1>2, <1>3, <1>4, <2>1, <2>2, LeaveKeeps
<1>5. CASE ~cleanup[h] /\ finishing[h] = None /\ lease[h] # None
  <2>1. DropLease(h)
    BY <1>2, <1>5 DEF DropSession
  <2>2. TypeOK'
    BY <1>1, <1>2, <1>5, <2>1, DropLeaseEffect DEF TypeOK, finishVars, serverVars, Calls, Outcomes
  <2>3. Elsewhere(h, lease[h])
    BY <1>1, <1>2, <1>5, <2>1, DropLeaseEffect DEF TypeOK, finishVars, serverVars, Elsewhere, SameHandle, SameConnection
  <2>4. Clean(h)' /\ Told(h)' /\ ~Busy(h)' /\ call'[h] = "gone"
    BY <1>1, <1>2, ConstantsAssumption DEF TypeOK, finishVars, serverVars, Handle, Clean, Told, Busy
  <2> QED
    BY <1>2, <1>5, <2>1, <2>2, <2>3, <2>4, LeaseDropped DEF finishVars
<1> QED
  BY <1>4, <1>5

LEMMA DropHandleKeeps ==
    ASSUME IInv, NEW h \in Handles, DropHandle(h)
    PROVE  IInv'
<1>1. TypeOK /\ Handle(h)
  BY DEF IInv
<1>2. /\ call[h] = "ready" /\ call' = [call EXCEPT ![h] = "gone"] /\ DropSession(h)
      /\ UNCHANGED <<goal, calls, poisoned, broken, expired, finishVars, toldVars, owner, serverVars, losses>>
  BY DEF DropHandle, Goto
<1>3. finisher[h] # "call"
  BY <1>1, <1>2 DEF Handle, Holders
<1>4. CASE cleanup[h] \/ finishing[h] # None \/ lease[h] = None
  <2>1. /\ reply' = reply \/ (finishing[h] = None /\ reply' = [reply EXCEPT ![h] = None])
        /\ UNCHANGED <<lease, conn, queue>>
    BY <1>1, <1>2, <1>4, SessionStays
  <2>2. TypeOK'
    BY <1>1, <1>2, <2>1 DEF TypeOK, finishVars, toldVars, serverVars, Calls
  <2> QED
    BY <1>2, <1>3, <1>4, <2>1, <2>2, LeaveKeeps DEF toldVars
<1>5. CASE ~cleanup[h] /\ finishing[h] = None /\ lease[h] # None
  <2>1. DropLease(h)
    BY <1>2, <1>5 DEF DropSession
  <2>2. TypeOK'
    BY <1>1, <1>2, <1>5, <2>1, DropLeaseEffect DEF TypeOK, finishVars, toldVars, serverVars, Calls
  <2>3. Elsewhere(h, lease[h])
    BY <1>1, <1>2, <1>5, <2>1, DropLeaseEffect DEF TypeOK, finishVars, toldVars, serverVars, Elsewhere, SameHandle, SameConnection
  <2>4. Clean(h)' /\ Told(h)' /\ ~Busy(h)' /\ call'[h] = "gone"
    BY <1>1, <1>2, ConstantsAssumption DEF TypeOK, finishVars, toldVars, serverVars, Handle, Clean, Told, Busy
  <2> QED
    BY <1>2, <1>5, <2>1, <2>2, <2>3, <2>4, LeaseDropped DEF finishVars
<1> QED
  BY <1>4, <1>5

LEMMA DropFutureKeeps ==
    ASSUME IInv, NEW h \in Handles, DropFuture(h)
    PROVE  IInv'
<1>1. TypeOK /\ Handle(h)
  BY DEF IInv
<1>2. /\ call[h] \in {"committing", "rolling", "ready", "applying"} /\ call' = [call EXCEPT ![h] = "gone"]
      /\ UNCHANGED <<goal, calls, poisoned, broken, expired, cleanup, toldVars, owner, serverVars, losses>>
  BY DEF DropFuture, Goto
<1>3. CASE finisher[h] = "call"
  <2>1. /\ Close(h, finishing[h]) /\ finishing' = [finishing EXCEPT ![h] = None]
        /\ finisher' = [finisher EXCEPT ![h] = None] /\ lease' = lease
    BY <1>3 DEF DropFuture
  <2>2. PICK c \in Connections : c = finishing[h]
    BY <1>1, <1>3, ConstantsAssumption DEF TypeOK, Handle, Holders
  <2>3. Close(h, c) /\ finishing[h] # None
    BY <2>1, <2>2, ConstantsAssumption DEF Close, Forget
  <2>4. TypeOK'
    BY <1>1, <1>2, <2>1, <2>3, CloseEffect DEF TypeOK, toldVars, serverVars, Calls
  <2>5. Elsewhere(h, finishing[h])
    BY <1>1, <1>2, <2>1, <2>2, <2>3, CloseEffect DEF TypeOK, toldVars, serverVars, Elsewhere, SameHandle, SameConnection
  <2>6. Clean(h)' /\ Told(h)'
    BY <1>1, <1>2, ConstantsAssumption DEF TypeOK, toldVars, serverVars, Handle, Clean, Told
  <2>7. call'[h] = "gone" /\ finishing'[h] = None /\ finisher'[h] = None /\ outcome'[h] = None
    BY <1>1, <1>2, <2>1 DEF TypeOK, toldVars, Handle, Told
  <2>8. UNCHANGED <<owner, serverVars, accepted, refused, issued, lease>>
    BY <1>2, <2>1 DEF toldVars
  <2> QED
    BY <1>3, <2>1, <2>3, <2>4, <2>5, <2>6, <2>7, <2>8, FinishClosed
<1>4. CASE finisher[h] # "call" /\ (cleanup[h] \/ finishing[h] # None \/ lease[h] = None)
  <2>1. UNCHANGED <<finishing, finisher>> /\ DropSession(h)
    BY <1>4 DEF DropFuture
  <2>2. /\ reply' = reply \/ (finishing[h] = None /\ reply' = [reply EXCEPT ![h] = None])
        /\ UNCHANGED <<lease, conn, queue>>
    BY <1>1, <1>4, <2>1, SessionStays
  <2>3. call[h] \in {"ready", "rolling"}
    BY <1>1, <1>2, <1>4 DEF Handle, Working, Busy, Holders, Finishing
  <2>4. TypeOK'
    BY <1>1, <1>2, <2>1, <2>2 DEF TypeOK, toldVars, serverVars, Calls
  <2> QED
    BY <1>2, <1>4, <2>1, <2>2, <2>3, <2>4, LeaveKeeps DEF toldVars, finishVars
<1>5. CASE finisher[h] # "call" /\ ~cleanup[h] /\ finishing[h] = None /\ lease[h] # None
  <2>1. UNCHANGED <<finishing, finisher>> /\ DropLease(h)
    BY <1>5 DEF DropFuture, DropSession
  <2>2. TypeOK'
    BY <1>1, <1>2, <1>5, <2>1, DropLeaseEffect DEF TypeOK, toldVars, serverVars, Calls
  <2>3. Elsewhere(h, lease[h])
    BY <1>1, <1>2, <1>5, <2>1, DropLeaseEffect DEF TypeOK, toldVars, serverVars, Elsewhere, SameHandle, SameConnection
  <2>4. Clean(h)' /\ Told(h)' /\ ~Busy(h)' /\ call'[h] = "gone"
    BY <1>1, <1>2, ConstantsAssumption DEF TypeOK, toldVars, serverVars, Handle, Clean, Told, Busy
  <2> QED
    BY <1>2, <1>5, <2>1, <2>2, <2>3, <2>4, LeaseDropped
<1> QED
  BY <1>3, <1>4, <1>5

LEMMA ExpiryTaskKeeps ==
    ASSUME IInv, NEW h \in Handles, ExpiryTask(h)
    PROVE  IInv'
<1>1. TypeOK /\ Handle(h)
  BY DEF IInv
<1>2. /\ expired[h] /\ lease[h] # None /\ Unlocked(h) /\ DropLease(h)
      /\ UNCHANGED <<call, goal, calls, poisoned, broken, expired, finishVars, toldVars, owner, serverVars, losses>>
  BY DEF ExpiryTask
<1>3. TypeOK'
  BY <1>1, <1>2, DropLeaseEffect DEF TypeOK, finishVars, toldVars, serverVars
<1>4. Elsewhere(h, lease[h])
  BY <1>1, <1>2, DropLeaseEffect DEF TypeOK, finishVars, toldVars, serverVars, Elsewhere, SameHandle, SameConnection
<1>5. Clean(h)' /\ Told(h)' /\ ~Busy(h)' /\ call'[h] \notin {"new", "committing"}
  <2>1. finishing[h] = None /\ ~Busy(h) /\ call'[h] = call[h] /\ expired'[h]
    BY <1>2 DEF Unlocked, Busy
  <2>2. call[h] \notin {"new", "committing"}
    BY <1>1, <1>2, <2>1, ConstantsAssumption DEF Handle, Holders, Fresh, Finishing
  <2>3. lease'[h] = None
    BY <1>1, <1>2 DEF DropLease, TypeOK
  <2>4. Clean(h)' /\ Told(h)'
    BY <1>1, <1>2, <2>1, <2>3 DEF finishVars, toldVars, serverVars, Handle, Clean, Told
  <2> QED
    BY <2>1, <2>2, <2>4 DEF Busy
<1> QED
  BY <1>2, <1>3, <1>4, <1>5, LeaseDropped DEF finishVars

LEMMA StatementFailsKeeps ==
    ASSUME IInv, NEW h \in Handles, StatementFails(h)
    PROVE  IInv'
<1>1. TypeOK /\ Handle(h)
  BY DEF IInv
<1>2. /\ call[h] \in {"scanning", "applying"} /\ call' = [call EXCEPT ![h] = "ready"]
      /\ broken' = [broken EXCEPT ![h] = TRUE] /\ DropLease(h) /\ refused' = [refused EXCEPT ![h] = TRUE]
      /\ UNCHANGED <<goal, calls, poisoned, expired, finishVars, outcome, accepted, issued, owner, serverVars, losses>>
  BY DEF StatementFails, Goto
<1>3. lease[h] # None
  BY <1>1, <1>2 DEF Handle, Working, Busy
<1>4. TypeOK'
  BY <1>1, <1>2, <1>3, DropLeaseEffect DEF TypeOK, finishVars, serverVars, Calls
<1>5. Elsewhere(h, lease[h])
  BY <1>1, <1>2, <1>3, DropLeaseEffect DEF TypeOK, finishVars, serverVars, Elsewhere, SameHandle, SameConnection
<1>6. Clean(h)' /\ Told(h)' /\ ~Busy(h)' /\ call'[h] = "ready"
  BY <1>1, <1>2, ConstantsAssumption DEF TypeOK, finishVars, serverVars, Handle, Clean, Told, Busy
<1> QED
  BY <1>2, <1>3, <1>4, <1>5, <1>6, LeaseDropped DEF finishVars

LEMMA ScanAbandonedKeeps ==
    ASSUME IInv, NEW h \in Handles, ScanAbandoned(h)
    PROVE  IInv'
<1>1. TypeOK /\ Handle(h)
  BY DEF IInv
<1>2. /\ call[h] = "scanning" /\ call' = [call EXCEPT ![h] = "ready"]
      /\ broken' = [broken EXCEPT ![h] = TRUE] /\ DropLease(h) /\ poisoned' = [poisoned EXCEPT ![h] = FALSE]
      /\ UNCHANGED <<goal, calls, expired, finishVars, toldVars, owner, serverVars, losses>>
  BY DEF ScanAbandoned, Goto
<1>3. lease[h] # None
  BY <1>1, <1>2 DEF Handle, Working, Busy
<1>4. TypeOK'
  BY <1>1, <1>2, <1>3, DropLeaseEffect DEF TypeOK, finishVars, toldVars, serverVars, Calls
<1>5. Elsewhere(h, lease[h])
  BY <1>1, <1>2, <1>3, DropLeaseEffect DEF TypeOK, finishVars, toldVars, serverVars, Elsewhere, SameHandle, SameConnection
<1>6. Clean(h)' /\ Told(h)' /\ ~Busy(h)' /\ call'[h] = "ready"
  BY <1>1, <1>2, ConstantsAssumption DEF TypeOK, finishVars, toldVars, serverVars, Handle, Working, Clean, Told, Busy
<1> QED
  BY <1>2, <1>3, <1>4, <1>5, <1>6, LeaseDropped DEF finishVars

LEMMA BindingFailsKeeps ==
    ASSUME IInv, NEW h \in Handles, BindingFails(h)
    PROVE  IInv'
<1>1. TypeOK /\ Handle(h)
  BY DEF IInv
<1>2. /\ call[h] \in {"binding", "scanning"} /\ call' = [call EXCEPT ![h] = "ready"]
      /\ refused' = [refused EXCEPT ![h] = TRUE] /\ reply' = [reply EXCEPT ![h] = None]
      /\ Forget(lease[h])
      /\ UNCHANGED <<goal, calls, sessionVars, finishVars, outcome, accepted, issued, conn, owner, serverVars, losses>>
  BY DEF BindingFails, Goto
<1>3. PICK c \in Connections : c = lease[h] /\ Forget(c)
  BY <1>1, <1>2 DEF Handle, Working, Busy, TypeOK, Forget
<1>4. queue' \in [Connections -> Seq(Requests)] /\ \A d \in Connections \ {c} : queue'[d] = queue[d]
  BY <1>1, <1>3, ForgetEffect
<1>5. TypeOK'
  BY <1>1, <1>2, <1>4 DEF TypeOK, sessionVars, finishVars, serverVars, Calls
<1>6. Elsewhere(h, lease[h])
  BY <1>1, <1>2, <1>3, <1>4 DEF TypeOK, sessionVars, finishVars, serverVars, Elsewhere, SameHandle, SameConnection
<1>7. Told(h)' /\ Busy(h) /\ call'[h] = "ready" /\ reply'[h] = None
  BY <1>1, <1>2, ConstantsAssumption DEF TypeOK, serverVars, Handle, Told, Busy
<1>8. UNCHANGED <<owner, serverVars, conn, lease, finishing, finisher, poisoned>>
  BY <1>2 DEF sessionVars, finishVars
<1> QED
  BY <1>2, <1>5, <1>6, <1>7, <1>8, CallForgotten

LEMMA CancelCallKeeps ==
    ASSUME IInv, NEW h \in Handles, CancelCall(h)
    PROVE  IInv'
<1>1. TypeOK /\ Handle(h)
  BY DEF IInv
<1>2. /\ call[h] \in {"binding", "scanning", "applying"} /\ call' = [call EXCEPT ![h] = "ready"]
      /\ refused' = [refused EXCEPT ![h] = TRUE] /\ cleanup' = [cleanup EXCEPT ![h] = TRUE]
      /\ UNCHANGED <<goal, calls, poisoned, expired, finishing, finisher, outcome, accepted, issued, owner, serverVars, losses>>
  BY DEF CancelCall, Goto
<1>3. lease[h] # None /\ poisoned[h] /\ Busy(h)
  BY <1>1, <1>2 DEF Handle, Working, Busy
<1>4. Told(h)' /\ ~Busy(h)' /\ call'[h] = "ready"
  BY <1>1, <1>2, ConstantsAssumption DEF TypeOK, serverVars, Handle, Told, Busy
<1>5. CASE call[h] = "scanning"
  <2>1. broken' = [broken EXCEPT ![h] = TRUE] /\ DropLease(h)
    BY <1>5 DEF CancelCall
  <2>2. TypeOK'
    BY <1>1, <1>2, <1>3, <2>1, DropLeaseEffect DEF TypeOK, serverVars, Calls
  <2>3. Elsewhere(h, lease[h])
    BY <1>1, <1>2, <1>3, <2>1, DropLeaseEffect DEF TypeOK, serverVars, Elsewhere, SameHandle, SameConnection
  <2>4. Clean(h)'
    BY <1>1, <1>2, <1>3 DEF TypeOK, Clean
  <2> QED
    BY <1>2, <1>3, <1>4, <2>1, <2>2, <2>3, <2>4, LeaseDropped
<1>6. CASE call[h] # "scanning"
  <2>1. reply' = [reply EXCEPT ![h] = None] /\ Forget(lease[h]) /\ UNCHANGED <<broken, lease, conn>>
    BY <1>6 DEF CancelCall
  <2>2. PICK c \in Connections : c = lease[h] /\ Forget(c)
    BY <1>1, <1>3, <2>1 DEF TypeOK, Forget
  <2>3. queue' \in [Connections -> Seq(Requests)] /\ \A d \in Connections \ {c} : queue'[d] = queue[d]
    BY <1>1, <2>2, ForgetEffect
  <2>4. TypeOK'
    BY <1>1, <1>2, <2>1, <2>3 DEF TypeOK, serverVars, Calls
  <2>5. Elsewhere(h, lease[h])
    BY <1>1, <1>2, <2>1, <2>2, <2>3 DEF TypeOK, serverVars, Elsewhere, SameHandle, SameConnection
  <2>6. reply'[h] = None
    BY <1>1, <2>1 DEF TypeOK
  <2>7. UNCHANGED <<owner, serverVars, conn, lease, finishing, finisher, poisoned>>
    BY <1>2, <2>1
  <2> QED
    BY <1>3, <1>4, <2>1, <2>4, <2>5, <2>6, <2>7, CallForgotten
<1> QED
  BY <1>5, <1>6

(* A finish that closes its connection; told is what a COMMIT reports. *)
LEMMA FinishCloses ==
    ASSUME IInv, NEW h \in Handles, NEW told \in {"Aborted", "OutcomeUnknown"},
           finishing[h] # None, Finished(h, told), Close(h, finishing[h]),
           told = "Aborted" => reply[h] = "error",
           UNCHANGED <<goal, calls, sessionVars, cleanup, accepted, refused, issued, owner, serverVars, losses>>
    PROVE  IInv'
<1>1. TypeOK /\ Handle(h)
  BY DEF IInv
<1>2. PICK c \in Connections : c = finishing[h]
  BY <1>1 DEF TypeOK
<1>3. Close(h, c)
  BY <1>2 DEF Close, Forget
<1>4. /\ finishing' = [finishing EXCEPT ![h] = None] /\ finisher' = [finisher EXCEPT ![h] = None]
      /\ call' = IF finisher[h] = "call" THEN [call EXCEPT ![h] = "gone"] ELSE call
      /\ outcome' = IF finisher[h] = "call"
                    THEN [outcome EXCEPT ![h] = IF call[h] = "rolling" THEN "Aborted" ELSE told] ELSE outcome
  BY DEF Finished, Goto
<1>5. outcome' \in [Handles -> Outcomes \cup {None}]
  BY <1>1, <1>4 DEF TypeOK, Outcomes
<1>6. call' \in [Handles -> Calls]
  BY <1>1, <1>4 DEF TypeOK, Calls
<1>7. TypeOK'
  BY <1>1, <1>3, <1>4, <1>5, <1>6, CloseEffect DEF TypeOK, sessionVars, serverVars
<1>8. Elsewhere(h, finishing[h])
  BY <1>1, <1>2, <1>3, <1>4, CloseEffect DEF TypeOK, sessionVars, serverVars, Elsewhere, SameHandle, SameConnection
<1>9. /\ finishing'[h] = None /\ finisher'[h] = None /\ call'[h] = IF finisher[h] = "call" THEN "gone" ELSE call[h]
      /\ outcome'[h] = IF finisher[h] = "call" THEN (IF call[h] = "rolling" THEN "Aborted" ELSE told) ELSE outcome[h]
  BY <1>1, <1>4 DEF TypeOK
<1>10. UNCHANGED <<lease, poisoned, broken, expired, cleanup, accepted, refused, issued, owner, serverVars>>
  BY DEF sessionVars
<1>11. /\ call[h] = "committing" => finisher[h] = "call" /\ (told = "Aborted" => durable[h] = {})
       /\ finisher[h] = "call" => call[h] \in {"committing", "rolling"}
       /\ lease[h] = None
  BY <1>1 DEF Handle, Finishing, Holders
<1>12. Clean(h)'
  <2>1. lease'[h] = None /\ (call'[h] = "ready" => call[h] = "ready")
    BY <1>9, <1>10, <1>11
  <2> QED
    BY <1>1, <1>10, <2>1 DEF Handle, Clean
<1>13. Told(h)'
  BY <1>1, <1>9, <1>10, <1>11, ConstantsAssumption DEF Handle, Told, serverVars
<1>14. outcome'[h] \in {outcome[h], None, "OutcomeUnknown"} \/ call[h] \notin {"committing", "gone"} \/ reply[h] = "error"
  BY <1>9, <1>11
<1> QED
  BY <1>7, <1>8, <1>9, <1>10, <1>12, <1>13, <1>14, FinishClosed

LEMMA FinishRejectedKeeps ==
    ASSUME IInv, NEW h \in Handles, FinishRejected(h)
    PROVE  IInv'
BY FinishCloses DEF FinishRejected

LEMMA FinishUnansweredKeeps ==
    ASSUME IInv, NEW h \in Handles, FinishUnanswered(h)
    PROVE  IInv'
BY FinishCloses DEF FinishUnanswered

(* Taking the lease for a ROLLBACK. *)
LEMMA TakenRollback ==
    ASSUME IInv, NEW h \in Handles, NEW who \in {"call", "task"}, lease[h] # None,
           TakeAndSend(h, "rollback", who),
           cleanup' = cleanup \/ cleanup' = [cleanup EXCEPT ![h] = FALSE],
           IF who = "call" THEN call[h] = "rolling" ELSE cleanup[h],
           UNCHANGED <<call, goal, calls, poisoned, broken, expired, toldVars, conn, owner, serverVars, losses>>
    PROVE  IInv'
<1>1. TypeOK
  BY DEF IInv
<1>2. PICK c \in Connections : c = lease[h]
  BY <1>1 DEF TypeOK
<1>3. PICK op \in Statements \cup {"commit", "rollback"}, t \in Tables \cup {None} : Send(h, c, op, t)
  BY <1>2 DEF TakeAndSend, Send
<1>4. /\ queue' \in [Connections -> Seq(Requests)] /\ reply' \in [Handles -> {"ok", "error", "lost", None}]
      /\ \A d \in Connections \ {c} : queue'[d] = queue[d]
      /\ \A k \in Handles \ {h} : reply'[k] = reply[k]
  BY <1>1, <1>3, SendEffect
<1>5. /\ finishing' = [finishing EXCEPT ![h] = lease[h]] /\ finisher' = [finisher EXCEPT ![h] = who]
      /\ lease' = [lease EXCEPT ![h] = None]
  BY DEF TakeAndSend
<1>6. TypeOK'
  BY <1>1, <1>4, <1>5 DEF TypeOK, toldVars, serverVars
<1>7. Elsewhere(h, lease[h])
  BY <1>1, <1>2, <1>4, <1>5 DEF TypeOK, toldVars, serverVars, Elsewhere, SameHandle, SameConnection
<1>8. cleanup'[h] => cleanup[h]
  BY <1>1 DEF TypeOK
<1> QED
  BY <1>6, <1>7, <1>8, RollbackSends DEF toldVars

LEMMA RollbackKeeps ==
    ASSUME IInv, NEW h \in Handles, Rollback(h)
    PROVE  IInv'
<1>1. TypeOK /\ Handle(h)
  BY DEF IInv
<1>2. /\ call[h] = "rolling" /\ finishing[h] = None
      /\ UNCHANGED <<goal, calls, poisoned, broken, expired, cleanup, accepted, refused, issued, conn, owner, serverVars, losses>>
  BY DEF Rollback
<1>3. CASE lease[h] = None
  <2>1. /\ call' = [call EXCEPT ![h] = "gone"] /\ outcome' = [outcome EXCEPT ![h] = "Aborted"]
        /\ UNCHANGED <<lease, finishing, finisher, reply, queue>>
    BY <1>3 DEF Rollback, Goto
  <2>2. TypeOK'
    BY <1>1, <1>2, <2>1 DEF TypeOK, serverVars, Calls, Outcomes
  <2>3. Elsewhere(h, None)
    BY <1>1, <1>2, <2>1 DEF TypeOK, serverVars, Elsewhere, SameHandle, SameConnection
  <2>4. call'[h] = "gone" /\ outcome'[h] = "Aborted" /\ finisher[h] = None /\ ~Busy(h)
    BY <1>1, <1>2, <2>1 DEF TypeOK, Handle, Holders, Busy
  <2>5. Handle(h)'
    BY <1>1, <1>2, <1>3, <2>1, <2>4, ConstantsAssumption
       DEF serverVars, Handle, Holders, Holds, Fresh, Working, Busy, Clean, Finishing, Told
  <2> QED
    BY <1>2, <2>1, <2>2, <2>3, <2>4, <2>5, HandleOnly
<1>4. CASE lease[h] # None
  <2>1. TakeAndSend(h, "rollback", "call") /\ UNCHANGED <<call, outcome>>
    BY <1>4 DEF Rollback
  <2> QED
    BY <1>2, <1>4, <2>1, TakenRollback DEF toldVars
<1> QED
  BY <1>3, <1>4

LEMMA CleanupKeeps ==
    ASSUME IInv, NEW h \in Handles, Cleanup(h)
    PROVE  IInv'
<1>1. TypeOK /\ Handle(h)
  BY DEF IInv
<1>2. /\ cleanup[h] /\ finishing[h] = None /\ cleanup' = [cleanup EXCEPT ![h] = FALSE]
      /\ UNCHANGED <<call, goal, calls, poisoned, broken, expired, toldVars, conn, owner, serverVars, losses>>
  BY DEF Cleanup
<1>3. CASE lease[h] = None
  <2>1. UNCHANGED <<lease, finishing, finisher, reply, queue>>
    BY <1>3 DEF Cleanup
  <2>2. TypeOK'
    BY <1>1, <1>2, <2>1 DEF TypeOK, toldVars, serverVars
  <2>3. Elsewhere(h, None)
    BY <1>1, <1>2, <2>1 DEF TypeOK, toldVars, serverVars, Elsewhere, SameHandle, SameConnection
  <2>4. Handle(h)'
    BY <1>1, <1>2, <1>3, <2>1, ConstantsAssumption
       DEF TypeOK, toldVars, serverVars, Handle, Holders, Holds, Fresh, Working, Busy, Clean, Finishing, Told
  <2>5. call'[h] # "new" /\ (Busy(h) => Busy(h)') /\ SameFate(h)
    BY <1>1, <1>2, <2>1 DEF Handle, Fresh, Busy, SameFate, toldVars, serverVars
  <2> QED
    BY <1>2, <2>1, <2>2, <2>3, <2>4, <2>5, HandleOnly
<1>4. CASE lease[h] # None
  <2>1. TakeAndSend(h, "rollback", "task")
    BY <1>4 DEF Cleanup
  <2> QED
    BY <1>2, <1>4, <2>1, TakenRollback
<1> QED
  BY <1>3, <1>4

LEMMA StartCallKeeps ==
    ASSUME IInv, NEW h \in Handles, NEW g \in Tables \cup {None}, StartCall(h, g)
    PROVE  IInv'
<1>1. TypeOK /\ Handle(h)
  BY DEF IInv
<1>2. /\ call[h] = "ready" /\ calls[h] < MaxCalls /\ (h \in Autocommits => g # None) /\ ~poisoned[h] /\ ~broken[h] /\ ~expired[h]
      /\ calls' = [calls EXCEPT ![h] = @ + 1] /\ goal' = [goal EXCEPT ![h] = g]
      /\ poisoned' = [poisoned EXCEPT ![h] = TRUE]
      /\ call' = [call EXCEPT ![h] = IF h \in Autocommits THEN "applying" ELSE "binding"]
      /\ UNCHANGED <<broken, expired, lease, finishVars, toldVars, conn, owner, serverVars, losses>>
  <2>1. call[h] = "ready" /\ calls[h] < MaxCalls /\ (h \in Autocommits => g # None) /\ ~poisoned[h] /\ SessionChecks(h)
    BY DEF StartCall
  <2>2. /\ calls' = [calls EXCEPT ![h] = @ + 1] /\ goal' = [goal EXCEPT ![h] = g]
        /\ poisoned' = [poisoned EXCEPT ![h] = TRUE]
    BY DEF StartCall
  <2>3. call' = [call EXCEPT ![h] = IF h \in Autocommits THEN "applying" ELSE "binding"]
    BY DEF StartCall, Goto
  <2>4. UNCHANGED <<broken, expired, lease, finishVars, toldVars, conn, owner, serverVars, losses>>
    BY DEF StartCall
  <2> QED
    BY <2>1, <2>2, <2>3, <2>4 DEF SessionChecks
<1>3. PICK op \in Statements : op = (IF h \in Autocommits THEN "write" ELSE "bind") /\ Send(h, lease[h], op, g)
  <2> DEFINE o == IF h \in Autocommits THEN "write" ELSE "bind"
  <2>1. o \in Statements
    BY DEF Statements
  <2>2. Send(h, lease[h], o, g)
    BY DEF StartCall
  <2> HIDE DEF o
  <2>3. o = (IF h \in Autocommits THEN "write" ELSE "bind")
    BY DEF o
  <2> QED
    BY <2>1, <2>2, <2>3
<1>4. /\ lease[h] # None /\ finishing[h] = None /\ ~refused[h] /\ ~cleanup[h]
      /\ conn[lease[h]] = "leased" =>
            Len(queue[lease[h]]) = 0 /\ txn[lease[h]] = "active" /\ wrote[lease[h]] = accepted[h]
  BY <1>1, <1>2 DEF Handle, Clean, Holders
<1>5. outcome[h] = None /\ h \notin issued /\ durable[h] = {}
  BY <1>1, <1>2 DEF Handle, Told
<1>6. PICK c \in Connections : c = lease[h] /\ Send(h, c, op, g)
  BY <1>1, <1>3, <1>4 DEF TypeOK, Send
<1>7. /\ queue' \in [Connections -> Seq(Requests)] /\ reply' \in [Handles -> {"ok", "error", "lost", None}]
      /\ \A d \in Connections \ {c} : queue'[d] = queue[d]
      /\ \A k \in Handles \ {h} : reply'[k] = reply[k]
  BY <1>1, <1>6, SendEffect
<1>8. calls' \in [Handles -> 0 .. MaxCalls] /\ call' \in [Handles -> Calls]
  BY <1>1, <1>2, ConstantsAssumption DEF TypeOK, Calls
<1>9. TypeOK'
  BY <1>1, <1>2, <1>7, <1>8 DEF TypeOK, finishVars, toldVars, serverVars
<1>10. Elsewhere(h, lease[h])
  BY <1>1, <1>2, <1>6, <1>7 DEF TypeOK, finishVars, toldVars, serverVars, Elsewhere, SameHandle, SameConnection
<1>11. /\ call'[h] = (IF h \in Autocommits THEN "applying" ELSE "binding") /\ goal'[h] = g /\ poisoned'[h]
  BY <1>1, <1>2 DEF TypeOK
<1>12. Busy(h)' /\ op = Sent(h)' /\ (op = "write" => g # None)
  <2>1. CASE h \in Autocommits
    BY <1>2, <1>3, <1>11, <2>1 DEF Busy, Sent
  <2>2. CASE h \notin Autocommits
    BY <1>2, <1>3, <1>11, <2>2 DEF Busy, Sent
  <2> QED
    BY <2>1, <2>2
<1> QED
  BY <1>2, <1>3, <1>4, <1>5, <1>9, <1>10, <1>11, <1>12, CallSends DEF finishVars, toldVars

(* A call whose last request was answered sends the next. *)
LEMMA CallGoesOn ==
    ASSUME IInv, NEW h \in Handles, NEW to \in {"scanning", "applying"}, NEW op \in Statements, NEW t \in Tables \cup {None},
           call[h] \in {"binding", "scanning"}, reply[h] = "ok", Goto(h, to), Send(h, lease[h], op, t),
           to = "scanning" => op = "scan",
           to = "applying" => op = "write" /\ t = goal[h] /\ goal[h] # None,
           UNCHANGED <<goal, calls, sessionVars, finishVars, toldVars, conn, owner, serverVars, losses>>
    PROVE  IInv'
<1>1. TypeOK /\ Handle(h)
  BY DEF IInv
<1>2. /\ lease[h] # None /\ finishing[h] = None /\ ~refused[h] /\ ~cleanup[h] /\ poisoned[h] /\ ~broken[h]
      /\ conn[lease[h]] = "leased" =>
            Len(queue[lease[h]]) = 0 /\ txn[lease[h]] = "active" /\ wrote[lease[h]] = accepted[h]
  BY <1>1, ConstantsAssumption DEF Handle, Working, Busy, Holders
<1>3. outcome[h] = None /\ h \notin issued /\ durable[h] = {}
  BY <1>1 DEF Handle, Told
<1>4. PICK c \in Connections : c = lease[h] /\ Send(h, c, op, t)
  BY <1>1, <1>2 DEF TypeOK, Send
<1>5. /\ queue' \in [Connections -> Seq(Requests)] /\ reply' \in [Handles -> {"ok", "error", "lost", None}]
      /\ \A d \in Connections \ {c} : queue'[d] = queue[d]
      /\ \A k \in Handles \ {h} : reply'[k] = reply[k]
  BY <1>1, <1>4, SendEffect
<1>6. call' = [call EXCEPT ![h] = to]
  BY DEF Goto
<1>7. TypeOK'
  BY <1>1, <1>5, <1>6 DEF TypeOK, Calls, sessionVars, finishVars, toldVars, serverVars
<1>8. Elsewhere(h, lease[h])
  BY <1>1, <1>4, <1>5, <1>6 DEF TypeOK, sessionVars, finishVars, toldVars, serverVars, Elsewhere, SameHandle, SameConnection
<1>9. call'[h] = to
  BY <1>1, <1>6 DEF TypeOK
<1>10. /\ Busy(h)' /\ op = Sent(h)' /\ (op = "write" => t # None) /\ (call'[h] = "applying" => t = goal'[h])
  BY <1>9 DEF Busy, Sent
<1> QED
  BY <1>2, <1>3, <1>7, <1>8, <1>10, CallSends DEF sessionVars, finishVars, toldVars

LEMMA ScanKeeps ==
    ASSUME IInv, NEW h \in Handles, Scan(h)
    PROVE  IInv'
<1>1. PICK op \in Statements, t \in Tables \cup {None} : op = "scan" /\ Send(h, lease[h], op, t)
  BY DEF Scan, Statements, Send
<1> QED
  BY <1>1, CallGoesOn DEF Scan

LEMMA ApplyKeeps ==
    ASSUME IInv, NEW h \in Handles, Apply(h)
    PROVE  IInv'
<1>1. goal[h] \in Tables \cup {None}
  BY DEF IInv, TypeOK
<1>2. PICK op \in Statements, t \in Tables \cup {None} : op = "write" /\ t = goal[h] /\ Send(h, lease[h], op, t)
  BY <1>1 DEF Apply, Statements, Send
<1> QED
  BY <1>2, CallGoesOn DEF Apply

LEMMA CommitKeeps ==
    ASSUME IInv, NEW h \in Handles, Commit(h)
    PROVE  IInv'
<1>1. TypeOK /\ Handle(h)
  BY DEF IInv
<1>2. PICK c \in Connections : c = lease[h]
  BY <1>1 DEF Commit, SessionChecks, Handle, Clean, TypeOK
<1>3. PICK op \in Statements \cup {"commit", "rollback"}, t \in Tables \cup {None} : Send(h, c, op, t)
  BY <1>2 DEF Commit, TakeAndSend, Send
<1>4. /\ queue' \in [Connections -> Seq(Requests)] /\ reply' \in [Handles -> {"ok", "error", "lost", None}]
  BY <1>1, <1>3, SendEffect
<1>5. TypeOK'
  BY <1>1, <1>4 DEF TypeOK, Commit, Goto, TakeAndSend, Calls, toldVars, serverVars
<1> QED
  BY <1>5, CommitSends

LEMMA OpenKeeps ==
    ASSUME IInv, NEW h \in Handles, NEW c \in Connections, Open(h, c)
    PROVE  IInv'
<1>1. TypeOK /\ Owners /\ (\A k \in Handles : Handle(k)) /\ (\A d \in Connections : Connection(d))
  BY DEF IInv
<1>2. /\ call[h] = "new" /\ conn[c] = "pooled" /\ call' = [call EXCEPT ![h] = "ready"]
      /\ conn' = [conn EXCEPT ![c] = "leased"] /\ owner' = [owner EXCEPT ![c] = h]
      /\ txn' = [txn EXCEPT ![c] = "active"] /\ lease' = [lease EXCEPT ![h] = c]
      /\ UNCHANGED <<goal, calls, poisoned, broken, expired, finishVars, reply,
                     toldVars, queue, wrote, locked, durable, losses>>
  BY DEF Open, Goto
<1>3. TypeOK'
  BY <1>1, <1>2 DEF TypeOK, finishVars, toldVars, Calls, Transactions
<1>4. Elsewhere(h, c)
  BY <1>1, <1>2 DEF TypeOK, finishVars, toldVars, Elsewhere, SameHandle, SameConnection
<1>5. ~Holds(h, c) /\ \A k \in Handles : ~Holds(k, c)
  BY <1>1, <1>2 DEF Handle, Holders
<1>6. /\ finishing[h] = None /\ finisher[h] = None /\ ~poisoned[h] /\ ~broken[h] /\ ~cleanup[h] /\ ~refused[h]
      /\ accepted[h] = {} /\ durable[h] = {} /\ outcome[h] = None /\ h \notin issued
      /\ Len(queue[c]) = 0 /\ wrote[c] = {}
  <2>1. Fresh(h) /\ Told(h) /\ Holders(h)
    BY <1>1 DEF Handle
  <2>2. outcome[h] = None /\ h \notin issued
    BY <1>2, <2>1 DEF Told
  <2>3. /\ finishing[h] = None /\ finisher[h] = None /\ ~poisoned[h] /\ ~broken[h] /\ ~cleanup[h] /\ ~refused[h]
        /\ accepted[h] = {} /\ durable[h] = {}
    BY <1>2, <2>1 DEF Fresh, Holders
  <2>4. Len(queue[c]) = 0 /\ wrote[c] = {}
    BY <1>1, <1>2 DEF Connection, Idle
  <2> QED
    BY <2>2, <2>3, <2>4
<1>7. /\ call'[h] = "ready" /\ conn'[c] = "leased" /\ owner'[c] = h /\ txn'[c] = "active" /\ lease'[h] = c
      /\ UNCHANGED <<poisoned, broken, expired, finishVars, reply, toldVars, queue, wrote, durable>>
  BY <1>1, <1>2 DEF TypeOK
<1>8. Handle(h)'
  <2>1. \A d \in Connections : Holds(h, d)' => d = c
    BY <1>6, <1>7, ConstantsAssumption DEF Holds, finishVars
  <2> QED
    BY <1>6, <1>7, <2>1, ConstantsAssumption
       DEF finishVars, toldVars, Handle, Holders, Fresh, Working, Busy, Clean, Finishing, Told
<1>9. Connection(c)'
  <2>1. 1 .. Len(queue'[c]) = {}
    <3>1. Len(queue'[c]) = 0
      BY <1>6, <1>7
    <3> QED
      BY <3>1
  <2> QED
    BY <1>7, <2>1 DEF Connection, Idle, Awaited, Committing, Named
<1>10. \A d \in Connections : owner[d] # h
  BY <1>1, <1>2, ConstantsAssumption DEF Owners
<1>11. Owners'
  BY <1>1, <1>2, <1>7, <1>10, ConstantsAssumption DEF Owners, TypeOK
<1>12. \A k \in Handles \ {h} : Handle(k)'
  BY <1>4, <1>5, OtherHandles DEF Elsewhere
<1>13. ASSUME NEW d \in Connections \ {c} PROVE Connection(d)'
  BY <1>4, <1>10, OtherConnections DEF Elsewhere
<1> QED
  BY <1>3, <1>8, <1>9, <1>11, <1>12, <1>13 DEF IInv

LEMMA OpenFailsKeeps ==
    ASSUME IInv, NEW h \in Handles, NEW c \in Connections, OpenFails(h, c)
    PROVE  IInv'
<1>1. TypeOK /\ Owners /\ (\A k \in Handles : Handle(k)) /\ (\A d \in Connections : Connection(d))
  BY DEF IInv
<1>2. /\ call[h] = "new" /\ conn[c] = "pooled" /\ call' = [call EXCEPT ![h] = "gone"]
      /\ conn' = [conn EXCEPT ![c] = "closing"] /\ owner' = [owner EXCEPT ![c] = h]
      /\ txn' = [txn EXCEPT ![c] = "active"] /\ outcome' = [outcome EXCEPT ![h] = "Refused"]
      /\ UNCHANGED <<goal, calls, sessionVars, finishVars, reply, accepted,
                     refused, issued, queue, wrote, locked, durable, losses>>
  BY DEF OpenFails, Goto
<1>3. TypeOK'
  BY <1>1, <1>2 DEF TypeOK, sessionVars, finishVars, Calls, Transactions, Outcomes
<1>4. Elsewhere(h, c)
  BY <1>1, <1>2 DEF TypeOK, sessionVars, finishVars, Elsewhere, SameHandle, SameConnection
<1>5. \A k \in Handles : ~Holds(k, c)
  BY <1>1, <1>2 DEF Handle, Holders
<1>6. /\ lease[h] = None /\ finishing[h] = None /\ finisher[h] = None /\ ~cleanup[h]
      /\ accepted[h] = {} /\ durable[h] = {} /\ h \notin issued
      /\ Len(queue[c]) = 0
  <2>1. Fresh(h) /\ Told(h) /\ Holders(h)
    BY <1>1 DEF Handle
  <2>2. h \notin issued
    BY <1>2, <2>1 DEF Told
  <2>3. /\ lease[h] = None /\ finishing[h] = None /\ finisher[h] = None /\ ~cleanup[h] /\ accepted[h] = {} /\ durable[h] = {}
    BY <1>2, <2>1 DEF Fresh, Holders
  <2>4. Len(queue[c]) = 0
    BY <1>1, <1>2 DEF Connection, Idle
  <2> QED
    BY <2>2, <2>3, <2>4
<1>7. /\ call'[h] = "gone" /\ conn'[c] = "closing" /\ txn'[c] = "active" /\ outcome'[h] = "Refused"
      /\ UNCHANGED <<sessionVars, finishVars, reply, accepted, refused, issued, queue, durable>>
  BY <1>1, <1>2 DEF TypeOK
<1>8. Handle(h)'
  BY <1>6, <1>7, ConstantsAssumption
     DEF sessionVars, finishVars, Handle, Holders, Holds, Fresh, Working, Busy, Clean, Finishing, Told
<1>9. Connection(c)'
  <2>1. 1 .. Len(queue'[c]) = {}
    <3>1. Len(queue'[c]) = 0
      BY <1>6, <1>7
    <3> QED
      BY <3>1
  <2> QED
    BY <1>7, <2>1 DEF Connection, Idle, Awaited, Committing, Named
<1>10. \A d \in Connections : owner[d] # h
  BY <1>1, <1>2, ConstantsAssumption DEF Owners
<1>11. Owners'
  BY <1>1, <1>2, <1>7, <1>10, ConstantsAssumption DEF Owners, TypeOK
<1>12. \A k \in Handles \ {h} : Handle(k)'
  BY <1>4, <1>5, OtherHandles DEF Elsewhere
<1>13. ASSUME NEW d \in Connections \ {c} PROVE Connection(d)'
  BY <1>4, <1>10, OtherConnections DEF Elsewhere
<1> QED
  BY <1>3, <1>8, <1>9, <1>11, <1>12, <1>13 DEF IInv

LEMMA FinishAcknowledgedKeeps ==
    ASSUME IInv, NEW h \in Handles, FinishAcknowledged(h)
    PROVE  IInv'
<1>1. TypeOK /\ (\A k \in Handles : Handle(k)) /\ (\A d \in Connections : Connection(d))
  BY DEF IInv
<1>2. PICK c \in Connections : c = finishing[h] /\ c # None
  BY <1>1 DEF FinishAcknowledged, TypeOK
<1>3. /\ reply[h] = "ok"
      /\ finishing' = [finishing EXCEPT ![h] = None] /\ finisher' = [finisher EXCEPT ![h] = None]
      /\ call' = IF finisher[h] = "call" THEN [call EXCEPT ![h] = "gone"] ELSE call
      /\ outcome' = IF finisher[h] = "call"
                    THEN [outcome EXCEPT ![h] = IF call[h] = "rolling" THEN "Aborted" ELSE "Committed"] ELSE outcome
      /\ conn' = [conn EXCEPT ![c] = IF @ = "lost" THEN "closing" ELSE "pooled"]
      /\ reply' = [reply EXCEPT ![h] = None]
      /\ issued' = IF call[h] = "committing" THEN issued \cup {h} ELSE issued
      /\ UNCHANGED <<goal, calls, sessionVars, cleanup, accepted, refused, owner, queue, serverVars, losses>>
  BY <1>2 DEF FinishAcknowledged, Finished, Goto
<1>4. call' \in [Handles -> Calls] /\ outcome' \in [Handles -> Outcomes \cup {None}]
  BY <1>1, <1>3 DEF TypeOK, Calls, Outcomes
<1>5. conn' \in [Connections -> {"pooled", "leased", "lost", "closing"}] /\ conn'[c] \in {"closing", "pooled"}
  BY <1>1, <1>3 DEF TypeOK
<1>6. TypeOK'
  BY <1>1, <1>3, <1>4, <1>5 DEF TypeOK, sessionVars, serverVars
<1>7. Holds(h, c) /\ owner[c] = h /\ lease[h] = None /\ Len(queue[c]) = 0 /\ txn[c] = "none" /\ wrote[c] = {} /\ finisher[h] # None
  <2>1. Holders(h) /\ Finishing(h) /\ Idle(c)
    BY <1>1 DEF Handle, Connection
  <2>2. Holds(h, c) /\ owner[c] = h /\ lease[h] = None /\ finisher[h] # None
    BY <1>2, <2>1 DEF Holds, Holders
  <2>3. Len(queue[c]) = 0 /\ txn[c] = "none"
    BY <1>2, <1>3, <2>1 DEF Finishing
  <2> QED
    BY <2>1, <2>2, <2>3 DEF Idle
<1>8. Elsewhere(h, c)
  BY <1>1, <1>3 DEF TypeOK, sessionVars, serverVars, Elsewhere, SameHandle, SameConnection
<1>9. /\ finishing'[h] = None /\ finisher'[h] = None /\ call'[h] = (IF finisher[h] = "call" THEN "gone" ELSE call[h])
      /\ outcome'[h] = IF finisher[h] = "call" THEN (IF call[h] = "rolling" THEN "Aborted" ELSE "Committed") ELSE outcome[h]
      /\ reply'[h] = None /\ (h \in issued' <=> h \in issued \/ call[h] = "committing")
      /\ UNCHANGED <<lease, poisoned, broken, expired, cleanup, accepted, refused, owner, queue, serverVars>>
  BY <1>1, <1>3 DEF TypeOK, sessionVars
<1>10. /\ call[h] = "committing" => finisher[h] = "call" /\ durable[h] = accepted[h]
       /\ finisher[h] = "call" => call[h] \in {"committing", "rolling"}
       /\ call[h] # "new" /\ ~Busy(h)
  <2>1. Handle(h)
    BY <1>1
  <2>2. finisher[h] = "call" => call[h] \in {"committing", "rolling"}
    BY <2>1 DEF Handle, Holders
  <2>3. call[h] = "committing" => finisher[h] = "call" /\ durable[h] = accepted[h]
    BY <1>3, <2>1 DEF Handle, Finishing
  <2>4. call[h] # "new" /\ ~Busy(h)
    BY <1>2, <1>7, <2>1 DEF Handle, Fresh, Working
  <2> QED
    BY <2>2, <2>3, <2>4
<1>11. Handle(h)'
  <2>1. Holders(h)'
    BY <1>7, <1>9, ConstantsAssumption DEF Holders, Holds
  <2>2. Fresh(h)' /\ Working(h)' /\ Finishing(h)'
    BY <1>9, <1>10, ConstantsAssumption DEF Fresh, Working, Busy, Finishing
  <2>3. Clean(h)'
    <3>1. lease'[h] = None /\ (call'[h] = "ready" => call[h] = "ready")
      BY <1>7, <1>9
    <3>2. Clean(h)
      BY <1>1 DEF Handle
    <3> QED
      BY <1>9, <3>1, <3>2 DEF Clean
  <2>4. Told(h)'
    <3>1. Told(h)
      BY <1>1 DEF Handle
    <3> QED
      BY <1>9, <1>10, <3>1, ConstantsAssumption DEF Told, serverVars
  <2> QED
    BY <2>1, <2>2, <2>3, <2>4 DEF Handle
<1>12. Connection(c)'
  <2>1. 1 .. Len(queue'[c]) = {}
    <3>1. Len(queue'[c]) = 0
      BY <1>7, <1>9
    <3> QED
      BY <3>1
  <2>2. Idle(c)'
    <3>1. Idle(c) /\ txn'[c] = "none" /\ wrote'[c] = wrote[c] /\ locked' = locked
      BY <1>1, <1>7, <1>9 DEF Connection, serverVars
    <3> QED
      BY <1>7, <1>9, <3>1 DEF Idle
  <2> QED
    BY <2>1, <2>2 DEF Connection, Awaited, Committing, Named
<1>13. Owners'
  BY <1>6, <1>8, <1>9, <1>10, OwnersStay
<1> QED
  BY <1>6, <1>7, <1>8, <1>11, <1>12, <1>13, OthersStay DEF IInv

-----------------------------------------------------------------------------
(* The steps of the server and of the network.                             *)

(* Who does not own the connection does not notice. *)
LEMMA ServerStep ==
    ASSUME IInv, TypeOK', NEW c \in Connections, UNCHANGED clientVars,
           \A k \in Handles \ {owner[c]} : reply'[k] = reply[k] /\ durable'[k] = durable[k],
           \A d \in Connections \ {c} : SameConnection(d),
           owner'[c] \in {owner[c], None},
           \A k \in Handles : k = owner[c] => Handle(k)', Connection(c)'
    PROVE  IInv'
<1>1. TypeOK /\ Owners /\ (\A k \in Handles : Handle(k)) /\ owner[c] \in Handles \cup {None}
  BY DEF IInv, TypeOK
<1>2. \A k \in Handles \ {owner[c]} : SameHandle(k)
  BY DEF SameHandle, clientVars, sessionVars, finishVars, toldVars
<1>3. \A k \in Handles \ {owner[c]} : ~Holds(k, c)
  BY <1>1 DEF Handle, Holders
<1>4. \A k \in Handles \ {owner[c]} : Handle(k)'
  BY <1>2, <1>3, OtherHandles
<1>5. ASSUME NEW d \in Connections \ {c} PROVE Connection(d)'
  <2>1. owner[d] # owner[c] \/ owner[d] = None
    BY <1>1 DEF Owners
  <2> QED
    BY <1>2, <2>1, OtherConnections
<1>6. Owners'
  BY <1>1 DEF Owners, SameConnection, clientVars
<1>7. \A k \in Handles : Handle(k)'
  BY <1>4
<1> QED
  BY <1>5, <1>6, <1>7 DEF IInv

LEMMA EndEffect ==
    ASSUME TypeOK, NEW c \in Connections, EndTransaction(c)
    PROVE  /\ txn' \in [Connections -> Transactions] /\ wrote' \in [Connections -> SUBSET Tables]
           /\ locked' \in [Tables -> Connections \cup {None}]
           /\ txn'[c] = "none" /\ wrote'[c] = {} /\ \A t \in Tables : locked'[t] # c
           /\ \A d \in Connections \ {c} : txn'[d] = txn[d] /\ wrote'[d] = wrote[d]
           /\ \A d \in Connections \ {c} : \A t \in Tables : locked'[t] = d => locked[t] = d
BY ConstantsAssumption DEF TypeOK, EndTransaction, Unlock, Transactions

(* A connection without requests or transaction is in order. *)
LEMMA EmptyConnection ==
    ASSUME NEW c \in Connections, Len(queue'[c]) = 0, Idle(c)'
    PROVE  Connection(c)'
<1>1. 1 .. Len(queue'[c]) = {}
  OBVIOUS
<1> QED
  BY <1>1 DEF Connection, Awaited, Committing, Named

(* A handle that is busy on c or ready there has no request on its way but its own. *)
LEMMA OnTheWay ==
    ASSUME IInv, NEW c \in Connections, queue[c] # <<>>, owner[c] # None
    PROVE  /\ owner[c] \in Handles /\ Len(queue[c]) \in Nat /\ Len(queue[c]) > 0 /\ 1 \in 1 .. Len(queue[c])
           /\ Head(queue[c]) = queue[c][1] /\ conn[c] # "pooled"
           /\ queue[c][1].wanted =>
                /\ Len(queue[c]) = 1 /\ conn[c] = "leased" /\ reply[owner[c]] = None
                /\ IF queue[c][1].op \in Statements
                   THEN Busy(owner[c]) /\ lease[owner[c]] = c
                   ELSE /\ finishing[owner[c]] = c
                        /\ queue[c][1].op = "rollback" => call[owner[c]] # "committing"
           /\ Busy(owner[c]) /\ lease[owner[c]] = c /\ conn[c] = "leased" =>
                /\ reply[owner[c]] # "ok"
                /\ reply[owner[c]] = None =>
                     /\ queue[c][1].wanted /\ txn[c] = "active" /\ wrote[c] = accepted[owner[c]]
                     /\ queue[c][1].op = Sent(owner[c]) /\ Len(queue[c]) = 1
                     /\ call[owner[c]] = "applying" => queue[c][1].table = goal[owner[c]]
           /\ lease[owner[c]] = c /\ conn[c] = "leased" =>
                ~(call[owner[c]] = "ready" /\ ~poisoned[owner[c]] /\ ~broken[owner[c]])
           /\ finishing[owner[c]] = c => reply[owner[c]] \notin {"ok", "error"}
           /\ \A d \in Connections : Holds(owner[c], d) => d = c
<1> DEFINE h == owner[c]
<1>1. TypeOK /\ Owners /\ Connection(c) /\ h \in Handles /\ Handle(h)
  BY DEF IInv, TypeOK
<1>2. Len(queue[c]) \in Nat /\ Len(queue[c]) > 0 /\ Head(queue[c]) = queue[c][1]
  <2>1. queue[c] \in Seq(Requests)
    BY <1>1 DEF TypeOK
  <2> QED
    BY <2>1
<1>3. 1 \in 1 .. Len(queue[c]) /\ Len(queue[c]) # 0
  BY <1>2
<1>4. conn[c] # "pooled"
  BY <1>1, <1>3 DEF Connection, Idle
<1>5. queue[c][1].wanted =>
         /\ Len(queue[c]) = 1 /\ conn[c] = "leased" /\ reply[h] = None
         /\ IF queue[c][1].op \in Statements THEN Busy(h) /\ lease[h] = c
            ELSE finishing[h] = c /\ (queue[c][1].op = "rollback" => call[h] # "committing")
  BY <1>1, <1>3 DEF Connection, Awaited
<1>6. Busy(h) /\ lease[h] = c /\ conn[c] = "leased" =>
        /\ reply[h] # "ok"
        /\ reply[h] = None =>
             /\ queue[c][1].wanted /\ txn[c] = "active" /\ wrote[c] = accepted[h]
             /\ queue[c][1].op = Sent(h) /\ Len(queue[c]) = 1
             /\ call[h] = "applying" => queue[c][1].table = goal[h]
  BY <1>1, <1>3 DEF Handle, Working
<1>7. lease[h] = c /\ conn[c] = "leased" => ~(call[h] = "ready" /\ ~poisoned[h] /\ ~broken[h])
  BY <1>1, <1>3, ConstantsAssumption DEF Handle, Clean
<1>8. finishing[h] = c => reply[h] \notin {"ok", "error"}
  BY <1>1, <1>3, ConstantsAssumption DEF Handle, Finishing
<1>9. \A d \in Connections : Holds(h, d) => d = c
  BY <1>1 DEF Handle, Holders, Owners
<1> QED
  BY <1>1, <1>2, <1>3, <1>4, <1>5, <1>6, <1>7, <1>8, <1>9

(* What is left of a queue when its first request is answered. *)
LEMMA RestInOrder ==
    ASSUME IInv, NEW c \in Connections, queue[c] # <<>>, queue[c][1].op # "commit",
           UNCHANGED <<clientVars, conn, owner>>,
           Len(queue'[c]) = Len(queue[c]) - 1,
           \A i \in 1 .. Len(queue[c]) - 1 : queue'[c][i] = queue[c][i + 1],
           \A k \in Handles : reply'[k] # reply[k] => Len(queue[c]) = 1,
           Idle(c)'
    PROVE  Connection(c)'
<1>1. TypeOK /\ Connection(c) /\ Len(queue[c]) \in Nat /\ Len(queue[c]) > 0
  <2>1. TypeOK /\ Connection(c) /\ queue[c] \in Seq(Requests)
    BY DEF IInv, TypeOK
  <2> QED
    BY <2>1
<1>2. ASSUME NEW i \in 1 .. Len(queue'[c])
      PROVE  i + 1 \in 1 .. Len(queue[c]) /\ queue'[c][i] = queue[c][i + 1] /\ Len(queue[c]) # 1
             /\ (i + 1 = Len(queue[c]) => i = Len(queue'[c]))
  BY <1>1
<1>3. Awaited(c)'
  <2> SUFFICES ASSUME NEW i \in 1 .. Len(queue'[c]), queue'[c][i].wanted
               PROVE  /\ i = Len(queue'[c]) /\ conn'[c] = "leased" /\ owner'[c] # None /\ reply'[owner'[c]] = None
                      /\ IF queue'[c][i].op \in Statements
                         THEN Busy(owner[c])' /\ lease'[owner'[c]] = c
                         ELSE finishing'[owner'[c]] = c /\ (queue'[c][i].op = "rollback" => call'[owner'[c]] # "committing")
    BY DEF Awaited
  <2>1. PICK j \in 1 .. Len(queue[c]) : j = i + 1 /\ queue'[c][i] = queue[c][j] /\ Len(queue[c]) # 1
                                       /\ (j = Len(queue[c]) => i = Len(queue'[c]))
    BY <1>2
  <2>2. /\ j = Len(queue[c]) /\ conn[c] = "leased" /\ owner[c] # None /\ reply[owner[c]] = None
        /\ IF queue[c][j].op \in Statements
           THEN Busy(owner[c]) /\ lease[owner[c]] = c
           ELSE finishing[owner[c]] = c /\ (queue[c][j].op = "rollback" => call[owner[c]] # "committing")
    BY <1>1, <2>1 DEF Connection, Awaited
  <2>3. owner[c] \in Handles /\ reply'[owner[c]] = reply[owner[c]]
    BY <1>1, <2>1, <2>2 DEF TypeOK
  <2> QED
    BY <2>1, <2>2, <2>3 DEF clientVars, sessionVars, finishVars, Busy
<1>4. Committing(c)'
  <2> SUFFICES ASSUME NEW i \in 1 .. Len(queue'[c]), queue'[c][i].op = "commit" PROVE FALSE
    BY DEF Committing
  <2>1. PICK j \in 1 .. Len(queue[c]) : queue'[c][i] = queue[c][j] /\ Len(queue[c]) # 1
    BY <1>2
  <2> QED
    BY <1>1, <2>1 DEF Connection, Committing
<1>5. Named(c)'
  <2> SUFFICES ASSUME NEW i \in 1 .. Len(queue'[c]), queue'[c][i].op = "write" PROVE queue'[c][i].table # None
    BY DEF Named
  <2>1. PICK j \in 1 .. Len(queue[c]) : queue'[c][i] = queue[c][j]
    BY <1>2
  <2> QED
    BY <1>1, <2>1 DEF Connection, Named
<1> QED
  BY <1>3, <1>4, <1>5 DEF Connection

LEMMA RunStatementKeeps ==
    ASSUME IInv, NEW c \in Connections, RunStatement(c)
    PROVE  IInv'
<1> DEFINE r == queue[c][1]
<1>1. TypeOK /\ Connection(c) /\ (\A k \in Handles : Handle(k)) /\ owner[c] \in Handles \cup {None}
  BY DEF IInv, TypeOK
<1>2. /\ queue[c] # <<>> /\ txn[c] = "active" /\ Answer(c, "ok")
      /\ UNCHANGED <<clientVars, conn, owner, txn, durable, losses>>
  BY DEF RunStatement
<1>3. /\ queue' \in [Connections -> Seq(Requests)]
      /\ reply' \in [Handles -> {"ok", "error", "lost", None}]
      /\ \A d \in Connections \ {c} : queue'[d] = queue[d]
      /\ Len(queue[c]) > 0 /\ Len(queue'[c]) = Len(queue[c]) - 1
      /\ \A i \in 1 .. Len(queue[c]) - 1 : queue'[c][i] = queue[c][i + 1]
      /\ r.wanted => Len(queue[c]) = 1 /\ owner[c] \in Handles /\ reply'[owner[c]] = "ok"
      /\ \A k \in Handles : reply'[k] # reply[k] => k = owner[c] /\ r.wanted
  BY <1>1, <1>2, AnswerEffect DEF Connection
<1>4. /\ Head(queue[c]) = r /\ 1 \in 1 .. Len(queue[c]) /\ r \in Requests /\ Len(queue[c]) \in Nat
  <2>1. queue[c] \in Seq(Requests) /\ Len(queue[c]) \in Nat
    BY <1>1 DEF TypeOK
  <2>2. 1 \in 1 .. Len(queue[c])
    BY <1>3, <2>1
  <2> QED
    BY <1>2, <2>1, <2>2
<1> HIDE DEF r
<1>5. /\ r.op \in Statements
      /\ IF r.op = "write"
         THEN locked' = [locked EXCEPT ![r.table] = c] /\ wrote' = [wrote EXCEPT ![c] = @ \cup {r.table}]
         ELSE locked' = locked /\ wrote' = wrote
  BY <1>4 DEF RunStatement
<1>6. r.op = "write" => r.table \in Tables
  BY <1>1, <1>4 DEF Connection, Named, Requests, r
<1>7. /\ wrote' \in [Connections -> SUBSET Tables] /\ locked' \in [Tables -> Connections \cup {None}]
      /\ wrote'[c] = wrote[c] \cup (IF r.op = "write" THEN {r.table} ELSE {})
      /\ \A d \in Connections \ {c} : wrote'[d] = wrote[d]
      /\ \A d \in Connections \ {c} : \A t \in Tables : locked'[t] = d => locked[t] = d
  <2>1. CASE r.op = "write"
    <3> DEFINE t == r.table
    <3>1. t \in Tables /\ locked' = [locked EXCEPT ![t] = c] /\ wrote' = [wrote EXCEPT ![c] = @ \cup {t}]
      BY <1>5, <1>6, <2>1
    <3> HIDE DEF t
    <3>2. /\ wrote' \in [Connections -> SUBSET Tables] /\ locked' \in [Tables -> Connections \cup {None}]
          /\ wrote'[c] = wrote[c] \cup {t} /\ (\A d \in Connections \ {c} : wrote'[d] = wrote[d])
          /\ \A d \in Connections \ {c} : \A u \in Tables : locked'[u] = d => locked[u] = d
      BY <1>1, <3>1 DEF TypeOK
    <3> QED
      BY <2>1, <3>2 DEF t
  <2>2. CASE r.op # "write"
    BY <1>1, <1>5, <2>2 DEF TypeOK
  <2> QED
    BY <2>1, <2>2
<1>8. TypeOK'
  BY <1>1, <1>2, <1>3, <1>7 DEF TypeOK, clientVars, sessionVars, finishVars, toldVars
<1>9. \A k \in Handles \ {owner[c]} : reply'[k] = reply[k] /\ durable'[k] = durable[k]
  BY <1>2, <1>3
<1>10. \A d \in Connections \ {c} : SameConnection(d)
  BY <1>2, <1>3, <1>7 DEF SameConnection
<1>11. Connection(c)'
  <2>1. Idle(c)'
    <3>1. conn[c] # "pooled"
      BY <1>1, <1>3, <1>4 DEF Connection, Idle
    <3> QED
      BY <1>2, <3>1 DEF Idle
  <2>2. r.op # "commit"
    BY <1>5 DEF Statements
  <2> QED
    BY <1>2, <1>3, <2>1, <2>2, RestInOrder DEF r
<1>12. ASSUME NEW h \in Handles, h = owner[c] PROVE Handle(h)'
  <2>1. /\ h \in Handles /\ Handle(h) /\ conn[c] # "pooled"
        /\ r.wanted =>
             /\ Len(queue[c]) = 1 /\ conn[c] = "leased" /\ reply[h] = None /\ Busy(h) /\ lease[h] = c
        /\ Busy(h) /\ lease[h] = c /\ conn[c] = "leased" =>
             /\ reply[h] # "ok"
             /\ reply[h] = None =>
                  /\ r.wanted /\ wrote[c] = accepted[h]
                  /\ r.op = Sent(h) /\ Len(queue[c]) = 1
                  /\ call[h] = "applying" => r.table = goal[h]
        /\ lease[h] = c /\ conn[c] = "leased" => ~(call[h] = "ready" /\ ~poisoned[h] /\ ~broken[h])
        /\ finishing[h] = c => reply[h] \notin {"ok", "error"}
        /\ \A d \in Connections : Holds(h, d) => d = c
    BY <1>1, <1>2, <1>5, <1>12, ConstantsAssumption, OnTheWay DEF r
  <2>2. lease[h] \in {c, None} /\ finishing[h] \in {c, None}
    BY <1>1, <2>1 DEF Holds, TypeOK
  <2>3. UNCHANGED <<call, goal, poisoned, broken, expired, lease, finishing, finisher, cleanup, outcome, accepted, refused,
                    issued, conn, owner, txn, durable>>
    BY <1>2 DEF clientVars, sessionVars, finishVars, toldVars
  <2>4. Holders(h)' /\ Fresh(h)' /\ Told(h)'
    BY <2>1, <2>3 DEF Handle, Holders, Holds, Fresh, Told
  <2>5. Clean(h)'
    BY <2>1, <2>2, <2>3, ConstantsAssumption DEF Handle, Clean
  <2>6. Finishing(h)'
    <3>1. finishing[h] = None => ~r.wanted \/ reply[h] = None
      BY <2>1
    <3>2. finishing[h] # None => ~r.wanted
      BY <2>1, ConstantsAssumption DEF Handle, Holders
    <3>3. call[h] = "committing" => finishing[h] # None
      BY <2>1, ConstantsAssumption DEF Handle, Holders, Finishing
    <3>4. finishing[h] # None => finishing[h] = c /\ reply'[h] = reply[h] /\ reply[h] \notin {"ok", "error"}
      BY <1>3, <2>1, <2>2, <3>2
    <3> QED
      BY <2>1, <2>3, <3>3, <3>4 DEF Handle, Finishing
  <2>7. Working(h)'
    <3> SUFFICES ASSUME Busy(h) PROVE Working(h)'
      BY <2>3 DEF Working, Busy
    <3>1. /\ lease[h] = c /\ poisoned[h] /\ ~broken[h] /\ ~refused[h] /\ ~cleanup[h]
          /\ call[h] = "applying" => goal[h] # None
      BY <2>1, <2>2 DEF Handle, Working
    <3>2. CASE conn[c] = "leased" /\ reply[h] = None
      <4>1. reply'[h] = "ok" /\ Len(queue'[c]) = 0 /\ wrote[c] = accepted[h] /\ r.op = Sent(h)
            /\ (call[h] = "applying" => r.table = goal[h])
        BY <1>3, <1>12, <2>1, <3>1, <3>2
      <4>2. r.op = "write" <=> call[h] = "applying"
        BY <4>1 DEF Busy, Sent
      <4>3. wrote'[c] = accepted[h] \cup (IF call[h] = "applying" THEN {goal[h]} ELSE {})
        BY <1>7, <4>1, <4>2
      <4> QED
        BY <1>2, <2>3, <3>1, <3>2, <4>1, <4>3, ConstantsAssumption DEF Working
    <3>3. CASE conn[c] = "leased" /\ reply[h] # None
      <4>1. reply'[h] = reply[h] /\ reply[h] # "ok"
        BY <1>3, <2>1, <3>1, <3>3
      <4> QED
        BY <1>2, <2>3, <3>1, <3>3, <4>1, ConstantsAssumption DEF Working
    <3>4. CASE conn[c] # "leased"
      BY <1>2, <2>3, <3>1, <3>4, ConstantsAssumption DEF Working
    <3> QED
      BY <3>2, <3>3, <3>4
  <2> QED
    BY <2>4, <2>5, <2>6, <2>7 DEF Handle
<1> QED
  BY <1>2, <1>8, <1>9, <1>10, <1>11, <1>12, ServerStep

(* An answer other than to a COMMIT that ends or fails the transaction of  *)
(* the owner: nobody is told more than that his call failed or his         *)
(* ROLLBACK was done.                                                      *)
LEMMA OwnerOfFailed ==
    ASSUME IInv, NEW c \in Connections, NEW h \in Handles, h = owner[c], queue[c] # <<>>,
           queue[c][1].op # "commit", UNCHANGED <<clientVars, conn, owner, durable>>,
           NEW with \in {"ok", "error"}, with = "ok" => queue[c][1].op = "rollback" /\ txn'[c] = "none",
           Len(queue'[c]) = Len(queue[c]) - 1,
           queue[c][1].wanted => reply'[h] = with,
           ~queue[c][1].wanted => reply'[h] = reply[h]
    PROVE  Handle(h)'
<1> DEFINE r == queue[c][1]
<1>1. /\ TypeOK /\ Handle(h) /\ conn[c] # "pooled" /\ r.op \notin {"commit"}
      /\ r.wanted =>
           /\ Len(queue[c]) = 1 /\ conn[c] = "leased" /\ reply[h] = None
           /\ IF r.op \in Statements THEN Busy(h) /\ lease[h] = c
              ELSE finishing[h] = c /\ (r.op = "rollback" => call[h] # "committing")
      /\ Busy(h) /\ lease[h] = c /\ conn[c] = "leased" =>
           reply[h] # "ok" /\ (reply[h] = None => r.wanted /\ r.op = Sent(h))
      /\ lease[h] = c /\ conn[c] = "leased" => ~(call[h] = "ready" /\ ~poisoned[h] /\ ~broken[h])
      /\ finishing[h] = c => reply[h] \notin {"ok", "error"}
      /\ \A d \in Connections : Holds(h, d) => d = c
  BY ConstantsAssumption, OnTheWay DEF IInv
<1>2. lease[h] \in {c, None} /\ finishing[h] \in {c, None}
  BY <1>1 DEF Holds, TypeOK
<1>3. r.op \in Statements \cup {"rollback"} /\ (with = "ok" => r.op = "rollback" /\ txn'[c] = "none")
  <2>1. 1 \in 1 .. Len(queue[c]) /\ queue[c] \in Seq(Requests)
    BY <1>1, ConstantsAssumption, OnTheWay DEF TypeOK
  <2>2. r \in Requests
    BY <2>1
  <2> QED
    BY <2>2 DEF Requests
<1>4. r.wanted => reply'[h] = with /\ Len(queue'[c]) = 0
  BY <1>1
<1>5. ~r.wanted => reply'[h] = reply[h]
  OBVIOUS
<1> HIDE DEF r
<1>6. UNCHANGED <<call, goal, poisoned, broken, expired, lease, finishing, finisher, cleanup, outcome, accepted, refused,
                  issued, conn, owner, durable>>
  BY DEF clientVars, sessionVars, finishVars, toldVars
<1>7. Holders(h)' /\ Fresh(h)' /\ Told(h)'
  BY <1>1, <1>6 DEF Handle, Holders, Holds, Fresh, Told
<1>8. Clean(h)'
  BY <1>1, <1>2, <1>6, ConstantsAssumption DEF Handle, Clean
<1>9. call[h] = "committing" => finishing[h] # None /\ lease[h] = None /\ ~Busy(h)
  BY <1>1, ConstantsAssumption DEF Handle, Holders, Finishing, Busy
<1>10. Finishing(h)'
  <2>1. CASE r.wanted
    <3>1. call[h] = "committing" => FALSE
      BY <1>1, <1>2, <1>3, <1>9, <2>1
    <3>2. finishing[h] # None => finishing[h] = c /\ ~Busy(h)
      BY <1>1, <1>2 DEF Handle, Holders, Working
    <3>3. finishing[h] # None => Len(queue'[finishing[h]]) = 0
      BY <1>4, <2>1, <3>2
    <3>4. finishing[h] # None /\ reply'[h] = "ok" => txn'[finishing[h]] = "none"
      BY <1>3, <1>4, <2>1, <3>2
    <3> QED
      BY <1>6, <3>1, <3>3, <3>4 DEF Finishing
  <2>2. CASE ~r.wanted
    <3>1. finishing[h] # None => reply'[h] = reply[h] /\ reply[h] \notin {"ok", "error"}
      BY <1>1, <1>2, <1>5, <2>2
    <3> QED
      BY <1>1, <1>6, <1>9, <3>1 DEF Handle, Finishing
  <2> QED
    BY <2>1, <2>2
<1>11. Working(h)'
  <2> SUFFICES ASSUME Busy(h) PROVE Working(h)'
    BY <1>6 DEF Working, Busy
  <2>1. /\ lease[h] = c /\ poisoned[h] /\ ~broken[h] /\ ~refused[h] /\ ~cleanup[h]
        /\ call[h] = "applying" => goal[h] # None
    BY <1>1, <1>2 DEF Handle, Working
  <2>2. CASE conn[c] = "leased" /\ reply[h] = None
    <3>1. r.op # "rollback" /\ reply'[h] = with
      BY <1>1, <1>4, <2>1, <2>2 DEF Sent, Busy
    <3>2. reply'[h] = "error"
      BY <1>3, <3>1
    <3> QED
      BY <1>6, <2>1, <3>2, ConstantsAssumption DEF Working
  <2>3. CASE conn[c] = "leased" /\ reply[h] # None
    <3>1. reply'[h] = reply[h] /\ reply[h] # "ok"
      BY <1>1, <1>5, <2>1, <2>3
    <3> QED
      BY <1>6, <2>1, <2>3, <3>1, ConstantsAssumption DEF Working
  <2>4. CASE conn[c] # "leased"
    BY <1>6, <2>1, <2>4, ConstantsAssumption DEF Working
  <2> QED
    BY <2>2, <2>3, <2>4
<1> QED
  BY <1>7, <1>8, <1>10, <1>11 DEF Handle

LEMMA RejectStatementKeeps ==
    ASSUME IInv, NEW c \in Connections, RejectStatement(c)
    PROVE  IInv'
<1>1. TypeOK /\ Connection(c) /\ owner[c] \in Handles \cup {None}
  BY DEF IInv, TypeOK
<1>2. /\ queue[c] # <<>> /\ Head(queue[c]).op \in Statements /\ txn[c] # "none"
      /\ txn' = [txn EXCEPT ![c] = "failed"] /\ Answer(c, "error")
      /\ UNCHANGED <<clientVars, conn, owner, wrote, locked, durable, losses>>
  BY DEF RejectStatement
<1>3. /\ queue' \in [Connections -> Seq(Requests)]
      /\ reply' \in [Handles -> {"ok", "error", "lost", None}]
      /\ \A d \in Connections \ {c} : queue'[d] = queue[d]
      /\ Len(queue[c]) > 0 /\ Len(queue'[c]) = Len(queue[c]) - 1
      /\ \A i \in 1 .. Len(queue[c]) - 1 : queue'[c][i] = queue[c][i + 1]
      /\ queue[c][1].wanted => Len(queue[c]) = 1 /\ owner[c] \in Handles /\ reply'[owner[c]] = "error"
      /\ \A k \in Handles : reply'[k] # reply[k] => k = owner[c] /\ queue[c][1].wanted
  BY <1>1, <1>2, AnswerEffect DEF Connection
<1>4. queue[c][1].op \in Statements /\ queue[c][1].op # "commit" /\ Len(queue[c]) \in Nat
  <2>1. queue[c] \in Seq(Requests)
    BY <1>1 DEF TypeOK
  <2> QED
    BY <1>2, <2>1 DEF Statements
<1>5. TypeOK'
  BY <1>1, <1>2, <1>3 DEF TypeOK, clientVars, sessionVars, finishVars, toldVars, Transactions
<1>6. \A d \in Connections \ {c} : SameConnection(d)
  BY <1>1, <1>2, <1>3 DEF TypeOK, SameConnection
<1>7. Connection(c)'
  <2>1. Idle(c)'
    <3>1. conn[c] # "pooled"
      BY <1>1, <1>3, <1>4 DEF Connection, Idle
    <3>2. txn'[c] = "failed"
      BY <1>1, <1>2 DEF TypeOK
    <3> QED
      BY <1>2, <3>1, <3>2 DEF Idle
  <2> QED
    BY <1>2, <1>3, <1>4, <2>1, RestInOrder
<1>8. ASSUME NEW h \in Handles, h = owner[c] PROVE Handle(h)'
  BY <1>2, <1>3, <1>4, <1>8, OwnerOfFailed
<1> QED
  BY <1>2, <1>3, <1>5, <1>6, <1>7, <1>8, ServerStep

LEMMA RunRollbackKeeps ==
    ASSUME IInv, NEW c \in Connections, RunRollback(c)
    PROVE  IInv'
<1>1. TypeOK /\ Connection(c) /\ owner[c] \in Handles \cup {None}
  BY DEF IInv, TypeOK
<1>2. /\ queue[c] # <<>> /\ Head(queue[c]).op = "rollback" /\ txn[c] # "none"
      /\ EndTransaction(c) /\ Answer(c, "ok")
      /\ UNCHANGED <<clientVars, conn, owner, durable, losses>>
  BY DEF RunRollback
<1>3. /\ queue' \in [Connections -> Seq(Requests)]
      /\ reply' \in [Handles -> {"ok", "error", "lost", None}]
      /\ \A d \in Connections \ {c} : queue'[d] = queue[d]
      /\ Len(queue[c]) > 0 /\ Len(queue'[c]) = Len(queue[c]) - 1
      /\ \A i \in 1 .. Len(queue[c]) - 1 : queue'[c][i] = queue[c][i + 1]
      /\ queue[c][1].wanted => Len(queue[c]) = 1 /\ owner[c] \in Handles /\ reply'[owner[c]] = "ok"
      /\ \A k \in Handles : reply'[k] # reply[k] => k = owner[c] /\ queue[c][1].wanted
  BY <1>1, <1>2, AnswerEffect DEF Connection
<1>4. queue[c][1].op = "rollback" /\ Len(queue[c]) \in Nat
  <2>1. queue[c] \in Seq(Requests)
    BY <1>1 DEF TypeOK
  <2> QED
    BY <1>2, <2>1
<1>5. TypeOK'
  BY <1>1, <1>2, <1>3, EndEffect DEF TypeOK, clientVars, sessionVars, finishVars, toldVars
<1>6. \A d \in Connections \ {c} : SameConnection(d)
  BY <1>1, <1>2, <1>3, EndEffect DEF SameConnection
<1>7. Connection(c)'
  <2>1. Idle(c)'
    <3>1. conn[c] # "pooled"
      BY <1>1, <1>3, <1>4 DEF Connection, Idle
    <3> QED
      BY <1>1, <1>2, <3>1, EndEffect DEF Idle
  <2> QED
    BY <1>2, <1>3, <1>4, <2>1, RestInOrder
<1>8. ASSUME NEW h \in Handles, h = owner[c] PROVE Handle(h)'
  <2>1. txn'[c] = "none"
    BY <1>1, <1>2, EndEffect
  <2> QED
    BY <1>2, <1>3, <1>4, <1>8, <2>1, OwnerOfFailed
<1> QED
  BY <1>2, <1>3, <1>5, <1>6, <1>7, <1>8, ServerStep

(* A COMMIT is answered; what it makes durable is what was accepted.       *)
LEMMA CommitAnswered ==
    ASSUME IInv, NEW c \in Connections, NEW with \in {"ok", "error"},
           queue[c] # <<>>, Head(queue[c]).op = "commit", EndTransaction(c), Answer(c, with),
           durable' = IF with = "ok" THEN [durable EXCEPT ![owner[c]] = wrote[c]] ELSE durable,
           UNCHANGED <<clientVars, conn, owner, losses>>
    PROVE  IInv'
<1>1. TypeOK /\ Connection(c) /\ (\A k \in Handles : Handle(k)) /\ owner[c] \in Handles \cup {None}
  BY DEF IInv, TypeOK
<1>2. /\ queue' \in [Connections -> Seq(Requests)]
      /\ reply' \in [Handles -> {"ok", "error", "lost", None}]
      /\ \A d \in Connections \ {c} : queue'[d] = queue[d]
      /\ Len(queue[c]) > 0 /\ Len(queue'[c]) = Len(queue[c]) - 1
      /\ queue[c][1].wanted => Len(queue[c]) = 1 /\ owner[c] \in Handles /\ reply'[owner[c]] = with
      /\ \A k \in Handles : reply'[k] # reply[k] => k = owner[c] /\ queue[c][1].wanted
  BY <1>1, AnswerEffect DEF Connection
<1>3. queue[c][1].op = "commit" /\ 1 \in 1 .. Len(queue[c])
  <2>1. queue[c] \in Seq(Requests)
    BY <1>1 DEF TypeOK
  <2> QED
    BY <1>2, <2>1
<1>4. PICK h \in Handles :
      /\ h = owner[c] /\ Len(queue[c]) = 1 /\ txn[c] = "active" /\ wrote[c] = accepted[h] /\ lease[h] # c
      /\ ~refused[h] /\ durable[h] = {} /\ call[h] \in {"committing", "gone"}
      /\ outcome[h] \in {None, "OutcomeUnknown"} /\ h \notin issued
  BY <1>1, <1>3 DEF Connection, Committing
<1>5. Len(queue'[c]) = 0
  BY <1>2, <1>4
<1>6. /\ durable' \in [Handles -> SUBSET Tables]
      /\ \A k \in Handles \ {h} : durable'[k] = durable[k]
      /\ durable'[h] = IF with = "ok" THEN accepted[h] ELSE {}
  <2>1. wrote[c] \in SUBSET Tables
    BY <1>1 DEF TypeOK
  <2> QED
    BY <1>1, <1>4, <2>1 DEF TypeOK
<1>7. TypeOK'
  BY <1>1, <1>2, <1>6, EndEffect DEF TypeOK, clientVars, sessionVars, finishVars, toldVars
<1>8. \A d \in Connections \ {c} : SameConnection(d)
  BY <1>1, <1>2, EndEffect DEF SameConnection
<1>9. Connection(c)'
  <2>1. conn[c] # "pooled"
    BY <1>1, <1>4 DEF Connection, Idle
  <2>2. Idle(c)'
    BY <1>1, <1>5, <2>1, EndEffect DEF Idle
  <2> QED
    BY <1>5, <2>2, EmptyConnection
<1>10. Handle(h)'
  <2>1. /\ Handle(h)
        /\ queue[c][1].wanted => finishing[h] = c /\ reply[h] = None
        /\ finishing[h] = c => reply[h] \notin {"ok", "error"}
        /\ \A d \in Connections : Holds(h, d) => d = c
    BY <1>1, <1>3, <1>4, ConstantsAssumption, OnTheWay DEF Statements
  <2>2. UNCHANGED <<call, goal, poisoned, broken, expired, lease, finishing, finisher, cleanup, outcome, accepted, refused,
                    issued, conn, owner>>
    BY DEF clientVars, sessionVars, finishVars, toldVars
  <2>3. finishing[h] \in {c, None} /\ txn'[c] = "none"
    BY <1>1, <2>1, EndEffect DEF Holds, TypeOK
  <2>4. Holders(h)'
    BY <2>1, <2>2 DEF Handle, Holders, Holds
  <2>5. Fresh(h)' /\ Working(h)' /\ Clean(h)'
    BY <1>4, <2>1, <2>2 DEF Handle, Fresh, Working, Busy, Clean
  <2>6. Told(h)'
    BY <1>4, <1>6, <2>1, <2>2, ConstantsAssumption DEF Handle, Told
  <2>7. Finishing(h)'
    <3>1. finishing[h] # None /\ reply'[h] \in {"ok", "error"} => finishing[h] = c /\ reply'[h] = with
      BY <1>2, <1>4, <2>1, <2>3
    <3>2. call[h] = "committing" => finisher[h] = "call" /\ finishing[h] # None
      BY <2>1, ConstantsAssumption DEF Handle, Holders, Finishing
    <3>3. finishing[h] # None /\ reply'[h] \in {"ok", "error"} => Len(queue'[finishing[h]]) = 0 /\ txn'[finishing[h]] = "none"
      BY <1>5, <2>3, <3>1
    <3>4. call[h] = "committing" => /\ reply'[h] = "ok" => durable'[h] = accepted[h]
                                    /\ reply'[h] = "error" => durable'[h] = {}
      BY <1>6, <3>1, <3>2
    <3> QED
      BY <2>2, <3>2, <3>3, <3>4 DEF Finishing
  <2> QED
    BY <2>4, <2>5, <2>6, <2>7 DEF Handle
<1>11. \A k \in Handles \ {owner[c]} : reply'[k] = reply[k] /\ durable'[k] = durable[k]
  BY <1>2, <1>4, <1>6
<1> QED
  BY <1>4, <1>7, <1>8, <1>9, <1>10, <1>11, ServerStep

LEMMA RunCommitKeeps ==
    ASSUME IInv, NEW c \in Connections, RunCommit(c)
    PROVE  IInv'
<1>1. queue[c] # <<>> /\ Head(queue[c]).op = "commit" /\ TypeOK /\ Connection(c)
  BY DEF RunCommit, IInv
<1>2. txn[c] = "active"
  <2>1. queue[c] \in Seq(Requests)
    BY <1>1 DEF TypeOK
  <2>2. Len(queue[c]) \in Nat /\ Len(queue[c]) > 0 /\ queue[c][1].op = "commit"
    BY <1>1, <2>1
  <2>3. 1 \in 1 .. Len(queue[c])
    BY <2>2
  <2> QED
    BY <1>1, <2>2, <2>3 DEF Connection, Committing
<1> QED
  BY <1>2, CommitAnswered DEF RunCommit

LEMMA RejectCommitKeeps ==
    ASSUME IInv, NEW c \in Connections, RejectCommit(c)
    PROVE  IInv'
BY CommitAnswered DEF RejectCommit

LEMMA LoseKeeps ==
    ASSUME IInv, NEW c \in Connections, Lose(c)
    PROVE  IInv'
<1>1. TypeOK /\ Connection(c) /\ (\A k \in Handles : Handle(k)) /\ owner[c] \in Handles \cup {None}
  BY DEF IInv, TypeOK
<1>2. /\ losses < MaxLosses /\ conn[c] = "leased" /\ losses' = losses + 1 /\ conn' = [conn EXCEPT ![c] = "lost"]
      /\ reply' = IF \E i \in DOMAIN queue[c] : queue[c][i].wanted THEN [reply EXCEPT ![owner[c]] = "lost"] ELSE reply
      /\ Forget(c) /\ UNCHANGED <<clientVars, owner, serverVars>>
  BY DEF Lose
<1>3. /\ queue' \in [Connections -> Seq(Requests)]
      /\ \A d \in Connections \ {c} : queue'[d] = queue[d]
      /\ Len(queue'[c]) = Len(queue[c])
      /\ \A i \in 1 .. Len(queue[c]) : /\ queue'[c][i].op = queue[c][i].op
                                       /\ queue'[c][i].table = queue[c][i].table
                                       /\ ~queue'[c][i].wanted
  BY <1>1, <1>2, ForgetEffect
<1>4. /\ reply' \in [Handles -> {"ok", "error", "lost", None}]
      /\ \A k \in Handles : reply'[k] \in {reply[k], "lost"}
      /\ \A k \in Handles \ {owner[c]} : reply'[k] = reply[k]
  BY <1>1, <1>2 DEF TypeOK
<1>5. TypeOK'
  <2>1. losses' \in 0 .. MaxLosses
    BY <1>1, <1>2, ConstantsAssumption DEF TypeOK
  <2> QED
    BY <1>1, <1>2, <1>3, <1>4, <2>1 DEF TypeOK, clientVars, sessionVars, finishVars, toldVars, serverVars
<1>6. \A d \in Connections \ {c} : SameConnection(d)
  BY <1>1, <1>2, <1>3 DEF TypeOK, SameConnection, serverVars
<1>7. Connection(c)'
  <2>1. conn'[c] = "lost"
    BY <1>1, <1>2 DEF TypeOK
  <2>2. Idle(c)' /\ Awaited(c)' /\ Named(c)'
    BY <1>1, <1>2, <1>3, <2>1 DEF Connection, Idle, Awaited, Named, serverVars
  <2>3. Committing(c)'
    BY <1>1, <1>2, <1>3 DEF Connection, Committing, clientVars, sessionVars, toldVars, serverVars
  <2> QED
    BY <2>2, <2>3 DEF Connection
<1>8. ASSUME NEW h \in Handles, h = owner[c] PROVE Handle(h)'
  <2>1. Handle(h) /\ \A d \in Connections : Holds(h, d) => d = c
    BY <1>1, <1>8, ConstantsAssumption DEF Handle, Holders, IInv, Owners
  <2>2. lease[h] \in {c, None} /\ finishing[h] \in {c, None} /\ conn'[c] = "lost"
    BY <1>1, <1>2, <2>1 DEF Holds, TypeOK
  <2>3. UNCHANGED <<call, goal, poisoned, broken, expired, lease, finishing, finisher, cleanup, outcome, accepted, refused,
                    issued, owner, txn, wrote, durable>>
    BY <1>2 DEF clientVars, sessionVars, finishVars, toldVars, serverVars
  <2>4. Holders(h)'
    <3>1. \A d \in Connections : Holds(h, d)' => d = c /\ owner'[d] = h /\ conn'[d] = "lost"
      BY <1>8, <2>1, <2>2, <2>3 DEF Holds
    <3> QED
      BY <2>1, <2>3, <3>1 DEF Handle, Holders
  <2>5. Fresh(h)' /\ Told(h)'
    BY <2>1, <2>3 DEF Handle, Fresh, Told
  <2>6. Working(h)' /\ Clean(h)'
    <3>1. lease[h] # None => conn'[lease[h]] # "leased"
      BY <2>2
    <3> QED
      BY <2>1, <2>3, <3>1 DEF Handle, Working, Busy, Clean
  <2>7. Finishing(h)'
    <3>1. reply'[h] \in {reply[h], "lost"} /\ (finishing[h] # None => Len(queue'[finishing[h]]) = Len(queue[finishing[h]]))
      BY <1>3, <1>4, <2>2
    <3> QED
      BY <2>1, <2>3, <3>1 DEF Handle, Finishing
  <2> QED
    BY <2>4, <2>5, <2>6, <2>7 DEF Handle
<1>9. \A k \in Handles \ {owner[c]} : reply'[k] = reply[k] /\ durable'[k] = durable[k]
  BY <1>2, <1>4 DEF serverVars
<1> QED
  BY <1>2, <1>5, <1>6, <1>7, <1>8, <1>9, ServerStep

LEMMA DisconnectKeeps ==
    ASSUME IInv, NEW c \in Connections, Disconnect(c)
    PROVE  IInv'
<1>1. TypeOK /\ Connection(c) /\ (\A k \in Handles : Handle(k)) /\ owner[c] \in Handles \cup {None}
  BY DEF IInv, TypeOK
<1>2. /\ conn[c] \in {"closing", "lost"} /\ EndTransaction(c) /\ queue' = [queue EXCEPT ![c] = <<>>]
      /\ conn' = IF conn[c] = "closing" THEN [conn EXCEPT ![c] = "pooled"] ELSE conn
      /\ owner' = IF conn[c] = "closing" THEN [owner EXCEPT ![c] = None] ELSE owner
      /\ UNCHANGED <<clientVars, reply, durable, losses>>
  BY DEF Disconnect
<1>3. TypeOK'
  <2>1. <<>> \in Seq(Requests)
    OBVIOUS
  <2>2. queue' \in [Connections -> Seq(Requests)]
    BY <1>1, <1>2, <2>1 DEF TypeOK
  <2> QED
    BY <1>1, <1>2, <2>2, EndEffect DEF TypeOK, clientVars, sessionVars, finishVars, toldVars
<1>4. \A d \in Connections \ {c} : SameConnection(d)
  BY <1>1, <1>2, EndEffect DEF SameConnection, TypeOK
<1>5. Len(queue'[c]) = 0
  BY <1>1, <1>2 DEF TypeOK
<1>6. Connection(c)'
  <2>1. Idle(c)'
    BY <1>1, <1>2, <1>5, EndEffect DEF Idle
  <2> QED
    BY <1>5, <2>1, EmptyConnection
<1>7. \A k \in Handles : SameHandle(k)
  BY <1>2 DEF SameHandle, clientVars, sessionVars, finishVars, toldVars
<1>8. ASSUME NEW h \in Handles, h = owner[c] PROVE Handle(h)'
  <2>1. CASE conn[c] = "closing"
    <3>1. ~Holds(h, c)
      BY <1>1, <2>1 DEF Handle, Holders
    <3>2. \A k \in Handles : ~Holds(k, c)
      BY <1>1, <2>1 DEF Handle, Holders
    <3> QED
      BY <1>4, <1>7, <3>2, ConstantsAssumption, OtherHandles
  <2>2. CASE conn[c] = "lost"
    <3>1. conn'[c] = "lost" /\ owner' = owner /\ conn' = conn /\ txn'[c] = "none"
      BY <1>1, <1>2, <2>2, EndEffect DEF TypeOK
    <3>2. Handle(h) /\ \A d \in Connections : Holds(h, d) => d = c
      BY <1>1, <1>8, ConstantsAssumption DEF Handle, Holders, IInv, Owners
    <3>3. lease[h] \in {c, None} /\ finishing[h] \in {c, None} /\ SameHandle(h)
      BY <1>1, <1>7, <3>2 DEF Holds, TypeOK
    <3>4. Holders(h)' /\ Fresh(h)' /\ Told(h)'
      BY <3>1, <3>2, <3>3 DEF Handle, Holders, Holds, Fresh, Told, SameHandle
    <3>5. Working(h)' /\ Clean(h)'
      <4>1. lease[h] # None => conn'[lease[h]] # "leased"
        BY <3>1, <3>3
      <4> QED
        BY <3>2, <3>3, <4>1 DEF Handle, Working, Busy, Clean, SameHandle
    <3>6. Finishing(h)'
      <4>1. finishing[h] # None => Len(queue'[finishing[h]]) = 0 /\ txn'[finishing[h]] = "none"
        BY <1>5, <3>1, <3>3
      <4> QED
        BY <3>2, <3>3, <4>1 DEF Handle, Finishing, SameHandle
    <3> QED
      BY <3>4, <3>5, <3>6 DEF Handle
  <2> QED
    BY <1>2, <2>1, <2>2
<1>9. owner'[c] \in {owner[c], None}
  BY <1>1, <1>2 DEF TypeOK
<1> QED
  BY <1>2, <1>3, <1>4, <1>6, <1>8, <1>9, ServerStep

-----------------------------------------------------------------------------
(* Every step keeps the invariant.                                         *)

LEMMA InitInv == Init => IInv
<1> SUFFICES ASSUME Init PROVE IInv
  OBVIOUS
<1>1. TypeOK
  <2>1. <<>> \in Seq(Requests)
    OBVIOUS
  <2> QED
    BY <2>1, ConstantsAssumption DEF Init, TypeOK, Calls, Outcomes, Transactions
<1>2. Owners
  BY DEF Init, Owners
<1>3. \A h \in Handles : Handle(h)
  BY ConstantsAssumption DEF Init, Handle, Holders, Holds, Fresh, Working, Busy, Clean, Finishing, Told
<1>4. ASSUME NEW c \in Connections PROVE Connection(c)
  <2>1. Len(queue[c]) = 0
    BY DEF Init
  <2>2. 1 .. Len(queue[c]) = {}
    BY <2>1
  <2>3. Idle(c)
    BY <2>1, ConstantsAssumption DEF Init, Idle
  <2> QED
    BY <2>2, <2>3 DEF Connection, Awaited, Committing, Named
<1> QED
  BY <1>1, <1>2, <1>3, <1>4 DEF IInv

LEMMA StutterKeeps ==
    ASSUME IInv, UNCHANGED vars
    PROVE  IInv'
<1>1. TypeOK'
  BY DEF IInv, TypeOK, vars, sessionVars, finishVars, toldVars, serverVars
<1>2. Owners'
  BY DEF IInv, Owners, vars
<1>3. \A k \in Handles : SameHandle(k)
  BY DEF SameHandle, vars, sessionVars, finishVars, toldVars, serverVars
<1>4. \A d \in Connections : SameConnection(d)
  BY DEF SameConnection, vars, serverVars
<1>5. \A k \in Handles : Handle(k)'
  <2>1. \A k \in Handles \ {None} : SameHandle(k) /\ (None \in Connections => ~Holds(k, None))
    BY <1>3, ConstantsAssumption
  <2>2. \A d \in Connections \ {None} : SameConnection(d)
    BY <1>4
  <2>3. \A k \in Handles \ {None} : Handle(k)'
    BY <2>1, <2>2, OtherHandles
  <2> QED
    BY <2>3, ConstantsAssumption
<1>6. ASSUME NEW d \in Connections PROVE Connection(d)'
  <2>1. owner[d] # None \/ owner[d] = None
    OBVIOUS
  <2>2. \A k \in Handles \ {None} : SameHandle(k)
    BY <1>3
  <2> QED
    BY <1>4, <2>1, <2>2, OtherConnections
<1> QED
  BY <1>1, <1>2, <1>5, <1>6 DEF IInv

LEMMA StepInv == IInv /\ [Next]_vars => IInv'
<1> SUFFICES ASSUME IInv, [Next]_vars PROVE IInv'
  OBVIOUS
<1>1. CASE UNCHANGED vars
  BY <1>1, StutterKeeps
<1>2. ASSUME NEW h \in Handles, Statement(h) PROVE IInv'
  BY <1>2, ScanKeeps, ApplyKeeps, BindingFailsKeeps, CallSucceedsKeeps, StatementFailsKeeps DEF Statement
<1>3. ASSUME NEW h \in Handles, Finish(h) PROVE IInv'
  BY <1>3, RollbackKeeps, CleanupKeeps, FinishAcknowledgedKeeps, FinishRejectedKeeps, FinishUnansweredKeeps DEF Finish
<1>4. ASSUME NEW h \in Handles, Caller(h) PROVE IInv'
  <2>1. ASSUME NEW c \in Connections, Open(h, c) \/ OpenFails(h, c) PROVE IInv'
    BY <2>1, OpenKeeps, OpenFailsKeeps
  <2>2. ASSUME NEW g \in Tables \cup {None}, StartCall(h, g) PROVE IInv'
    BY <2>2, StartCallKeeps
  <2> QED
    BY <1>4, <2>1, <2>2, RefuseCallKeeps, ScanAbandonedKeeps, CancelCallKeeps, CommitKeeps, RefuseCommitKeeps,
       StartRollbackKeeps, DropHandleKeeps, DropFutureKeeps DEF Caller
<1>5. ASSUME NEW h \in Handles, Expire(h) \/ ExpiryTask(h) PROVE IInv'
  BY <1>5, ExpireKeeps, ExpiryTaskKeeps
<1>6. ASSUME NEW c \in Connections, Server(c) PROVE IInv'
  BY <1>6, RunStatementKeeps, RejectStatementKeeps, RunCommitKeeps, RejectCommitKeeps, RunRollbackKeeps, LoseKeeps,
     DisconnectKeeps DEF Server
<1> QED
  BY <1>1, <1>2, <1>3, <1>4, <1>5, <1>6 DEF Next

LEMMA Invariant == Spec => []IInv
BY InitInv, StepInv, PTL DEF Spec

-----------------------------------------------------------------------------
(* What WriteSession promises.                                             *)

(* A request is only ever sent on a connection, and a reply only given to  *)
(* a handle, whatever is cancelled, lost or dropped in between.            *)
THEOREM TypeCorrect == Spec => []TypeOK
<1>1. IInv => TypeOK
  BY DEF IInv
<1> QED
  BY <1>1, Invariant, PTL

(* Committed and a receipt mean that the server has committed every write  *)
(* the caller was told of, for any number of handles and connections.      *)
THEOREM CommitsAreDurable == Spec => []CommittedIsDurable
<1>1. IInv => CommittedIsDurable
  BY DEF IInv, Handle, Told, CommittedIsDurable
<1> QED
  BY <1>1, Invariant, PTL

(* A transaction reported as rolled back has nothing durable, and nothing  *)
(* still in its connection will make anything durable.                     *)
THEOREM AbortsAreNotDurable == Spec => []AbortedIsNotDurable
<1>1. IInv => AbortedIsNotDurable
  BY DEF IInv, Handle, Told, AbortedIsNotDurable
<1> QED
  BY <1>1, Invariant, PTL

(* What becomes durable is what was accepted, and nothing of a transaction *)
(* in which a call failed or was dropped.                                  *)
THEOREM TransactionsAreAtomic == Spec => []AllOrNothing
<1>1. IInv => AllOrNothing
  BY DEF IInv, Handle, Told, AllOrNothing
<1> QED
  BY <1>1, Invariant, PTL

(* Incomplete work is never recycled: a connection in the pool is idle.    *)
THEOREM PooledConnectionsAreIdle == Spec => []PooledIsIdle
<1>1. ASSUME IInv, NEW c \in Connections, conn[c] = "pooled"
      PROVE  /\ txn[c] = "none" /\ queue[c] = <<>> /\ wrote[c] = {}
             /\ \A t \in Tables : locked[t] # c
             /\ \A h \in Handles : lease[h] # c /\ finishing[h] # c
  <2>1. TypeOK /\ Idle(c) /\ \A h \in Handles : Holders(h)
    BY <1>1 DEF IInv, Handle, Connection
  <2>2. txn[c] = "none" /\ Len(queue[c]) = 0 /\ wrote[c] = {} /\ \A t \in Tables : locked[t] # c
    BY <1>1, <2>1 DEF Idle
  <2>3. queue[c] = <<>>
    <3>1. queue[c] \in Seq(Requests)
      BY <2>1 DEF TypeOK
    <3> QED
      BY <2>2, <3>1
  <2>4. \A h \in Handles : lease[h] # c /\ finishing[h] # c
    BY <1>1, <2>1 DEF Holders, Holds
  <2> QED
    BY <2>2, <2>3, <2>4
<1>2. IInv => PooledIsIdle
  BY <1>1 DEF PooledIsIdle
<1> QED
  BY <1>2, Invariant, PTL
-----------------------------------------------------------------------------
(* How steps of a session are steps of AtomicWrites.                       *)

(* A write that was answered has been made, as long as its transaction is open. *)
Applied(h) ==
    call[h] = "applying" /\ reply[h] = "ok" /\ lease[h] \in Connections /\ txn[lease[h]] # "none"
        => goal[h] \in wrote[lease[h]]
RInv == IInv /\ \A h \in Handles : Applied(h)

SameTold == UNCHANGED <<accepted, durable, outcome>>
SameWritten == \A k \in Handles : WrittenBy(k)' = WrittenBy(k)
SameHolder == \A t \in Tables : HolderOf(t)' = HolderOf(t)
SameBegun(h) == \A k \in Handles \ {h} : Begun(k)' = Begun(k)

LEMMA StutterStep ==
    ASSUME SameTold, SameWritten, SameHolder, \A k \in Handles : Begun(k)' = Begun(k)
    PROVE  UNCHANGED Writes!vars
BY DEF SameTold, SameWritten, SameHolder, Writes!vars

LEMMA BeginStep ==
    ASSUME NEW h \in Handles, Begun(h) = "idle", Begun(h)' = "open", SameBegun(h), SameWritten, SameHolder,
           UNCHANGED <<accepted, durable>>, outcome' \in {outcome, [outcome EXCEPT ![h] = "Refused"]}
    PROVE  Writes!Begin(h)
BY DEF SameBegun, SameWritten, SameHolder, Writes!Begin

LEMMA WriteStep ==
    ASSUME NEW h \in Handles, NEW t \in Tables, Begun(h) = "open", \A k \in Handles : Begun(k)' = Begun(k),
           HolderOf(t) \in {None, h}, HolderOf(t)' = h, \A u \in Tables \ {t} : HolderOf(u)' = HolderOf(u),
           WrittenBy(h)' = WrittenBy(h) \cup {t}, \A k \in Handles \ {h} : WrittenBy(k)' = WrittenBy(k), SameTold
    PROVE  Writes!Write(h, t)
BY DEF SameTold, Writes!Write

LEMMA AcceptStep ==
    ASSUME NEW h \in Handles, NEW t \in Tables, \A k \in Handles : Begun(k)' = Begun(k), SameWritten, SameHolder,
           outcome[h] = None, durable[h] = {}, Begun(h) # "idle", Begun(h) = "open" => t \in WrittenBy(h),
           accepted' = [accepted EXCEPT ![h] = @ \cup {t}], UNCHANGED <<durable, outcome>>
    PROVE  Writes!Accept(h, t)
BY DEF SameWritten, SameHolder, Writes!Accept

LEMMA EndStep ==
    ASSUME NEW h \in Handles, Begun(h) = "open", Begun(h)' = "over", SameBegun(h),
           WrittenBy(h)' = {}, \A k \in Handles \ {h} : WrittenBy(k)' = WrittenBy(k),
           \A t \in Tables : HolderOf(t)' = IF HolderOf(t) = h THEN None ELSE HolderOf(t),
           \/ UNCHANGED durable
           \/ /\ WrittenBy(h) = accepted[h] /\ outcome[h] \in {None, "OutcomeUnknown"}
              /\ durable' = [durable EXCEPT ![h] = WrittenBy(h)],
           UNCHANGED <<accepted, outcome>>
    PROVE  Writes!End(h)
BY DEF SameBegun, Writes!End

LEMMA TellStep ==
    ASSUME NEW h \in Handles, NEW told, \A k \in Handles : Begun(k)' = Begun(k), SameWritten, SameHolder,
           outcome[h] = None, Begun(h) # "idle", told = "Committed" => Begun(h) = "over" /\ durable[h] = accepted[h],
           told \in {"Aborted", "Refused"} => durable[h] = {},
           outcome' = [outcome EXCEPT ![h] = told], UNCHANGED <<accepted, durable>>
    PROVE  Writes!Tell(h, told)
BY DEF SameWritten, SameHolder, Writes!Tell

(* The connection of an open transaction is its only one. *)
LEMMA Mapped ==
    ASSUME IInv, NEW c \in Connections, NEW h \in Handles, owner[c] = h
    PROVE  /\ call[h] # "new" /\ WrittenBy(h) = wrote[c]
           /\ Begun(h) = IF txn[c] = "none" THEN "over" ELSE "open"
<1>1. call[h] # "new" /\ \A d \in Connections : owner[d] = h <=> d = c
  BY ConstantsAssumption DEF IInv, Owners, TypeOK
<1> QED
  BY <1>1 DEF WrittenBy, Begun

(* Steps of a client that tell nothing and begin nothing leave the promise as it is. *)
LEMMA ClientStays ==
    ASSUME UNCHANGED <<owner, serverVars>>, \A k \in Handles : call'[k] = "new" <=> call[k] = "new"
    PROVE  SameWritten /\ SameHolder /\ \A k \in Handles : Begun(k)' = Begun(k)
BY DEF SameWritten, SameHolder, Begun, WrittenBy, HolderOf, serverVars

LEMMA Silent ==
    ASSUME UNCHANGED <<owner, serverVars, accepted, outcome>>, \A k \in Handles : call'[k] = "new" <=> call[k] = "new"
    PROVE  UNCHANGED Writes!vars
<1>1. SameWritten /\ SameHolder /\ \A k \in Handles : Begun(k)' = Begun(k)
  BY ClientStays
<1>2. SameTold
  BY DEF SameTold, serverVars
<1> QED
  BY <1>1, <1>2, StutterStep

LEMMA Proceeds ==
    ASSUME TypeOK, NEW h \in Handles, call[h] # "new", call' = call \/ \E to \in Calls \ {"new"} : call' = [call EXCEPT ![h] = to]
    PROVE  \A k \in Handles : call'[k] = "new" <=> call[k] = "new"
BY DEF TypeOK

(* What a call does before it is answered, what a finish sends, what is    *)
(* dropped and what expires shows in nothing that AtomicWrites speaks of.  *)
LEMMA SilentStatement ==
    ASSUME IInv, NEW h \in Handles,
           Scan(h) \/ Apply(h) \/ BindingFails(h) \/ StatementFails(h) \/ ScanAbandoned(h) \/ CancelCall(h) \/ RefuseCall(h)
    PROVE  UNCHANGED Writes!vars
<1>1. UNCHANGED <<owner, serverVars, accepted, outcome>>
  BY DEF Scan, Apply, BindingFails, StatementFails, ScanAbandoned, CancelCall, RefuseCall, toldVars
<1>2. call[h] # "new" /\ (call' = call \/ \E to \in Calls \ {"new"} : call' = [call EXCEPT ![h] = to])
  BY DEF Scan, Apply, BindingFails, StatementFails, ScanAbandoned, CancelCall, RefuseCall, Goto, Calls
<1> QED
  BY <1>1, <1>2, Proceeds, Silent DEF IInv

LEMMA SilentCaller ==
    ASSUME IInv, NEW h \in Handles,
           Commit(h) \/ StartRollback(h) \/ Cleanup(h) \/ DropHandle(h) \/ DropFuture(h) \/ Expire(h) \/ ExpiryTask(h)
           \/ \E g \in Tables \cup {None} : StartCall(h, g)
    PROVE  UNCHANGED Writes!vars
<1>1. UNCHANGED <<owner, serverVars, accepted, outcome>>
  BY DEF Commit, StartRollback, Cleanup, DropHandle, DropFuture, Expire, ExpiryTask, StartCall, toldVars
<1>2. \A k \in Handles : call'[k] = "new" <=> call[k] = "new"
  <2>1. CASE Cleanup(h) \/ Expire(h) \/ ExpiryTask(h)
    BY <2>1 DEF Cleanup, Expire, ExpiryTask
  <2>2. CASE Commit(h) \/ StartRollback(h) \/ DropHandle(h) \/ DropFuture(h) \/ \E g \in Tables \cup {None} : StartCall(h, g)
    <3>1. call[h] # "new" /\ \E to \in Calls \ {"new"} : call' = [call EXCEPT ![h] = to]
      BY <2>2 DEF Commit, StartRollback, DropHandle, DropFuture, StartCall, Goto, Calls
    <3> QED
      BY <3>1, Proceeds DEF IInv
  <2> QED
    BY <2>1, <2>2
<1> QED
  BY <1>1, <1>2, Silent

(* A call that succeeds is reported: what it wrote is in the transaction. *)
LEMMA CallSucceedsPromised ==
    ASSUME RInv, NEW h \in Handles, CallSucceeds(h)
    PROVE  UNCHANGED Writes!vars \/ \E t \in Tables : Writes!Accept(h, t)
<1>1. IInv /\ TypeOK /\ Handle(h) /\ Applied(h)
  BY DEF RInv, IInv
<1>2. /\ UNCHANGED <<owner, serverVars, outcome>> /\ call[h] \in {"scanning", "applying"} /\ reply[h] = "ok"
      /\ call[h] = "applying" => goal[h] # None
      /\ \E to \in Calls \ {"new"} : call' = [call EXCEPT ![h] = to]
      /\ accepted' = IF call[h] = "applying" THEN [accepted EXCEPT ![h] = @ \cup {goal[h]}] ELSE accepted
  BY DEF CallSucceeds, Goto, Calls
<1>3. \A k \in Handles : call'[k] = "new" <=> call[k] = "new"
  BY <1>1, <1>2, Proceeds
<1>4. CASE call[h] = "scanning"
  BY <1>2, <1>3, <1>4, Silent
<1>5. CASE call[h] = "applying"
  <2>1. goal[h] \in Tables /\ lease[h] \in Connections /\ owner[lease[h]] = h
    BY <1>1, <1>2, <1>5 DEF TypeOK, Handle, Working, Busy, Holders, Holds
  <2>2. outcome[h] = None /\ durable[h] = {}
    BY <1>1, <1>5 DEF Handle, Told
  <2>3. Begun(h) # "idle" /\ (Begun(h) = "open" => goal[h] \in WrittenBy(h))
    BY <1>1, <1>2, <1>5, <2>1, Mapped DEF Applied
  <2>4. SameWritten /\ SameHolder /\ \A k \in Handles : Begun(k)' = Begun(k)
    BY <1>2, <1>3, ClientStays
  <2>5. Writes!Accept(h, goal[h])
    BY <1>2, <1>5, <2>1, <2>2, <2>3, <2>4, AcceptStep DEF serverVars
  <2> QED
    BY <2>1, <2>5
<1> QED
  BY <1>2, <1>4, <1>5

(* What a call, a commit or a rollback reports at its end is so. *)
LEMMA TellPromised ==
    ASSUME IInv, NEW h \in Handles, NEW told \in Outcomes, UNCHANGED <<owner, serverVars, accepted>>,
           call[h] \notin {"new", "gone"}, call' = [call EXCEPT ![h] = "gone"], outcome' = [outcome EXCEPT ![h] = told],
           told = "Committed" => Begun(h) = "over" /\ durable[h] = accepted[h],
           told \in {"Aborted", "Refused"} => durable[h] = {}
    PROVE  \E what \in Outcomes : Writes!Tell(h, what)
<1>1. TypeOK /\ Handle(h)
  BY DEF IInv
<1>2. \A k \in Handles : call'[k] = "new" <=> call[k] = "new"
  BY <1>1, Proceeds DEF Calls
<1>3. SameWritten /\ SameHolder /\ \A k \in Handles : Begun(k)' = Begun(k)
  BY <1>2, ClientStays
<1>4. outcome[h] = None
  BY <1>1 DEF Handle, Told
<1>5. Begun(h) # "idle"
  BY DEF Begun
<1>6. Writes!Tell(h, told)
  BY <1>3, <1>4, <1>5, TellStep DEF serverVars
<1> QED
  BY <1>6

LEMMA RefuseCommitPromised ==
    ASSUME IInv, NEW h \in Handles, RefuseCommit(h)
    PROVE  \E told \in Outcomes : Writes!Tell(h, told)
<1>1. call[h] = "ready" /\ call' = [call EXCEPT ![h] = "gone"] /\ outcome' = [outcome EXCEPT ![h] = "Refused"]
      /\ UNCHANGED <<owner, serverVars, accepted>>
  BY DEF RefuseCommit, Goto
<1>2. durable[h] = {}
  BY <1>1 DEF IInv, Handle, Told
<1> QED
  BY <1>1, <1>2, TellPromised DEF Outcomes

LEMMA RollbackPromised ==
    ASSUME IInv, NEW h \in Handles, Rollback(h)
    PROVE  UNCHANGED Writes!vars \/ \E told \in Outcomes : Writes!Tell(h, told)
<1>1. call[h] = "rolling" /\ UNCHANGED <<owner, serverVars, accepted>>
  BY DEF Rollback
<1>2. CASE lease[h] = None
  <2>1. call' = [call EXCEPT ![h] = "gone"] /\ outcome' = [outcome EXCEPT ![h] = "Aborted"]
    BY <1>2 DEF Rollback, Goto
  <2>2. durable[h] = {}
    BY <1>1 DEF IInv, Handle, Told
  <2> QED
    BY <1>1, <2>1, <2>2, TellPromised DEF Outcomes
<1>3. CASE lease[h] # None
  <2>1. UNCHANGED <<call, outcome>>
    BY <1>3 DEF Rollback
  <2> QED
    BY <1>1, <2>1, Silent
<1> QED
  BY <1>2, <1>3

(* A commit that is acknowledged is over: nothing of it is still to run.   *)
LEMMA FinishPromised ==
    ASSUME IInv, NEW h \in Handles, FinishAcknowledged(h) \/ FinishRejected(h) \/ FinishUnanswered(h)
    PROVE  UNCHANGED Writes!vars \/ \E told \in Outcomes : Writes!Tell(h, told)
<1> DEFINE told == IF FinishAcknowledged(h) THEN "Committed" ELSE IF FinishRejected(h) THEN "Aborted" ELSE "OutcomeUnknown"
<1>1. finishing[h] # None /\ UNCHANGED <<owner, serverVars, accepted>> /\ Finished(h, told)
      /\ (told = "Committed" => reply[h] = "ok") /\ (told = "Aborted" => reply[h] = "error") /\ told \in Outcomes
  BY DEF FinishAcknowledged, FinishRejected, FinishUnanswered, Outcomes
<1> HIDE DEF told
<1>2. TypeOK /\ Handle(h) /\ finishing[h] \in Connections /\ owner[finishing[h]] = h
  BY <1>1 DEF IInv, TypeOK, Handle, Holders, Holds
<1>3. CASE finisher[h] # "call"
  BY <1>1, <1>3, Silent DEF Finished
<1>4. CASE finisher[h] = "call"
  <2>1. call[h] \in {"committing", "rolling"}
    BY <1>2, <1>4 DEF Handle, Holders
  <2>2. call' = [call EXCEPT ![h] = "gone"]
        /\ outcome' = [outcome EXCEPT ![h] = IF call[h] = "rolling" THEN "Aborted" ELSE told]
    BY <1>1, <1>4 DEF Finished, Goto
  <2>3. CASE call[h] = "rolling"
    <3>1. durable[h] = {}
      BY <1>2, <2>3 DEF Handle, Told
    <3> QED
      BY <1>1, <2>2, <2>3, <3>1, TellPromised DEF Outcomes
  <2>4. CASE call[h] = "committing"
    <3>1. told = "Committed" => Begun(h) = "over" /\ durable[h] = accepted[h]
      BY <1>1, <1>2, <2>4, Mapped DEF Handle, Finishing
    <3>2. told = "Aborted" => durable[h] = {}
      BY <1>1, <1>2, <2>4 DEF Handle, Finishing
    <3>3. told # "Refused"
      BY DEF told
    <3> QED
      BY <1>1, <2>2, <2>4, <3>1, <3>2, <3>3, TellPromised
  <2> QED
    BY <2>1, <2>3, <2>4
<1> QED
  BY <1>3, <1>4

(* A pooled connection has no transaction of a former owner. *)
LEMMA OpenPromised ==
    ASSUME IInv, NEW h \in Handles, NEW c \in Connections, Open(h, c) \/ OpenFails(h, c)
    PROVE  Writes!Begin(h)
<1>1. /\ call[h] = "new" /\ conn[c] = "pooled" /\ owner' = [owner EXCEPT ![c] = h] /\ txn' = [txn EXCEPT ![c] = "active"]
      /\ UNCHANGED <<accepted, wrote, locked, durable>> /\ outcome' \in {outcome, [outcome EXCEPT ![h] = "Refused"]}
      /\ \E to \in {"ready", "gone"} : call' = [call EXCEPT ![h] = to]
  BY DEF Open, OpenFails, Goto, toldVars
<1>2. TypeOK /\ Owners /\ txn[c] = "none" /\ wrote[c] = {} /\ \A t \in Tables : locked[t] # c
  BY <1>1 DEF IInv, Connection, Idle
<1>3. owner'[c] = h /\ txn'[c] = "active" /\ \A d \in Connections \ {c} : owner'[d] = owner[d] /\ txn'[d] = txn[d]
  BY <1>1, <1>2 DEF TypeOK
<1>4. \A d \in Connections : owner[d] # h
  BY <1>1, <1>2, ConstantsAssumption DEF Owners
<1>5. Begun(h) = "idle" /\ Begun(h)' = "open"
  BY <1>1, <1>2, <1>3 DEF Begun, TypeOK
<1>6. SameBegun(h)
  <2>1. \A k \in Handles \ {h} : call'[k] = call[k]
    BY <1>1, <1>2 DEF TypeOK
  <2> QED
    BY <1>2, <1>3, <2>1 DEF SameBegun, Begun
<1>7. SameWritten
  <2>1. ASSUME NEW k \in Handles, NEW t PROVE t \in WrittenBy(k)' <=> t \in WrittenBy(k)
    BY <1>1, <1>2, <1>3 DEF WrittenBy
  <2> QED
    BY <2>1 DEF SameWritten
<1>8. SameHolder
  BY <1>1, <1>2, <1>3 DEF SameHolder, HolderOf, TypeOK
<1> QED
  BY <1>1, <1>5, <1>6, <1>7, <1>8, BeginStep

-----------------------------------------------------------------------------
(* What was applied stays applied.                                         *)

SameCall(k) == call'[k] = call[k] /\ reply'[k] = reply[k] /\ lease'[k] = lease[k] /\ goal'[k] = goal[k]
Unanswered(h) == call'[h] # "applying" \/ reply'[h] # "ok"

LEMMA AppliedStays ==
    ASSUME RInv, NEW h \in Handles, UNCHANGED serverVars, \A k \in Handles \ {h} : SameCall(k),
           Unanswered(h) \/ SameCall(h)
    PROVE  \A k \in Handles : Applied(k)'
BY DEF RInv, Applied, SameCall, Unanswered, serverVars

LEMMA CallsKeepApplied ==
    ASSUME RInv, NEW h \in Handles,
           Scan(h) \/ Apply(h) \/ BindingFails(h) \/ StatementFails(h) \/ ScanAbandoned(h) \/ CancelCall(h) \/ RefuseCall(h)
           \/ CallSucceeds(h) \/ \E g \in Tables \cup {None} : StartCall(h, g)
    PROVE  \A k \in Handles : Applied(k)'
<1>1. TypeOK
  BY DEF RInv, IInv
<1>2. UNCHANGED serverVars
  BY DEF Scan, Apply, BindingFails, StatementFails, ScanAbandoned, CancelCall, RefuseCall, CallSucceeds, StartCall
<1>3. /\ call' = call \/ \E to : call' = [call EXCEPT ![h] = to]
      /\ goal' = goal \/ \E to : goal' = [goal EXCEPT ![h] = to]
      /\ lease' = lease \/ \E to : lease' = [lease EXCEPT ![h] = to]
      /\ reply' = reply \/ \E to \in {None, "lost"} : reply' = [reply EXCEPT ![h] = to]
      /\ Unanswered(h)
  <2>1. CASE Scan(h) \/ Apply(h) \/ \E g \in Tables \cup {None} : StartCall(h, g)
    <3>1. reply'[h] # "ok" /\ \E to \in {None, "lost"} : reply' = [reply EXCEPT ![h] = to]
      <4>1. \E c, op, t : Send(h, c, op, t)
        BY <2>1 DEF Scan, Apply, StartCall
      <4>2. \E to \in {None, "lost"} : reply' = [reply EXCEPT ![h] = to]
        BY <4>1 DEF Send
      <4>3. reply \in [Handles -> {"ok", "error", "lost", None}]
        BY <1>1 DEF TypeOK
      <4>4. reply'[h] # "ok"
        BY <4>2, <4>3, ConstantsAssumption
      <4> QED
        BY <4>2, <4>4
    <3> QED
      BY <2>1, <3>1 DEF Scan, Apply, StartCall, Goto, Unanswered, sessionVars
  <2>2. CASE BindingFails(h) \/ CallSucceeds(h) \/ RefuseCall(h)
    BY <1>1, <2>2 DEF BindingFails, CallSucceeds, RefuseCall, Goto, Unanswered, sessionVars, TypeOK
  <2>3. CASE StatementFails(h) \/ ScanAbandoned(h) \/ CancelCall(h)
    <3>1. call' = [call EXCEPT ![h] = "ready"] /\ UNCHANGED goal
      BY <2>3 DEF StatementFails, ScanAbandoned, CancelCall, Goto
    <3>2. DropLease(h) \/ (UNCHANGED lease /\ reply' = [reply EXCEPT ![h] = None])
      BY <2>3 DEF StatementFails, ScanAbandoned, CancelCall
    <3> QED
      BY <1>1, <3>1, <3>2 DEF DropLease, Close, Unanswered, TypeOK
  <2> QED
    BY <2>1, <2>2, <2>3
<1>4. \A k \in Handles \ {h} : SameCall(k)
  BY <1>1, <1>3 DEF SameCall, TypeOK
<1> QED
  BY <1>2, <1>3, <1>4, AppliedStays

LEMMA EndsKeepApplied ==
    ASSUME RInv, NEW h \in Handles,
           Commit(h) \/ RefuseCommit(h) \/ StartRollback(h) \/ Rollback(h) \/ Cleanup(h) \/ DropHandle(h) \/ DropFuture(h)
           \/ Expire(h) \/ ExpiryTask(h) \/ FinishAcknowledged(h) \/ FinishRejected(h) \/ FinishUnanswered(h)
    PROVE  \A k \in Handles : Applied(k)'
<1>1. TypeOK /\ Handle(h)
  BY DEF RInv, IInv
<1>2. UNCHANGED serverVars
  BY DEF Commit, RefuseCommit, StartRollback, Rollback, Cleanup, DropHandle, DropFuture, Expire, ExpiryTask,
         FinishAcknowledged, FinishRejected, FinishUnanswered
<1>3. /\ goal' = goal
      /\ call' = call \/ \E to : call' = [call EXCEPT ![h] = to]
      /\ lease' = lease \/ \E to : lease' = [lease EXCEPT ![h] = to]
      /\ reply' = reply \/ \E to \in {None, "lost"} : reply' = [reply EXCEPT ![h] = to]
      /\ Unanswered(h) \/ SameCall(h)
  <2>1. CASE Commit(h) \/ Rollback(h) \/ Cleanup(h)
    <3>1. goal' = goal /\ (call' = call \/ \E to : call' = [call EXCEPT ![h] = to])
          /\ ((UNCHANGED lease /\ UNCHANGED reply) \/ \E op, who : TakeAndSend(h, op, who))
      BY <2>1 DEF Commit, Rollback, Cleanup, Goto
    <3>2. lease' = lease \/ \E to : lease' = [lease EXCEPT ![h] = to]
      BY <3>1 DEF TakeAndSend
    <3>3. reply' = reply \/ \E to \in {None, "lost"} : reply' = [reply EXCEPT ![h] = to]
      BY <3>1 DEF TakeAndSend, Send
    <3>4. call'[h] # "applying"
      <4>1. call[h] # "applying"
        BY <1>1, <2>1 DEF Commit, Rollback, Cleanup, Handle, Working, Busy
      <4> QED
        BY <1>1, <2>1, <4>1 DEF Commit, Rollback, Cleanup, Goto, TypeOK
    <3> QED
      BY <3>1, <3>2, <3>3, <3>4 DEF Unanswered
  <2>2. CASE RefuseCommit(h) \/ DropHandle(h) \/ DropFuture(h)
    <3>1. goal' = goal /\ call' = [call EXCEPT ![h] = "gone"]
          /\ (DropSession(h) \/ (UNCHANGED lease /\ reply' = [reply EXCEPT ![h] = None]))
      BY <2>2 DEF RefuseCommit, DropHandle, DropFuture, Goto, Close
    <3> QED
      BY <1>1, <3>1 DEF DropSession, DropLease, Close, Unanswered, TypeOK
  <2>3. CASE StartRollback(h) \/ Expire(h)
    <3>1. UNCHANGED <<goal, lease, reply>> /\ (call' = [call EXCEPT ![h] = "rolling"] \/ call' = call)
      BY <2>3 DEF StartRollback, Expire, Goto, sessionVars
    <3> QED
      BY <1>1, <3>1 DEF SameCall, Unanswered, TypeOK
  <2>4. CASE ExpiryTask(h)
    BY <1>1, <2>4 DEF ExpiryTask, Unlocked, DropLease, Close, Unanswered, TypeOK
  <2>5. CASE FinishAcknowledged(h) \/ FinishRejected(h) \/ FinishUnanswered(h)
    <3>1. goal' = goal /\ lease' = lease /\ reply' = [reply EXCEPT ![h] = None] /\ \E told : Finished(h, told)
      BY <2>5 DEF FinishAcknowledged, FinishRejected, FinishUnanswered, Close, sessionVars
    <3> QED
      BY <1>1, <3>1, ConstantsAssumption DEF Finished, Goto, Unanswered, TypeOK
  <2> QED
    BY <2>1, <2>2, <2>3, <2>4, <2>5
<1>4. \A k \in Handles \ {h} : SameCall(k)
  BY <1>1, <1>3 DEF SameCall, TypeOK
<1> QED
  BY <1>2, <1>3, <1>4, AppliedStays

(* A connection that is opened was in the pool and nobody's. *)
LEMMA OpensKeepApplied ==
    ASSUME RInv, NEW h \in Handles, NEW c \in Connections, Open(h, c) \/ OpenFails(h, c)
    PROVE  \A k \in Handles : Applied(k)'
<1>1. /\ call[h] = "new" /\ conn[c] = "pooled" /\ UNCHANGED <<goal, reply, wrote>> /\ txn' = [txn EXCEPT ![c] = "active"]
      /\ \E to \in {"ready", "gone"} : call' = [call EXCEPT ![h] = to]
      /\ lease' = lease \/ lease' = [lease EXCEPT ![h] = c]
  BY DEF Open, OpenFails, Goto, sessionVars
<1>2. TypeOK /\ \A k \in Handles : Holders(k) /\ Applied(k)
  BY DEF RInv, IInv, Handle
<1>3. \A k \in Handles : lease[k] # c
  BY <1>1, <1>2 DEF Holders, Holds
<1>4. call'[h] # "applying"
  BY <1>1, <1>2 DEF TypeOK
<1>5. ASSUME NEW k \in Handles \ {h} PROVE Applied(k)'
  <2>1. call'[k] = call[k] /\ lease'[k] = lease[k] /\ txn'[lease[k]] = txn[lease[k]]
    BY <1>1, <1>2, <1>3 DEF TypeOK
  <2> QED
    BY <1>1, <1>2, <2>1 DEF Applied
<1> QED
  BY <1>4, <1>5 DEF Applied

(* The server undoes a change only with its transaction, and answers a     *)
(* write once it has made it.                                              *)
LEMMA ServerKeepsApplied ==
    ASSUME RInv, IInv', NEW c \in Connections, Server(c)
    PROVE  \A k \in Handles : Applied(k)'
<1>1. TypeOK /\ TypeOK' /\ (\A k \in Handles : Handle(k) /\ Handle(k)' /\ Applied(k)) /\ Connection(c)
  BY DEF RInv, IInv
<1>2. UNCHANGED <<call, goal, lease>>
  BY DEF Server, RunStatement, RejectStatement, RunCommit, RejectCommit, RunRollback, Lose, Disconnect, clientVars, sessionVars
<1>3. ASSUME NEW d \in Connections, txn'[d] # "none" PROVE txn[d] # "none" /\ wrote[d] \subseteq wrote'[d]
  <2>1. CASE RunStatement(c)
    <3>1. txn' = txn /\ (wrote' = wrote \/ \E t : wrote' = [wrote EXCEPT ![c] = @ \cup {t}])
      BY <2>1 DEF RunStatement
    <3>2. \A e \in Connections : wrote[e] \subseteq wrote'[e]
      <4>1. wrote \in [Connections -> SUBSET Tables]
        BY <1>1 DEF TypeOK
      <4> QED
        BY <3>1, <4>1
    <3> QED
      BY <1>3, <3>1, <3>2
  <2>2. CASE RejectStatement(c)
    BY <1>1, <1>3, <2>2 DEF RejectStatement, TypeOK
  <2>3. CASE Lose(c)
    BY <1>3, <2>3 DEF Lose, serverVars
  <2>4. CASE RunCommit(c) \/ RejectCommit(c) \/ RunRollback(c) \/ Disconnect(c)
    <3>1. EndTransaction(c)
      BY <2>4 DEF RunCommit, RejectCommit, RunRollback, Disconnect
    <3> QED
      BY <1>1, <1>3, <3>1, EndEffect
  <2> QED
    BY <2>1, <2>2, <2>3, <2>4 DEF Server
<1>4. ASSUME NEW k \in Handles, call[k] = "applying", reply'[k] = "ok", lease[k] \in Connections, conn'[lease[k]] # "leased"
      PROVE  reply[k] = "ok"
  <2>1. owner[lease[k]] = k
    BY <1>1, <1>4 DEF Handle, Holders, Holds
  <2>2. CASE RunStatement(c) \/ RejectStatement(c) \/ RunCommit(c) \/ RejectCommit(c) \/ RunRollback(c)
    <3>1. queue[c] # <<>> /\ conn' = conn /\ \E with \in {"ok", "error"} : Answer(c, with)
      BY <2>2 DEF RunStatement, RejectStatement, RunCommit, RejectCommit, RunRollback
    <3>2. reply'[k] # reply[k] => k = owner[c] /\ queue[c][1].wanted /\ Len(queue[c]) = 1
      BY <1>1, <3>1, AnswerEffect DEF Connection
    <3>3. ASSUME reply'[k] # reply[k] PROVE FALSE
      <4>1. 1 \in 1 .. Len(queue[c]) /\ queue[c][1].wanted /\ k = owner[c]
        BY <3>2, <3>3
      <4>2. conn[c] = "leased" /\ (lease[k] = c \/ finishing[k] = c)
        BY <1>1, <4>1 DEF Connection, Awaited
      <4>3. lease[k] = c
        BY <1>1, <1>4, <4>2, ConstantsAssumption DEF Handle, Holders
      <4> QED
        BY <1>4, <3>1, <4>2, <4>3
    <3> QED
      BY <1>4, <3>3
  <2>3. CASE Lose(c)
    BY <1>1, <1>4, <2>3 DEF Lose, TypeOK
  <2>4. CASE Disconnect(c)
    BY <1>4, <2>4 DEF Disconnect
  <2> QED
    BY <2>2, <2>3, <2>4 DEF Server
<1>5. ASSUME NEW k \in Handles, call[k] = "applying", reply'[k] = "ok", lease[k] \in Connections, txn'[lease[k]] # "none"
      PROVE  goal[k] \in wrote'[lease[k]]
  <2>1. CASE conn'[lease[k]] = "leased"
    BY <1>1, <1>2, <1>5, <2>1, ConstantsAssumption DEF Handle, Working, Busy
  <2>2. CASE conn'[lease[k]] # "leased"
    BY <1>1, <1>3, <1>4, <1>5, <2>2 DEF Applied
  <2> QED
    BY <2>1, <2>2
<1> QED
  BY <1>2, <1>5 DEF Applied

-----------------------------------------------------------------------------
(* What the server does, as its callers see it.                            *)

LEMMA LosePromised ==
    ASSUME NEW c \in Connections, Lose(c)
    PROVE  UNCHANGED Writes!vars
<1>1. UNCHANGED <<call, owner, serverVars, accepted, outcome>>
  BY DEF Lose, clientVars, toldVars
<1> QED
  BY <1>1, Silent

LEMMA RejectStatementPromised ==
    ASSUME IInv, NEW c \in Connections, RejectStatement(c)
    PROVE  UNCHANGED Writes!vars
<1>1. /\ UNCHANGED <<call, owner, wrote, locked, durable, accepted, outcome>>
      /\ txn[c] # "none" /\ txn' = [txn EXCEPT ![c] = "failed"]
  BY DEF RejectStatement, clientVars, toldVars
<1>2. \A d \in Connections : txn'[d] = "none" <=> txn[d] = "none"
  BY <1>1 DEF IInv, TypeOK
<1>3. SameTold /\ SameWritten /\ SameHolder /\ \A k \in Handles : Begun(k)' = Begun(k)
  BY <1>1, <1>2 DEF SameTold, SameWritten, SameHolder, Begun, WrittenBy, HolderOf
<1> QED
  BY <1>3, StutterStep

(* A lock is held by the transaction of one owner. *)
LEMMA HolderIs ==
    ASSUME IInv, NEW c \in Connections, NEW h \in Handles, owner[c] = h, NEW t \in Tables
    PROVE  HolderOf(t) = h <=> locked[t] = c
BY ConstantsAssumption DEF IInv, TypeOK, Owners, HolderOf

LEMMA RunStatementPromised ==
    ASSUME IInv, NEW c \in Connections, RunStatement(c)
    PROVE  UNCHANGED Writes!vars \/ \E h \in Handles, t \in Tables : Writes!Write(h, t)
<1>1. TypeOK /\ Named(c) /\ owner[c] \in Handles \cup {None}
  BY DEF IInv, Connection, TypeOK
<1>2. /\ UNCHANGED <<call, owner, txn, durable, accepted, outcome>> /\ txn[c] = "active" /\ queue[c] # <<>>
      /\ IF Head(queue[c]).op = "write"
         THEN /\ locked[Head(queue[c]).table] \in {None, c}
              /\ locked' = [locked EXCEPT ![Head(queue[c]).table] = c]
              /\ wrote' = [wrote EXCEPT ![c] = @ \cup {Head(queue[c]).table}]
         ELSE UNCHANGED <<locked, wrote>>
  BY DEF RunStatement, clientVars, toldVars
<1>3. SameTold /\ \A k \in Handles : Begun(k)' = Begun(k)
  BY <1>2 DEF SameTold, Begun
<1>4. CASE Head(queue[c]).op # "write"
  <2>1. SameWritten /\ SameHolder
    BY <1>2, <1>4 DEF SameWritten, SameHolder, WrittenBy, HolderOf
  <2> QED
    BY <1>3, <2>1, StutterStep
<1>5. CASE Head(queue[c]).op = "write"
  <2>1. PICK t \in Tables : t = Head(queue[c]).table
    <3>1. queue[c] \in Seq(Requests)
      BY <1>1 DEF TypeOK
    <3>2. Head(queue[c]) = queue[c][1] /\ 1 \in 1 .. Len(queue[c]) /\ Head(queue[c]) \in Requests
      BY <1>2, <3>1
    <3> QED
      BY <1>1, <1>5, <3>2 DEF Named, Requests
  <2>2. locked[t] \in {None, c} /\ locked' = [locked EXCEPT ![t] = c] /\ wrote' = [wrote EXCEPT ![c] = @ \cup {t}]
    BY <1>2, <1>5, <2>1
  <2>3. /\ locked'[t] = c /\ \A u \in Tables \ {t} : locked'[u] = locked[u]
        /\ wrote'[c] = wrote[c] \cup {t} /\ \A d \in Connections \ {c} : wrote'[d] = wrote[d]
    BY <1>1, <2>2 DEF TypeOK
  <2>4. \A u \in Tables \ {t} : HolderOf(u)' = HolderOf(u)
    BY <1>2, <2>3 DEF HolderOf
  <2>5. HolderOf(t) \in {None, owner[c]} /\ HolderOf(t)' = owner[c]
    BY <1>2, <2>2, <2>3, ConstantsAssumption DEF HolderOf
  <2>6. \A k \in Handles : owner[c] # k => WrittenBy(k)' = WrittenBy(k)
    <3>1. ASSUME NEW k \in Handles, owner[c] # k, NEW u PROVE u \in WrittenBy(k)' <=> u \in WrittenBy(k)
      BY <1>2, <2>3, <3>1 DEF WrittenBy
    <3> QED
      BY <3>1
  <2>7. CASE owner[c] = None
    <3>1. SameWritten
      BY <2>6, <2>7, ConstantsAssumption DEF SameWritten
    <3>2. SameHolder
      BY <2>4, <2>5, <2>7 DEF SameHolder
    <3> QED
      BY <1>3, <3>1, <3>2, StutterStep
  <2>8. CASE owner[c] \in Handles
    <3>1. PICK h \in Handles : h = owner[c]
      BY <2>8
    <3>2. Begun(h) = "open" /\ WrittenBy(h) = wrote[c]
      BY <1>2, <3>1, Mapped
    <3>3. WrittenBy(h)' = WrittenBy(h) \cup {t}
      <4>1. \A d \in Connections : owner'[d] = h <=> d = c
        BY <1>2, <3>1, ConstantsAssumption DEF IInv, Owners
      <4>2. WrittenBy(h)' = wrote'[c]
        BY <1>2, <4>1 DEF WrittenBy
      <4> QED
        BY <2>3, <3>2, <4>2
    <3>4. Writes!Write(h, t)
      BY <1>3, <2>4, <2>5, <2>6, <3>1, <3>2, <3>3, WriteStep
    <3> QED
      BY <3>4
  <2> QED
    BY <1>1, <2>7, <2>8
<1> QED
  BY <1>4, <1>5

(* When a transaction ends on the server, so does that of its owner; the   *)
(* end of a transaction nobody began, or of none, is not seen.             *)
LEMMA EndPromised ==
    ASSUME IInv, NEW c \in Connections, txn[c] # "none", NEW h \in Handles, owner[c] = h, EndTransaction(c),
           \A d \in Connections \ {c} : owner'[d] = owner[d], owner'[c] \in {h, None},
           UNCHANGED <<call, accepted, outcome>>,
           UNCHANGED durable \/ (/\ wrote[c] = accepted[h] /\ outcome[h] \in {None, "OutcomeUnknown"}
                                  /\ durable' = [durable EXCEPT ![h] = wrote[c]])
    PROVE  Writes!End(h)
<1>1. TypeOK /\ Owners
  BY DEF IInv
<1>2. txn'[c] = "none" /\ wrote'[c] = {} /\ \A d \in Connections \ {c} : txn'[d] = txn[d] /\ wrote'[d] = wrote[d]
  BY <1>1, EndEffect
<1>3. Begun(h) = "open" /\ WrittenBy(h) = wrote[c] /\ call[h] # "new" /\ \A d \in Connections : owner[d] = h <=> d = c
  BY <1>1, Mapped, ConstantsAssumption DEF Owners
<1>4. Begun(h)' = "over" /\ WrittenBy(h)' = {}
  <2>1. \A d \in Connections : owner'[d] = h => d = c
    BY <1>3
  <2>2. Begun(h)' = "over"
    BY <1>2, <1>3, <2>1 DEF Begun
  <2>3. ASSUME NEW u PROVE u \notin WrittenBy(h)'
    BY <1>2, <2>1 DEF WrittenBy
  <2> QED
    BY <2>2, <2>3
<1>5. ASSUME NEW k \in Handles \ {h} PROVE Begun(k)' = Begun(k) /\ WrittenBy(k)' = WrittenBy(k)
  <2>1. \A d \in Connections : (owner[d] = k <=> owner'[d] = k) /\ (owner[d] = k => d # c)
    BY <1>3, ConstantsAssumption
  <2>2. Begun(k)' = Begun(k)
    BY <1>2, <2>1 DEF Begun
  <2>3. ASSUME NEW u PROVE u \in WrittenBy(k)' <=> u \in WrittenBy(k)
    BY <1>2, <2>1 DEF WrittenBy
  <2> QED
    BY <2>2, <2>3
<1>6. ASSUME NEW t \in Tables PROVE HolderOf(t)' = IF HolderOf(t) = h THEN None ELSE HolderOf(t)
  <2>1. HolderOf(t) = h <=> locked[t] = c
    BY HolderIs
  <2>2. locked'[t] = IF locked[t] = c THEN None ELSE locked[t]
    BY DEF EndTransaction, Unlock
  <2>3. locked[t] \in Connections \cup {None}
    BY <1>1 DEF TypeOK
  <2> QED
    BY <2>1, <2>2, <2>3, ConstantsAssumption DEF HolderOf
<1>7. SameBegun(h)
  BY <1>5 DEF SameBegun
<1> QED
  BY <1>3, <1>4, <1>5, <1>6, <1>7, EndStep

LEMMA EndUnseen ==
    ASSUME IInv, NEW c \in Connections, txn[c] = "none" \/ owner[c] = None, EndTransaction(c),
           \A d \in Connections \ {c} : owner'[d] = owner[d], owner'[c] \in {owner[c], None},
           UNCHANGED <<call, accepted, outcome, durable>>
    PROVE  UNCHANGED Writes!vars
<1>1. TypeOK /\ Idle(c)
  BY DEF IInv, Connection
<1>2. txn'[c] = "none" /\ wrote'[c] = {} /\ \A d \in Connections \ {c} : txn'[d] = txn[d] /\ wrote'[d] = wrote[d]
  BY <1>1, EndEffect
<1>3. owner[c] # None => wrote[c] = {} /\ \A t \in Tables : locked[t] # c
  BY <1>1 DEF Idle
<1>4. ASSUME NEW k \in Handles PROVE Begun(k)' = Begun(k) /\ WrittenBy(k)' = WrittenBy(k)
  <2>1. k # None
    BY ConstantsAssumption
  <2>2. Begun(k)' = Begun(k)
    BY <1>2, <2>1 DEF Begun
  <2>3. ASSUME NEW u PROVE u \in WrittenBy(k)' <=> u \in WrittenBy(k)
    BY <1>2, <1>3, <2>1 DEF WrittenBy
  <2> QED
    BY <2>2, <2>3
<1>5. ASSUME NEW t \in Tables PROVE HolderOf(t)' = HolderOf(t)
  <2>1. locked'[t] = IF locked[t] = c THEN None ELSE locked[t]
    BY DEF EndTransaction, Unlock
  <2>2. locked[t] \in Connections \cup {None}
    BY <1>1 DEF TypeOK
  <2> QED
    BY <1>3, <2>1, <2>2, ConstantsAssumption DEF HolderOf
<1> QED
  BY <1>4, <1>5, StutterStep DEF SameTold, SameWritten, SameHolder

LEMMA EndsPromised ==
    ASSUME IInv, NEW c \in Connections, RunCommit(c) \/ RejectCommit(c) \/ RunRollback(c) \/ Disconnect(c)
    PROVE  UNCHANGED Writes!vars \/ \E h \in Handles : Writes!End(h)
<1>1. EndTransaction(c) /\ UNCHANGED <<call, accepted, outcome>> /\ owner[c] \in Handles \cup {None} /\ TypeOK
  BY DEF IInv, TypeOK, RunCommit, RejectCommit, RunRollback, Disconnect, clientVars, toldVars
<1>2. (\A d \in Connections \ {c} : owner'[d] = owner[d]) /\ owner'[c] \in {owner[c], None}
  <2>1. owner' = owner \/ owner' = [owner EXCEPT ![c] = None]
    BY DEF RunCommit, RejectCommit, RunRollback, Disconnect
  <2> QED
    BY <1>1, <2>1 DEF TypeOK
<1>3. CASE UNCHANGED durable
  <2>1. CASE txn[c] = "none" \/ owner[c] = None
    BY <1>1, <1>2, <1>3, <2>1, EndUnseen
  <2>2. CASE txn[c] # "none" /\ owner[c] # None
    <3>1. PICK h \in Handles : h = owner[c]
      BY <1>1, <2>2
    <3>2. Writes!End(h)
      BY <1>1, <1>2, <1>3, <2>2, <3>1, EndPromised
    <3> QED
      BY <3>2
  <2> QED
    BY <2>1, <2>2
<1>4. CASE RunCommit(c)
  <2>1. queue[c] \in Seq(Requests) /\ queue[c] # <<>> /\ Head(queue[c]).op = "commit" /\ Committing(c)
    BY <1>1, <1>4 DEF RunCommit, IInv, Connection, TypeOK
  <2>2. Head(queue[c]) = queue[c][1] /\ 1 \in 1 .. Len(queue[c])
    BY <2>1
  <2>3. /\ owner[c] # None /\ txn[c] = "active" /\ wrote[c] = accepted[owner[c]]
        /\ outcome[owner[c]] \in {None, "OutcomeUnknown"}
    BY <2>1, <2>2 DEF Committing
  <2>4. durable' = [durable EXCEPT ![owner[c]] = wrote[c]]
    BY <1>4, <2>3 DEF RunCommit
  <2>5. PICK h \in Handles : h = owner[c]
    BY <1>1, <2>3
  <2>6. Writes!End(h)
    BY <1>1, <1>2, <2>3, <2>4, <2>5, EndPromised
  <2> QED
    BY <2>6
<1> QED
  BY <1>3, <1>4 DEF RejectCommit, RunRollback, Disconnect

-----------------------------------------------------------------------------
LEMMA PromiseInit == Init => Writes!Init
<1> SUFFICES ASSUME Init PROVE Writes!Init
  OBVIOUS
<1>1. \A h \in Handles : Begun(h) = "idle"
  BY DEF Init, Begun
<1>2. \A h \in Handles : WrittenBy(h) = {}
  BY ConstantsAssumption DEF Init, WrittenBy
<1>3. \A t \in Tables : HolderOf(t) = None
  BY DEF Init, HolderOf
<1> QED
  BY <1>1, <1>2, <1>3 DEF Init, Writes!Init

LEMMA PromiseKept == RInv /\ [Next]_vars => [Writes!Next]_(Writes!vars)
<1> SUFFICES ASSUME RInv, [Next]_vars PROVE Writes!Next \/ UNCHANGED Writes!vars
  OBVIOUS
<1> USE DEF RInv
<1>1. CASE UNCHANGED vars
  BY <1>1, Silent DEF vars, toldVars
<1>2. ASSUME NEW h \in Handles, Statement(h) PROVE Writes!Next \/ UNCHANGED Writes!vars
  BY <1>2, SilentStatement, CallSucceedsPromised DEF Statement, Writes!Next
<1>3. ASSUME NEW h \in Handles, Finish(h) PROVE Writes!Next \/ UNCHANGED Writes!vars
  BY <1>3, RollbackPromised, SilentCaller, FinishPromised DEF Finish, Writes!Next, Outcomes
<1>4. ASSUME NEW h \in Handles, Caller(h) PROVE Writes!Next \/ UNCHANGED Writes!vars
  BY <1>4, OpenPromised, SilentCaller, SilentStatement, RefuseCommitPromised DEF Caller, Writes!Next, Outcomes
<1>5. ASSUME NEW h \in Handles, Expire(h) \/ ExpiryTask(h) PROVE Writes!Next \/ UNCHANGED Writes!vars
  BY <1>5, SilentCaller
<1>6. ASSUME NEW c \in Connections, Server(c) PROVE Writes!Next \/ UNCHANGED Writes!vars
  BY <1>6, RunStatementPromised, RejectStatementPromised, EndsPromised, LosePromised DEF Server, Writes!Next
<1> QED
  BY <1>1, <1>2, <1>3, <1>4, <1>5, <1>6 DEF Next

LEMMA AppliedKept == RInv /\ [Next]_vars => RInv'
<1> SUFFICES ASSUME RInv, [Next]_vars PROVE RInv'
  OBVIOUS
<1>1. IInv'
  BY StepInv DEF RInv
<1> SUFFICES \A k \in Handles : Applied(k)'
  BY <1>1 DEF RInv
<1>2. CASE UNCHANGED vars
  BY <1>2 DEF RInv, Applied, vars, sessionVars, serverVars
<1>3. ASSUME NEW h \in Handles, Statement(h) PROVE \A k \in Handles : Applied(k)'
  BY <1>3, CallsKeepApplied DEF Statement
<1>4. ASSUME NEW h \in Handles, Finish(h) PROVE \A k \in Handles : Applied(k)'
  BY <1>4, EndsKeepApplied DEF Finish
<1>5. ASSUME NEW h \in Handles, Caller(h) PROVE \A k \in Handles : Applied(k)'
  BY <1>5, OpensKeepApplied, CallsKeepApplied, EndsKeepApplied DEF Caller
<1>6. ASSUME NEW h \in Handles, Expire(h) \/ ExpiryTask(h) PROVE \A k \in Handles : Applied(k)'
  BY <1>6, EndsKeepApplied
<1>7. ASSUME NEW c \in Connections, Server(c) PROVE \A k \in Handles : Applied(k)'
  BY <1>1, <1>7, ServerKeepsApplied
<1> QED
  BY <1>2, <1>3, <1>4, <1>5, <1>6, <1>7 DEF Next

(* Whatever is cancelled, lost, refused or closed on the way, and however  *)
(* many handles share the pool, each native write is to its caller one     *)
(* transaction: no other changes its tables while it is open, it ends at a *)
(* single moment with all that was accepted or nothing, and what finish()  *)
(* reports of it is true and stays true.                                   *)
THEOREM WritesAreTransactions == Spec => ImplementsWrites
<1>1. Init => RInv
  <2>1. Init => \A h \in Handles : Applied(h)
    BY DEF Init, Applied
  <2> QED
    BY <2>1, InitInv DEF RInv
<1>2. Spec => []RInv
  BY <1>1, AppliedKept, PTL DEF Spec
<1>3. Spec => Writes!Spec
  BY <1>2, PromiseInit, PromiseKept, PTL DEF Spec, Writes!Spec
<1> QED
  BY <1>3 DEF ImplementsWrites
=============================================================================
