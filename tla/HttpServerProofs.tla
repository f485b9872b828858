-------------------------- MODULE HttpServerProofs --------------------------
(***************************************************************************)
(* Theorems about module HttpServer, for any number of connections and any *)
(* set of ways the server may be set up.                                   *)
(***************************************************************************)
EXTENDS HttpServer, FiniteSetTheorems, TLAPS


(* An operation that is started has the kind and the connection it is given.  *)
LEMMA NewOperation ==
  ASSUME NEW c \in Conns, NEW kind \in Kinds, NEW open
  PROVE  /\ Operation(c, kind, open) \in [conn : Conns, kind : Kinds, res : Results]
         /\ Operation(c, kind, open).conn = c
         /\ Operation(c, kind, open).kind = kind
         /\ Operation(c, kind, open).res = IF open THEN "pending" ELSE "error"
  BY DEF Operation, Results


(* What start() and the handler of async_accept do to the connections.        *)
LEMMA StartEffect ==
  ASSUME TypeOK, Start
  PROVE  \E c \in Conns \ alive, op \in [conn : Conns, kind : Kinds, res : Results] :
           /\ op.conn = c /\ op.kind = "accept"
           /\ alive' = alive \cup {c} /\ connections' = connections \cup {c} /\ ops' = ops \cup {op}
<1>1. PICK c \in Conns : Accept(c) /\ ops' = ops \cup {Operation(c, "accept", TRUE)}
  BY DEF Start
<1> QED BY <1>1, NewOperation DEF Accept, Kinds

LEMMA AcceptEffect ==
  ASSUME TypeOK, NEW h \in running, AcceptDone(h), h.res # "aborted"
  PROVE  \E c \in Conns \ alive, op, read \in [conn : Conns, kind : Kinds, res : Results] :
           /\ op.conn = c /\ op.kind = "accept" /\ (op.res = "pending" => acceptor = "open")
           /\ read.conn = h.conn /\ read.kind = "header"
           /\ alive' = alive \cup {c} /\ connections' = connections \cup {c}
           /\ \/ ops' = ops \cup {op} /\ UNCHANGED timer
              \/ ops' = (ops \cup {op}) \cup {read} /\ SetTimeout(h.conn, setup.timeoutRequest)
<1>1. PICK c \in Conns :
        LET next == ops \cup {Operation(c, "accept", acceptor = "open")}
        IN  /\ Accept(c)
            /\ \/ ops' = next /\ UNCHANGED timer
               \/ ops' = next \cup {SocketOp(h.conn, "header")} /\ SetTimeout(h.conn, setup.timeoutRequest)
  BY DEF AcceptDone, ReadRequest
<1> DEFINE op == Operation(c, "accept", acceptor = "open")
           read == SocketOp(h.conn, "header")
<1>2. /\ op \in [conn : Conns, kind : Kinds, res : Results]
      /\ op.conn = c /\ op.kind = "accept" /\ (op.res = "pending" => acceptor = "open")
  BY DEF Operation, Kinds, Results
<1>3. /\ read \in [conn : Conns, kind : Kinds, res : Results]
      /\ read.conn = h.conn /\ read.kind = "header"
  BY NewOperation DEF Kinds, SocketOp, TypeOK
<1> QED BY <1>1, <1>2, <1>3 DEF Accept


(* Types are kept by every step.                                             *)
LEMMA NextTyped == TypeOK /\ [Next]_vars => TypeOK'
<1> SUFFICES ASSUME TypeOK, [Next]_vars PROVE TypeOK'
  OBVIOUS
<1> USE DEF connVars, timeVars, ctlVars, TypeOK, SetTimeout, Kinds, Results
<1>1. CASE Start
  <2>1. PICK c \in Conns \ alive, op \in [conn : Conns, kind : Kinds, res : Results] :
          /\ alive' = alive \cup {c} /\ connections' = connections \cup {c} /\ ops' = ops \cup {op}
    BY <1>1, StartEffect
  <2>2. starts' \in 0 .. setup.starts
    BY <1>1, SetupsAssumption DEF Start, Setup
  <2> QED BY <1>1, <2>1, <2>2 DEF Start
<1>2. ASSUME NEW o \in ops, Begin(o) PROVE TypeOK'
  <2>1. PICK op \in [conn : Conns, kind : Kinds, res : Results] :
          ops' = ops \ {o} \/ ops' = (ops \ {o}) \cup {op}
    <3>1. SocketOp(o.conn, "final") \in [conn : Conns, kind : Kinds, res : Results]
      BY NewOperation DEF SocketOp
    <3>2. ops' = ops \ {o} \/ ops' = (ops \ {o}) \cup {SocketOp(o.conn, "final")}
      BY <1>2 DEF Begin, DropResponse
    <3> QED BY <3>1, <3>2
  <2>2. sock' \in [Conns -> {"none", "open", "closed", "moved"}]
    BY <1>2 DEF Begin
  <2>3. timer' \subseteq Conns
    BY <1>2 DEF Begin, DropResponse
  <2>4. running' \subseteq [conn : Conns, kind : Kinds, res : Results \ {"pending"}, inResource : BOOLEAN]
    <3> DEFINE h == [conn |-> o.conn, kind |-> o.kind, res |-> o.res, inResource |-> FALSE]
    <3>1. h \in [conn : Conns, kind : Kinds, res : Results \ {"pending"}, inResource : BOOLEAN]
      BY <1>2 DEF Begin
    <3>2. running' = running \/ running' = running \cup {h}
      BY <1>2 DEF Begin
    <3> HIDE DEF h
    <3> QED BY <3>1, <3>2
  <2>5. ops' \subseteq [conn : Conns, kind : Kinds, res : Results]
    BY <2>1
  <2> QED BY <1>2, <2>2, <2>3, <2>4, <2>5 DEF Begin
<1>3. ASSUME NEW h \in running, AcceptDone(h) PROVE TypeOK'
  <2>1. CASE h.res = "aborted"
    BY <1>3, <2>1 DEF AcceptDone
  <2>2. CASE h.res # "aborted"
    <3>1. PICK c \in Conns \ alive, op, read \in [conn : Conns, kind : Kinds, res : Results] :
            /\ alive' = alive \cup {c} /\ connections' = connections \cup {c}
            /\ \/ ops' = ops \cup {op} /\ UNCHANGED timer
               \/ ops' = (ops \cup {op}) \cup {read} /\ SetTimeout(h.conn, setup.timeoutRequest)
      BY <1>3, <2>2, AcceptEffect
    <3>2. timer' \subseteq Conns
      BY <3>1
    <3>3. running' = running \ {h} /\ UNCHANGED <<sock, closing, refs, ctlVars>>
      BY <1>3 DEF AcceptDone
    <3> QED BY <3>1, <3>2, <3>3
  <2> QED BY <2>1, <2>2
<1> USE DEF SocketOp
<1>4. ASSUME NEW o \in ops, PeerConnects(o) PROVE TypeOK'
  BY <1>4 DEF PeerConnects
<1>5. ASSUME NEW o \in ops, Transfer(o) PROVE TypeOK'
  BY <1>5 DEF Transfer
<1>6. ASSUME NEW o \in ops, Cancelled(o) PROVE TypeOK'
  BY <1>6 DEF Cancelled
<1>7. ASSUME NEW c \in Conns, Expire(c) PROVE TypeOK'
  BY <1>7 DEF Expire
<1>8. ASSUME NEW c \in Conns, TimedOut(c) PROVE TypeOK'
  BY <1>8 DEF TimedOut
<1>9. ASSUME NEW h \in running, ReadDropped(h) PROVE TypeOK'
  BY <1>9 DEF ReadDropped, IsRead
<1>10. ASSUME NEW h \in running, ReadTooLarge(h) PROVE TypeOK'
  BY <1>10, NewOperation DEF ReadTooLarge, IsRead
<1>11. ASSUME NEW h \in running, ReadContent(h) PROVE TypeOK'
  BY <1>11, NewOperation DEF ReadContent, IsRead
<1>12. ASSUME NEW h \in running, Upgrade(h) PROVE TypeOK'
  BY <1>12 DEF Upgrade, IsRead
<1>13. ASSUME NEW h \in running, Dispatch(h) PROVE TypeOK'
  BY <1>13 DEF Dispatch, IsRead
<1>14. ASSUME NEW h \in running, ResourceReturns(h) PROVE TypeOK'
  BY <1>14, NewOperation DEF ResourceReturns, DropResponse
<1>15. ASSUME NEW h \in running, SendDone(h) PROVE TypeOK'
  BY <1>15, NewOperation DEF SendDone, DropResponse
<1>16. ASSUME NEW h \in running, FinalDone(h) PROVE TypeOK'
  BY <1>16, NewOperation DEF FinalDone, ReadRequest
<1>17. ASSUME NEW h \in running, RejectDone(h) PROVE TypeOK'
  BY <1>17 DEF RejectDone
<1>18. ASSUME NEW c \in Conns, Keep(c) PROVE TypeOK'
  BY <1>18 DEF Keep
<1>19. ASSUME NEW c \in Conns, SendPart(c) PROVE TypeOK'
  BY <1>19, NewOperation DEF SendPart, OpsOf
<1>20. ASSUME NEW c \in Conns, LetGo(c) PROVE TypeOK'
  BY <1>20, NewOperation DEF LetGo, DropResponse
<1>21. ASSUME NEW c \in Conns, Destroy(c) PROVE TypeOK'
  BY <1>21 DEF Destroy, Unreferenced, OpsOf, RunningOf
<1>22. CASE CallStop
  BY <1>22 DEF CallStop
<1>23. CASE Destruct
  BY <1>23 DEF Destruct
<1>24. CASE CloseAcceptor
  BY <1>24 DEF CloseAcceptor
<1>25. CASE Sweep
  BY <1>25 DEF Sweep
<1>26. CASE StopIo
  BY <1>26 DEF StopIo
<1>27. CASE FreeIo
  BY <1>27 DEF FreeIo
<1>28. CASE UNCHANGED vars
  BY <1>28 DEF vars
<1> QED
  BY <1>1, <1>2, <1>3, <1>4, <1>5, <1>6, <1>7, <1>8, <1>9, <1>10, <1>11, <1>12, <1>13, <1>14,
     <1>15, <1>16, <1>17, <1>18, <1>19, <1>20, <1>21, <1>22, <1>23, <1>24, <1>25, <1>26, <1>27, <1>28
     DEF Next, Network, User, Body, Handlers, Control
(***************************************************************************)
(* Who has a connection at hand.                                           *)
(***************************************************************************)

(* What refers to a Connection keeps it alive; stop() finds the others.      *)
Held ==
  /\ connections \subseteq alive
  /\ \A x \in ops \cup running : x.conn \in alive
  /\ \A c \in Conns \ alive : refs[c] = {} /\ sock[c] = "none"

(* Between its beginning and the resource function a handler has its          *)
(* connection for itself, unless it is one of an explicit send.              *)
Alone(h) == /\ refs[h.conn] = {}
            /\ \A o \in ops : o.conn # h.conn
            /\ \A g \in running : g.conn = h.conn => g = h
HandlersAlone == \A h \in running : h.kind # "send" /\ ~h.inResource => Alone(h)

(* An operation is the only one of its connection, and if it is not an        *)
(* explicit send there is neither a handler nor a Response beside it.        *)
OperationsAlone ==
  \A o \in ops : /\ \A p \in ops : p.conn = o.conn => p = o
                 /\ o.kind # "send" => /\ refs[o.conn] = {}
                                       /\ \A h \in running : h.conn # o.conn

(* A resource function has come from a read and holds the Response.          *)
ResourcesHold ==
  \A h \in running : h.inResource =>
    /\ h.kind \in {"header", "body"} /\ "fn" \in refs[h.conn]
    /\ \A g \in running : g.conn = h.conn /\ g.inResource => g = h

Turns == /\ Held /\ HandlersAlone /\ OperationsAlone /\ ResourcesHold
         /\ NoBodyAfterDestruct

(* A connection that is open and served on although stop() does not see it.  *)
Busy(c) == (\E x \in ops \cup running : x.conn = c) \/ refs[c] # {}
Overlooked(c) == sock[c] = "open" /\ c \notin connections /\ Busy(c)

(* A peer has come, or may come.  *)
Expected(o) == o.kind = "accept" /\ o.res \in {"pending", "ok"}

Past == {"stoppingIo", "stopped", "destroyed"}

(* What stop() sees of a server that is started once.  Before it is done a   *)
(* connection that is served is listed; afterwards no peer comes, and the one *)
(* that had come takes the place of the only accept.                         *)
Overlooking ==
  /\ acceptor = "open" => ctl \in {"serving", "closing"}
  /\ \A o \in ops : o.kind = "accept" /\ o.res = "pending" => acceptor = "open" /\ o.conn \in connections
  /\ starts = 0 => alive = {}
  /\ starts = 1 =>
       /\ \A o \in ops : Expected(o) /\ o.conn \notin connections => acceptor = "closed"
       /\ \A c, d \in Conns : Overlooked(c) /\ Overlooked(d) => c = d
       /\ \A c \in Conns : Overlooked(c) => acceptor = "closed" /\ \A o \in ops : ~Expected(o)
       /\ ctl \in Past => /\ \A c \in connections : sock[c] # "open"
                          /\ \A o \in ops : Expected(o) => o.conn \notin connections

(* A handler that has its connection for itself ends and leaves it an         *)
(* operation.                                                                *)
LEMMA HandsOn ==
  ASSUME TypeOK, HandlersAlone, OperationsAlone, ResourcesHold, NEW h \in running, NEW op,
         h.kind # "send", ~h.inResource, op.conn = h.conn, op.kind # "send",
         running' = running \ {h}, ops' = ops \cup {op}, refs' = refs
  PROVE  HandlersAlone' /\ OperationsAlone' /\ ResourcesHold'
<1>1. Alone(h)
  BY DEF HandlersAlone
<1>2. \A g \in running' : g \in running /\ g.conn # h.conn
  BY <1>1 DEF Alone
<1>3. HandlersAlone'
  BY <1>2 DEF HandlersAlone, Alone
<1>4. OperationsAlone'
  BY <1>1, <1>2 DEF OperationsAlone, Alone
<1>5. ResourcesHold'
  BY <1>2 DEF ResourcesHold
<1> QED BY <1>3, <1>4, <1>5

(* Nothing refers to a connection that does not exist yet.                   *)
LEMMA Fresh ==
  ASSUME TypeOK, Held, NEW c \in Conns \ alive
  PROVE  /\ \A o \in ops : o.conn # c
         /\ \A h \in running : h.conn # c
         /\ refs[c] = {} /\ sock[c] = "none"
  BY DEF Held, TypeOK


(* Operations, handlers and Responses of a connection take turns.             *)
LEMMA NextTurns == TypeOK /\ Turns /\ [Next]_vars => Turns'
<1> SUFFICES ASSUME TypeOK /\ Turns, [Next]_vars PROVE Turns'
  OBVIOUS
<1> USE DEF connVars, timeVars, ctlVars, SetTimeout, Kinds
<1>1. CASE Start
  <2>1. PICK c \in Conns : Accept(c) /\ ops' = ops \cup {Operation(c, "accept", TRUE)}
    BY <1>1 DEF Start
  <2> DEFINE op == Operation(c, "accept", TRUE)
  <2>2. op.conn = c /\ op.kind = "accept"
    BY NewOperation
  <2>3. /\ c \notin alive /\ alive' = alive \cup {c} /\ connections' = connections \cup {c}
        /\ UNCHANGED <<sock, running, refs, runner>> /\ ops' = ops \cup {op}
    BY <1>1, <2>1 DEF Start, Accept
  <2> HIDE DEF op
  <2>4. /\ \A o \in ops : o.conn # c
        /\ \A h \in running : h.conn # c
        /\ refs[c] = {}
    BY <2>3, Fresh DEF Turns
  <2> QED BY <2>2, <2>3, <2>4 DEF Turns, Held, HandlersAlone, Alone, OperationsAlone, ResourcesHold,
                                    NoBodyAfterDestruct, TypeOK
<1>2. ASSUME NEW o \in ops, Begin(o) PROVE Turns'
  <2> USE DEF Turns, Held, HandlersAlone, Alone, OperationsAlone, ResourcesHold, NoBodyAfterDestruct, TypeOK
  <2>1. CASE runner = "open"
    <3>1. PICK h : /\ h = [conn |-> o.conn, kind |-> o.kind, res |-> o.res, inResource |-> FALSE]
                   /\ running' = running \cup {h} /\ ops' = ops \ {o}
                   /\ UNCHANGED <<alive, connections, refs, runner>>
      BY <1>2, <2>1 DEF Begin
    <3>2. h.conn = o.conn /\ h.kind = o.kind /\ ~h.inResource
      BY <3>1
    <3>3. sock' = sock \/ sock' = [sock EXCEPT ![o.conn] = "open"]
      BY <1>2 DEF Begin
    <3>4. Held' /\ NoBodyAfterDestruct'
      BY <2>1, <3>1, <3>2, <3>3
    <3>5. HandlersAlone'
      <4>1. ASSUME NEW g \in running', g.kind # "send", ~g.inResource, g # h
            PROVE  Alone(g)'
        <5>1. g \in running /\ Alone(g) /\ g.conn # o.conn
          BY <3>1, <4>1
        <5> QED BY <3>1, <3>2, <5>1
      <4>2. o.kind # "send" => Alone(h)'
        BY <3>1, <3>2
      <4> QED BY <3>2, <4>1, <4>2
    <3>6. ResourcesHold'
      BY <3>1, <3>2
    <3>7. OperationsAlone'
      BY <3>1, <3>2
    <3> QED BY <3>4, <3>5, <3>6, <3>7
  <2>2. CASE runner # "open"
    <3>1. running = {} /\ running' = {} /\ UNCHANGED <<alive, connections, refs, runner>>
      BY <1>2, <2>2 DEF Begin
    <3>2. sock' = sock \/ sock' = [sock EXCEPT ![o.conn] = "open"]
      BY <1>2 DEF Begin
    <3>3. CASE ops' = ops \ {o}
      BY <3>1, <3>2, <3>3
    <3>4. CASE refs[o.conn] = {} /\ ops' = (ops \ {o}) \cup {SocketOp(o.conn, "final")}
      BY <3>1, <3>2, <3>4, NewOperation DEF SocketOp
    <3> QED BY <1>2, <2>2, <3>3, <3>4 DEF Begin, DropResponse
  <2> QED BY <2>1, <2>2
<1>3. ASSUME NEW h \in running, AcceptDone(h) PROVE Turns'
  <2>1. CASE h.res = "aborted"
    BY <1>3, <2>1 DEF AcceptDone, Turns, Held, HandlersAlone, Alone, OperationsAlone, ResourcesHold,
                     NoBodyAfterDestruct
  <2>2. CASE h.res # "aborted"
    <3>1. PICK c \in Conns :
            LET next == ops \cup {Operation(c, "accept", acceptor = "open")}
            IN  Accept(c) /\ (ops' = next \/ ops' = next \cup {SocketOp(h.conn, "header")})
      BY <1>3, <2>2 DEF AcceptDone, ReadRequest
    <3> DEFINE op == Operation(c, "accept", acceptor = "open")
               read == SocketOp(h.conn, "header")
    <3>2. op.conn = c /\ op.kind = "accept" /\ read.conn = h.conn /\ read.kind = "header"
      BY NewOperation DEF SocketOp, TypeOK
    <3>3. /\ c \notin alive /\ alive' = alive \cup {c} /\ connections' = connections \cup {c}
          /\ running' = running \ {h} /\ h.kind = "accept"
          /\ UNCHANGED <<sock, refs, runner>>
          /\ ops' = ops \cup {op} \/ ops' = (ops \cup {op}) \cup {read}
      BY <1>3, <3>1 DEF AcceptDone, Accept
    <3> HIDE DEF op, read
    <3>4. /\ \A o \in ops : o.conn # c
          /\ \A g \in running : g.conn # c
          /\ refs[c] = {}
      BY <3>3, Fresh DEF Turns
    <3>5. ~h.inResource /\ Alone(h) /\ h.conn # c
      BY <3>3, <3>4 DEF Turns, ResourcesHold, HandlersAlone
    <3>6. Held' /\ NoBodyAfterDestruct'
      BY <3>2, <3>3 DEF Turns, Held, NoBodyAfterDestruct, TypeOK
    <3>7. HandlersAlone'
      BY <3>2, <3>3, <3>4, <3>5 DEF Turns, HandlersAlone, Alone, TypeOK
    <3>8. OperationsAlone'
      BY <3>2, <3>3, <3>4, <3>5 DEF Turns, OperationsAlone, Alone, TypeOK
    <3>9. ResourcesHold'
      BY <3>3, <3>5 DEF Turns, ResourcesHold, Alone, TypeOK
    <3> QED BY <3>6, <3>7, <3>8, <3>9 DEF Turns
  <2> QED BY <2>1, <2>2
<1>4. ASSUME NEW h \in running, ReadTooLarge(h) PROVE Turns'
  <2> DEFINE op == SocketOp(h.conn, "reject")
  <2>1. op.conn = h.conn /\ op.kind = "reject"
    BY NewOperation DEF SocketOp, TypeOK
  <2> HIDE DEF op
  <2>2. running' = running \ {h} /\ ops' = ops \cup {op} /\ UNCHANGED <<alive, connections, sock, refs, runner>>
    BY <1>4 DEF ReadTooLarge, op
  <2>3. h.kind # "send" /\ ~h.inResource
    BY <1>4 DEF ReadTooLarge, IsRead
  <2>4. HandlersAlone' /\ OperationsAlone' /\ ResourcesHold'
    BY <2>1, <2>2, <2>3, HandsOn DEF Turns
  <2> QED BY <2>1, <2>2, <2>4 DEF Turns, Held, NoBodyAfterDestruct, TypeOK
<1>5. ASSUME NEW h \in running, ReadContent(h) PROVE Turns'
  <2> DEFINE op == SocketOp(h.conn, "body")
  <2>1. op.conn = h.conn /\ op.kind = "body"
    BY NewOperation DEF SocketOp, TypeOK
  <2> HIDE DEF op
  <2>2. running' = running \ {h} /\ ops' = ops \cup {op} /\ UNCHANGED <<alive, connections, sock, refs, runner>>
    BY <1>5 DEF ReadContent, op
  <2>3. h.kind # "send" /\ ~h.inResource
    BY <1>5 DEF ReadContent, IsRead
  <2>4. HandlersAlone' /\ OperationsAlone' /\ ResourcesHold'
    BY <2>1, <2>2, <2>3, HandsOn DEF Turns
  <2> QED BY <2>1, <2>2, <2>4 DEF Turns, Held, NoBodyAfterDestruct, TypeOK
<1>6. ASSUME NEW h \in running, Dispatch(h) PROVE Turns'
  <2>1. PICK g : /\ g = [h EXCEPT !.inResource = TRUE]
                 /\ running' = (running \ {h}) \cup {g} /\ h.kind \in {"header", "body"} /\ ~h.inResource
                 /\ refs' = [refs EXCEPT ![h.conn] = {"fn"}]
                 /\ UNCHANGED <<alive, connections, sock, ops, runner>>
    BY <1>6 DEF Dispatch, IsRead
  <2>2. g.conn = h.conn /\ g.kind = h.kind /\ g.inResource
    BY <2>1 DEF TypeOK
  <2>3. Alone(h)
    BY <2>1 DEF Turns, HandlersAlone
  <2>4. Held' /\ NoBodyAfterDestruct'
    BY <2>1, <2>2 DEF Turns, Held, NoBodyAfterDestruct, TypeOK
  <2>5. HandlersAlone'
    BY <2>1, <2>2, <2>3 DEF Turns, HandlersAlone, Alone, TypeOK
  <2>6. OperationsAlone'
    BY <2>1, <2>2, <2>3 DEF Turns, OperationsAlone, Alone, TypeOK
  <2>7. ResourcesHold'
    <3>1. \A x \in running' : x = g \/ (x \in running /\ x.conn # h.conn)
      BY <2>1, <2>3 DEF Alone
    <3>2. refs'[h.conn] = {"fn"} /\ \A c \in Conns \ {h.conn} : refs'[c] = refs[c]
      BY <2>1 DEF TypeOK
    <3>3. ASSUME NEW x \in running, x \in running', x.conn # h.conn, x.inResource
          PROVE  /\ x.kind \in {"header", "body"} /\ "fn" \in refs'[x.conn]
                 /\ \A y \in running' : y.conn = x.conn /\ y.inResource => y = x
      <4>1. /\ x.kind \in {"header", "body"} /\ "fn" \in refs[x.conn]
            /\ \A y \in running : y.conn = x.conn /\ y.inResource => y = x
        BY <3>3 DEF Turns, ResourcesHold
      <4>2. x.conn \in Conns
        BY <3>3 DEF TypeOK
      <4> QED BY <2>2, <3>1, <3>2, <3>3, <4>1, <4>2
    <3>4. /\ g.kind \in {"header", "body"} /\ "fn" \in refs'[g.conn]
          /\ \A y \in running' : y.conn = g.conn /\ y.inResource => y = g
      BY <2>1, <2>2, <3>1, <3>2
    <3> QED BY <3>1, <3>3, <3>4 DEF ResourcesHold
  <2> QED BY <2>4, <2>5, <2>6, <2>7 DEF Turns
<1>7. ASSUME NEW h \in running, FinalDone(h) PROVE Turns'
  <2> DEFINE op == SocketOp(h.conn, "header")
  <2>1. op.conn = h.conn /\ op.kind = "header"
    BY NewOperation DEF SocketOp, TypeOK
  <2> HIDE DEF op
  <2>2. running' = running \ {h} /\ UNCHANGED <<alive, connections, sock, refs, runner>>
    BY <1>7 DEF FinalDone
  <2>3. h.kind # "send" /\ ~h.inResource
    BY <1>7 DEF FinalDone, Turns, ResourcesHold
  <2>4. CASE ops' = ops \cup {op}
    <3>1. HandlersAlone' /\ OperationsAlone' /\ ResourcesHold'
      BY <2>1, <2>2, <2>3, <2>4, HandsOn DEF Turns
    <3> QED BY <2>1, <2>2, <2>4, <3>1 DEF Turns, Held, NoBodyAfterDestruct
  <2>5. CASE ops' = ops
    BY <2>2, <2>5 DEF Turns, Held, NoBodyAfterDestruct, HandlersAlone, Alone, OperationsAlone, ResourcesHold
  <2> QED BY <1>7, <2>4, <2>5 DEF FinalDone, ReadRequest, op
<1> USE DEF connVars, timeVars, ctlVars, TypeOK, SetTimeout, SocketOp, Kinds,
            Results, Turns, Held, HandlersAlone, Alone, OperationsAlone,
            ResourcesHold, NoBodyAfterDestruct
<1>8. ASSUME NEW o \in ops, PeerConnects(o) PROVE Turns'
  BY <1>8 DEF PeerConnects
<1>9. ASSUME NEW o \in ops, Transfer(o) PROVE Turns'
  BY <1>9 DEF Transfer
<1>10. ASSUME NEW o \in ops, Cancelled(o) PROVE Turns'
  BY <1>10 DEF Cancelled
<1>11. ASSUME NEW c \in Conns, Expire(c) PROVE Turns'
  BY <1>11 DEF Expire
<1>12. ASSUME NEW c \in Conns, TimedOut(c) PROVE Turns'
  BY <1>12 DEF TimedOut
<1>13. ASSUME NEW h \in running, ReadDropped(h) PROVE Turns'
  BY <1>13 DEF ReadDropped, IsRead
<1>14. ASSUME NEW h \in running, Upgrade(h) PROVE Turns'
  BY <1>14 DEF Upgrade, IsRead
<1>15. ASSUME NEW h \in running, ResourceReturns(h) PROVE Turns'
  BY <1>15, NewOperation, SMTT(20) DEF ResourceReturns, DropResponse
<1>16. ASSUME NEW h \in running, SendDone(h) PROVE Turns'
  BY <1>16, NewOperation DEF SendDone, DropResponse
<1>17. ASSUME NEW h \in running, RejectDone(h) PROVE Turns'
  BY <1>17 DEF RejectDone
<1>18. ASSUME NEW c \in Conns, Keep(c) PROVE Turns'
  BY <1>18 DEF Keep
<1>19. ASSUME NEW c \in Conns, SendPart(c) PROVE Turns'
  BY <1>19, NewOperation DEF SendPart, OpsOf
<1>20. ASSUME NEW c \in Conns, LetGo(c) PROVE Turns'
  BY <1>20, NewOperation DEF LetGo, DropResponse
<1>21. ASSUME NEW c \in Conns, Destroy(c) PROVE Turns'
  BY <1>21 DEF Destroy, Unreferenced, OpsOf, RunningOf
<1>22. CASE CallStop
  BY <1>22 DEF CallStop
<1>23. CASE Destruct
  BY <1>23 DEF Destruct
<1>24. CASE CloseAcceptor
  BY <1>24 DEF CloseAcceptor
<1>25. CASE Sweep
  BY <1>25 DEF Sweep
<1>26. CASE StopIo
  BY <1>26 DEF StopIo
<1>27. CASE FreeIo
  BY <1>27 DEF FreeIo
<1>28. CASE UNCHANGED vars
  BY <1>28 DEF vars
<1> QED
  BY <1>1, <1>2, <1>3, <1>4, <1>5, <1>6, <1>7, <1>8, <1>9, <1>10, <1>11, <1>12, <1>13, <1>14,
     <1>15, <1>16, <1>17, <1>18, <1>19, <1>20, <1>21, <1>22, <1>23, <1>24, <1>25, <1>26, <1>27, <1>28
     DEF Next, Network, User, Body, Handlers, Control

(* An operation that is started with its timer is timed, and the timers of    *)
(* other connections go on.                                                  *)
LEMMA NewWaitTimed ==
  ASSUME TypeOK, WaitIsTimed, NEW c \in Conns, NEW on, NEW op, op.conn = c,
         \A o \in ops : o.conn # c,
         (IF op.kind = "header" THEN setup.timeoutRequest ELSE setup.timeoutContent) => on,
         SetTimeout(c, on), ops' = ops \cup {op}, UNCHANGED <<sock, closing, setup>>
  PROVE  WaitIsTimed'
<1>1. on => c \in timer'
  BY DEF SetTimeout
<1>2. \A d \in timer : d # c => d \in timer'
  BY DEF SetTimeout
<1> QED BY <1>1, <1>2 DEF WaitIsTimed


(* A wait stays timed.                                                        *)
LEMMA NextTimed == TypeOK /\ Turns /\ WaitIsTimed /\ [Next]_vars => WaitIsTimed'
<1> SUFFICES ASSUME TypeOK /\ Turns /\ WaitIsTimed, [Next]_vars PROVE WaitIsTimed'
  OBVIOUS
<1> USE DEF Kinds
<1>1. CASE Start
  <2>1. PICK op \in [conn : Conns, kind : Kinds, res : Results] :
          op.kind = "accept" /\ ops' = ops \cup {op}
    BY <1>1, StartEffect
  <2> QED BY <1>1, <2>1 DEF Start, timeVars, WaitIsTimed
<1>2. ASSUME NEW h \in running, AcceptDone(h) PROVE WaitIsTimed'
  <2>1. h \in running /\ h.kind = "accept" /\ UNCHANGED <<sock, closing, setup>>
    BY <1>2 DEF AcceptDone, ctlVars
  <2>2. h.conn \in Conns /\ \A o \in ops : o.conn # h.conn
    BY <2>1 DEF Turns, HandlersAlone, Alone, ResourcesHold, TypeOK
  <2>3. CASE h.res = "aborted"
    BY <1>2, <2>1, <2>3 DEF AcceptDone, WaitIsTimed
  <2>4. CASE h.res # "aborted"
    <3>1. PICK c \in Conns \ alive, op, read \in [conn : Conns, kind : Kinds, res : Results] :
            /\ op.kind = "accept" /\ read.conn = h.conn /\ read.kind = "header"
            /\ \/ ops' = ops \cup {op} /\ UNCHANGED timer
               \/ ops' = (ops \cup {op}) \cup {read} /\ SetTimeout(h.conn, setup.timeoutRequest)
      BY <1>2, <2>4, AcceptEffect
    <3>2. setup.timeoutRequest /\ SetTimeout(h.conn, setup.timeoutRequest) => h.conn \in timer'
      BY DEF SetTimeout
    <3>3. \A d \in timer : d # h.conn => d \in timer'
      BY <3>1 DEF SetTimeout
    <3> QED BY <2>1, <2>2, <3>1, <3>2, <3>3 DEF WaitIsTimed
  <2> QED BY <2>3, <2>4
<1>3. ASSUME NEW h \in running, ReadTooLarge(h) PROVE WaitIsTimed'
  <2> DEFINE op == SocketOp(h.conn, "reject")
  <2>1. op.conn = h.conn /\ op.kind = "reject" /\ h.conn \in Conns
    BY NewOperation DEF SocketOp, TypeOK
  <2> HIDE DEF op
  <2>2. SetTimeout(h.conn, setup.timeoutContent) /\ ops' = ops \cup {op} /\ UNCHANGED <<sock, closing, setup>>
    BY <1>3 DEF ReadTooLarge, op, connVars, ctlVars
  <2>3. \A o \in ops : o.conn # h.conn
    BY <1>3 DEF ReadTooLarge, IsRead, Turns, HandlersAlone, Alone
  <2> QED BY <2>1, <2>2, <2>3, NewWaitTimed
<1>4. ASSUME NEW h \in running, ReadContent(h) PROVE WaitIsTimed'
  <2> DEFINE op == SocketOp(h.conn, "body")
  <2>1. op.conn = h.conn /\ op.kind = "body" /\ h.conn \in Conns
    BY NewOperation DEF SocketOp, TypeOK
  <2> HIDE DEF op
  <2>2. SetTimeout(h.conn, setup.timeoutContent) /\ ops' = ops \cup {op} /\ UNCHANGED <<sock, closing, setup>>
    BY <1>4 DEF ReadContent, op, connVars, ctlVars
  <2>3. \A o \in ops : o.conn # h.conn
    BY <1>4 DEF ReadContent, IsRead, Turns, HandlersAlone, Alone
  <2> QED BY <2>1, <2>2, <2>3, NewWaitTimed
<1>5. ASSUME NEW h \in running, FinalDone(h) PROVE WaitIsTimed'
  <2> DEFINE op == SocketOp(h.conn, "header")
  <2>1. op.conn = h.conn /\ op.kind = "header" /\ h.conn \in Conns
    BY NewOperation DEF SocketOp, TypeOK
  <2> HIDE DEF op
  <2>2. UNCHANGED <<sock, closing, setup>>
    BY <1>5 DEF FinalDone, connVars, ctlVars
  <2>3. \A o \in ops : o.conn # h.conn
    BY <1>5 DEF FinalDone, Turns, HandlersAlone, Alone, ResourcesHold
  <2>4. CASE SetTimeout(h.conn, setup.timeoutRequest) /\ ops' = ops \cup {op}
    BY <2>1, <2>2, <2>3, <2>4, NewWaitTimed
  <2>5. CASE UNCHANGED <<ops, timer>>
    BY <2>2, <2>5 DEF WaitIsTimed
  <2> QED BY <1>5, <2>4, <2>5 DEF FinalDone, ReadRequest, op
<1> USE DEF connVars, timeVars, ctlVars, TypeOK, SetTimeout, SocketOp, Kinds,
            Results, Turns, Held, HandlersAlone, Alone, OperationsAlone,
            ResourcesHold, WaitIsTimed
<1>6. ASSUME NEW o \in ops, PeerConnects(o) PROVE WaitIsTimed'
  BY <1>6 DEF PeerConnects
<1>7. ASSUME NEW o \in ops, Transfer(o) PROVE WaitIsTimed'
  BY <1>7 DEF Transfer
<1>8. ASSUME NEW o \in ops, Cancelled(o) PROVE WaitIsTimed'
  BY <1>8 DEF Cancelled
<1>9. ASSUME NEW c \in Conns, Expire(c) PROVE WaitIsTimed'
  BY <1>9 DEF Expire
<1>10. ASSUME NEW c \in Conns, TimedOut(c) PROVE WaitIsTimed'
  BY <1>10 DEF TimedOut
<1>11. ASSUME NEW o \in ops, Begin(o) PROVE WaitIsTimed'
  BY <1>11, NewOperation DEF Begin, DropResponse
<1>12. ASSUME NEW h \in running, ReadDropped(h) PROVE WaitIsTimed'
  BY <1>12 DEF ReadDropped, IsRead
<1>13. ASSUME NEW h \in running, Upgrade(h) PROVE WaitIsTimed'
  BY <1>13 DEF Upgrade, IsRead
<1>14. ASSUME NEW h \in running, Dispatch(h) PROVE WaitIsTimed'
  BY <1>14 DEF Dispatch, IsRead
<1>15. ASSUME NEW h \in running, ResourceReturns(h) PROVE WaitIsTimed'
  BY <1>15, NewOperation DEF ResourceReturns, DropResponse
<1>16. ASSUME NEW h \in running, SendDone(h) PROVE WaitIsTimed'
  BY <1>16, NewOperation DEF SendDone, DropResponse
<1>17. ASSUME NEW h \in running, RejectDone(h) PROVE WaitIsTimed'
  BY <1>17 DEF RejectDone
<1>18. ASSUME NEW c \in Conns, Keep(c) PROVE WaitIsTimed'
  BY <1>18 DEF Keep
<1>19. ASSUME NEW c \in Conns, SendPart(c) PROVE WaitIsTimed'
  BY <1>19, NewOperation DEF SendPart, OpsOf
<1>20. ASSUME NEW c \in Conns, LetGo(c) PROVE WaitIsTimed'
  BY <1>20, NewOperation DEF LetGo, DropResponse
<1>21. ASSUME NEW c \in Conns, Destroy(c) PROVE WaitIsTimed'
  BY <1>21 DEF Destroy, Unreferenced, OpsOf, RunningOf
<1>22. CASE CallStop
  BY <1>22 DEF CallStop
<1>23. CASE Destruct
  BY <1>23 DEF Destruct
<1>24. CASE CloseAcceptor
  BY <1>24 DEF CloseAcceptor
<1>25. CASE Sweep
  BY <1>25 DEF Sweep
<1>26. CASE StopIo
  BY <1>26 DEF StopIo
<1>27. CASE FreeIo
  BY <1>27 DEF FreeIo
<1>28. CASE UNCHANGED vars
  BY <1>28 DEF vars
<1> QED
  BY <1>1, <1>2, <1>3, <1>4, <1>5, <1>6, <1>7, <1>8, <1>9, <1>10, <1>11, <1>12, <1>13, <1>14,
     <1>15, <1>16, <1>17, <1>18, <1>19, <1>20, <1>21, <1>22, <1>23, <1>24, <1>25, <1>26, <1>27, <1>28
     DEF Next, Network, User, Body, Handlers, Control

(* What on_upgrade takes away is out of connections in the same step.        *)
LEMMA NextNotMoved == TypeOK /\ Turns /\ UpgradedNotSwept /\ [Next]_vars => UpgradedNotSwept'
<1> SUFFICES ASSUME TypeOK /\ Turns /\ UpgradedNotSwept, [Next]_vars PROVE UpgradedNotSwept'
  OBVIOUS
<1> USE DEF connVars, timeVars, ctlVars, TypeOK, Turns, Held, UpgradedNotSwept
<1>1. CASE Start
  BY <1>1, NewOperation DEF Start, Accept
<1>2. ASSUME NEW o \in ops, PeerConnects(o) PROVE UpgradedNotSwept'
  BY <1>2 DEF PeerConnects
<1>3. ASSUME NEW o \in ops, Transfer(o) PROVE UpgradedNotSwept'
  BY <1>3 DEF Transfer
<1>4. ASSUME NEW o \in ops, Cancelled(o) PROVE UpgradedNotSwept'
  BY <1>4 DEF Cancelled
<1>5. ASSUME NEW c \in Conns, Expire(c) PROVE UpgradedNotSwept'
  BY <1>5 DEF Expire
<1>6. ASSUME NEW c \in Conns, TimedOut(c) PROVE UpgradedNotSwept'
  BY <1>6 DEF TimedOut
<1>7. ASSUME NEW o \in ops, Begin(o) PROVE UpgradedNotSwept'
  BY <1>7, NewOperation DEF Begin, DropResponse
<1>8. ASSUME NEW h \in running, AcceptDone(h) PROVE UpgradedNotSwept'
  BY <1>8, NewOperation DEF AcceptDone, Accept, ReadRequest
<1>9. ASSUME NEW h \in running, ReadDropped(h) PROVE UpgradedNotSwept'
  BY <1>9 DEF ReadDropped, IsRead
<1>10. ASSUME NEW h \in running, ReadTooLarge(h) PROVE UpgradedNotSwept'
  BY <1>10, NewOperation DEF ReadTooLarge, IsRead
<1>11. ASSUME NEW h \in running, ReadContent(h) PROVE UpgradedNotSwept'
  BY <1>11, NewOperation DEF ReadContent, IsRead
<1>12. ASSUME NEW h \in running, Upgrade(h) PROVE UpgradedNotSwept'
  BY <1>12 DEF Upgrade, IsRead
<1>13. ASSUME NEW h \in running, Dispatch(h) PROVE UpgradedNotSwept'
  BY <1>13 DEF Dispatch, IsRead
<1>14. ASSUME NEW h \in running, ResourceReturns(h) PROVE UpgradedNotSwept'
  BY <1>14, NewOperation DEF ResourceReturns, DropResponse
<1>15. ASSUME NEW h \in running, SendDone(h) PROVE UpgradedNotSwept'
  BY <1>15, NewOperation DEF SendDone, DropResponse
<1>16. ASSUME NEW h \in running, FinalDone(h) PROVE UpgradedNotSwept'
  BY <1>16, NewOperation DEF FinalDone, ReadRequest
<1>17. ASSUME NEW h \in running, RejectDone(h) PROVE UpgradedNotSwept'
  BY <1>17 DEF RejectDone
<1>18. ASSUME NEW c \in Conns, Keep(c) PROVE UpgradedNotSwept'
  BY <1>18 DEF Keep
<1>19. ASSUME NEW c \in Conns, SendPart(c) PROVE UpgradedNotSwept'
  BY <1>19, NewOperation DEF SendPart, OpsOf
<1>20. ASSUME NEW c \in Conns, LetGo(c) PROVE UpgradedNotSwept'
  BY <1>20, NewOperation DEF LetGo, DropResponse
<1>21. ASSUME NEW c \in Conns, Destroy(c) PROVE UpgradedNotSwept'
  BY <1>21 DEF Destroy, Unreferenced, OpsOf, RunningOf
<1>22. CASE CallStop
  BY <1>22 DEF CallStop
<1>23. CASE Destruct
  BY <1>23 DEF Destruct
<1>24. CASE CloseAcceptor
  BY <1>24 DEF CloseAcceptor
<1>25. CASE Sweep
  BY <1>25 DEF Sweep
<1>26. CASE StopIo
  BY <1>26 DEF StopIo
<1>27. CASE FreeIo
  BY <1>27 DEF FreeIo
<1>28. CASE UNCHANGED vars
  BY <1>28 DEF vars
<1> QED
  BY <1>1, <1>2, <1>3, <1>4, <1>5, <1>6, <1>7, <1>8, <1>9, <1>10, <1>11, <1>12, <1>13, <1>14,
     <1>15, <1>16, <1>17, <1>18, <1>19, <1>20, <1>21, <1>22, <1>23, <1>24, <1>25, <1>26, <1>27, <1>28
     DEF Next, Network, User, Body, Handlers, Control

(***************************************************************************)
(* The accept chains.                                                      *)
(***************************************************************************)

(* The accept operations and handlers under way. *)
Accepts == {x \in ops \cup running : x.kind = "accept"}
Chains == IsFiniteSet(Accepts) /\ Cardinality(Accepts) <= starts

(* One element for another leaves a set as large as it was. *)
LEMMA OneForAnother ==
  ASSUME NEW S, NEW T, NEW x \in S, NEW y, NEW n \in Nat,
         IsFiniteSet(S), Cardinality(S) <= n, T \subseteq (S \ {x}) \cup {y}
  PROVE  IsFiniteSet(T) /\ Cardinality(T) <= n
<1>1. PICK R : R = S \ {x}
  OBVIOUS
<1>2. IsFiniteSet(R) /\ Cardinality(R) = Cardinality(S) - 1
  BY <1>1, FS_RemoveElement
<1>3. /\ IsFiniteSet(R \cup {y})
      /\ Cardinality(R \cup {y}) = IF y \in R THEN Cardinality(R) ELSE Cardinality(R) + 1
  BY <1>2, FS_AddElement
<1>4. IsFiniteSet(T) /\ Cardinality(T) <= Cardinality(R \cup {y})
  BY <1>1, <1>3, FS_Subset
<1>5. Cardinality(S) \in Nat /\ Cardinality(R) \in Nat /\ Cardinality(T) \in Nat
  BY <1>2, <1>4, FS_CardinalityType
<1> QED BY <1>2, <1>3, <1>4, <1>5

(* A step that gives up the place of an accept before it takes one. *)
HandedOn == \/ Accepts' \subseteq Accepts
            \/ \E x \in Accepts : \E y : Accepts' \subseteq (Accepts \ {x}) \cup {y}

LEMMA HandedOnKeeps ==
  ASSUME starts \in Nat, Chains, starts' = starts, HandedOn
  PROVE  Chains'
<1>1. Cardinality(Accepts) \in Nat
  BY FS_CardinalityType DEF Chains
<1>2. CASE Accepts' \subseteq Accepts
  <2>1. IsFiniteSet(Accepts') /\ Cardinality(Accepts') <= Cardinality(Accepts)
    BY <1>2, FS_Subset DEF Chains
  <2>2. Cardinality(Accepts') \in Nat
    BY <2>1, FS_CardinalityType
  <2> QED BY <1>1, <2>1, <2>2 DEF Chains
<1>3. ASSUME NEW x \in Accepts, NEW y, Accepts' \subseteq (Accepts \ {x}) \cup {y}
      PROVE  Chains'
  BY <1>3, OneForAnother DEF Chains
<1> QED BY <1>2, <1>3 DEF HandedOn

(* A start adds one chain and counts one. *)
LEMMA StartCounts ==
  ASSUME TypeOK, Chains, Start
  PROVE  Chains'
<1>1. PICK op : ops' = ops \cup {op}
  BY StartEffect
<1>2. Accepts' \subseteq Accepts \cup {op} /\ starts' = starts + 1
  BY <1>1 DEF Start, Accepts
<1>3. /\ IsFiniteSet(Accepts \cup {op})
      /\ Cardinality(Accepts \cup {op}) <= Cardinality(Accepts) + 1
      /\ Cardinality(Accepts) \in Nat
  BY FS_AddElement, FS_CardinalityType DEF Chains
<1>4. IsFiniteSet(Accepts') /\ Cardinality(Accepts') <= Cardinality(Accepts \cup {op})
  BY <1>2, <1>3, FS_Subset
<1>5. /\ Cardinality(Accepts') \in Nat /\ Cardinality(Accepts \cup {op}) \in Nat
      /\ starts \in Nat
  BY <1>3, <1>4, FS_CardinalityType DEF TypeOK
<1> QED BY <1>2, <1>3, <1>4, <1>5 DEF Chains

(* stop() aborts the pending accepts: each becomes one that has completed. *)
LEMMA AbortKeeps ==
  ASSUME TypeOK, OperationsAlone, Chains, CloseAcceptor
  PROVE  Chains'
<1> DEFINE aborted(o) == IF o.kind = "accept" /\ o.res = "pending"
                         THEN [o EXCEPT !.res = "aborted"] ELSE o
           f == [x \in Accepts |-> IF x \in ops THEN aborted(x) ELSE x]
           T == {f[x] : x \in Accepts}
<1>1. f \in Surjection(Accepts, T)
  BY DEF Surjection
<1>2. IsFiniteSet(T) /\ Cardinality(T) <= Cardinality(Accepts)
  BY <1>1, FS_Surjection DEF Chains
<1>3. Accepts' \subseteq T
  <2>1. ops' = {aborted(o) : o \in ops} /\ running' = running
    BY DEF CloseAcceptor
  <2>2. ASSUME NEW o \in ops, aborted(o).kind = "accept" PROVE aborted(o) \in T
    <3>1. o.kind = "accept"
      BY <2>2 DEF TypeOK
    <3>2. o \in Accepts /\ f[o] = aborted(o)
      BY <3>1 DEF Accepts
    <3> QED BY <3>2
  <2>3. ASSUME NEW h \in running, h.kind = "accept" PROVE h \in T
    <3>1. h \notin ops
      BY <2>3 DEF OperationsAlone
    <3>2. h \in Accepts /\ f[h] = h
      BY <2>3, <3>1 DEF Accepts
    <3> QED BY <3>2
  <2> HIDE DEF aborted, T
  <2> QED BY <2>1, <2>2, <2>3 DEF Accepts
<1> HIDE DEF T
<1>4. IsFiniteSet(Accepts') /\ Cardinality(Accepts') <= Cardinality(T)
  BY <1>2, <1>3, FS_Subset
<1>5. /\ Cardinality(Accepts') \in Nat /\ Cardinality(T) \in Nat
      /\ Cardinality(Accepts) \in Nat /\ starts \in Nat /\ starts' = starts
  BY <1>2, <1>4, FS_CardinalityType DEF TypeOK, Chains, CloseAcceptor
<1> QED BY <1>2, <1>4, <1>5 DEF Chains

(* A handler other than accept's starts no accept. *)
LEMMA NextChains == TypeOK /\ Turns /\ Chains /\ [Next]_vars => Chains'
<1> SUFFICES ASSUME TypeOK, Turns, Chains, [Next]_vars PROVE Chains'
  OBVIOUS
<1>0. starts \in Nat
  BY DEF TypeOK
<1> USE DEF connVars, timeVars, ctlVars, Accepts
<1>1. CASE Start
  BY <1>1, StartCounts
<1>2. CASE CloseAcceptor
  BY <1>2, AbortKeeps DEF Turns
<1>3. ASSUME NEW h \in running, AcceptDone(h) PROVE Chains'
  <2>1. h \in Accepts /\ running' = running \ {h} /\ starts' = starts
    BY <1>3 DEF AcceptDone
  <2>2. CASE h.res = "aborted"
    BY <1>0, <1>3, <2>1, <2>2, HandedOnKeeps DEF AcceptDone, HandedOn
  <2>3. CASE h.res # "aborted"
    <3>1. PICK c \in Conns \ alive, op, read \in [conn : Conns, kind : Kinds, res : Results] :
            /\ read.kind = "header"
            /\ \/ ops' = ops \cup {op} /\ UNCHANGED timer
               \/ ops' = (ops \cup {op}) \cup {read} /\ SetTimeout(h.conn, setup.timeoutRequest)
      BY <1>3, <2>3, AcceptEffect
    <3>2. h \notin ops
      BY <1>3 DEF AcceptDone, Turns, OperationsAlone
    <3>3. Accepts' \subseteq (Accepts \ {h}) \cup {op}
      BY <2>1, <3>1, <3>2
    <3> QED BY <1>0, <2>1, <3>3, HandedOnKeeps DEF HandedOn
  <2> QED BY <2>2, <2>3
<1>4. ASSUME NEW o \in ops, PeerConnects(o) PROVE Chains'
  <2>1. o \in Accepts /\ starts' = starts
    BY <1>4 DEF PeerConnects
  <2>2. o \notin running
    BY <1>4 DEF PeerConnects, Turns, OperationsAlone
  <2>3. PICK p : ops' = (ops \ {o}) \cup {p} /\ running' = running
    BY <1>4 DEF PeerConnects
  <2>4. Accepts' \subseteq (Accepts \ {o}) \cup {p}
    BY <2>2, <2>3
  <2> QED BY <1>0, <2>1, <2>4, HandedOnKeeps DEF HandedOn
<1>5. ASSUME NEW o \in ops, Begin(o) PROVE Chains'
  <2>1. starts' = starts
    BY <1>5 DEF Begin
  <2>2. CASE runner = "open"
    <3>1. PICK h : /\ h = [conn |-> o.conn, kind |-> o.kind, res |-> o.res, inResource |-> FALSE]
                   /\ running' = running \cup {h} /\ ops' = ops \ {o}
      BY <1>5, <2>2 DEF Begin
    <3>2. h.kind = o.kind
      BY <3>1
    <3>3. CASE o.kind = "accept"
      <4>1. o \notin running
        BY <3>3 DEF Turns, OperationsAlone, Kinds
      <4>2. o \in Accepts /\ Accepts' \subseteq (Accepts \ {o}) \cup {h}
        BY <3>1, <3>3, <4>1
      <4> QED BY <1>0, <2>1, <4>2, HandedOnKeeps DEF HandedOn
    <3>4. CASE o.kind # "accept"
      <4>1. Accepts' \subseteq Accepts
        BY <3>1, <3>2, <3>4
      <4> QED BY <1>0, <2>1, <4>1, HandedOnKeeps DEF HandedOn
    <3> QED BY <3>3, <3>4
  <2>3. CASE runner # "open"
    <3>1. PICK op : op.kind = "final" /\ ops' \subseteq (ops \ {o}) \cup {op} /\ running' = running
      BY <1>5, <2>3, NewOperation DEF Begin, DropResponse, SocketOp, TypeOK, Kinds
    <3>2. Accepts' \subseteq Accepts
      BY <3>1
    <3> QED BY <1>0, <2>1, <3>2, HandedOnKeeps DEF HandedOn
  <2> QED BY <2>2, <2>3
<1> DEFINE Fewer == Accepts' \subseteq Accepts /\ starts' = starts
<1>6. ASSUME NEW o \in ops, Transfer(o) PROVE Fewer
  BY <1>6 DEF Transfer, TypeOK
<1>7. ASSUME NEW o \in ops, Cancelled(o) PROVE Fewer
  BY <1>7 DEF Cancelled, TypeOK
<1>8. ASSUME NEW c \in Conns, Expire(c) PROVE Fewer
  BY <1>8 DEF Expire
<1>9. ASSUME NEW c \in Conns, TimedOut(c) PROVE Fewer
  BY <1>9 DEF TimedOut
<1>10. ASSUME NEW h \in running, ReadDropped(h) PROVE Fewer
  BY <1>10 DEF ReadDropped, IsRead
<1>11. ASSUME NEW h \in running, ReadTooLarge(h) PROVE Fewer
  BY <1>11, NewOperation DEF ReadTooLarge, IsRead, SocketOp, TypeOK, Kinds
<1>12. ASSUME NEW h \in running, ReadContent(h) PROVE Fewer
  BY <1>12, NewOperation DEF ReadContent, IsRead, SocketOp, TypeOK, Kinds
<1>13. ASSUME NEW h \in running, Upgrade(h) PROVE Fewer
  BY <1>13 DEF Upgrade, IsRead
<1>14. ASSUME NEW h \in running, Dispatch(h) PROVE Fewer
  BY <1>14 DEF Dispatch, IsRead, TypeOK
<1>15. ASSUME NEW h \in running, ResourceReturns(h) PROVE Fewer
  BY <1>15, NewOperation DEF ResourceReturns, DropResponse, SocketOp, TypeOK, Kinds
<1>16. ASSUME NEW h \in running, SendDone(h) PROVE Fewer
  BY <1>16, NewOperation DEF SendDone, DropResponse, SocketOp, TypeOK, Kinds
<1>17. ASSUME NEW h \in running, FinalDone(h) PROVE Fewer
  BY <1>17, NewOperation DEF FinalDone, ReadRequest, SocketOp, TypeOK, Kinds
<1>18. ASSUME NEW h \in running, RejectDone(h) PROVE Fewer
  BY <1>18 DEF RejectDone
<1>19. ASSUME NEW c \in Conns, Keep(c) PROVE Fewer
  BY <1>19 DEF Keep
<1>20. ASSUME NEW c \in Conns, SendPart(c) PROVE Fewer
  BY <1>20, NewOperation DEF SendPart, SocketOp, TypeOK, Kinds
<1>21. ASSUME NEW c \in Conns, LetGo(c) PROVE Fewer
  BY <1>21, NewOperation DEF LetGo, DropResponse, SocketOp, TypeOK, Kinds
<1>22. ASSUME NEW c \in Conns, Destroy(c) PROVE Fewer
  BY <1>22 DEF Destroy
<1>23. ASSUME CallStop PROVE Fewer
  BY <1>23 DEF CallStop
<1>24. ASSUME Destruct PROVE Fewer
  BY <1>24 DEF Destruct
<1>25. ASSUME Sweep PROVE Fewer
  BY <1>25 DEF Sweep
<1>26. ASSUME StopIo PROVE Fewer
  BY <1>26 DEF StopIo
<1>27. ASSUME FreeIo PROVE Fewer
  BY <1>27 DEF FreeIo
<1>28. ASSUME UNCHANGED vars PROVE Fewer
  BY <1>28 DEF vars
<1>29. Fewer => Chains'
  BY <1>0, HandedOnKeeps DEF HandedOn
<1> HIDE DEF Fewer
<1> QED
  BY <1>1, <1>2, <1>3, <1>4, <1>5, <1>6, <1>7, <1>8, <1>9, <1>10, <1>11, <1>12, <1>13, <1>14, <1>15, <1>16, <1>17, <1>18, <1>19, <1>20, <1>21, <1>22, <1>23, <1>24, <1>25, <1>26, <1>27, <1>28, <1>29
     DEF Next, Network, User, Body, Handlers, Control

(* A step after which no peer is expected and no connection served that was   *)
(* not before, and which takes none that is out of connections.              *)
Calm ==
  /\ UNCHANGED <<starts, acceptor>> /\ alive' \subseteq alive /\ connections' \subseteq connections
  /\ ctl' = ctl \/ ctl' = "closing" \/ {ctl, ctl'} \subseteq Past
  /\ \A o \in ops' : Expected(o) => o \in ops /\ (o.conn \in connections => o.conn \in connections')
  /\ \A c \in Conns : sock'[c] = "open" =>
       sock[c] = "open" /\ (Busy(c)' => Busy(c) /\ (c \in connections => c \in connections'))

LEMMA CalmKeeps ==
  ASSUME TypeOK, Overlooking, Calm
  PROVE  Overlooking'
<1>1. \A c \in Conns : Overlooked(c)' => Overlooked(c)
  BY DEF Overlooked, Calm
<1>2. \A o \in ops' : Expected(o) => o \in ops
  BY DEF Calm
<1>3. /\ (acceptor = "open" => ctl \in {"serving", "closing"})'
      /\ (\A o \in ops : o.kind = "accept" /\ o.res = "pending" => acceptor = "open" /\ o.conn \in connections)'
      /\ (starts = 0 => alive = {})'
  BY <1>2 DEF Overlooking, Calm, Expected, Past
<1>4. ASSUME starts' = 1
      PROVE  /\ (\A o \in ops : Expected(o) /\ o.conn \notin connections => acceptor = "closed")'
             /\ (\A c, d \in Conns : Overlooked(c) /\ Overlooked(d) => c = d)'
             /\ (\A c \in Conns : Overlooked(c) => acceptor = "closed" /\ \A o \in ops : ~Expected(o))'
  <2>1. starts = 1
    BY <1>4 DEF Calm
  <2>2. (\A o \in ops : Expected(o) /\ o.conn \notin connections => acceptor = "closed")'
    BY <1>2, <2>1 DEF Overlooking, Calm, Expected
  <2>3. (\A c, d \in Conns : Overlooked(c) /\ Overlooked(d) => c = d)'
    BY <1>1, <2>1 DEF Overlooking
  <2>4. (\A c \in Conns : Overlooked(c) => acceptor = "closed" /\ \A o \in ops : ~Expected(o))'
    BY <1>1, <1>2, <2>1 DEF Overlooking, Calm, Expected
  <2> QED BY <2>2, <2>3, <2>4
<1>5. ASSUME starts' = 1, ctl' \in Past
      PROVE  /\ (\A c \in connections : sock[c] # "open")'
             /\ (\A o \in ops : Expected(o) => o.conn \notin connections)'
  BY <1>2, <1>5 DEF Overlooking, Calm, Past, TypeOK, Expected
<1> QED BY <1>3, <1>4, <1>5 DEF Overlooking

(* With one start there is one accept at a time. *)
LEMMA OneAccept ==
  ASSUME Chains, starts = 1, NEW x \in ops \cup running, NEW y \in ops \cup running,
         x.kind = "accept", y.kind = "accept"
  PROVE  x = y
<1> SUFFICES ASSUME x # y PROVE FALSE
  OBVIOUS
<1>1. {x, y} \subseteq Accepts
  BY DEF Accepts
<1>2. Cardinality({x, y}) <= Cardinality(Accepts) /\ Cardinality(Accepts) <= 1
  <2>1. IsFiniteSet(Accepts) /\ Cardinality(Accepts) <= 1
    BY DEF Chains
  <2> QED BY <1>1, <2>1, FS_Subset
<1>3. Cardinality({x}) = 1 /\ IsFiniteSet({x})
  BY FS_Singleton
<1>4. Cardinality({x} \cup {y}) = 2
  <2>1. PICK R : R = {x}
    OBVIOUS
  <2>2. IsFiniteSet(R) /\ Cardinality(R) = 1 /\ y \notin R
    BY <1>3, <2>1
  <2>3. Cardinality(R \cup {y}) = Cardinality(R) + 1
    BY <2>2, FS_AddElement
  <2> QED BY <2>1, <2>2, <2>3
<1>5. {x} \cup {y} = {x, y} /\ Cardinality(Accepts) \in Nat
  BY FS_CardinalityType DEF Chains
<1> QED BY <1>2, <1>4, <1>5

(* The steps that let nobody in. *)
LEMMA CalmSteps ==
  ASSUME TypeOK, Turns,
         \/ \E o \in ops : Transfer(o) \/ Cancelled(o)
         \/ \E c \in Conns : Expire(c) \/ TimedOut(c) \/ Destroy(c)
         \/ User \/ CallStop \/ Destruct \/ StopIo \/ FreeIo \/ UNCHANGED vars
         \/ \E h \in running : Body(h) /\ ~AcceptDone(h)
         \/ \E o \in ops : Begin(o) /\ (o.kind # "accept" \/ o.res # "ok")
  PROVE  Calm
<1> USE DEF Calm, Busy, Expected, Past, TypeOK, connVars, timeVars, ctlVars, Kinds, Results
<1>1. ASSUME NEW o \in ops, Transfer(o) \/ Cancelled(o) PROVE Calm
  BY <1>1 DEF Transfer, Cancelled
<1>2. ASSUME NEW c \in Conns, Expire(c) \/ TimedOut(c) PROVE Calm
  BY <1>2 DEF Expire, TimedOut
<1>3. ASSUME NEW c \in Conns, Destroy(c) PROVE Calm
  BY <1>3 DEF Destroy, Unreferenced, OpsOf, RunningOf
<1>4. ASSUME NEW c \in Conns, Keep(c) PROVE Calm
  BY <1>4 DEF Keep
<1>5. ASSUME NEW c \in Conns, SendPart(c) PROVE Calm
  BY <1>5, NewOperation DEF SendPart, SocketOp
<1>6. ASSUME NEW c \in Conns, LetGo(c) PROVE Calm
  BY <1>6, NewOperation DEF LetGo, DropResponse, SocketOp
<1>7. CASE CallStop \/ Destruct \/ StopIo \/ UNCHANGED vars
  BY <1>7 DEF CallStop, Destruct, StopIo, vars
<1>8. CASE FreeIo
  BY <1>8 DEF FreeIo
<1>9. ASSUME NEW h \in running, Body(h), ~AcceptDone(h) PROVE Calm
  <2>1. CASE ReadDropped(h) \/ Dispatch(h) \/ RejectDone(h)
    BY <2>1 DEF ReadDropped, Dispatch, RejectDone, IsRead
  <2>2. CASE Upgrade(h)
    <3>1. Alone(h)
      BY <2>2 DEF Upgrade, IsRead, Turns, HandlersAlone
    <3>2. /\ UNCHANGED <<starts, acceptor, ctl, alive, ops, refs>> /\ running' = running \ {h}
          /\ connections' = connections \ {h.conn}
          /\ \A c \in Conns : sock'[c] = "open" => sock[c] = "open"
      BY <2>2 DEF Upgrade
    <3>3. ~Busy(h.conn)'
      BY <3>1, <3>2 DEF Alone
    <3>4. \A o \in ops : o.conn # h.conn
      BY <3>1 DEF Alone
    <3> HIDE DEF Busy
    <3>5. \A c \in Conns : Busy(c)' => Busy(c)
      BY <3>2 DEF Busy
    <3> QED BY <3>2, <3>3, <3>4, <3>5
  <2>3. CASE ReadTooLarge(h) \/ ReadContent(h)
    <3>1. PICK op : op.conn = h.conn /\ op.kind \in {"reject", "body"} /\ ops' = ops \cup {op}
      <4>1. PICK kind \in {"reject", "body"} : ops' = ops \cup {SocketOp(h.conn, kind)}
        BY <2>3 DEF ReadTooLarge, ReadContent
      <4>2. SocketOp(h.conn, kind).conn = h.conn /\ SocketOp(h.conn, kind).kind = kind
        BY DEF SocketOp, Operation
      <4> QED BY <4>1, <4>2
    <3>2. UNCHANGED <<starts, acceptor, ctl, connVars, refs>> /\ running' = running \ {h}
      BY <2>3 DEF ReadTooLarge, ReadContent
    <3> QED BY <3>1, <3>2
  <2>4. CASE ResourceReturns(h) \/ SendDone(h)
    BY <2>4, NewOperation DEF ResourceReturns, SendDone, DropResponse, SocketOp
  <2>5. CASE FinalDone(h)
    BY <2>5, NewOperation DEF FinalDone, ReadRequest, SocketOp
  <2> QED BY <1>9, <2>1, <2>2, <2>3, <2>4, <2>5 DEF Body
<1>10. ASSUME NEW o \in ops, Begin(o), o.kind # "accept" \/ o.res # "ok" PROVE Calm
  <2>1. /\ UNCHANGED <<starts, acceptor, ctl, alive, connections, refs, sock>>
    BY <1>10 DEF Begin
  <2>2. \A h \in running' : h \in running \/ h.conn = o.conn
    BY <1>10 DEF Begin
  <2>3. \A p \in ops' : p \in ops \/ (p.conn = o.conn /\ p.kind = "final")
    BY <1>10, NewOperation DEF Begin, DropResponse, SocketOp
  <2> QED BY <2>1, <2>2, <2>3
<1> QED BY <1>1, <1>2, <1>3, <1>4, <1>5, <1>6, <1>7, <1>8, <1>9, <1>10 DEF User

(* stop() sees what it is to see. *)
LEMMA NextOverlooking == TypeOK /\ Turns /\ Chains /\ Overlooking /\ [Next]_vars => Overlooking'
<1> SUFFICES ASSUME TypeOK, Turns, Chains, Overlooking, [Next]_vars PROVE Overlooking'
  OBVIOUS
<1>1. CASE Start
  <2>1. PICK c \in Conns \ alive, op \in [conn : Conns, kind : Kinds, res : Results] :
          /\ op.conn = c /\ op.kind = "accept"
          /\ alive' = alive \cup {c} /\ connections' = connections \cup {c} /\ ops' = ops \cup {op}
    BY <1>1, StartEffect
  <2>2. /\ acceptor' = "open" /\ ctl = "stopped" /\ ctl' = "serving" /\ starts' = starts + 1
        /\ UNCHANGED <<sock, running, refs>> /\ starts \in Nat /\ acceptor = "closed"
    BY <1>1 DEF Start, TypeOK, Overlooking
  <2>3. ASSUME starts' = 1 PROVE ops = {} /\ \A d \in Conns : sock'[d] # "open"
    <3>1. alive = {}
      BY <2>2, <2>3 DEF Overlooking
    <3> QED BY <2>2, <3>1 DEF Turns, Held
  <2>4. \A o \in ops : ~(o.kind = "accept" /\ o.res = "pending")
    BY <2>2 DEF Overlooking
  <2> QED BY <2>1, <2>2, <2>3, <2>4 DEF Overlooking, Overlooked, Past
<1>2. ASSUME NEW h \in running, AcceptDone(h) PROVE Overlooking'
  <2>1. UNCHANGED <<sock, refs, acceptor, ctl, starts>> /\ running' = running \ {h}
    BY <1>2 DEF AcceptDone, ctlVars
  <2>2. CASE h.res = "aborted"
    <3>1. UNCHANGED <<alive, connections, ops>>
      BY <1>2, <2>2 DEF AcceptDone
    <3>2. Calm
      BY <2>1, <3>1 DEF Calm, Busy
    <3> QED BY <3>2, CalmKeeps
  <2>3. CASE h.res # "aborted"
    <3>1. PICK c \in Conns \ alive, op, read \in [conn : Conns, kind : Kinds, res : Results] :
            /\ op.conn = c /\ op.kind = "accept" /\ (op.res = "pending" => acceptor = "open")
            /\ read.conn = h.conn /\ read.kind = "header"
            /\ alive' = alive \cup {c} /\ connections' = connections \cup {c}
            /\ ops' = ops \cup {op} \/ ops' = (ops \cup {op}) \cup {read}
      BY <1>2, <2>3, AcceptEffect
    <3>2. op.res # "ok"
      <4>1. PICK d \in Conns : /\ Accept(d)
                               /\ \/ ops' = ops \cup {Operation(d, "accept", acceptor = "open")}
                                  \/ ops' = (ops \cup {Operation(d, "accept", acceptor = "open")})
                                              \cup {SocketOp(h.conn, "header")}
        BY <1>2, <2>3 DEF AcceptDone, ReadRequest
      <4>2. op \in ops' /\ op \notin ops
        BY <3>1 DEF Turns, Held
      <4>3. /\ Operation(d, "accept", acceptor = "open").res # "ok"
            /\ SocketOp(h.conn, "header").res # "ok"
        BY DEF Operation, SocketOp
      <4> QED BY <4>1, <4>2, <4>3
    <3>3. sock[c] = "none" /\ h.conn \in Conns
      BY <3>1 DEF Turns, Held, TypeOK
    <3>4. \A d \in Conns : Overlooked(d)' => Overlooked(d)
      BY <2>1, <3>1, <3>3 DEF Overlooked, Busy
    <3>5. \A o \in ops' : Expected(o) => o \in ops \/ (o = op /\ acceptor = "open")
      BY <3>1, <3>2 DEF Expected
    <3>6. \A d \in alive : d # c
      BY <3>1
    <3>7. /\ (acceptor = "open" => ctl \in {"serving", "closing"})'
          /\ (\A o \in ops : o.kind = "accept" /\ o.res = "pending" => acceptor = "open" /\ o.conn \in connections)'
          /\ (starts = 0 => alive = {})'
      BY <2>1, <3>1 DEF Overlooking, Turns, Held
    <3>8. ASSUME starts' = 1
          PROVE  /\ (\A o \in ops : Expected(o) /\ o.conn \notin connections => acceptor = "closed")'
                 /\ (\A d, e \in Conns : Overlooked(d) /\ Overlooked(e) => d = e)'
                 /\ (\A d \in Conns : Overlooked(d) => acceptor = "closed" /\ \A o \in ops : ~Expected(o))'
      <4>1. starts = 1
        BY <2>1, <3>8
      <4>2. (\A o \in ops : Expected(o) /\ o.conn \notin connections => acceptor = "closed")'
        BY <2>1, <3>1, <3>5, <4>1 DEF Overlooking, Expected
      <4>3. (\A d, e \in Conns : Overlooked(d) /\ Overlooked(e) => d = e)'
        BY <3>4, <4>1 DEF Overlooking
      <4>4. (\A d \in Conns : Overlooked(d) => acceptor = "closed" /\ \A o \in ops : ~Expected(o))'
        BY <2>1, <3>4, <3>5, <4>1 DEF Overlooking, Expected
      <4> QED BY <4>2, <4>3, <4>4
    <3>9. ASSUME starts' = 1, ctl' \in Past
          PROVE  /\ (\A d \in connections : sock[d] # "open")'
                 /\ (\A o \in ops : Expected(o) => o.conn \notin connections)'
      <4>1. acceptor # "open" /\ starts = 1 /\ ctl \in Past
        BY <2>1, <3>9 DEF Overlooking, Past
      <4>2. (\A d \in connections : sock[d] # "open")'
        BY <2>1, <3>1, <3>3, <4>1 DEF Overlooking
      <4>3. ASSUME NEW o \in ops', Expected(o) PROVE o.conn \notin connections'
        BY <3>1, <3>5, <4>1, <4>3 DEF Overlooking, Turns, Held, Expected
      <4> QED BY <4>2, <4>3 DEF Expected
    <3> QED BY <3>7, <3>8, <3>9 DEF Overlooking
  <2> QED BY <2>2, <2>3
<1>3. ASSUME NEW o \in ops, PeerConnects(o) PROVE Overlooking'
  <2>1. /\ UNCHANGED <<alive, connections, sock, running, refs, acceptor, ctl, starts>> /\ acceptor = "open"
        /\ Expected(o) /\ o.res = "pending"
    BY <1>3 DEF PeerConnects, connVars, ctlVars, Expected
  <2>2. PICK p : /\ p.conn = o.conn /\ p.kind = "accept" /\ p.res = "ok"
                 /\ ops' = (ops \ {o}) \cup {p}
    BY <1>3 DEF PeerConnects, TypeOK
  <2>3. o.conn \in connections
    BY <2>1 DEF Overlooking, Expected
  <2>4. \A c \in Conns : Overlooked(c)' => Overlooked(c)
    BY <2>1, <2>2 DEF Overlooked, Busy
  <2>5. \A c \in Conns : starts = 1 => ~Overlooked(c)
    BY <2>1 DEF Overlooking
  <2>6. ctl \notin Past
    BY <2>1 DEF Overlooking, Past
  <2> QED BY <2>1, <2>2, <2>3, <2>4, <2>5, <2>6 DEF Overlooking, Expected
<1>4. ASSUME NEW o \in ops, Begin(o), o.kind = "accept", o.res = "ok" PROVE Overlooking'
  <2>1. /\ UNCHANGED <<alive, connections, refs, acceptor, ctl, starts>>
        /\ sock' = [sock EXCEPT ![o.conn] = "open"] /\ ops' = ops \ {o}
        /\ \A h \in running' : h \in running \/ h.conn = o.conn
    BY <1>4 DEF Begin, ctlVars
  <2>2. Expected(o) /\ o.conn \in Conns
    BY <1>4 DEF Expected, TypeOK
  <2>3. \A c \in Conns : Overlooked(c)' => Overlooked(c) \/ c = o.conn
    BY <2>1, <2>2 DEF Overlooked, Busy, TypeOK
  <2>4. ASSUME starts = 1, NEW p \in ops' PROVE ~Expected(p)
    BY <1>4, <2>1, <2>4, OneAccept DEF Expected
  <2>5. ASSUME starts = 1, NEW c \in Conns PROVE ~Overlooked(c)
    BY <2>2, <2>5 DEF Overlooking
  <2>6. ASSUME starts = 1, NEW c \in Conns, Overlooked(c)'
        PROVE  c = o.conn /\ acceptor = "closed"
    <3>1. c = o.conn
      BY <2>3, <2>5, <2>6
    <3>2. o.conn \notin connections
      BY <2>1, <2>6, <3>1 DEF Overlooked
    <3> QED BY <2>2, <2>6, <3>1, <3>2 DEF Overlooking
  <2>7. /\ (acceptor = "open" => ctl \in {"serving", "closing"})'
        /\ (\A p \in ops : p.kind = "accept" /\ p.res = "pending" => acceptor = "open" /\ p.conn \in connections)'
        /\ (starts = 0 => alive = {})'
    BY <2>1 DEF Overlooking
  <2>8. ASSUME starts' = 1, ctl' \in Past
        PROVE  (\A c \in connections : sock[c] # "open")'
    <3>1. o.conn \notin connections
      BY <2>1, <2>2, <2>8 DEF Overlooking
    <3> QED BY <2>1, <2>2, <2>8, <3>1 DEF Overlooking, TypeOK
  <2> QED BY <2>1, <2>4, <2>6, <2>7, <2>8 DEF Overlooking
<1>5. CASE CloseAcceptor
  <2>1. /\ UNCHANGED <<alive, connections, sock, running, refs, starts>> /\ acceptor' = "closed"
        /\ ctl' = "sweeping"
    BY <1>5 DEF CloseAcceptor, connVars
  <2>2. \A p \in ops' : \/ p \in ops /\ ~(p.kind = "accept" /\ p.res = "pending")
                        \/ p.res = "aborted" /\ \E o \in ops : p.conn = o.conn
    BY <1>5 DEF CloseAcceptor, TypeOK
  <2>3. \A c \in Conns : Overlooked(c)' => Overlooked(c)
    BY <2>1, <2>2 DEF Overlooked, Busy
  <2>4. \A p \in ops' : Expected(p) => p \in ops
    BY <2>2 DEF Expected
  <2>5. \A p \in ops' : p.res # "pending" \/ p.kind # "accept"
    BY <2>2
  <2>6. ctl' \notin Past
    BY <2>1 DEF Past
  <2>7. ASSUME starts' = 1
        PROVE  /\ (\A c, d \in Conns : Overlooked(c) /\ Overlooked(d) => c = d)'
               /\ (\A c \in Conns : Overlooked(c) => acceptor = "closed" /\ \A o \in ops : ~Expected(o))'
    <3>1. starts = 1
      BY <2>1, <2>7
    <3>2. (\A c, d \in Conns : Overlooked(c) /\ Overlooked(d) => c = d)'
      BY <2>3, <3>1 DEF Overlooking
    <3>3. (\A c \in Conns : Overlooked(c) => acceptor = "closed" /\ \A o \in ops : ~Expected(o))'
      BY <2>1, <2>3, <2>4, <3>1 DEF Overlooking, Expected
    <3> QED BY <3>2, <3>3
  <2> QED BY <2>1, <2>5, <2>6, <2>7 DEF Overlooking
<1>6. CASE Sweep
  <2>1. /\ UNCHANGED <<alive, ops, running, refs, acceptor, starts>> /\ connections' = {}
        /\ \A c \in Conns : sock'[c] = "open" => sock[c] = "open" /\ c \notin connections
        /\ ctl = "sweeping"
    BY <1>6 DEF Sweep, TypeOK
  <2>2. acceptor = "closed"
    BY <2>1 DEF Overlooking, TypeOK
  <2>3. \A c \in Conns : Overlooked(c)' => Overlooked(c)
    BY <2>1 DEF Overlooked, Busy
  <2>4. \A o \in ops : ~(o.kind = "accept" /\ o.res = "pending")
    BY <2>2 DEF Overlooking
  <2>5. ASSUME starts' = 1
        PROVE  /\ (\A c, d \in Conns : Overlooked(c) /\ Overlooked(d) => c = d)'
               /\ (\A c \in Conns : Overlooked(c) => acceptor = "closed" /\ \A o \in ops : ~Expected(o))'
    <3>1. starts = 1
      BY <2>1, <2>5
    <3>2. (\A c, d \in Conns : Overlooked(c) /\ Overlooked(d) => c = d)'
      BY <2>3, <3>1 DEF Overlooking
    <3>3. (\A c \in Conns : Overlooked(c) => acceptor = "closed" /\ \A o \in ops : ~Expected(o))'
      BY <2>1, <2>2, <2>3, <3>1 DEF Overlooking, Expected
    <3> QED BY <3>2, <3>3
  <2> QED BY <2>1, <2>2, <2>4, <2>5 DEF Overlooking
<1>7. CASE ~ \/ Start \/ CloseAcceptor \/ Sweep \/ \E h \in running : AcceptDone(h)
             \/ \E o \in ops : PeerConnects(o)
             \/ \E o \in ops : Begin(o) /\ o.kind = "accept" /\ o.res = "ok"
  BY <1>7, CalmSteps, CalmKeeps DEF Next, Network, Handlers, Control
<1> QED BY <1>1, <1>2, <1>3, <1>4, <1>5, <1>6, <1>7

(***************************************************************************)
(* The sessions.                                                           *)
(***************************************************************************)

(* The stage of a connection, said of any values of the four variables.     *)
At(xs, c) == {x \in xs : x.conn = c}
AnyOf(S) == CHOOSE x \in S : TRUE
Stage(c, there, held, pending, inside) ==
  IF c \notin there THEN "none"
  ELSE IF held[c] # {} THEN "serving"
  ELSE IF At(pending, c) # {} THEN StageAt[AnyOf(At(pending, c)).kind]
  ELSE IF At(inside, c) # {} THEN StageAt[AnyOf(At(inside, c)).kind]
  ELSE "ended"

LEMMA StageIs ==
  \A c : /\ StageOf(c) = Stage(c, alive, refs, ops, running)
         /\ StageOf(c)' = Stage(c, alive', refs', ops', running')
  BY Zenon DEF StageOf, Stage, At, AnyOf, OpsOf, RunningOf

(* What each of the alternatives takes. *)
LEMMA StageOfOperation ==
  ASSUME NEW c, NEW there, NEW held, NEW pending, NEW inside, NEW o \in pending,
         c \in there, held[c] = {}, o.conn = c, \A p \in pending : p.conn = c => p.kind = o.kind
  PROVE  Stage(c, there, held, pending, inside) = StageAt[o.kind]
<1>1. At(pending, c) # {}
  BY DEF At
<1>2. AnyOf(At(pending, c)) \in At(pending, c)
  BY <1>1, Zenon DEF AnyOf
<1>3. AnyOf(At(pending, c)).kind = o.kind
  BY <1>2 DEF At
<1> QED BY <1>1, <1>3 DEF Stage

LEMMA StageOfHandler ==
  ASSUME NEW c, NEW there, NEW held, NEW pending, NEW inside, NEW h \in inside,
         c \in there, held[c] = {}, \A o \in pending : o.conn # c,
         h.conn = c, \A g \in inside : g.conn = c => g.kind = h.kind
  PROVE  Stage(c, there, held, pending, inside) = StageAt[h.kind]
<1>1. At(pending, c) = {} /\ At(inside, c) # {}
  BY DEF At
<1>2. AnyOf(At(inside, c)) \in At(inside, c)
  BY <1>1, Zenon DEF AnyOf
<1>3. AnyOf(At(inside, c)).kind = h.kind
  BY <1>2 DEF At
<1> QED BY <1>1, <1>3 DEF Stage

LEMMA StageWithout ==
  ASSUME NEW c, NEW there, NEW held, NEW pending, NEW inside
  PROVE  /\ c \notin there => Stage(c, there, held, pending, inside) = "none"
         /\ c \in there /\ held[c] # {} => Stage(c, there, held, pending, inside) = "serving"
         /\ /\ c \in there /\ held[c] = {}
            /\ \A x \in pending \cup inside : x.conn # c
            => Stage(c, there, held, pending, inside) = "ended"
<1>1. (\A x \in pending \cup inside : x.conn # c) => At(pending, c) = {} /\ At(inside, c) = {}
  BY DEF At
<1> QED BY <1>1 DEF Stage

(* A step that leaves alone what is at a connection leaves its stage. *)
Untouched(c) == /\ c \in alive <=> c \in alive'
                /\ refs'[c] = refs[c]
                /\ \A x : x.conn = c => (x \in ops <=> x \in ops') /\ (x \in running <=> x \in running')

LEMMA UntouchedStays ==
  ASSUME NEW c, Untouched(c)
  PROVE  StageOf(c)' = StageOf(c)
<1>1. At(ops', c) = At(ops, c) /\ At(running', c) = At(running, c)
  BY DEF At, Untouched
<1>2. (c \in alive <=> c \in alive') /\ refs'[c] = refs[c]
  BY DEF Untouched
<1>3. Stage(c, alive', refs', ops', running') = Stage(c, alive, refs, ops, running)
  BY <1>1, <1>2 DEF Stage
<1> QED BY <1>3, StageIs

LEMMA StageNames ==
  /\ StageAt["accept"] = "accepting" /\ StageAt["header"] = "reading" /\ StageAt["body"] = "content"
  /\ StageAt["send"] = "serving" /\ StageAt["final"] = "answering" /\ StageAt["reject"] = "rejecting"
  BY DEF StageAt

(* The stage is told by who is at the connection, in every state that can be. *)
StagesTell ==
  \A c \in Conns :
    /\ c \notin alive => StageOf(c) = "none"
    /\ c \in alive /\ refs[c] # {} => StageOf(c) = "serving"
    /\ \A o \in ops : o.conn = c /\ refs[c] = {} => StageOf(c) = StageAt[o.kind]
    /\ \A h \in running : h.conn = c /\ h.kind = "send" => StageOf(c) = "serving"
    /\ \A h \in running : h.conn = c /\ h.kind # "send" /\ ~h.inResource => StageOf(c) = StageAt[h.kind]
    /\ c \in alive /\ refs[c] = {} /\ (\A x \in ops \cup running : x.conn # c) => StageOf(c) = "ended"

LEMMA StagesAreTold == TypeOK /\ Turns => StagesTell
<1> SUFFICES ASSUME TypeOK, Turns, NEW c \in Conns
             PROVE  /\ c \notin alive => StageOf(c) = "none"
                    /\ c \in alive /\ refs[c] # {} => StageOf(c) = "serving"
                    /\ \A o \in ops : o.conn = c /\ refs[c] = {} => StageOf(c) = StageAt[o.kind]
                    /\ \A h \in running : h.conn = c /\ h.kind = "send" => StageOf(c) = "serving"
                    /\ \A h \in running : h.conn = c /\ h.kind # "send" /\ ~h.inResource
                                            => StageOf(c) = StageAt[h.kind]
                    /\ c \in alive /\ refs[c] = {} /\ (\A x \in ops \cup running : x.conn # c)
                         => StageOf(c) = "ended"
  BY DEF StagesTell
<1>1. /\ c \notin alive => StageOf(c) = "none"
      /\ c \in alive /\ refs[c] # {} => StageOf(c) = "serving"
      /\ c \in alive /\ refs[c] = {} /\ (\A x \in ops \cup running : x.conn # c) => StageOf(c) = "ended"
  BY StageIs, StageWithout
<1>2. ASSUME NEW o \in ops, o.conn = c, refs[c] = {} PROVE StageOf(c) = StageAt[o.kind]
  <2>1. c \in alive /\ \A p \in ops : p.conn = c => p.kind = o.kind
    BY <1>2 DEF Turns, Held, OperationsAlone
  <2>2. Stage(c, alive, refs, ops, running) = StageAt[o.kind]
    BY <1>2, <2>1, StageOfOperation
  <2> QED BY <2>2, StageIs
<1>3. ASSUME NEW h \in running, h.conn = c, h.kind # "send", ~h.inResource
      PROVE  StageOf(c) = StageAt[h.kind]
  <2>1. c \in alive /\ Alone(h)
    BY <1>3 DEF Turns, Held, HandlersAlone
  <2>2. refs[c] = {} /\ (\A o \in ops : o.conn # c) /\ (\A g \in running : g.conn = c => g.kind = h.kind)
    BY <1>3, <2>1 DEF Alone
  <2>3. Stage(c, alive, refs, ops, running) = StageAt[h.kind]
    BY <1>3, <2>1, <2>2, StageOfHandler
  <2> QED BY <2>3, StageIs
<1>4. ASSUME NEW h \in running, h.conn = c, h.kind = "send" PROVE StageOf(c) = "serving"
  <2>1. c \in alive
    BY <1>4 DEF Turns, Held
  <2>2. CASE refs[c] # {}
    BY <1>1, <2>1, <2>2
  <2>3. CASE refs[c] = {} /\ \E o \in ops : o.conn = c
    <3>1. PICK o \in ops : o.conn = c
      BY <2>3
    <3>2. o.kind = "send"
      BY <1>4, <3>1 DEF Turns, OperationsAlone
    <3> QED BY <1>2, <2>3, <3>1, <3>2, StageNames
  <2>4. CASE refs[c] = {} /\ \A o \in ops : o.conn # c
    <3>1. ASSUME NEW g \in running, g.conn = c PROVE g.kind = "send"
      <4>1. ~g.inResource
        BY <2>4, <3>1 DEF Turns, ResourcesHold
      <4>2. g.kind # "send" => h = g
        BY <1>4, <3>1, <4>1 DEF Turns, HandlersAlone, Alone
      <4> QED BY <1>4, <4>2
    <3>2. \A g \in running : g.conn = c => g.kind = h.kind
      BY <1>4, <3>1
    <3>3. Stage(c, alive, refs, ops, running) = StageAt[h.kind]
      BY <1>4, <2>1, <2>4, <3>2, StageOfHandler
    <3> QED BY <1>4, <3>3, StageIs, StageNames
  <2> QED BY <2>2, <2>3, <2>4
<1> QED BY <1>1, <1>2, <1>3, <1>4

LEMMA StagesAreToldNext == TypeOK' /\ Turns' => StagesTell'
  BY StagesAreTold, PTL

(* What a step may do to the stage of one connection. *)
Moved(c) == StageOf(c)' = StageOf(c) \/ Sessions!Move(StageOf(c), StageOf(c)')

LEMMA UntouchedMoves ==
  ASSUME NEW c, Untouched(c)
  PROVE  Moved(c)
  BY UntouchedStays DEF Moved

(* A handler that has its connection for itself ends, and leaves an operation *)
(* or nothing; the other connections stay as they are.                       *)
LEMMA HandlerEnds ==
  ASSUME TypeOK, Turns, StagesTell, StagesTell', NEW h \in running, h.kind # "send", ~h.inResource,
         running' = running \ {h}, refs' = refs, alive' = alive,
         NEW op, op.conn = h.conn, ops' = ops \/ ops' = ops \cup {op}
  PROVE  /\ h.conn \in Conns /\ runner = "open"
         /\ StageOf(h.conn) = StageAt[h.kind]
         /\ ops' = ops => StageOf(h.conn)' = "ended"
         /\ ops' = ops \cup {op} => StageOf(h.conn)' = StageAt[op.kind]
         /\ \A c \in Conns : c # h.conn => Moved(c)
<1>1. h.conn \in Conns /\ runner = "open"
  BY DEF TypeOK, Turns, NoBodyAfterDestruct
<1>2. Alone(h) /\ h.conn \in alive
  BY DEF Turns, HandlersAlone, Held
<1>3. StageOf(h.conn) = StageAt[h.kind]
  BY <1>1 DEF StagesTell
<1>4. ASSUME ops' = ops PROVE StageOf(h.conn)' = "ended"
  <2>1. h.conn \in alive' /\ refs'[h.conn] = {} /\ \A x \in ops' \cup running' : x.conn # h.conn
    BY <1>2, <1>4 DEF Alone
  <2> QED BY <1>1, <2>1 DEF StagesTell
<1>5. ASSUME ops' = ops \cup {op} PROVE StageOf(h.conn)' = StageAt[op.kind]
  <2>1. op \in ops' /\ refs'[h.conn] = {}
    BY <1>2, <1>5 DEF Alone
  <2> QED BY <1>1, <2>1 DEF StagesTell
<1>6. ASSUME NEW c \in Conns, c # h.conn PROVE Moved(c)
  BY <1>6, UntouchedMoves DEF Untouched
<1> QED BY <1>1, <1>3, <1>4, <1>5, <1>6

(* A reference to a Response goes: it is answered, or somebody else holds it.  *)
LEMMA ResponseDropped ==
  ASSUME TypeOK, TypeOK', Turns', StagesTell', NEW c \in Conns, NEW opsLeft, opsLeft \subseteq ops,
         c \in alive', DropResponse(c, opsLeft, running', refs'[c]),
         \A x \in opsLeft \cup running' : refs'[c] = {} /\ x.conn = c => x.kind = "send"
  PROVE  /\ StageOf(c)' \in {"serving", "answering"}
         /\ \E op : op.conn = c /\ (ops' = opsLeft \/ ops' = opsLeft \cup {op})
<1> DEFINE op == SocketOp(c, "final")
<1>1. op.conn = c /\ op.kind = "final"
  BY NewOperation DEF SocketOp, Kinds
<1> HIDE DEF op
<1>2. ops' = opsLeft \/ ops' = opsLeft \cup {op}
  BY DEF DropResponse, op
<1>3. StageOf(c)' \in {"serving", "answering"}
  <2>1. CASE refs'[c] # {}
    BY <2>1 DEF StagesTell
  <2>2. CASE refs'[c] = {} /\ \E x \in opsLeft \cup running' : x.conn = c
    <3>1. PICK x \in opsLeft \cup running' : x.conn = c /\ x.kind = "send"
      BY <2>2
    <3>2. CASE x \in running'
      BY <3>1, <3>2 DEF StagesTell
    <3>3. CASE x \in opsLeft
      <4>1. x \in ops'
        BY <1>2, <3>3
      <4>2. StageOf(c)' = StageAt[x.kind]
        BY <2>2, <3>1, <4>1 DEF StagesTell
      <4> QED BY <3>1, <4>2, StageNames
    <3> QED BY <3>2, <3>3
  <2>3. CASE refs'[c] = {} /\ \A x \in opsLeft \cup running' : x.conn # c
    <3>1. ops' = opsLeft \cup {op}
      BY <2>3 DEF DropResponse, op
    <3>2. StageOf(c)' = StageAt[op.kind]
      BY <1>1, <2>3, <3>1 DEF StagesTell
    <3> QED BY <1>1, <3>2, StageNames
  <2> QED BY <2>1, <2>2, <2>3
<1> QED BY <1>1, <1>2, <1>3

(* stop() destroys a server whose runner it has stopped before. *)
Gone == ctl = "destroyed" => runner = "stopped"

LEMMA NextGone == TypeOK /\ Gone /\ [Next]_vars => Gone'
<1> SUFFICES ASSUME TypeOK, Gone, [Next]_vars PROVE Gone'
  OBVIOUS
<1> USE DEF Gone, ctlVars
<1>1. CASE StopIo
  BY <1>1 DEF StopIo, TypeOK
<1>2. CASE Start \/ CallStop \/ Destruct \/ CloseAcceptor \/ Sweep \/ FreeIo
  BY <1>2 DEF Start, CallStop, Destruct, CloseAcceptor, Sweep, FreeIo
<1>3. CASE Network \/ User \/ Handlers \/ UNCHANGED vars
  <2>1. UNCHANGED ctlVars
    BY <1>3 DEF Network, User, Handlers, Body, PeerConnects, Transfer, Cancelled, Expire, Keep, SendPart,
                LetGo, Begin, AcceptDone, ReadDropped, ReadTooLarge, ReadContent, Upgrade, Dispatch,
                ResourceReturns, SendDone, FinalDone, RejectDone, TimedOut, Destroy, vars
  <2> QED BY <2>1
<1> QED BY <1>1, <1>2, <1>3 DEF Next, Control

(* A step leaves the connections as they are, or an operation its kind.      *)
LEMMA NobodyMoves ==
  ASSUME UNCHANGED <<alive, refs, ops, running>>, NEW c
  PROVE  Moved(c)
  BY UntouchedMoves DEF Untouched

LEMMA OperationGoesOn ==
  ASSUME TypeOK, Turns, StagesTell, StagesTell', NEW o \in ops, NEW p, p.conn = o.conn, p.kind = o.kind,
         ops' = (ops \ {o}) \cup {p}, UNCHANGED <<alive, refs, running>>, NEW c \in Conns
  PROVE  Moved(c)
<1>1. CASE c # o.conn
  BY <1>1, UntouchedMoves DEF Untouched
<1>2. CASE c = o.conn /\ refs[c] # {}
  <2>1. c \in alive
    BY <1>2 DEF Turns, Held
  <2>2. StageOf(c) = "serving" /\ StageOf(c)' = "serving"
    BY <1>2, <2>1 DEF StagesTell
  <2> QED BY <2>2 DEF Moved
<1>3. CASE c = o.conn /\ refs[c] = {}
  <2>1. StageOf(c) = StageAt[o.kind] /\ StageOf(c)' = StageAt[p.kind]
    BY <1>3 DEF StagesTell
  <2> QED BY <2>1 DEF Moved
<1> QED BY <1>1, <1>2, <1>3

(* The thread that takes a completion turns the operation into a handler, or *)
(* ends the session when the runner is stopped.                              *)
LEMMA BeginMoves ==
  ASSUME TypeOK, TypeOK', Turns, Turns', StagesTell, StagesTell', NEW o \in ops, Begin(o), NEW c \in Conns
  PROVE  Moved(c)
<1>0. UNCHANGED <<alive, refs, runner>> /\ o.conn \in Conns /\ o.conn \in alive
  BY DEF Begin, Turns, Held, TypeOK, ctlVars
<1>1. CASE runner = "open"
  <2>1. PICK h : /\ h = [conn |-> o.conn, kind |-> o.kind, res |-> o.res, inResource |-> FALSE]
                 /\ running' = running \cup {h} /\ ops' = ops \ {o}
    BY <1>1 DEF Begin
  <2>2. h.conn = o.conn /\ h.kind = o.kind /\ ~h.inResource /\ h \in running'
    BY <2>1
  <2>3. CASE c # o.conn
    BY <1>0, <2>1, <2>2, <2>3, UntouchedMoves DEF Untouched
  <2>4. CASE c = o.conn /\ refs[c] # {}
    <3>1. StageOf(c) = "serving" /\ StageOf(c)' = "serving"
      BY <1>0, <2>4 DEF StagesTell
    <3> QED BY <3>1 DEF Moved
  <2>5. CASE c = o.conn /\ refs[c] = {}
    <3>1. StageOf(c) = StageAt[o.kind]
      BY <2>5 DEF StagesTell
    <3>2. StageOf(c)' = StageAt[h.kind]
      <4>1. CASE h.kind = "send"
        BY <2>2, <2>5, <4>1, StageNames DEF StagesTell
      <4>2. CASE h.kind # "send"
        BY <2>2, <2>5, <4>2 DEF StagesTell
      <4> QED BY <4>1, <4>2
    <3> QED BY <2>2, <3>1, <3>2 DEF Moved
  <2> QED BY <2>3, <2>4, <2>5
<1>2. CASE runner # "open"
  <2>1. running = {} /\ running' = {}
    BY <1>2 DEF Begin, Turns, NoBodyAfterDestruct, TypeOK
  <2>2. CASE o.kind = "send" /\ refs[o.conn] = {}
    <3>1. DropResponse(o.conn, ops \ {o}, running, {})
      BY <1>2, <2>2 DEF Begin
    <3>2. DropResponse(o.conn, ops \ {o}, running', refs'[o.conn])
      BY <1>0, <2>1, <2>2, <3>1
    <3>3. \A x \in (ops \ {o}) \cup running' : refs'[o.conn] = {} /\ x.conn = o.conn => x.kind = "send"
      BY <2>1 DEF Turns, OperationsAlone
    <3>4. /\ StageOf(o.conn)' \in {"serving", "answering"}
          /\ \E op : op.conn = o.conn /\ (ops' = ops \ {o} \/ ops' = (ops \ {o}) \cup {op})
      BY <1>0, <3>2, <3>3, ResponseDropped
    <3>5. StageOf(o.conn) = "serving"
      BY <1>0, <2>2, StageNames DEF StagesTell
    <3>6. CASE c = o.conn
      BY <3>4, <3>5, <3>6 DEF Moved, Sessions!Move, Sessions!Answer
    <3>7. CASE c # o.conn
      BY <1>0, <2>1, <3>4, <3>7, UntouchedMoves DEF Untouched
    <3> QED BY <3>6, <3>7
  <2>3. CASE ~(o.kind = "send" /\ refs[o.conn] = {})
    <3>1. ops' = ops \ {o}
      BY <1>2, <2>3 DEF Begin
    <3>2. CASE c # o.conn
      BY <1>0, <2>1, <3>1, <3>2, UntouchedMoves DEF Untouched
    <3>3. CASE c = o.conn /\ refs[c] # {}
      <4>1. StageOf(c) = "serving" /\ StageOf(c)' = "serving"
        BY <1>0, <3>3 DEF StagesTell
      <4> QED BY <4>1 DEF Moved
    <3>4. CASE c = o.conn /\ refs[c] = {}
      <4>1. StageOf(c) = StageAt[o.kind] /\ o.kind \in Kinds \ {"send"}
        BY <2>3, <3>4 DEF StagesTell, TypeOK
      <4>2. \A x \in ops' \cup running' : x.conn # c
        BY <2>1, <3>1, <3>4 DEF Turns, OperationsAlone
      <4>3. StageOf(c)' = "ended"
        BY <1>0, <3>4, <4>2 DEF StagesTell
      <4>4. StageOf(c) \in Sessions!Stages \ {"none", "serving"}
        BY <4>1, StageNames DEF Kinds, Sessions!Stages
      <4> QED BY <4>3, <4>4 DEF Moved, Sessions!Move, Sessions!End
    <3> QED BY <3>2, <3>3, <3>4
  <2> QED BY <2>2, <2>3
<1> QED BY <1>1, <1>2

(* accept() brings a connection that waits for a peer. *)
LEMMA StartMoves ==
  ASSUME TypeOK, TypeOK', Turns, Turns', StagesTell, StagesTell', Start, NEW c \in Conns
  PROVE  Moved(c)
<1>1. PICK d \in Conns \ alive, op \in [conn : Conns, kind : Kinds, res : Results] :
        /\ op.conn = d /\ op.kind = "accept"
        /\ alive' = alive \cup {d} /\ ops' = ops \cup {op}
  BY StartEffect
<1>2. UNCHANGED <<running, refs, runner>> /\ runner = "open"
  BY DEF Start
<1>3. CASE c # d
  BY <1>1, <1>2, <1>3, UntouchedMoves DEF Untouched
<1>4. CASE c = d
  <2>1. StageOf(c) = "none"
    BY <1>4 DEF StagesTell
  <2>2. op \in ops' /\ op.conn = c /\ refs'[c] = {}
    BY <1>1, <1>2, <1>4, Fresh DEF Turns
  <2>3. StageOf(c)' = "accepting"
    BY <1>1, <2>2, StageNames DEF StagesTell
  <2> QED BY <1>2, <2>1, <2>3 DEF Moved, Sessions!Move, Sessions!Await
<1> QED BY <1>3, <1>4

LEMMA AcceptMoves ==
  ASSUME TypeOK, TypeOK', Turns, Turns', StagesTell, StagesTell', NEW h \in running, AcceptDone(h),
         NEW c \in Conns
  PROVE  Moved(c)
<1>1. /\ h.kind = "accept" /\ running' = running \ {h} /\ UNCHANGED <<refs, runner>>
      /\ ~h.inResource /\ runner = "open" /\ h.conn \in alive /\ h.conn \in Conns
  BY DEF AcceptDone, ctlVars, Turns, ResourcesHold, NoBodyAfterDestruct, Held, TypeOK
<1>2. Alone(h) /\ StageOf(h.conn) = "accepting"
  BY <1>1, StageNames DEF Turns, HandlersAlone, StagesTell
<1>3. CASE h.res = "aborted"
  <2>1. ops' = ops /\ alive' = alive
    BY <1>3 DEF AcceptDone
  <2>2. CASE c # h.conn
    BY <1>1, <2>1, <2>2, UntouchedMoves DEF Untouched
  <2>3. CASE c = h.conn
    <3>1. c \in alive' /\ refs'[c] = {} /\ \A x \in ops' \cup running' : x.conn # c
      BY <1>1, <1>2, <2>1, <2>3 DEF Alone
    <3>2. StageOf(c)' = "ended"
      BY <3>1 DEF StagesTell
    <3> QED BY <1>2, <2>3, <3>2 DEF Moved, Sessions!Move, Sessions!End, Sessions!Stages
  <2> QED BY <2>2, <2>3
<1>4. CASE h.res # "aborted"
  <2>1. PICK d \in Conns \ alive, op, read \in [conn : Conns, kind : Kinds, res : Results] :
          /\ op.conn = d /\ op.kind = "accept" /\ read.conn = h.conn /\ read.kind = "header"
          /\ alive' = alive \cup {d}
          /\ ops' = ops \cup {op} \/ ops' = (ops \cup {op}) \cup {read}
    BY <1>4, AcceptEffect
  <2>2. d # h.conn /\ refs[d] = {}
    BY <1>1, <2>1, Fresh DEF Turns
  <2>3. CASE c # h.conn /\ c # d
    BY <1>1, <2>1, <2>3, UntouchedMoves DEF Untouched
  <2>4. CASE c = d
    <3>1. StageOf(c) = "none" /\ op \in ops' /\ op.conn = c /\ refs'[c] = {}
      BY <1>1, <2>1, <2>2, <2>4 DEF StagesTell
    <3>2. StageOf(c)' = "accepting"
      BY <2>1, <3>1, StageNames DEF StagesTell
    <3> QED BY <1>1, <3>1, <3>2 DEF Moved, Sessions!Move, Sessions!Await
  <2>5. CASE c = h.conn /\ ops' = ops \cup {op}
    <3>1. c \in alive' /\ refs'[c] = {} /\ \A x \in ops' \cup running' : x.conn # c
      BY <1>1, <1>2, <2>1, <2>2, <2>5 DEF Alone
    <3>2. StageOf(c)' = "ended"
      BY <3>1 DEF StagesTell
    <3> QED BY <1>2, <2>5, <3>2 DEF Moved, Sessions!Move, Sessions!End, Sessions!Stages
  <2>6. CASE c = h.conn /\ ops' = (ops \cup {op}) \cup {read}
    <3>1. read \in ops' /\ refs'[c] = {}
      BY <1>1, <1>2, <2>6 DEF Alone
    <3>2. StageOf(c)' = "reading"
      BY <2>1, <2>6, <3>1, StageNames DEF StagesTell
    <3> QED BY <1>1, <1>2, <2>6, <3>2 DEF Moved, Sessions!Move, Sessions!Greet
  <2> QED BY <2>1, <2>3, <2>4, <2>5, <2>6
<1> QED BY <1>3, <1>4

(* The handler of a read ends its request, or goes on with it. *)
LEMMA ReadMoves ==
  ASSUME TypeOK, TypeOK', Turns, Turns', StagesTell, StagesTell', NEW h \in running, NEW c \in Conns,
         ReadDropped(h) \/ Upgrade(h) \/ ReadTooLarge(h) \/ ReadContent(h)
  PROVE  Moved(c)
<1> USE DEF IsRead, connVars
<1>1. /\ h.kind \in {"header", "body"} /\ ~h.inResource /\ running' = running \ {h}
      /\ UNCHANGED <<alive, refs>>
  BY DEF ReadDropped, Upgrade, ReadTooLarge, ReadContent
<1>2. StageAt[h.kind] \in {"reading", "content"} /\ (h.kind = "header" => StageAt[h.kind] = "reading")
  BY <1>1, StageNames
<1>3. CASE ReadDropped(h) \/ Upgrade(h)
  <2>1. ops' = ops
    BY <1>3 DEF ReadDropped, Upgrade
  <2>2. PICK op : op.conn = h.conn
    OBVIOUS
  <2>3. StageOf(h.conn) = StageAt[h.kind] /\ StageOf(h.conn)' = "ended" /\ (c # h.conn => Moved(c))
    BY <1>1, <2>1, <2>2, HandlerEnds
  <2> QED BY <1>2, <2>3 DEF Moved, Sessions!Move, Sessions!End, Sessions!Stages
<1>4. CASE ReadTooLarge(h)
  <2> DEFINE op == SocketOp(h.conn, "reject")
  <2>1. op.conn = h.conn /\ op.kind = "reject" /\ ops' = ops \cup {op}
    BY <1>4, NewOperation DEF ReadTooLarge, SocketOp, TypeOK, Kinds
  <2> HIDE DEF op
  <2>2. /\ StageOf(h.conn) = StageAt[h.kind] /\ StageOf(h.conn)' = StageAt[op.kind]
        /\ runner = "open" /\ (c # h.conn => Moved(c))
    BY <1>1, <2>1, HandlerEnds
  <2>3. StageOf(h.conn)' = "rejecting"
    BY <2>1, <2>2, StageNames
  <2> QED BY <1>2, <2>2, <2>3 DEF Moved, Sessions!Move, Sessions!Reject
<1>5. CASE ReadContent(h)
  <2> DEFINE op == SocketOp(h.conn, "body")
  <2>1. op.conn = h.conn /\ op.kind = "body" /\ ops' = ops \cup {op} /\ h.kind = "header"
    BY <1>5, NewOperation DEF ReadContent, SocketOp, TypeOK, Kinds
  <2> HIDE DEF op
  <2>2. /\ StageOf(h.conn) = StageAt[h.kind] /\ StageOf(h.conn)' = StageAt[op.kind]
        /\ runner = "open" /\ (c # h.conn => Moved(c))
    BY <1>1, <2>1, HandlerEnds
  <2>3. StageOf(h.conn)' = "content"
    BY <2>1, <2>2, StageNames
  <2> QED BY <1>2, <2>1, <2>2, <2>3 DEF Moved, Sessions!Move, Sessions!ReadOn
<1> QED BY <1>3, <1>4, <1>5

(* The resource function gets the request. *)
LEMMA DispatchMoves ==
  ASSUME TypeOK, TypeOK', Turns, Turns', StagesTell, StagesTell', NEW h \in running, Dispatch(h), NEW c \in Conns
  PROVE  Moved(c)
<1>1. PICK g : /\ g = [h EXCEPT !.inResource = TRUE]
               /\ running' = (running \ {h}) \cup {g} /\ h.kind \in {"header", "body"} /\ ~h.inResource
               /\ refs' = [refs EXCEPT ![h.conn] = {"fn"}] /\ alive' = alive /\ ops' = ops
  BY DEF Dispatch, IsRead, connVars
<1>2. g.conn = h.conn /\ h.conn \in alive /\ h.conn \in Conns /\ runner = "open"
  BY <1>1 DEF TypeOK, Turns, Held, NoBodyAfterDestruct
<1>3. CASE c # h.conn
  <2>1. refs'[c] = refs[c]
    BY <1>1, <1>3 DEF TypeOK
  <2> QED BY <1>1, <1>2, <1>3, <2>1, UntouchedMoves DEF Untouched
<1>4. CASE c = h.conn
  <2>1. StageOf(c) \in {"reading", "content"}
    BY <1>1, <1>4, StageNames DEF StagesTell
  <2>2. c \in alive' /\ refs'[c] # {}
    BY <1>1, <1>2, <1>4 DEF TypeOK
  <2>3. StageOf(c)' = "serving"
    BY <2>2 DEF StagesTell
  <2> QED BY <1>2, <2>1, <2>3 DEF Moved, Sessions!Move, Sessions!Serve
<1> QED BY <1>3, <1>4

(* A reference to the Response goes, with the resource function, from the     *)
(* user's hands or with the handler of a send.                               *)
LEMMA DropMoves ==
  ASSUME TypeOK, TypeOK', Turns, Turns', StagesTell, StagesTell', NEW d \in Conns, NEW c \in Conns,
         UNCHANGED alive, DropResponse(d, ops, running', refs'[d]), StageOf(d) = "serving",
         d \in alive, \A x \in Conns : x # d => refs'[x] = refs[x],
         \A x : x.conn # d => (x \in running <=> x \in running'),
         \A x \in ops \cup running' : refs'[d] = {} /\ x.conn = d => x.kind = "send"
  PROVE  Moved(c)
<1>1. /\ StageOf(d)' \in {"serving", "answering"}
      /\ \E op : op.conn = d /\ (ops' = ops \/ ops' = ops \cup {op})
  BY ResponseDropped
<1>2. CASE c = d
  BY <1>1, <1>2 DEF Moved, Sessions!Move, Sessions!Answer
<1>3. CASE c # d
  BY <1>1, <1>3, UntouchedMoves DEF Untouched
<1> QED BY <1>2, <1>3

(* What is left at a connection when nobody holds the Response any more.      *)
LEMMA OnlySends ==
  ASSUME TypeOK, Turns, Turns', NEW d \in Conns, NEW x \in ops \cup running', x.conn = d, refs'[d] = {},
         running' \subseteq running, refs[d] # {} \/ \E h \in running : h.conn = d /\ h.kind = "send"
  PROVE  x.kind = "send"
<1>1. CASE x \in ops
  BY <1>1 DEF Turns, OperationsAlone
<1>2. CASE x \in running'
  <2>1. ~x.inResource
    BY <1>2 DEF Turns, ResourcesHold
  <2>2. x.kind # "send" => Alone(x)
    BY <1>2, <2>1 DEF Turns, HandlersAlone
  <2> QED BY <1>2, <2>2 DEF Alone
<1> QED BY <1>1, <1>2

LEMMA ReturnMoves ==
  ASSUME TypeOK, TypeOK', Turns, Turns', StagesTell, StagesTell', NEW h \in running, NEW c \in Conns,
         ResourceReturns(h) \/ SendDone(h)
  PROVE  Moved(c)
<1>1. /\ running' = running \ {h} /\ alive' = alive /\ h.conn \in Conns /\ h.conn \in alive
      /\ \A x \in Conns : x # h.conn => refs'[x] = refs[x]
      /\ DropResponse(h.conn, ops, running', refs'[h.conn])
  <2>1. h.conn \in Conns /\ h.conn \in alive
    BY DEF Turns, Held, TypeOK
  <2>2. CASE ResourceReturns(h)
    <3>1. /\ running' = running \ {h} /\ alive' = alive
          /\ refs' = [refs EXCEPT ![h.conn] = @ \ {"fn"}]
          /\ DropResponse(h.conn, ops, running \ {h}, refs[h.conn] \ {"fn"})
      BY <2>2 DEF ResourceReturns, connVars
    <3>2. refs'[h.conn] = refs[h.conn] \ {"fn"} /\ \A x \in Conns : x # h.conn => refs'[x] = refs[x]
      BY <2>1, <3>1 DEF TypeOK
    <3> QED BY <2>1, <3>1, <3>2
  <2>3. CASE SendDone(h)
    <3>1. /\ running' = running \ {h} /\ alive' = alive /\ refs' = refs
          /\ DropResponse(h.conn, ops, running \ {h}, refs[h.conn])
      BY <2>3 DEF SendDone, connVars
    <3> QED BY <2>1, <3>1
  <2> QED BY <2>2, <2>3
<1>2. refs[h.conn] # {} \/ \E g \in running : g.conn = h.conn /\ g.kind = "send"
  BY DEF ResourceReturns, SendDone, Turns, ResourcesHold
<1>3. StageOf(h.conn) = "serving"
  BY <1>1, <1>2 DEF StagesTell
<1>4. \A x \in ops \cup running' : refs'[h.conn] = {} /\ x.conn = h.conn => x.kind = "send"
  BY <1>1, <1>2, OnlySends
<1>5. \A x : x.conn # h.conn => (x \in running <=> x \in running')
  BY <1>1
<1> QED BY <1>1, <1>3, <1>4, <1>5, DropMoves

LEMMA LetGoMoves ==
  ASSUME TypeOK, TypeOK', Turns, Turns', StagesTell, StagesTell', NEW d \in Conns, LetGo(d), NEW c \in Conns
  PROVE  Moved(c)
<1>1. /\ running' = running /\ alive' = alive /\ d \in alive /\ refs[d] # {}
      /\ \A x \in Conns : x # d => refs'[x] = refs[x]
      /\ DropResponse(d, ops, running', refs'[d])
  BY DEF LetGo, connVars, Turns, Held, TypeOK
<1>2. StageOf(d) = "serving"
  BY <1>1 DEF StagesTell
<1>3. \A x \in ops \cup running' : refs'[d] = {} /\ x.conn = d => x.kind = "send"
  BY <1>1, OnlySends
<1>4. \A x : x.conn # d => (x \in running <=> x \in running')
  BY <1>1
<1> QED BY <1>1, <1>2, <1>3, <1>4, DropMoves

(* The response is written: the next request, or the end.                     *)
LEMMA WrittenMoves ==
  ASSUME TypeOK, TypeOK', Turns, Turns', StagesTell, StagesTell', NEW h \in running, NEW c \in Conns,
         FinalDone(h) \/ RejectDone(h)
  PROVE  Moved(c)
<1>1. /\ h.kind \in {"final", "reject"} /\ running' = running \ {h} /\ UNCHANGED <<alive, refs>>
      /\ ~h.inResource
  BY DEF FinalDone, RejectDone, connVars, Turns, ResourcesHold
<1> DEFINE op == SocketOp(h.conn, "header")
<1>2. op.conn = h.conn /\ op.kind = "header"
  BY NewOperation DEF SocketOp, TypeOK, Kinds
<1>3. ops' = ops \/ (ops' = ops \cup {op} /\ h.kind = "final")
  BY DEF FinalDone, RejectDone, ReadRequest
<1> HIDE DEF op
<1>4. /\ StageOf(h.conn) = StageAt[h.kind] /\ runner = "open" /\ (c # h.conn => Moved(c))
      /\ ops' = ops => StageOf(h.conn)' = "ended"
      /\ ops' = ops \cup {op} => StageOf(h.conn)' = StageAt[op.kind]
  BY <1>1, <1>2, <1>3, HandlerEnds
<1>5. CASE c = h.conn /\ ops' = ops
  <2>1. StageOf(c) \in Sessions!Stages \ {"none", "serving"}
    BY <1>1, <1>4, <1>5, StageNames DEF Sessions!Stages
  <2> QED BY <1>4, <1>5, <2>1 DEF Moved, Sessions!Move, Sessions!End
<1>6. CASE c = h.conn /\ ops' = ops \cup {op} /\ h.kind = "final"
  <2>1. StageOf(c) = "answering" /\ StageOf(c)' = "reading"
    BY <1>2, <1>4, <1>6, StageNames
  <2> QED BY <1>4, <2>1 DEF Moved, Sessions!Move, Sessions!Again
<1> QED BY <1>3, <1>4, <1>5, <1>6
(* The user sends a part of a Response, or keeps it longer.                   *)
LEMMA HoldMoves ==
  ASSUME TypeOK, TypeOK', Turns, Turns', StagesTell, StagesTell', NEW d \in Conns, Keep(d) \/ SendPart(d),
         NEW c \in Conns
  PROVE  Moved(c)
<1>1. /\ UNCHANGED <<alive, running>> /\ d \in alive /\ refs[d] # {} /\ refs'[d] # {}
      /\ \A x \in Conns : x # d => refs'[x] = refs[x]
  BY DEF Keep, SendPart, connVars, Turns, Held, TypeOK
<1>2. CASE c = d
  <2>1. StageOf(c) = "serving" /\ StageOf(c)' = "serving"
    BY <1>1, <1>2 DEF StagesTell
  <2> QED BY <2>1 DEF Moved
<1>3. CASE c # d
  <2> DEFINE op == SocketOp(d, "send")
  <2>1. op.conn = d
    BY NewOperation DEF SocketOp, TypeOK, Kinds
  <2>2. ops' = ops \/ ops' = ops \cup {op}
    BY DEF Keep, SendPart
  <2> HIDE DEF op
  <2> QED BY <1>1, <1>3, <2>1, <2>2, UntouchedMoves DEF Untouched
<1> QED BY <1>2, <1>3

(* A Connection nobody refers to is deleted. *)
LEMMA DestroyMoves ==
  ASSUME TypeOK, TypeOK', Turns, Turns', StagesTell, StagesTell', NEW d \in Conns, Destroy(d), NEW c \in Conns
  PROVE  Moved(c)
<1>1. /\ d \in alive /\ alive' = alive \ {d} /\ UNCHANGED <<ops, running, refs>> /\ refs[d] = {}
      /\ \A x \in ops \cup running : x.conn # d
  BY DEF Destroy, Unreferenced, OpsOf, RunningOf
<1>2. CASE c = d
  <2>1. StageOf(c) = "ended" /\ StageOf(c)' = "none"
    BY <1>1, <1>2 DEF StagesTell
  <2> QED BY <2>1 DEF Moved, Sessions!Move, Sessions!Release
<1>3. CASE c # d
  BY <1>1, <1>3, UntouchedMoves DEF Untouched
<1> QED BY <1>2, <1>3

(* stop() cancels the accepts that wait: they stay what they are. *)
LEMMA CloseMoves ==
  ASSUME TypeOK, TypeOK', Turns, Turns', StagesTell, StagesTell', CloseAcceptor, NEW c \in Conns
  PROVE  Moved(c)
<1>1. UNCHANGED <<alive, running, refs>>
  BY DEF CloseAcceptor, connVars
<1>2. ASSUME NEW o \in ops PROVE \E p \in ops' : p.conn = o.conn /\ p.kind = o.kind
  <2> DEFINE p == IF o.kind = "accept" /\ o.res = "pending" THEN [o EXCEPT !.res = "aborted"] ELSE o
  <2>1. p \in ops'
    BY DEF CloseAcceptor
  <2>2. p.conn = o.conn /\ p.kind = o.kind
    BY DEF TypeOK
  <2> QED BY <2>1, <2>2
<1>3. \A p \in ops' : \E o \in ops : p.conn = o.conn /\ p.kind = o.kind /\ (p = o \/ o.kind = "accept")
  BY DEF CloseAcceptor, TypeOK
<1>4. CASE refs[c] # {}
  <2>1. c \in alive
    BY <1>4 DEF Turns, Held
  <2>2. StageOf(c) = "serving" /\ StageOf(c)' = "serving"
    BY <1>1, <1>4, <2>1 DEF StagesTell
  <2> QED BY <2>2 DEF Moved
<1>5. CASE refs[c] = {} /\ \E o \in ops : o.conn = c
  <2>1. PICK o \in ops : o.conn = c
    BY <1>5
  <2>2. PICK p \in ops' : p.conn = c /\ p.kind = o.kind
    BY <1>2, <2>1
  <2>3. StageOf(c) = StageAt[o.kind] /\ StageOf(c)' = StageAt[p.kind]
    BY <1>1, <1>5, <2>1, <2>2 DEF StagesTell
  <2> QED BY <2>2, <2>3 DEF Moved
<1>6. CASE \A o \in ops : o.conn # c
  <2>1. \A p \in ops' : p.conn # c
    BY <1>3, <1>6
  <2> QED BY <1>1, <1>6, <2>1, UntouchedMoves DEF Untouched
<1> QED BY <1>4, <1>5, <1>6

(* The io_service of a server that is gone takes the sessions with it; whom   *)
(* somebody still serves keeps its stage.                                    *)
LEMMA FreeMoves ==
  ASSUME TypeOK, TypeOK', Turns, Turns', Gone, StagesTell, StagesTell', FreeIo, NEW c \in Conns
  PROVE  Moved(c)
<1>1. /\ UNCHANGED <<alive, running, refs, runner>> /\ running = {} /\ ops' = {}
      /\ runner # "open"
  BY DEF FreeIo, connVars, Gone, Turns, NoBodyAfterDestruct
<1>2. CASE \A o \in ops : o.conn # c
  BY <1>1, <1>2, UntouchedMoves DEF Untouched
<1>3. CASE refs[c] # {}
  <2>1. c \in alive
    BY <1>3 DEF Turns, Held
  <2>2. StageOf(c) = "serving" /\ StageOf(c)' = "serving"
    BY <1>1, <1>3, <2>1 DEF StagesTell
  <2> QED BY <2>2 DEF Moved
<1>4. CASE refs[c] = {} /\ \E o \in ops : o.conn = c
  <2>1. PICK o \in ops : o.conn = c
    BY <1>4
  <2>2. c \in alive /\ StageOf(c) = StageAt[o.kind] /\ o.kind \in Kinds
    BY <1>1, <1>4, <2>1 DEF StagesTell, Turns, Held, TypeOK
  <2>3. StageOf(c)' = "ended"
    BY <1>1, <1>4, <2>2 DEF StagesTell
  <2>4. CASE o.kind = "send"
    BY <1>1, <2>2, <2>3, <2>4, StageNames DEF Moved, Sessions!Move, Sessions!Drop
  <2>5. CASE o.kind # "send"
    <3>1. StageOf(c) \in Sessions!Stages \ {"none", "serving"}
      BY <2>2, <2>5, StageNames DEF Kinds, Sessions!Stages
    <3> QED BY <2>3, <3>1 DEF Moved, Sessions!Move, Sessions!End
  <2> QED BY <2>4, <2>5
<1> QED BY <1>2, <1>3, <1>4

(* Every step of the server moves each connection by a move of its session.   *)
LEMMA NextMoves == TypeOK /\ Turns /\ Gone /\ [Next]_vars => \A c \in Conns : Moved(c)
<1> SUFFICES ASSUME TypeOK, Turns, Gone, [Next]_vars, NEW c \in Conns
             PROVE  Moved(c)
  OBVIOUS
<1>0. TypeOK' /\ Turns' /\ StagesTell /\ StagesTell'
  BY NextTyped, NextTurns, StagesAreTold, StagesAreToldNext
<1>1. CASE Network
  <2>1. ASSUME NEW o \in ops, PeerConnects(o) \/ Transfer(o) \/ Cancelled(o) PROVE Moved(c)
    <3>1. UNCHANGED <<alive, refs, running>>
      BY <2>1 DEF PeerConnects, Transfer, Cancelled, connVars
    <3>2. \E r \in Results : ops' = (ops \ {o}) \cup {[o EXCEPT !.res = r]}
      BY <2>1 DEF PeerConnects, Transfer, Cancelled, Results
    <3>3. PICK p : p.conn = o.conn /\ p.kind = o.kind /\ ops' = (ops \ {o}) \cup {p}
      BY <3>2 DEF TypeOK
    <3> QED BY <1>0, <3>1, <3>3, OperationGoesOn
  <2>2. ASSUME NEW d \in Conns, Expire(d) PROVE Moved(c)
    BY <2>2, NobodyMoves DEF Expire, connVars
  <2> QED BY <1>1, <2>1, <2>2 DEF Network
<1>2. CASE User
  BY <1>0, <1>2, HoldMoves, LetGoMoves DEF User
<1>3. CASE Handlers
  <2>1. ASSUME NEW o \in ops, Begin(o) PROVE Moved(c)
    BY <1>0, <2>1, BeginMoves
  <2>2. ASSUME NEW h \in running, Body(h) PROVE Moved(c)
    BY <1>0, <2>2, AcceptMoves, ReadMoves, DispatchMoves, ReturnMoves, WrittenMoves DEF Body
  <2>3. ASSUME NEW d \in Conns, TimedOut(d) PROVE Moved(c)
    BY <2>3, NobodyMoves DEF TimedOut
  <2>4. ASSUME NEW d \in Conns, Destroy(d) PROVE Moved(c)
    BY <1>0, <2>4, DestroyMoves
  <2> QED BY <1>3, <2>1, <2>2, <2>3, <2>4 DEF Handlers
<1>4. CASE Control
  <2>1. CASE Start
    BY <1>0, <2>1, StartMoves
  <2>2. CASE CloseAcceptor
    BY <1>0, <2>2, CloseMoves
  <2>3. CASE FreeIo
    BY <1>0, <2>3, FreeMoves
  <2>4. CASE CallStop \/ Destruct \/ Sweep \/ StopIo
    BY <2>4, NobodyMoves DEF CallStop, Destruct, Sweep, StopIo, connVars
  <2> QED BY <1>4, <2>1, <2>2, <2>3, <2>4 DEF Control
<1>5. CASE UNCHANGED vars
  BY <1>5, NobodyMoves DEF vars, connVars
<1> QED BY <1>1, <1>2, <1>3, <1>4, <1>5 DEF Next

(* Nothing opens a runner that has been stopped. *)
LEMMA StaysStopped == TypeOK /\ [Next]_vars => (runner' = "open" => runner = "open")
<1> SUFFICES ASSUME TypeOK, [Next]_vars, runner # "open" PROVE runner' # "open"
  OBVIOUS
<1>1. runner' = runner \/ Destruct
  BY DEF Next, Network, User, Handlers, Body, Control, PeerConnects, Transfer, Cancelled, Expire, Keep,
         SendPart, LetGo, Begin, AcceptDone, ReadDropped, ReadTooLarge, ReadContent, Upgrade, Dispatch,
         ResourceReturns, SendDone, FinalDone, RejectDone, TimedOut, Destroy, Start, CallStop,
         CloseAcceptor, Sweep, StopIo, FreeIo, ctlVars, vars
<1> QED BY <1>1 DEF Destruct


(***************************************************************************)
(* The theorems.                                                           *)
(***************************************************************************)

(* The initial states. *)
LEMMA InitInvariant == Init => TypeOK /\ Turns /\ WaitIsTimed /\ UpgradedNotSwept /\ Overlooking
<1> SUFFICES ASSUME Init PROVE TypeOK /\ Turns /\ WaitIsTimed /\ UpgradedNotSwept /\ Overlooking
  OBVIOUS
<1> USE DEF Init
<1>1. TypeOK
  BY SetupsAssumption DEF TypeOK, Setup
<1>2. Turns
  BY DEF Turns, Held, HandlersAlone, OperationsAlone, ResourcesHold, NoBodyAfterDestruct
<1>3. WaitIsTimed /\ UpgradedNotSwept /\ Overlooking
  BY DEF WaitIsTimed, UpgradedNotSwept, Overlooking
<1> QED BY <1>1, <1>2, <1>3

(* What the theorems below rest on. *)
LEMMA InvariantHolds == Spec => [](TypeOK /\ Turns)
  BY InitInvariant, NextTyped, NextTurns, PTL DEF Spec

(* The accepts are as many as the starts allow. *)
LEMMA ChainsHold == Spec => []Chains
<1>1. Init => Chains
  <2> SUFFICES ASSUME Init PROVE Chains
    OBVIOUS
  <2>1. Accepts = {} /\ starts = 0
    BY DEF Init, Accepts
  <2> QED BY <2>1, FS_EmptySet DEF Chains
<1> QED BY <1>1, NextChains, InvariantHolds, PTL DEF Spec

(* Every variable keeps its type. *)
THEOREM TypeCorrect == Spec => []TypeOK
  BY InvariantHolds, PTL

(* At most one operation of a connection is under way, with any number of     *)
(* connections and threads (server_http.hpp:94, 422, 463).                   *)
THEOREM OneAtATime == Spec => []OneOperation
<1>1. TypeOK /\ Turns => OneOperation
  <2> SUFFICES ASSUME TypeOK, Turns, NEW c \in Conns PROVE Cardinality(OpsOf(c)) <= 1
    BY DEF OneOperation
  <2>1. CASE OpsOf(c) = {}
    BY <2>1, FS_EmptySet
  <2>2. CASE OpsOf(c) # {}
    <3>1. PICK o : o \in OpsOf(c)
      BY <2>2
    <3>2. OpsOf(c) = {o}
      BY <3>1 DEF OpsOf, Turns, OperationsAlone
    <3>3. Cardinality({o}) = 1
      BY FS_Singleton
    <3> QED BY <3>2, <3>3
  <2> QED BY <2>1, <2>2
<1> QED BY <1>1, InvariantHolds, PTL

(* A Response has its connection for itself until it has been sent            *)
(* (server_http.hpp:531-557).                                                *)
THEOREM ResponseAlone == Spec => []ResponseExclusive
<1>1. Turns => ResponseExclusive
  BY DEF Turns, OperationsAlone, ResponseExclusive, OpsOf
<1> QED BY <1>1, InvariantHolds, PTL

(* stop() never meets a pointer to a Connection that is gone                  *)
(* (server_http.hpp:404-411).                                                *)
THEOREM PointersLive == Spec => []NoDanglingConnection
<1>1. Turns => NoDanglingConnection
  BY DEF Turns, Held, NoDanglingConnection
<1> QED BY <1>1, InvariantHolds, PTL

(* The destructor finds no handler inside the server and none enters after it *)
(* (server_http.hpp:380-383).                                                *)
THEOREM NobodyInside == Spec => []NoBodyAfterDestruct
<1>1. Turns => NoBodyAfterDestruct
  BY DEF Turns
<1> QED BY <1>1, InvariantHolds, PTL

(* A read or write that waits for the peer has its timer: no handler cancels  *)
(* the timer of an operation that is not its own (server_http.hpp:227-247).  *)
THEOREM WaitsTimed == Spec => []WaitIsTimed
  BY InitInvariant, NextTimed, InvariantHolds, PTL DEF Spec

(* stop() never closes through the null pointer that on_upgrade leaves        *)
(* (server_http.hpp:499).                                                    *)
THEOREM SweepSafe == Spec => []UpgradedNotSwept
  BY InitInvariant, NextNotMoved, InvariantHolds, PTL DEF Spec

(* The accept operations and handlers under way are at most as many as the    *)
(* calls of start(), however accepts fail, stop() falls and the server is     *)
(* started again (server_http.hpp:341, 362, 581-591).                     *)
THEOREM AcceptsBounded == Spec => []AcceptChains
<1>1. Chains => AcceptChains
  BY DEF Chains, Accepts, AcceptChains
<1> QED BY <1>1, ChainsHold, PTL

(* stop() misses at most one connection that is served on, whichever handlers *)
(* of the accept chain it falls between: with any number of connections and   *)
(* threads, asio assigning an accepted socket in the handler                  *)
(* (server_http.hpp:362, 404-411, 581-591).                                   *)
THEOREM AtMostOneMissed == Spec => []StopMissesOne
<1>1. TypeOK /\ Overlooking => StopMissesOne
  <2> SUFFICES ASSUME TypeOK, Overlooking, starts = 1, ctl \in Past,
                      NEW c \in Conns, NEW d \in Conns,
                      Served(c), sock[c] = "open", Served(d), sock[d] = "open"
               PROVE  c = d
    BY DEF StopMissesOne, Past
  <2>1. Overlooked(c) /\ Overlooked(d)
    BY DEF Overlooking, Overlooked, Busy, Served, OpsOf, RunningOf
  <2> QED BY <2>1 DEF Overlooking
<1> QED BY <1>1, InitInvariant, NextOverlooking, ChainsHold, InvariantHolds, PTL DEF Spec

(* The server implements the sessions: with any number of connections, threads*)
(* and starts, whatever fails, times out, is stopped or destroyed, a request  *)
(* that has reached its resource is answered before the next one is read      *)
(* (server_http.hpp:531-557).                                                *)
THEOREM SessionsInOrder == Spec => SessionSpec
<1>1. Init => Sessions!Init
  <2> SUFFICES ASSUME Init PROVE Sessions!Init
    OBVIOUS
  <2>1. \A c \in Conns : StageOf(c) = "none"
    BY DEF Init, StageOf
  <2>2. runner = "open"
    BY DEF Init
  <2> QED BY <2>1, <2>2 DEF Sessions!Init
<1>2. Init => Gone
  BY DEF Init, Gone
<1>3. TypeOK /\ Turns /\ Gone /\ [Next]_vars => [Sessions!Next]_(Sessions!sessionVars)
  <2> SUFFICES ASSUME TypeOK, Turns, Gone, [Next]_vars PROVE Sessions!Next
    OBVIOUS
  <2>1. \A c \in Conns : Moved(c)
    BY NextMoves
  <2>2. runner' = "open" => runner = "open"
    BY StaysStopped
  <2> QED BY <2>1, <2>2 DEF Sessions!Next, Moved
<1> QED BY <1>1, <1>2, <1>3, NextGone, InvariantHolds, PTL DEF Spec, SessionSpec, Sessions!Spec
=============================================================================
