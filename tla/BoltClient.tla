----------------------------- MODULE BoltClient -----------------------------
(***************************************************************************)
(* The Bolt client (wrapper/bolt/src): the object Shared of one            *)
(* bolt::Connection with its socket, used by three threads: the reader,    *)
(* which also sets a new link up, the manager, which makes a new one when  *)
(* the link is lost, and the application, which comes through              *)
(* SingleConnection (gmsec/BoltConnection.cpp).                            *)
(*                                                                         *)
(* connect(), disconnect() and handle() run under one mutex; put() and     *)
(* read() do not, and an error they meet is ioError(), which closes the    *)
(* socket and changes the state in steps of its own.                       *)
(***************************************************************************)
EXTENDS BoltWire

CONSTANTS MaxOps,    \* bound: calls of the application
          MaxMsgs    \* bound: those that publish

VARIABLES
  state,     \* fState
  mode,      \* fMode; what it was, while there is no link
  sock,      \* the link the socket is connected to, or 0
  subs,      \* Connection.subscriptions
  nullRead,  \* fNullRead_ms has come to 10 s
  rd,        \* the reader
  io,        \* the ioError() the reader and the user are in
  user,      \* the call the application is in
  app,       \* m_state = CONNECTED of the InternalConnection
  \* history
  ops, msgs,
  got,       \* the messages exposed
  due,       \* for a message, the link it must come back on, or 0
  lapses     \* what happened that subscriptions and messages may not survive

client == <<state, mode, sock, subs, nullRead, rd, io, user, app>>
history == <<ops, msgs, got, due, lapses>>

ASSUME ClientAssumption == MaxOps \in Nat /\ MaxMsgs \in Nat

Msg == 1 .. MaxMsgs
Mixed == MaxMsgs + 1  \* the content of a packet put together from two links

Call(pc, pkt) == [pc |-> pc, pkt |-> pkt, link |-> 0, err |-> FALSE]
IdleUser == Call("idle", None)

\* The mutex of Shared is kept over several steps by the reader only.
MutexFree == rd.pc # "resub"

ClientInit ==
  /\ state = "MANAGED" /\ mode = "STARTING" /\ sock = 0 /\ subs = <<>>
  /\ nullRead = FALSE
  /\ rd = [pc |-> "read", revised |-> FALSE, trapped |-> FALSE, part |-> None,
           torn |-> 0, in |-> None, patterns |-> <<>>]
  /\ io = [a \in {"reader", "user"} |-> "no"]
  /\ user = IdleUser /\ app = FALSE
  /\ ops = 0 /\ msgs = 0
  /\ got = <<>> /\ due = [m \in Msg |-> 0] /\ lapses = {}
-----------------------------------------------------------------------------
\* A write may fail, and a read will when there is nothing left.
SocketFails == IF sock = 0 THEN TRUE ELSE lk[sock] = "down"

\* TCPSocket::disconnect(): what has been sent may still arrive, what has come is lost.
CloseSocket ==
  /\ sock' = 0
  /\ IF sock = 0 THEN UNCHANGED wire
     ELSE /\ lk' = [lk EXCEPT ![sock] = "down"]
          /\ \E s \in {<<>>, up[sock]} : up' = [up EXCEPT ![sock] = s]
          /\ down' = [down EXCEPT ![sock] = <<>>]
          /\ UNCHANGED faults

\* ioError(), called without the mutex: it has seen that fState is CONNECTED and
\* closes the socket ...
IoClose(a) ==
  /\ io[a] = "close"
  /\ CloseSocket
  /\ io' = [io EXCEPT ![a] = "state"]
  /\ UNCHANGED <<state, mode, subs, nullRead, rd, user, app, history>>

\* ... and setState(), whatever the state has become.
IoState(a) ==
  /\ io[a] = "state" /\ MutexFree
  /\ state' = "RECONNECTING"
  /\ io' = [io EXCEPT ![a] = "no"]
  /\ UNCHANGED <<wire, mode, sock, subs, nullRead, rd, user, app, history>>

\* put() by a thread that holds the mutex, after which the reader's record is r.
HeldPut(pkt, r) ==
  \/ /\ state = "CONNECTED" /\ sock # 0 /\ lk[sock] = "up"
     /\ up' = [up EXCEPT ![sock] = Append(@, pkt)]
     /\ rd' = r
     /\ UNCHANGED <<lk, down, faults, state, sock>>
  \/ /\ state # "CONNECTED" \/ (sock # 0 /\ lk[sock] = "down")
     /\ rd' = r
     /\ UNCHANGED <<wire, state, sock>>
  \/ /\ state = "CONNECTED" /\ SocketFails
     /\ CloseSocket
     /\ state' = "RECONNECTING"
     /\ rd' = [r EXCEPT !.revised = TRUE]
-----------------------------------------------------------------------------
\* Mutant: the mode of the link that was lost is kept.
ConnectOK_KeepsMode ==
  /\ sock = 0
  /\ \E l \in Unused : sock' = l /\ lk' = [lk EXCEPT ![l] = "up"]
  /\ state' = "CONNECTED"
  /\ rd' = [rd EXCEPT !.revised = TRUE]
  /\ UNCHANGED <<up, down, faults, mode, subs, nullRead, io, app, history>>

\* Shared::connect() with a server that accepts.  A socket still open is kept.
ConnectOK ==
  /\ \/ /\ sock = 0
        /\ \E l \in Unused : sock' = l /\ lk' = [lk EXCEPT ![l] = "up"]
        /\ UNCHANGED lapses
     \/ /\ sock # 0
        /\ lapses' = lapses \cup {"still open"}
        /\ UNCHANGED <<sock, lk>>
  /\ mode' = "STARTING" /\ state' = "CONNECTED"
  /\ rd' = [rd EXCEPT !.revised = TRUE]
  /\ UNCHANGED <<up, down, faults, subs, nullRead, io, app, ops, msgs, got, due>>

\* ... and with one that does not.
ConnectRefused ==
  /\ sock = 0 /\ Fault
  /\ state' = "RECONNECTING"
  /\ rd' = [rd EXCEPT !.revised = TRUE]
  /\ UNCHANGED <<lk, up, down, mode, sock, subs, nullRead, io, app, history>>

\* runManager().
Reconnect ==
  /\ state = "RECONNECTING" /\ MutexFree
  /\ ConnectOK \/ ConnectRefused
  /\ UNCHANGED user

\* ping(), when the write fails.  An ECHO that is sent, and the server's, change
\* nothing but the time of the last packet (see TimesOut in Bolt).
Ping ==
  /\ state = "CONNECTED" /\ mode = "DISPATCHING" /\ MutexFree /\ SocketFails
  /\ CloseSocket
  /\ state' = "RECONNECTING"
  /\ rd' = [rd EXCEPT !.revised = TRUE]
  /\ UNCHANGED <<mode, subs, nullRead, io, user, app, history>>
-----------------------------------------------------------------------------
\* runReader() looks for changes at the start of a turn; the model does so at the
\* end of the one before, and any time later.
Checked == IF rd.revised THEN [rd EXCEPT !.revised = FALSE, !.trapped = FALSE, !.part = None] ELSE rd

Reads == rd.pc = "read" /\ io.reader = "no"

Check ==
  /\ Reads /\ rd.revised
  /\ rd' = Checked
  /\ UNCHANGED <<wire, state, mode, sock, subs, nullRead, io, user, app, history>>

\* Something to read: a packet or its header only.  A header that was read from an
\* earlier link takes the bytes of this one for its content, and what follows is torn.
Read ==
  /\ Reads /\ state = "CONNECTED" /\ sock # 0 /\ down[sock] # <<>>
  /\ nullRead' = FALSE
  /\ LET pkt == Head(down[sock])
         handle(p) == [rd EXCEPT !.pc = "handle", !.in = p, !.part = None]
     IN  \/ rd.part = None /\ rd.torn # sock
            /\ rd' = IF pkt.cut THEN [rd EXCEPT !.part = pkt] ELSE handle(pkt)
         \/ rd.part = None /\ rd.torn = sock /\ rd' = [rd EXCEPT !.pc = "problem"]
         \/ rd.part # None
            /\ rd' \in {[handle([rd.part EXCEPT !.msg = Mixed]) EXCEPT !.torn = sock],
                        [rd EXCEPT !.pc = "problem", !.torn = sock]}
  /\ down' = [down EXCEPT ![sock] = Tail(@)]
  /\ UNCHANGED <<lk, up, faults, state, mode, sock, subs, io, user, app, history>>

\* Nothing for 10 s, or for 10 s altogether since something came last.
Inactive ==
  /\ Reads /\ state = "CONNECTED" /\ sock # 0 /\ down[sock] = <<>>
  /\ nullRead' = TRUE
  /\ rd' = [rd EXCEPT !.revised = TRUE]
  /\ io' = [io EXCEPT !.reader = "close"]
  /\ UNCHANGED <<lk, up, down, state, mode, sock, subs, user, app, history>>

\* read() < 0: the socket was closed, is closed now by doRead(), or is not asked.
\* A disconnect() since the last look explains the error.
ReadError ==
  /\ Reads
  /\ \/ state # "CONNECTED" /\ UNCHANGED sock
     \/ state = "CONNECTED" /\ SocketFails /\ (sock # 0 => down[sock] = <<>>) /\ sock' = 0
  /\ rd' = IF rd.trapped THEN [rd EXCEPT !.trapped = FALSE]
           ELSE [rd EXCEPT !.pc = "problem"]
  /\ UNCHANGED <<wire, state, mode, subs, nullRead, io, user, app, history>>

\* An error faults a connection that is there, also one that was made since.
\* Without one, await() ends when there is one, or after 5 s.
Problem ==
  /\ rd.pc = "problem"
  /\ rd' = [Checked EXCEPT !.pc = "read", !.part = None, !.revised = (state = "CONNECTED")]
  /\ io' = [io EXCEPT !.reader = IF state = "CONNECTED" THEN "close" ELSE "no"]
  /\ UNCHANGED <<wire, state, mode, sock, subs, nullRead, user, app, history>>

-----------------------------------------------------------------------------
\* handle() runs under the mutex; what comes depends on fMode.
Handled == [Checked EXCEPT !.pc = "read", !.in = None]

Handles(m, type) == rd.pc = "handle" /\ mode = m /\ rd.in.type = type

\* Mutant: messages are exposed before the link is set up.
Expose_AnyMode ==
  /\ rd.pc = "handle" /\ rd.in.type = "PUBLISH"
  /\ got' = Append(got, rd.in.msg)
  /\ rd' = Handled
  /\ UNCHANGED <<wire, state, mode, sock, subs, nullRead, io, user, app, ops, msgs, due, lapses>>

\* handle(), when messages are dispatched.
Expose ==
  /\ Handles("DISPATCHING", "PUBLISH")
  /\ got' = Append(got, rd.in.msg)
  /\ rd' = Handled
  /\ UNCHANGED <<wire, state, mode, sock, subs, nullRead, io, user, app, ops, msgs, due, lapses>>

\* welcome().
Welcome ==
  /\ Handles("STARTING", "WELCOME")
  /\ mode' = "NEGOTIATING"
  /\ HeldPut(Plain("NEGOTIATE"), Handled)
  /\ UNCHANGED <<subs, nullRead, io, user, app, history>>

\* Mutant: a connection that is made again starts without subscriptions.
Negotiated_NoResubscribe ==
  /\ Handles("NEGOTIATING", "ACK")
  /\ rd' = Handled /\ mode' = "DISPATCHING"
  /\ UNCHANGED <<wire, state, sock, subs, nullRead, io, user, app, history>>

\* resubscribe() copies the patterns; without any the connection is ready ...
Negotiated ==
  /\ Handles("NEGOTIATING", "ACK")
  /\ IF subs = <<>> THEN rd' = Handled /\ mode' = "DISPATCHING"
     ELSE rd' = [Handled EXCEPT !.pc = "resub", !.patterns = subs] /\ UNCHANGED mode
  /\ UNCHANGED <<wire, state, sock, subs, nullRead, io, user, app, history>>

\* ... and one SUBSCRIBE for all of them; its result is not looked at.
Resubscribe ==
  /\ rd.pc = "resub"
  /\ mode' = "RESUBSCRIBING"
  /\ HeldPut(Packet("SUBSCRIBE", rd.patterns, 0), [Checked EXCEPT !.pc = "read", !.patterns = <<>>])
  /\ UNCHANGED <<subs, nullRead, io, user, app, history>>

Resubscribed ==
  /\ Handles("RESUBSCRIBING", "ACK")
  /\ mode' = "DISPATCHING"
  /\ rd' = Handled
  /\ UNCHANGED <<wire, state, sock, subs, nullRead, io, user, app, history>>

\* An acknowledgement nobody waits for, or what the mode does not allow.
Ignore ==
  /\ rd.pc = "handle"
  /\ <<mode, rd.in.type>> \notin {<<"DISPATCHING", "PUBLISH">>, <<"STARTING", "WELCOME">>,
                                     <<"NEGOTIATING", "ACK">>, <<"RESUBSCRIBING", "ACK">>}
  /\ rd' = Handled
  /\ UNCHANGED <<wire, state, mode, sock, subs, nullRead, io, user, app, history>>

Reader ==
  \/ Check \/ Read \/ ReadError \/ Problem
  \/ Expose \/ Welcome \/ Negotiated \/ Resubscribe \/ Resubscribed \/ Ignore
  \/ IoClose("reader") \/ IoState("reader")

Manager == Reconnect \/ Ping
-----------------------------------------------------------------------------
Calls == user.pc = "idle" /\ ops < MaxOps /\ ops' = ops + 1

CallConnect ==
  /\ Calls /\ ~app
  /\ user' = Call("connect", None)
  /\ UNCHANGED <<wire, state, mode, sock, subs, nullRead, rd, io, app, msgs, got, due, lapses>>

\* mwConnect(), its loop: a link that is there is as good as one that is made now.
Connect ==
  /\ user.pc = "connect" /\ MutexFree
  /\ \/ /\ state = "CONNECTED"
        /\ app' = TRUE /\ user' = IdleUser
        /\ UNCHANGED <<wire, state, mode, sock, subs, nullRead, rd, io, history>>
     \/ state # "CONNECTED" /\ ConnectOK /\ user' = [user EXCEPT !.pc = "await"]
     \/ state # "CONNECTED" /\ ConnectRefused /\ user' \in {user, IdleUser}

\* Connection::connect() waits for the mode; after 10 s it is tried again, or given up.
AwaitDispatching ==
  /\ user.pc = "await"
  /\ \/ mode = "DISPATCHING" /\ app' = TRUE /\ user' = IdleUser /\ UNCHANGED faults
     \/ /\ mode # "DISPATCHING" /\ Fault
        /\ user' \in {[user EXCEPT !.pc = "connect"], IdleUser} /\ UNCHANGED app
  /\ UNCHANGED <<lk, up, down, state, mode, sock, subs, nullRead, rd, io, history>>

\* disconnect(): subscriptions.clear() ...
CallDisconnect ==
  /\ Calls /\ app
  /\ subs' = <<>>
  /\ user' = Call("disconnect", None)
  /\ UNCHANGED <<wire, state, mode, sock, nullRead, rd, io, app, msgs, got, due, lapses>>

\* ... and Shared::disconnect(); disconnectAux() forgets the connection in any case.
Disconnect ==
  /\ user.pc = "disconnect" /\ MutexFree
  /\ IF state \in {"CONNECTED", "RECONNECTING"}
     THEN /\ CloseSocket
          /\ rd' = [rd EXCEPT !.trapped = TRUE]
          /\ state' = IF state = "CONNECTED" THEN "UNCONNECTED" ELSE state
     ELSE UNCHANGED <<wire, sock, rd, state>>
  /\ app' = FALSE /\ user' = IdleUser
  /\ UNCHANGED <<mode, subs, nullRead, io, history>>

\* What follows a put(): a message is tried again, or given up.
After(u) ==
  CASE ~u.err /\ u.pkt.type = "SUBSCRIBE" -> {[u EXCEPT !.pc = "push"]}
    [] u.err /\ u.pkt.type = "PUBLISH"    -> {[u EXCEPT !.pc = "put"], IdleUser}
    [] OTHER                              -> {IdleUser}

\* Shared::put(), without the mutex, tests the state before it writes.
Puts(pkt) == IF state = "CONNECTED" THEN {Call("write", pkt)}
             ELSE After([Call("write", pkt) EXCEPT !.err = TRUE])

\* subscribe() waits for a resubscription, before it puts.
CallSubscribe(p) ==
  /\ Calls /\ app /\ p \notin Range(subs)
  /\ LET pkt == Packet("SUBSCRIBE", <<p>>, 0)
     IN  user' \in IF state = "CONNECTED" /\ mode = "RESUBSCRIBING" THEN {Call("wait", pkt)}
                   ELSE Puts(pkt)
  /\ UNCHANGED <<wire, state, mode, sock, subs, nullRead, rd, io, app, msgs, got, due, lapses>>

SubscribeWaits ==
  /\ user.pc = "wait" /\ mode = "DISPATCHING"
  /\ user' = [user EXCEPT !.pc = "put"]
  /\ UNCHANGED <<wire, state, mode, sock, subs, nullRead, rd, io, app, history>>

\* unsubscribe() takes the pattern from the list first.
CallUnsubscribe(p) ==
  /\ Calls /\ app /\ p \in Range(subs)
  /\ \E i \in DOMAIN subs : subs[i] = p /\ subs' = RemoveAt(subs, i)
  /\ user' \in Puts(Packet("UNSUBSCRIBE", <<p>>, 0))
  /\ lapses' = IF rd.pc = "resub" THEN lapses \cup {"copied"} ELSE lapses
  /\ UNCHANGED <<wire, state, mode, sock, nullRead, rd, io, app, msgs, got, due>>

CallPublish(s) ==
  /\ Calls /\ app /\ msgs < MaxMsgs
  /\ msgs' = msgs + 1
  /\ user' \in Puts(Packet("PUBLISH", <<s>>, msgs + 1))
  /\ UNCHANGED <<wire, state, mode, sock, subs, nullRead, rd, io, app, got, due, lapses>>

\* The put() after a wait, and a message once more.
Put ==
  /\ user.pc = "put"
  /\ user' \in Puts(user.pkt)
  /\ UNCHANGED <<wire, state, mode, sock, subs, nullRead, rd, io, app, history>>

Writing == user.pc = "write" /\ io.user = "no"

\* Shared::write() ends when there is no connection, with the result it has so far.
WriteNothing ==
  /\ Writing /\ state # "CONNECTED"
  /\ user' \in After(user)
  /\ UNCHANGED <<wire, state, mode, sock, subs, nullRead, rd, io, app, history>>

Wanted(s) == \E i \in DOMAIN subs : Matches(s, subs[i])

\* The packet is on its way, even when an error came before.
Write ==
  /\ Writing /\ state = "CONNECTED" /\ sock # 0 /\ lk[sock] = "up"
  /\ up' = [up EXCEPT ![sock] = Append(@, user.pkt)]
  /\ user' \in After([user EXCEPT !.link = sock])
  /\ IF user.pkt.type = "PUBLISH"
     THEN due' = [due EXCEPT ![user.pkt.msg] =
                    IF mode = "DISPATCHING" /\ Wanted(user.pkt.topics[1]) THEN sock ELSE 0]
     ELSE UNCHANGED due
  /\ lapses' = IF user.err THEN lapses \cup {"rewritten"} ELSE lapses
  /\ UNCHANGED <<lk, down, faults, state, mode, sock, subs, nullRead, rd, io, app, ops, msgs, got>>

\* The socket takes a packet that the network has lost.
WriteLost ==
  /\ Writing /\ state = "CONNECTED" /\ sock # 0 /\ lk[sock] = "down"
  /\ user' \in After([user EXCEPT !.link = sock])
  /\ UNCHANGED <<wire, state, mode, sock, subs, nullRead, rd, io, app, history>>

WriteError ==
  /\ Writing /\ state = "CONNECTED" /\ SocketFails
  /\ user' = [user EXCEPT !.err = TRUE]
  /\ io' = [io EXCEPT !.user = "close"]
  /\ rd' = [rd EXCEPT !.revised = TRUE]
  /\ UNCHANGED <<wire, state, mode, sock, subs, nullRead, app, history>>

\* subscribe() adds the pattern to the list.
Push ==
  /\ user.pc = "push"
  /\ subs' = Append(subs, user.pkt.topics[1])
  /\ user' = IdleUser
  /\ lapses' = IF sock \in {0, user.link} THEN lapses ELSE lapses \cup {"pushed late"}
  /\ UNCHANGED <<wire, state, mode, sock, nullRead, rd, io, app, ops, msgs, got, due>>

Caller ==
  \/ Connect \/ AwaitDispatching \/ Disconnect \/ SubscribeWaits
  \/ Put \/ WriteNothing \/ Write \/ WriteLost \/ WriteError \/ Push
  \/ IoClose("user") \/ IoState("user")

Application ==
  \/ CallConnect \/ CallDisconnect
  \/ \E p \in Pattern : CallSubscribe(p) \/ CallUnsubscribe(p)
  \/ \E s \in Subject : CallPublish(s)
=============================================================================
