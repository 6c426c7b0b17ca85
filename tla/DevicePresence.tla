---------------------------- MODULE DevicePresence ----------------------------
(***************************************************************************)
(* The permanent MQTT connection of a device and what the servers know of  *)
(* it: connect_mqtt_blocking (device-sim-c/src/device_flow.c) with its     *)
(* network thread, its heartbeat and its end; the presence record each     *)
(* server writes (internal/mqttc/broker.go); and the unbinding of the      *)
(* device (internal/service/bind.go).                                      *)
(*                                                                         *)
(* Every server hears of each connection, of its end and of the heartbeats *)
(* and writes the same Redis key.  The messages about one connection reach *)
(* a server in order; about two connections, and at two servers, in any    *)
(* order, and with QoS 0 they may be lost.  A unit of time is the period   *)
(* of the heartbeat, 30 s: a message is there by the end of it or lost.    *)
(***************************************************************************)
EXTENDS Naturals, Sequences

CONSTANTS
    Servers,      \* processes with a Broker: device-, user-, call-server, ...
    Ttl,          \* onlineTTL in periods: 5
    MaxSessions,  \* bound: connections the broker accepts
    MaxStarts,    \* bound: starts of the device's process
    MaxUnbinds,   \* bound: unbindings
    MaxLost       \* bound: messages that a server misses

PresenceAssumption ==
    /\ Servers # {} /\ Ttl \in Nat /\ Ttl > 1
    /\ {MaxSessions, MaxStarts, MaxUnbinds, MaxLost} \subseteq Nat

Sessions == 1..MaxSessions

VARIABLES
    main,     \* the thread in connect_mqtt_blocking
    stop,     \* g_stop
    beat,     \* the heartbeat thread
    up,       \* the device takes itself to be connected
    token,    \* the mqtt_token it was started with
    sess,     \* the connection the broker has, 0 if none
    made,     \* connections made so far
    mail,     \* what the servers have still to hear of each connection
    online,   \* the Redis key online:sn_<id> exists
    age,      \* periods since it was set
    bound,    \* device_bind has an owner
    reset,    \* the request that unbinds the device
    notice,   \* the connection an unbind is on its way to, 0 if none
    starts, unbinds, lost,  \* counters of the bounds
    good,     \* history: periods in which nothing kept the device from being known
    gone      \* history: periods without a connection

deviceVars == <<main, stop, beat, up, token>>
brokerVars == <<sess, made, mail, notice>>
keyVars == <<online, age>>
serverVars == <<bound, reset>>
countVars == <<starts, unbinds, lost>>
history == <<good, gone>>
vars == <<deviceVars, brokerVars, keyVars, serverVars, countVars, history>>

TypeOK ==
    /\ main \in {"off", "run", "joined"} /\ stop \in BOOLEAN
    /\ beat \in {"off", "due", "sent"} /\ up \in BOOLEAN
    /\ token \in {"valid", "expired"}
    /\ sess \in 0..made /\ made \in 0..MaxSessions /\ notice \in 0..made
    /\ mail \in [Servers -> [Sessions -> Seq({"connected", "disconnected", "heartbeat"})]]
    /\ online \in BOOLEAN /\ age \in 0..Ttl
    /\ bound \in BOOLEAN /\ reset \in {"none", "committed", "published"}
    /\ (up => main # "off" /\ made > 0)

Init ==
    /\ main = "off" /\ stop = FALSE /\ beat = "off" /\ up = FALSE /\ token = "valid"
    /\ sess = 0 /\ made = 0 /\ notice = 0
    /\ mail = [s \in Servers |-> [n \in Sessions |-> <<>>]]
    /\ online = FALSE /\ age = 0
    /\ bound = TRUE /\ reset = "none"
    /\ starts = 0 /\ unbinds = 0 /\ lost = 0
    /\ good = 0 /\ gone = Ttl

-----------------------------------------------------------------------------
(* The broker, and the network between it and the device.                  *)

Tell(m, n, what) == [s \in Servers |-> [m[s] EXCEPT ![n] = Append(@, what)]]
Ended(m) == IF sess = 0 THEN m ELSE Tell(m, sess, "disconnected")

\* The connection is cut: the device sees it at once, the broker when its
\* keep-alive runs out.
LinkLost ==
    /\ up /\ up' = FALSE
    /\ UNCHANGED <<main, stop, beat, token, brokerVars, keyVars, serverVars, countVars,
                   history>>

BrokerNotices ==
    /\ sess # 0 /\ ~up
    /\ sess' = 0 /\ mail' = Ended(mail) /\ notice' = 0
    /\ gone' = 0
    /\ UNCHANGED <<deviceVars, made, keyVars, serverVars, countVars, good>>

\* The broker ends a connection whose token has expired.
TokenExpires ==
    /\ token = "valid" /\ main = "run"
    /\ token' = "expired" /\ up' = FALSE
    /\ sess' = 0 /\ mail' = Ended(mail) /\ notice' = 0
    /\ gone' = IF sess # 0 THEN 0 ELSE gone
    /\ UNCHANGED <<main, stop, beat, made, keyVars, serverVars, countVars, good>>

\* A server misses a message: QoS 0, or the server is down.
Miss(s) ==
    /\ lost < MaxLost /\ lost' = lost + 1
    /\ \E n \in Sessions :
          /\ mail[s][n] # <<>>
          /\ mail' = [mail EXCEPT ![s][n] = Tail(@)]
    /\ good' = 0
    /\ UNCHANGED <<deviceVars, sess, made, notice, keyVars, serverVars, starts, unbinds, gone>>

-----------------------------------------------------------------------------
(* The device's process.                                                   *)

\* get_mqtt_token refuses a device that nobody owns.
Start ==
    /\ main = "off" /\ bound /\ starts < MaxStarts
    /\ main' = "run" /\ stop' = FALSE /\ token' = "valid" /\ beat' = "sent"
    /\ starts' = starts + 1
    /\ UNCHANGED <<up, brokerVars, keyVars, serverVars, unbinds, lost, history>>

\* The network thread connects, first or again, with the token it has: a
\* connection the broker still has is taken over (_perm_on_connect).
Connect ==
    /\ main # "off" /\ ~up /\ token = "valid" /\ made < MaxSessions
    /\ up' = TRUE
    /\ made' = made + 1 /\ sess' = made + 1
    /\ mail' = Tell(Ended(mail), made + 1, "connected")
    /\ notice' = 0
    /\ good' = 0 /\ gone' = 0
    /\ UNCHANGED <<main, stop, beat, token, keyVars, serverVars, countVars>>

\* It is refused: the process ends rather than try for ever.
Refused ==
    /\ main # "off" /\ ~up /\ token = "expired"
    /\ stop' = TRUE
    /\ UNCHANGED <<main, beat, up, token, brokerVars, keyVars, serverVars, countVars, history>>

\* _heartbeat_thread; without a connection the heartbeat is dropped.
Heartbeat ==
    /\ beat = "due" /\ ~stop
    /\ beat' = "sent"
    /\ mail' = IF up /\ sess # 0 THEN Tell(mail, sess, "heartbeat") ELSE mail
    /\ UNCHANGED <<main, stop, up, token, sess, made, notice, keyVars, serverVars, countVars,
                   history>>

HeartbeatEnds ==
    /\ beat # "off" /\ stop
    /\ beat' = "off"
    /\ UNCHANGED <<main, stop, up, token, brokerVars, keyVars, serverVars, countVars, history>>

\* _perm_on_message: an unbind ends the process; the identity is kept.
Unbound ==
    /\ main # "off" /\ up /\ notice = sess /\ notice # 0
    /\ stop' = TRUE /\ notice' = 0
    /\ UNCHANGED <<main, beat, up, token, sess, made, mail, keyVars, serverVars, countVars,
                   history>>

\* SIGINT, SIGTERM or the command to quit.
Quit ==
    /\ main = "run" /\ ~stop
    /\ stop' = TRUE
    /\ UNCHANGED <<main, beat, up, token, brokerVars, keyVars, serverVars, countVars, history>>

JoinHeartbeat ==
    /\ main = "run" /\ stop /\ beat = "off"
    /\ main' = "joined"
    /\ UNCHANGED <<stop, beat, up, token, brokerVars, keyVars, serverVars, countVars, history>>

\* The network thread is stopped, the connection closed and destroyed.
Leave ==
    /\ main = "joined"
    /\ main' = "off" /\ up' = FALSE
    /\ IF up
          THEN /\ sess' = 0 /\ mail' = Ended(mail) /\ notice' = 0 /\ gone' = 0
          ELSE UNCHANGED <<sess, mail, notice, gone>>
    /\ UNCHANGED <<stop, beat, token, made, keyVars, serverVars, countVars, good>>

Device == \/ LinkLost \/ Start \/ Connect \/ Refused \/ Heartbeat \/ HeartbeatEnds
          \/ Unbound \/ Quit \/ JoinHeartbeat \/ Leave

-----------------------------------------------------------------------------
(* The servers.                                                            *)

\* The heartbeat prolongs a record that exists.
HearMutant(s) == \E n \in Sessions :
    LET what == Head(mail[s][n])
    IN /\ mail[s][n] # <<>>
       /\ mail' = [mail EXCEPT ![s][n] = Tail(@)]
       /\ online' = CASE what = "connected" -> TRUE
                      [] what = "disconnected" -> FALSE
                      [] OTHER -> online
       /\ age' = IF what = "disconnected" THEN age ELSE 0
       /\ UNCHANGED <<deviceVars, sess, made, notice, serverVars, countVars, history>>

\* handleSystemEvent: the record is set by a heartbeat as well.
Hear(s) == \E n \in Sessions :
    LET what == Head(mail[s][n])
    IN /\ mail[s][n] # <<>>
       /\ mail' = [mail EXCEPT ![s][n] = Tail(@)]
       /\ online' = (what # "disconnected")
       /\ age' = IF what = "disconnected" THEN age ELSE 0
       /\ UNCHANGED <<deviceVars, sess, made, notice, serverVars, countVars, history>>

\* ResetWithCleanup: the row, the notice to the device, and KickClient,
\* which deletes the presence record.
Commit ==
    /\ bound /\ reset = "none" /\ unbinds < MaxUnbinds
    /\ bound' = FALSE /\ reset' = "committed" /\ unbinds' = unbinds + 1
    /\ UNCHANGED <<deviceVars, brokerVars, keyVars, starts, lost, history>>

\* QoS 1 to a device that is not connected: nothing is kept for it.
Publish ==
    /\ reset = "committed" /\ reset' = "published"
    /\ notice' = sess
    /\ UNCHANGED <<deviceVars, sess, made, mail, keyVars, bound, countVars, history>>

KickClient ==
    /\ reset = "published" /\ reset' = "none"
    /\ online' = FALSE
    /\ good' = 0
    /\ UNCHANGED <<deviceVars, brokerVars, age, bound, countVars, gone>>

\* The user binds the device again (DeviceBinding).
Bind ==
    /\ ~bound /\ reset = "none" /\ bound' = TRUE
    /\ UNCHANGED <<deviceVars, brokerVars, keyVars, reset, countVars, history>>

Server == Commit \/ Publish \/ KickClient \/ Bind

-----------------------------------------------------------------------------
(* A period goes by.                                                       *)

Later(n, bd) == IF n < bd THEN n + 1 ELSE n

Period ==
    /\ \A s \in Servers, n \in Sessions : mail[s][n] = <<>>
    /\ beat # "due" \/ stop
    /\ beat' = IF beat = "sent" THEN "due" ELSE beat
    /\ online' = (online /\ age + 1 < Ttl)
    /\ age' = IF online THEN age + 1 ELSE age
    /\ good' = IF up THEN Later(good, 2) ELSE 0
    /\ gone' = IF sess = 0 THEN Later(gone, Ttl) ELSE 0
    /\ UNCHANGED <<main, stop, up, token, brokerVars, serverVars, countVars>>

Next == \/ Device \/ BrokerNotices \/ TokenExpires \/ Server \/ Period
        \/ \E s \in Servers : Hear(s) \/ Miss(s)

Spec == Init /\ [][Next]_vars
-----------------------------------------------------------------------------
(* Properties.                                                             *)

\* A device that has been connected for two periods, and of whose messages
\* nothing was lost in them, is known to be online: a late end of an earlier
\* connection, or a record deleted by an unbinding, is put right by the next
\* heartbeat (broker.go:160).
KnownWhenUp == good = 2 /\ up /\ ~stop => online

\* A device whose connection has been gone for the life of a record is not
\* taken to be online, whatever the servers missed and in whatever order.
UnknownWhenGone == gone = Ttl => ~online

=============================================================================
