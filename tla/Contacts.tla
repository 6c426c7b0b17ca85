------------------------------- MODULE Contacts -------------------------------
(***************************************************************************)
(* The list of WeChat users who may be called, as a device keeps it        *)
(* (tirtc_voip.c).  It is fetched once before MQTT connects, and then by a *)
(* worker thread whenever the server says that it changed (callers_update) *)
(* or refuses a dial.  The lists the server holds one after the other are  *)
(* numbered here; none of them is empty.                                   *)
(*                                                                         *)
(* Left out: the list of device contacts (call_session.c), which only the  *)
(* command thread reads and fetches.                                       *)
(***************************************************************************)
EXTENDS Naturals

CONSTANT MaxEdition  \* bound: how many lists the server holds in turn

EditionsAssumption == MaxEdition \in Nat \ {0}

VARIABLES
    edition,    \* server: the list it has now
    notices,    \* callers_update messages on their way
    main,       \* the main thread: "fetch", "answer", "run", "join", "gone"
    stop,       \* callers_refresh_stop
    requested,  \* callers_refresh_requested
    worker,     \* the refresh thread: "wait", "fetch", "answer", "done", "exit"
    fetched,    \* the edition in an answer: of the worker, of the main thread
    list,       \* auth_list: its edition, 0 while there is none
    cmd,        \* the command thread: "idle", or "dial" while a call is posted
    owed        \* history: the edition the server had when the device was last
                \*   told to refresh, 0 when a failed fetch has spent the request

serverVars == <<edition, notices>>
refreshVars == <<stop, requested, worker, fetched, list>>
vars == <<serverVars, main, refreshVars, cmd, owed>>

TypeOK ==
    /\ edition \in 1..MaxEdition
    /\ notices \in 0..MaxEdition
    /\ main \in {"fetch", "answer", "run", "join", "gone"}
    /\ stop \in BOOLEAN /\ requested \in BOOLEAN
    /\ worker \in {"wait", "fetch", "answer", "done", "exit"}
    /\ fetched \in [{"worker", "main"} -> 0..MaxEdition]
    /\ list \in 0..MaxEdition
    /\ cmd \in {"idle", "dial"}
    /\ owed \in 0..MaxEdition

\* voip_create starts the worker with nothing to do.
Init ==
    /\ edition = 1 /\ notices = 0
    /\ main = "fetch" /\ stop = FALSE /\ requested = FALSE
    /\ worker = "wait" /\ fetched = [w \in {"worker", "main"} |-> 0]
    /\ list = 0 /\ cmd = "idle" /\ owed = 0

-----------------------------------------------------------------------------
(* The server and the broker: a notice may be lost, or come twice (QoS 1). *)

\* The list changes and the device is told.
WxChanges ==
    /\ edition < MaxEdition
    /\ edition' = edition + 1
    /\ notices' = notices + 1
    /\ UNCHANGED <<main, refreshVars, cmd, owed>>

Lost ==
    /\ notices > 0
    /\ notices' = notices - 1
    /\ UNCHANGED <<edition, main, refreshVars, cmd, owed>>

-----------------------------------------------------------------------------
(* The worker. *)

\* It wakes with a request: it takes the request back and goes on without the
\* lock.
TakeRequest ==
    /\ worker = "wait" /\ requested /\ ~stop
    /\ requested' = FALSE
    /\ worker' = "fetch"
    /\ UNCHANGED <<serverVars, main, cmd, stop, fetched, list, owed>>

\* voip_refresh_contacts: the server answers with the list it has now.
FetchAnswered ==
    /\ worker = "fetch"
    /\ fetched' = [fetched EXCEPT !["worker"] = edition]
    /\ worker' = "answer"
    /\ UNCHANGED <<serverVars, main, cmd, stop, requested, list, owed>>

\* voip_refresh_contacts fails: the list is kept, and nothing is tried again
\* but what was asked for meanwhile.
FetchFails ==
    /\ worker = "fetch"
    /\ worker' = "done"
    /\ owed' = IF requested THEN owed ELSE 0
    /\ UNCHANGED <<serverVars, main, cmd, stop, requested, fetched, list>>

\* voip_set_auth_list replaces the whole list.
SetList ==
    /\ worker = "answer"
    /\ list' = fetched["worker"]
    /\ worker' = "done"
    /\ UNCHANGED <<serverVars, main, cmd, stop, requested, fetched, owed>>

\* callers_refresh_running is cleared and the worker looks for a request again.
FetchOver ==
    /\ worker = "done"
    /\ worker' = "wait"
    /\ UNCHANGED <<serverVars, main, cmd, stop, requested, fetched, list, owed>>

\* Woken to stop, the worker ends.
WorkerExits ==
    /\ worker = "wait" /\ stop
    /\ worker' = "exit"
    /\ UNCHANGED <<serverVars, main, cmd, stop, requested, fetched, list, owed>>

\* voip_on_callers_update: a refresh is asked for unless the session ends, also
\* while one is running, which may already have its answer.
AskForRefreshMutant ==
    requested' = (requested \/ (~stop /\ worker = "wait"))
AskForRefresh ==
    requested' = (requested \/ ~stop)

\* What that call owes from now on is the list the server has by now.
Told == owed' = IF stop THEN owed ELSE edition

\* The notice is handled on the MQTT thread; it may come again.
WxNotice ==
    /\ main = "run" /\ notices > 0
    /\ \E again \in BOOLEAN : notices' = IF again THEN notices ELSE notices - 1
    /\ AskForRefresh /\ Told
    /\ UNCHANGED <<edition, main, stop, worker, fetched, list, cmd>>

-----------------------------------------------------------------------------
(* The main thread. *)

\* The first fetch, before MQTT connects: its answer is on the way ...
FirstFetch ==
    /\ main = "fetch"
    /\ \E e \in {0, edition} :
          fetched' = [fetched EXCEPT !["main"] = e]
    /\ main' = "answer"
    /\ UNCHANGED <<serverVars, stop, requested, worker, list, cmd, owed>>

\* ... and is stored when there was one, then MQTT and the commands start.
FirstList ==
    /\ main = "answer"
    /\ list' = IF fetched["main"] = 0 THEN list ELSE fetched["main"]
    /\ main' = "run"
    /\ UNCHANGED <<serverVars, stop, requested, worker, fetched, cmd, owed>>

\* MQTT and the command thread have ended: voip_destroy stops the worker ...
Destroy ==
    /\ main = "run" /\ cmd = "idle"
    /\ stop' = TRUE /\ requested' = FALSE
    /\ main' = "join"
    /\ UNCHANGED <<serverVars, worker, fetched, list, cmd, owed>>

\* ... waits for it and frees the list.
Join ==
    /\ main = "join" /\ worker = "exit"
    /\ list' = 0 /\ main' = "gone"
    /\ UNCHANGED <<serverVars, stop, requested, worker, fetched, cmd, owed>>

-----------------------------------------------------------------------------
(* The command thread.  The sessions of other kinds, during which no dial   *)
(* gets this far, are left out.                                             *)

\* `wxcall N', the product's DIAL_WX_INDEX, or N alone after `wxcall':
\* voip_dial_authorized_ex takes the place N of the list as it is now and posts
\* the call, whether a list was ever printed or not.  A place the list does not
\* have does nothing.
DialWx ==
    /\ main = "run" /\ cmd = "idle" /\ list # 0
    /\ cmd' = "dial"
    /\ UNCHANGED <<serverVars, main, refreshVars, owed>>

\* The answer: taken, or refused because the user withdrew the permission
\* (40205), which has the list fetched again.
DialAnswered(refused) ==
    /\ cmd = "dial"
    /\ cmd' = "idle"
    /\ IF refused THEN AskForRefresh /\ Told ELSE UNCHANGED <<requested, owed>>
    /\ UNCHANGED <<serverVars, main, stop, worker, fetched, list>>

-----------------------------------------------------------------------------
Refresh ==
    \/ TakeRequest \/ FetchAnswered \/ FetchFails \/ SetList \/ FetchOver
    \/ WorkerExits

Next ==
    \/ WxChanges \/ Lost \/ WxNotice
    \/ FirstFetch \/ FirstList \/ Destroy \/ Join
    \/ Refresh
    \/ DialWx \/ \E refused \in BOOLEAN : DialAnswered(refused)

Spec == Init /\ [][Next]_vars

-----------------------------------------------------------------------------
(* Properties. *)

\* The list a device holds is never replaced by an older one, whoever stores
\* it: the worker is alone once MQTT runs, and the first fetch is over before
\* it.
ListNeverGoesBack == [][list' # 0 => list' >= list]_list

\* A notice or a refused dial is never swallowed by the refresh that runs when
\* it comes: once the worker rests, the list is no older than what the server
\* had when the device was last told to refresh.  (A fetch that fails keeps the
\* old list and is not repeated: it ends the debt, unless the device was told
\* again while it ran.)
NoticesAreFollowed ==
    worker = "wait" /\ ~requested /\ ~stop => list >= owed

=============================================================================
