---------------------------- MODULE CallContacts ----------------------------
(***************************************************************************)
(* The contacts of devices as call-server keeps them (call-server/handler/ *)
(* contact.go, contact_device.go, contact_user.go, internal.go), asked for *)
(* by the devices (call_session.c) and by their users' pages, and cleaned  *)
(* up after an unbind by the outbox of user-server (internal/cleanup).     *)
(*                                                                         *)
(* One row of the table call_contact stands for an unordered pair of       *)
(* devices.  Every handler is a sequence of statements on it; a statement  *)
(* is a step here, a transaction holds the rows it locks until it commits. *)
(* Remarks, the WeChat contacts, the notices to the devices and the wording *)
(* of replies are left out.                                               *)
(***************************************************************************)
EXTENDS Integers, FiniteSets, FiniteSetsExt

CONSTANTS Devs,       \* the devices, ordered as their ids are
          Users, Nobody,
          FirstOwner, \* [Devs -> Users \cup {Nobody}]
          Reqs,       \* the requests call-server handles at a time
          NoReq,
          MaxContactsPerDevice,
          Asked,      \* which requests arrive
          MaxTurns    \* bound: how often a device changes hands

\* What an instance has to assume of its devices and requests.
DevicesAssumption ==
    /\ Devs \subseteq Nat \ {0} /\ IsFiniteSet(Devs) /\ Cardinality(Devs) > 1
    /\ FirstOwner \in [Devs -> Users \cup {Nobody}]
    /\ Asked \subseteq {"add", "respond", "delete", "list", "page"}
    /\ MaxContactsPerDevice \in Nat /\ MaxTurns \in Nat

VARIABLES
    owner,    \* device_bind.user_id
    turns,    \* counts changes of owner
    rows,     \* call_contact
    req,      \* the requests under way
    outbox,   \* cleanup_outbox: the devices with a task for call-server
    delivers  \* the dispatcher: the device, the request it waits for, its answer

vars == <<owner, turns, rows, req, outbox, delivers>>
dbVars == <<owner, turns, outbox>>

Pairs == kSubset(2, Devs)
NoRow == [status |-> "none", source |-> "none", by |-> 0]
Row == [status : {"pending", "accepted", "rejected", "deleted"},
        source : {"auto", "manual"}, by : Devs]
NoRequest == [op |-> "none", pc |-> "free", self |-> 0, peer |-> 0,
              user |-> Nobody, accept |-> FALSE, held |-> FALSE]
NoDelivery == [dev |-> 0, req |-> NoReq, done |-> FALSE]
Ops == {"none", "request", "respond", "delete", "ensure", "unbind"}
Pcs == {"free", "byId", "binds", "auto", "check", "insert", "answer", "commit",
        "find", "erase", "look", "materialize", "peers", "wipe", "publish"}

TypeOK ==
    /\ owner \in [Devs -> Users \cup {Nobody}] /\ turns \in 0..MaxTurns
    /\ rows \in [Pairs -> Row \cup {NoRow}]
    /\ req \in [Reqs -> [op : Ops, pc : Pcs, self : Devs \cup {0}, peer : Devs \cup {0},
                         user : Users \cup {Nobody}, accept : BOOLEAN, held : BOOLEAN]]
    /\ outbox \subseteq Devs
    /\ delivers \in [dev : Devs \cup {0}, req : Reqs \cup {NoReq}, done : BOOLEAN]

Init ==
    /\ owner = FirstOwner /\ turns = 0
    /\ rows = [p \in Pairs |-> NoRow]
    /\ req = [r \in Reqs |-> NoRequest]
    /\ outbox = {} /\ delivers = NoDelivery

-----------------------------------------------------------------------------
Pair(r) == {req[r].self, req[r].peer}
Has(p) == rows[p] # NoRow
Is(p, status) == rows[p].status = status
Touching(d) == {p \in Pairs : d \in p}
Accepted(d) == {p \in Touching(d) : Is(p, "accepted")}
SameAccount(p) == \E u \in Users : \A d \in p : owner[d] = u

\* FOR UPDATE: the answering transaction holds both bindings and the row.
Answering == {r \in Reqs : req[r].pc = "commit"}
BindLocked(d) == \E r \in Answering : d \in Pair(r)
RowLocked(p) == \E r \in Answering : Pair(r) = p

To(r, pc) == req' = [req EXCEPT ![r].pc = pc]
Done(r) == req' = [req EXCEPT ![r] = NoRequest]

\* A row is inserted, or updated under the id it has.
Write(p, status, source, by) ==
    rows' = [rows EXCEPT ![p] = [status |-> status, source |-> source, by |-> by]]

-----------------------------------------------------------------------------
\* What devices and users ask.  A device's commands run one at a time, but its
\* HTTP client gives up (CURLOPT_TIMEOUT) while the server goes on, so that a
\* device may have several requests under way.
Ask(r, op, pc, self, peer, user, accept, held) ==
    /\ req[r] = NoRequest /\ self # peer
    /\ req' = [req EXCEPT ![r] = [NoRequest EXCEPT !.op = op, !.pc = pc, !.self = self,
                                  !.peer = peer, !.user = user, !.accept = accept, !.held = held]]
    /\ UNCHANGED <<dbVars, rows, delivers>>

do_add_contact(r, d, t) ==
    Ask(r, "request", "binds", d, t, Nobody, FALSE, FALSE)

do_respond_contact(r, d, t, ok) ==
    Ask(r, "respond", "answer", d, t, Nobody, ok, FALSE)

do_delete_contact(r, d, t) ==
    Ask(r, "delete", "find", d, t, Nobody, FALSE, FALSE)

\* The list of a device meets each sibling, a call its target.
ListOrCall(r, d, t) == Ask(r, "ensure", "look", d, t, Nobody, FALSE, FALSE)

postUserContactRequest(r, u, d, t) ==
    Ask(r, "request", "binds", d, t, u, FALSE, FALSE)

\* By the id of a row the page has shown.
postUserContactRespond(r, u, p, ok) ==
    /\ Has(p)
    /\ Ask(r, "respond", "byId", Min(p), Max(p), u, ok, TRUE)

deleteUserContact(r, u, p) ==
    /\ Has(p)
    /\ Ask(r, "delete", "byId", Min(p), Max(p), u, FALSE, TRUE)

-----------------------------------------------------------------------------
\* Both bindings are read, a page's user must own the asking device; the same
\* account needs no request.
ReadBinds(r) ==
    LET u == req[r].user IN
    /\ req[r].op = "request" /\ req[r].pc = "binds"
    /\ IF u # Nobody /\ owner[req[r].self] # u
       THEN Done(r)
       ELSE To(r, IF SameAccount(Pair(r)) THEN "auto" ELSE "check")
    /\ UNCHANGED <<dbVars, rows, delivers>>

\* The first statements of createRequest, behind the limit of the asking device.
CheckRequest(r) ==
    /\ req[r].pc = "check"
    /\ IF \/ Cardinality(Accepted(req[r].self)) >= MaxContactsPerDevice
          \/ Is(Pair(r), "accepted") \/ Is(Pair(r), "pending")
       THEN Done(r)
       ELSE To(r, "insert")
    /\ UNCHANGED <<dbVars, rows, delivers>>

\* INSERT ... ON DUPLICATE KEY UPDATE, whatever the row has become.
createRequest(r) ==
    /\ req[r].pc = "insert" /\ ~RowLocked(Pair(r))
    /\ Write(Pair(r), "pending", "manual", req[r].self)
    /\ To(r, "publish")
    /\ UNCHANGED <<dbVars, delivers>>

upsertAutoContact(r) ==
    /\ req[r].pc = "auto" /\ ~RowLocked(Pair(r))
    /\ Write(Pair(r), "accepted", "auto", Min(Pair(r)))
    /\ To(r, "publish")
    /\ UNCHANGED <<dbVars, delivers>>

-----------------------------------------------------------------------------
\* getContactByID and the check that the user owns the side that answers, or,
\* to delete, one of the sides, the first if both are his.
ReadById(r) ==
    LET p == Pair(r)
        u == req[r].user
        sides == IF req[r].op = "respond" THEN p \ {rows[p].by} ELSE p
        mine == {d \in sides : owner[d] = u} IN
    /\ req[r].pc = "byId"
    /\ IF ~req[r].held \/ mine = {}
       THEN Done(r)
       ELSE req' = [req EXCEPT ![r].self = Min(mine), ![r].peer = Max(p \ {Min(mine)}),
                               ![r].pc = IF req[r].op = "respond" THEN "answer" ELSE "find"]
    /\ UNCHANGED <<dbVars, rows, delivers>>

MayAnswer(r) == Is(Pair(r), "pending") /\ rows[Pair(r)].by # req[r].self

\* respondRequest up to its UPDATE: the bindings and the row are locked, then
\* the accepted contacts of both are counted.
respondRequestMutant(r) ==
    /\ req[r].pc = "answer"
    /\ IF /\ MayAnswer(r)
          /\ req[r].accept => \A d \in Pair(r) : Cardinality(Accepted(d)) < MaxContactsPerDevice
       THEN To(r, "commit")
       ELSE Done(r)
    /\ UNCHANGED <<dbVars, rows, delivers>>

respondRequest(r) ==
    /\ req[r].pc = "answer"
    /\ \A d \in Pair(r) : ~BindLocked(d)
    /\ IF /\ MayAnswer(r)
          /\ req[r].accept => \A d \in Pair(r) : Cardinality(Accepted(d)) < MaxContactsPerDevice
       THEN To(r, "commit")
       ELSE Done(r)
    /\ UNCHANGED <<dbVars, rows, delivers>>

\* Its UPDATE and its commit.
CommitAnswer(r) ==
    /\ req[r].pc = "commit"
    /\ rows' = [rows EXCEPT ![Pair(r)].status = IF req[r].accept THEN "accepted" ELSE "rejected"]
    /\ To(r, "publish")
    /\ UNCHANGED <<dbVars, delivers>>

-----------------------------------------------------------------------------
\* deleteContact: the row is read, then updated if it is still this row and
\* still accepted.
FindContact(r) ==
    LET p == Pair(r) IN
    /\ req[r].pc = "find"
    /\ IF Is(p, "accepted") /\ rows[p].source = "manual"
       THEN req' = [req EXCEPT ![r].pc = "erase", ![r].held = TRUE]
       ELSE Done(r)
    /\ UNCHANGED <<dbVars, rows, delivers>>

deleteContact(r) ==
    LET p == Pair(r) IN
    /\ req[r].pc = "erase" /\ ~RowLocked(p)
    /\ IF req[r].held /\ Is(p, "accepted")
       THEN /\ rows' = [rows EXCEPT ![p].status = "deleted"]
            /\ To(r, "publish")
       ELSE Done(r) /\ UNCHANGED rows
    /\ UNCHANGED <<dbVars, delivers>>

\* ensureContact: a missing row of one account's devices is made, later.
LookForContact(r) ==
    /\ req[r].pc = "look"
    /\ IF Has(Pair(r)) THEN Done(r) ELSE To(r, "binds")
    /\ UNCHANGED <<dbVars, rows, delivers>>

LookForAccount(r) ==
    /\ req[r].op = "ensure" /\ req[r].pc = "binds"
    /\ IF SameAccount(Pair(r)) THEN To(r, "materialize") ELSE Done(r)
    /\ UNCHANGED <<dbVars, rows, delivers>>

ensureContactMutant(r) ==
    /\ req[r].pc = "materialize" /\ ~RowLocked(Pair(r))
    /\ Write(Pair(r), "accepted", "auto", Min(Pair(r)))
    /\ Done(r)
    /\ UNCHANGED <<dbVars, delivers>>

ensureContact(r) ==
    /\ req[r].pc = "materialize" /\ ~RowLocked(Pair(r))
    /\ IF Has(Pair(r)) THEN UNCHANGED rows
                       ELSE Write(Pair(r), "accepted", "auto", Min(Pair(r)))
    /\ Done(r)
    /\ UNCHANGED <<dbVars, delivers>>

\* The notices go out and the handler answers.  What a device makes of a
\* notice is the subject of module Contacts.
publishCallersUpdate(r) ==
    /\ req[r].pc = "publish"
    /\ delivers' = IF delivers.req = r THEN [delivers EXCEPT !.done = TRUE] ELSE delivers
    /\ Done(r)
    /\ UNCHANGED <<dbVars, rows>>

-----------------------------------------------------------------------------
\* The unbind and its task are one transaction.
Unbind(d) ==
    /\ turns < MaxTurns /\ owner[d] # Nobody /\ ~BindLocked(d)
    /\ owner' = [owner EXCEPT ![d] = Nobody] /\ turns' = turns + 1
    /\ outbox' = outbox \cup {d}
    /\ UNCHANGED <<rows, req, delivers>>

Bind(d, u) ==
    /\ turns < MaxTurns /\ owner[d] = Nobody /\ ~BindLocked(d)
    /\ owner' = [owner EXCEPT ![d] = u] /\ turns' = turns + 1
    /\ UNCHANGED <<rows, req, outbox, delivers>>

\* The dispatcher takes one task after the other.
Deliver(r, d) ==
    /\ delivers = NoDelivery /\ d \in outbox /\ req[r] = NoRequest
    /\ delivers' = [dev |-> d, req |-> r, done |-> FALSE]
    /\ req' = [req EXCEPT ![r] = [NoRequest EXCEPT !.op = "unbind", !.pc = "peers", !.self = d]]
    /\ UNCHANGED <<dbVars, rows>>

\* Calls end and the peers to tell are read, before the rows go.
contactPeers(r) ==
    /\ req[r].pc = "peers" /\ To(r, "wipe")
    /\ UNCHANGED <<dbVars, rows, delivers>>

deleteAllContacts(r) ==
    LET d == req[r].self IN
    /\ req[r].pc = "wipe" /\ \A p \in Touching(d) : ~RowLocked(p)
    /\ rows' = [p \in Pairs |-> IF d \in p THEN NoRow ELSE rows[p]]
    /\ req' = [s \in Reqs |-> IF s = r THEN [req[s] EXCEPT !.pc = "publish"]
                              ELSE IF d \in Pair(s) THEN [req[s] EXCEPT !.held = FALSE]
                              ELSE req[s]]
    /\ UNCHANGED <<dbVars, delivers>>

DeliveryFails ==
    /\ delivers # NoDelivery /\ ~delivers.done
    /\ delivers' = NoDelivery
    /\ \/ UNCHANGED req
       \/ /\ req[delivers.req].pc \in {"peers", "wipe"}
          /\ req' = [req EXCEPT ![delivers.req] = NoRequest]
    /\ UNCHANGED <<dbVars, rows>>

\* DELETE FROM cleanup_outbox WHERE id=?, also when the task was renewed since.
Acknowledge ==
    /\ delivers.done
    /\ outbox' = outbox \ {delivers.dev}
    /\ delivers' = NoDelivery
    /\ UNCHANGED <<owner, turns, rows, req>>

-----------------------------------------------------------------------------
Arrives(r) ==
    \/ \E d, t \in Devs :
          \/ "add" \in Asked /\ do_add_contact(r, d, t)
          \/ "respond" \in Asked /\ \E ok \in BOOLEAN : do_respond_contact(r, d, t, ok)
          \/ "delete" \in Asked /\ do_delete_contact(r, d, t)
          \/ "list" \in Asked /\ ListOrCall(r, d, t)
          \/ "page" \in Asked /\ \E u \in Users : postUserContactRequest(r, u, d, t)
    \/ /\ "page" \in Asked
       /\ \E u \in Users, p \in Pairs :
             deleteUserContact(r, u, p) \/ \E ok \in BOOLEAN : postUserContactRespond(r, u, p, ok)

Handles(r) ==
    \/ ReadBinds(r) \/ CheckRequest(r) \/ createRequest(r) \/ upsertAutoContact(r)
    \/ ReadById(r) \/ respondRequest(r) \/ CommitAnswer(r)
    \/ FindContact(r) \/ deleteContact(r)
    \/ LookForContact(r) \/ LookForAccount(r) \/ ensureContact(r)
    \/ contactPeers(r) \/ deleteAllContacts(r) \/ publishCallersUpdate(r)

Next ==
    \/ \E r \in Reqs : Arrives(r) \/ Handles(r) \/ \E d \in Devs : Deliver(r, d)
    \/ \E d \in Devs : Unbind(d) \/ \E u \in Users : Bind(d, u)
    \/ DeliveryFails \/ Acknowledge

Spec == Init /\ [][Next]_vars

-----------------------------------------------------------------------------
(* Properties                                                              *)

\* However many requests are answered at a time, by devices and by pages, a
\* device never has more manual contacts than the limit.
ManualWithinLimit ==
    \A d \in Devs :
        Cardinality({p \in Accepted(d) : rows[p].source = "manual"}) <= MaxContactsPerDevice

\* A list or a call makes missing contacts and never brings back one that was
\* deleted or refused, whatever it saw before it inserts: no step does, unless
\* a request of one account (upsertAutoContact) is about to.
ListsDoNotRevive ==
    \A p \in Pairs :
        (Is(p, "deleted") \/ Is(p, "rejected")) /\ Is(p, "accepted")'
        => \E r \in Reqs : req[r].pc = "auto"

=============================================================================
