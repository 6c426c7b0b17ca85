------------------------------ MODULE MCContacts ------------------------------
(***************************************************************************)
(* One run for those whom a device can call: the WeChat list of a device   *)
(* (Contacts), and the contacts as the server keeps them (CallContacts).   *)
(* They share no state: `part` is drawn at the start; the other parts stay *)
(* as they were.                                                           *)
(***************************************************************************)
EXTENDS Integers, TLC

CONSTANTS
    WxEditions,                                        \* Contacts
    u1, u2, u3, Users, Nobody, Reqs, NoReq,            \* CallContacts
    Devs, FirstOwner, MaxContactsPerDevice, Asked, MaxTurns,
    TurnDevs, TurnUsers, TurnOwner, TurnLimit, TurnAsked, Turns

\* Three devices of three accounts, and two of one.
Strangers == 1 :> u1 @@ 2 :> u2 @@ 3 :> u3
Siblings == 1 :> u1 @@ 2 :> u1

VARIABLES
    part,      \* "callers", "limit" or "turnover"
    \* Contacts
    edition, notices, thread, ended, requested, refresher, fetched, list, cmd, owed,
    \* CallContacts
    owner, turns, rows, req, outbox, delivers

WxList == INSTANCE Contacts WITH
    MaxEdition <- WxEditions, main <- thread, stop <- ended, worker <- refresher
Limit == INSTANCE CallContacts
\* Devices which change hands; their users' pages ask, too.
Turnover == INSTANCE CallContacts WITH
    Devs <- TurnDevs, Users <- TurnUsers, FirstOwner <- TurnOwner,
    MaxContactsPerDevice <- TurnLimit, MaxTurns <- Turns, Asked <- TurnAsked

ASSUME PartsAssumption ==
    /\ WxList!EditionsAssumption
    /\ Limit!DevicesAssumption /\ Turnover!DevicesAssumption

listVars == <<edition, notices, thread, ended, requested, refresher, fetched,
              list, cmd, owed>>
serverVars == <<owner, turns, rows, req, outbox, delivers>>

ContactsInit ==
    /\ part \in {"callers", "limit", "turnover"}
    /\ IF part = "turnover" THEN Turnover!Init ELSE Limit!Init
    /\ WxList!Init

ContactsNext ==
    \/ /\ part = "callers" /\ WxList!Next
       /\ UNCHANGED <<part, serverVars>>
    \/ /\ \/ part = "limit" /\ Limit!Next
          \/ part = "turnover" /\ Turnover!Next
       /\ UNCHANGED <<part, listVars>>

ContactsSpec == ContactsInit /\ [][ContactsNext]_<<part, listVars, serverVars>>

\* Requests are only compared for equality.
Alike == Permutations(Reqs)

-----------------------------------------------------------------------------
\* The properties of the parts, under names of their own.
(* No notice is swallowed by the refresh that runs when it comes: once the    *)
(* worker rests, the list is as new as the device was told (Contacts).        *)
NoticesAreFollowed == part = "callers" => WxList!NoticesAreFollowed
(* However many requests are answered at a time, by devices and by pages, a   *)
(* device never has more contacts by request than the limit (CallContacts).   *)
ManualWithinLimit == part = "limit" => Limit!ManualWithinLimit

(* A list never turns back: the WeChat list of a device is not replaced by an *)
(* older one (Contacts), and a contact the server has deleted or refused is   *)
(* not brought back by a list or a call (CallContacts).                       *)
ListsGoForward ==
    /\ WxList!ListNeverGoesBack
    /\ [][part = "turnover" => Turnover!ListsDoNotRevive]_serverVars
=============================================================================
