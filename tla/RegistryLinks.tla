--------------------------- MODULE RegistryLinks ---------------------------
(***************************************************************************)
(* The connections between the proxies and the message hub of rcregistry:  *)
(* one WebSocket over TCP per process, so each direction is a FIFO queue.  *)
(* The wire messages are the JSON objects of rcregistry.c and proxy.c.     *)
(***************************************************************************)
EXTENDS Registry

CONSTANTS Nodes,            \* the processes that own a proxy
          RegistryEntry     \* the entry of the registry's own message hub

ASSUME RegistryEntryAssumption == /\ RegistryEntry \in Entry
                                  /\ RegistryEntry.type = "messagehub"
                                  /\ ~RegistryEntry.endpoint

VARIABLES
    conn,   \* conn[n]: the state of n's link, "none" before new_proxy
    links,  \* hub->links: the links that a broadcast reaches
    up,     \* up[n]: requests that n sent and its handler has not read
    down    \* down[n]: messages that n's reader thread has not read

netVars == <<conn, links, up, down>>

(* Requests *)
RegisterReq(e)         == [kind |-> "register", entry |-> registry_entry_encode(e)]
UnregisterReq(id)      == [kind |-> "unregister", id |-> id]
UpdateAddressReq(id, a) == [kind |-> "update-address", id |-> id, addr |-> a]
ListReq                == [kind |-> "list"]

Requests == [kind: {"register"}, entry: Entry]
       \cup [kind: {"unregister"}, id: Ids]
       \cup [kind: {"update-address"}, id: Ids, addr: Addrs]
       \cup {ListReq}

(* Events and responses *)
AddEvent(e)            == [kind |-> "proxy-add", entry |-> registry_entry_encode(e)]
RemoveEvent(id)        == [kind |-> "proxy-remove", id |-> id]
UpdateAddressEvent(id, a) == [kind |-> "proxy-update-address", id |-> id, addr |-> a]
Response(req, ok)      == [kind |-> "response", response |-> req, success |-> ok]
ListResponse(s)        == [kind |-> "list", list |-> s]

Events == [kind: {"proxy-add"}, entry: Entry]
     \cup [kind: {"proxy-remove"}, id: Ids]
     \cup [kind: {"proxy-update-address"}, id: Ids, addr: Addrs]

Responses == [kind: {"response"},
              response: {"register", "unregister", "update-address"},
              success: BOOLEAN]
        \cup [kind: {"list"}, list: Seq(Entry)]

(* The id that an event is about *)
EventId(ev) == IF ev.kind = "proxy-add" THEN ev.entry.id ELSE ev.id

(* messagelink_send_text: -2 unless the link is open.                      *)
CanSend(n) == conn[n] = "open"

NetInit == /\ conn = [n \in Nodes |-> "none"]
           /\ links = {}
           /\ up = [n \in Nodes |-> <<>>]
           /\ down = [n \in Nodes |-> <<>>]

NetTypeOK == /\ conn \in [Nodes -> {"none", "open", "closed"}]
             /\ links \subseteq Nodes
             /\ up \in [Nodes -> Seq(Requests)]
             /\ down \in [Nodes -> Seq(Events \cup Responses)]
=============================================================================
