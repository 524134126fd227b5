------------------------------- MODULE Proxy -------------------------------
(***************************************************************************)
(* The proxy that every process keeps of the central registry, and the     *)
(* end-points the process opens through it (librcom/src/proxy.c).          *)
(*                                                                         *)
(* Two threads of the process work on a proxy.  The application's thread   *)
(* opens and closes end-points; proxy_new_entry, proxy_delete_entry and    *)
(* the proxy_open_* functions take proxy->mutex for some of their steps    *)
(* and send their requests outside it, so each such part is an action.     *)
(* The reader thread of the registry link handles events and responses;    *)
(* a handler that runs under proxy->mutex is one action, which remembers   *)
(* in using[n] the end-points whose pointers it took from the registry,    *)
(* and a second one that releases the mutex, proxy_mutex_unlock: what the  *)
(* application does without the mutex comes between the two as well.       *)
(***************************************************************************)
EXTENDS RegistryLinks

VARIABLES
    status,     \* proxy->status, "none" before new_proxy, "gone" at the end
    preg,       \* preg[n]: proxy->registry->entries
    app,        \* app[n]: where the application's thread is
    reader,     \* reader[n]: where proxy_handle_update_list is
    ep,         \* ep[id]: the end-point object that was registered as id
    made,       \* history: the entries that were created, under any id
    using,      \* using[n]: the end-points that n's reader thread works on
                \* while it holds proxy->mutex
    failed      \* history: the ids whose registration failed

proxyVars == <<status, preg, app, reader, ep, made>>
useVars == <<using, failed>>

LinkTypes == {"datalink", "messagelink", "streamerlink"}

(* The types whose proxy_open_* function looks for existing peers *)
ConnectTypes == LinkTypes \cup {"datahub"}

Closed == [type |-> "none"]

(* remote is the address that a link is connected to, links the addresses  *)
(* a datahub sends to.  node and topic never change.                       *)
Endpoint == [type: Types, node: Nodes, topic: Topics, addr: Addrs,
             remote: Addrs \cup {NoAddr}, links: SUBSET Addrs]

IdleApp == [pc |-> "idle"]
IdleReader == [pc |-> "idle"]

ProxyTypeOK ==
    /\ status \in [Nodes -> {"none", "initializing", "ready", "gone"}]
    /\ preg \in [Nodes -> Seq(Entry)]
    /\ app \in [Nodes -> {IdleApp} \cup
                         [pc: {"register", "connect", "unregister"}, entry: Entry]]
    /\ reader \in [Nodes -> {IdleReader} \cup
                            [pc: {"insert", "prune"}, todo: Seq(Entry), list: Seq(Entry)]]
    /\ ep \in [Ids -> Endpoint \cup {Closed}]
    /\ made \in SUBSET Entry
    /\ using \in [Nodes -> SUBSET Ids]
    /\ failed \subseteq Ids

ProxyInit == /\ status = [n \in Nodes |-> "none"]
             /\ preg = [n \in Nodes |-> <<>>]
             /\ app = [n \in Nodes |-> IdleApp]
             /\ reader = [n \in Nodes |-> IdleReader]
             /\ ep = [id \in Ids |-> Closed]
             /\ made = {RegistryEntry}
             /\ using = [n \in Nodes |-> {}]
             /\ failed = {}

(* A handler releases proxy->mutex at its end.  The reader thread holds it *)
(* between two steps only while it works on end-points of its process;     *)
(* otherwise a handler is a single step.                                   *)
MutexFree(n) == using[n] = {}

-----------------------------------------------------------------------------
(* End-points, as the proxy uses them                                      *)

IsOpen(id) == ep[id] # Closed

(* The kernel gives a socket an address that no other socket has.          *)
FreeAddrs == Addrs \ ({Addr0, RegistryEntry.addr}
                      \cup {ep[id].addr : id \in {i \in Ids : IsOpen(i)}})

(* A message hub accepts connections at this address.                      *)
Listening(a) == \/ a = RegistryEntry.addr
                \/ \E id \in Ids : ep[id].type = "messagehub" /\ ep[id].addr = a

(* datalink_set_remote_addr, streamerlink_set_remote for a set of links.   *)
SetRemote(S, a) ==
    [id \in Ids |-> IF id \in S THEN [ep[id] EXCEPT !.remote = a] ELSE ep[id]]

(* datahub_add_link: the address is added unless it is in the list.        *)
datahub_add_link(id, S) == [ep EXCEPT ![id].links = @ \cup S]

(* client_messagelink_connect for a set of links: a link that is connected *)
(* elsewhere is disconnected first; then the connection is made, from a    *)
(* fresh local address, or fails.                                          *)
client_messagelink_connect(S, a, local) ==
    [id \in Ids |->
        IF id \notin S THEN ep[id]
        ELSE IF Listening(a) THEN [ep[id] EXCEPT !.remote = a, !.addr = local[id]]
        ELSE [ep[id] EXCEPT !.remote = NoAddr, !.addr = Addr0]]

(* The end-points of S are deleted.  A message hub that goes away closes   *)
(* its connections: the links at the other end are no longer connected.    *)
DeleteEndpoints(S) ==
    LET lost == {ep[id].addr : id \in {i \in S : ep[i].type = "messagehub"}} IN
    [id \in Ids |->
        IF id \in S THEN Closed
        ELSE IF ep[id].type = "messagelink" /\ ep[id].remote \in lost
        THEN [ep[id] EXCEPT !.remote = NoAddr, !.addr = Addr0]
        ELSE ep[id]]

-----------------------------------------------------------------------------
(* The application's thread                                                *)

(* new_proxy: connect the link and send the list request.                  *)
new_proxy(n) ==
    /\ status[n] = "none"
    /\ status' = [status EXCEPT ![n] = "initializing"]
    /\ conn' = [conn EXCEPT ![n] = "open"]
    /\ up' = [up EXCEPT ![n] = <<ListReq>>]
    /\ UNCHANGED <<links, down, preg, app, reader, ep, made, useVars>>

(* The process or its proxy ends: proxy_cleanup, a crash, or new_proxy     *)
(* giving up.  Its end-points disappear with it and nothing is             *)
(* unregistered; of the requests in flight a prefix still arrives.         *)
Leave(n) ==
    /\ \E k \in 0..Len(up[n]) : up' = [up EXCEPT ![n] = SubSeq(@, 1, k)]
    /\ conn' = [conn EXCEPT ![n] = "closed"]
    /\ down' = [down EXCEPT ![n] = <<>>]
    /\ status' = [status EXCEPT ![n] = "gone"]
    /\ preg' = [preg EXCEPT ![n] = <<>>]
    /\ app' = [app EXCEPT ![n] = IdleApp]
    /\ reader' = [reader EXCEPT ![n] = IdleReader]
    /\ ep' = DeleteEndpoints({id \in Ids : IsOpen(id) /\ ep[id].node = n})
    /\ using' = [using EXCEPT ![n] = {}]
    /\ UNCHANGED <<links, made, failed>>

(* new_proxy waits ten seconds for the list and then gives up.             *)
new_proxy_timeout(n) == status[n] = "initializing" /\ Leave(n)

Exit(n) == status[n] = "ready" /\ Leave(n)

(* First part of proxy_new_entry: the end-point exists, its entry gets a   *)
(* fresh id and is inserted in the local registry.  Links other than       *)
(* datalinks start with the address 0.0.0.0:0.                             *)
proxy_new_entry(n, type, topic, name) ==
    /\ status[n] = "ready" /\ app[n] = IdleApp /\ MutexFree(n)
    /\ \E id \in Ids \ {m.id : m \in made},
          a \in IF type \in {"messagelink", "streamerlink"} THEN {Addr0} ELSE FreeAddrs :
       LET e == [id |-> id, name |-> name, topic |-> topic, type |-> type,
                 addr |-> a, endpoint |-> TRUE] IN
       /\ preg' = [preg EXCEPT ![n] = registry_insert(@, e)]
       /\ app' = [app EXCEPT ![n] = [pc |-> "register", entry |-> e]]
       /\ ep' = [ep EXCEPT ![id] = [type |-> type, node |-> n, topic |-> topic, addr |-> a,
                                    remote |-> NoAddr, links |-> {}]]
       /\ made' = made \cup {e}
    /\ UNCHANGED <<netVars, status, reader, useVars>>

(* Mutant: the request is sent twice.                                      *)
proxy_send_register_request_twice(n) ==
    /\ app[n].pc = "register" /\ CanSend(n)
    /\ up' = [up EXCEPT ![n] = @ \o <<RegisterReq(app[n].entry), RegisterReq(app[n].entry)>>]
    /\ app' = [app EXCEPT ![n] = IF app[n].entry.type \in ConnectTypes
                                 THEN [pc |-> "connect", entry |-> app[n].entry]
                                 ELSE IdleApp]
    /\ UNCHANGED <<conn, links, down, status, preg, reader, ep, made, useVars>>

(* Second part: the request is sent, outside the mutex.  The proxy_open_*  *)
(* function then connects the end-point, if it has anything to connect.    *)
proxy_send_register_request(n) ==
    /\ app[n].pc = "register" /\ CanSend(n)
    /\ up' = [up EXCEPT ![n] = Append(@, RegisterReq(app[n].entry))]
    /\ app' = [app EXCEPT ![n] = IF app[n].entry.type \in ConnectTypes
                                 THEN [pc |-> "connect", entry |-> app[n].entry]
                                 ELSE IdleApp]
    /\ UNCHANGED <<conn, links, down, status, preg, reader, ep, made, useVars>>

(* Second part, the link to the registry is down: the entry is taken out   *)
(* again, without proxy->mutex.  "unregister" is where the entry is out    *)
(* and the end-point still there, as in proxy_delete_entry below.          *)
proxy_new_entry_failed(n) ==
    /\ app[n].pc = "register" /\ ~CanSend(n)
    /\ preg' = [preg EXCEPT ![n] = registry_delete(@, app[n].entry.id)]
    /\ app' = [app EXCEPT ![n] = [pc |-> "unregister", entry |-> app[n].entry]]
    /\ failed' = failed \cup {app[n].entry.id}
    /\ UNCHANGED <<netVars, status, reader, ep, made, using>>

(* The failed proxy_open_* then deletes its end-point, which a handler     *)
(* that took its pointer before the registry_delete may still be using.    *)
proxy_open_failed(n) ==
    /\ app[n].pc = "unregister" /\ app[n].entry.id \in failed
    /\ ep' = DeleteEndpoints({app[n].entry.id})
    /\ app' = [app EXCEPT ![n] = IdleApp]
    /\ UNCHANGED <<netVars, status, preg, reader, made, useVars>>

Connecting(n, type) == /\ app[n].pc = "connect" /\ app[n].entry.type = type
                       /\ MutexFree(n)

Connected(n) == /\ app' = [app EXCEPT ![n] = IdleApp]
                /\ UNCHANGED <<netVars, status, preg, reader, made, useVars>>

(* Mutant: an end-point does not look for its peers when it opens.         *)
OpenWithoutLooking(n, type) == Connecting(n, type) /\ Connected(n) /\ UNCHANGED ep
proxy_open_datalink_blind(n) == OpenWithoutLooking(n, "datalink")
proxy_open_datahub_blind(n) == OpenWithoutLooking(n, "datahub")

(* Last part of proxy_open_datalink and proxy_open_streamerlink: take the  *)
(* address of the hub or streamer that list_get returns, if there is one.  *)
OpenLink(n, linkType, hubType) ==
    /\ Connecting(n, linkType)
    /\ LET k == LastSelected(preg[n], app[n].entry.topic, hubType) IN
       ep' = IF k = 0 THEN ep ELSE SetRemote({app[n].entry.id}, preg[n][k].addr)
    /\ Connected(n)

proxy_open_datalink(n) == OpenLink(n, "datalink", "datahub")
proxy_open_streamerlink(n) == OpenLink(n, "streamerlink", "streamer")

(* Last part of proxy_open_datahub: send to all the known datalinks.       *)
proxy_open_datahub(n) ==
    /\ Connecting(n, "datahub")
    /\ ep' = datahub_add_link(app[n].entry.id,
                {preg[n][i].addr : i \in {j \in 1..Len(preg[n]) :
                                            /\ preg[n][j].type = "datalink"
                                            /\ preg[n][j].topic = app[n].entry.topic}})
    /\ Connected(n)

(* Last part of proxy_open_messagelink.  The entry of the link keeps its   *)
(* address 0.0.0.0:0 here and in the central registry.                     *)
proxy_open_messagelink(n) ==
    /\ Connecting(n, "messagelink")
    /\ LET id == app[n].entry.id
           k  == LastSelected(preg[n], app[n].entry.topic, "messagehub") IN
       IF k = 0 \/ (k # 0 /\ ep[id].remote = preg[n][k].addr)
       THEN UNCHANGED ep
       ELSE \E local \in [{id} -> FreeAddrs] :
              ep' = client_messagelink_connect({id}, preg[n][k].addr, local)
    /\ Connected(n)

(* proxy_delete_entry: the entry with this end-point is taken out.         *)
DeleteEntry(n, id) ==
    /\ status[n] = "ready" /\ app[n] = IdleApp
    /\ IsOpen(id) /\ ep[id].node = n
    /\ LET S == {i \in 1..Len(preg[n]) : preg[n][i].id = id /\ preg[n][i].endpoint} IN
       /\ S # {}
       /\ app' = [app EXCEPT ![n] = [pc |-> "unregister",
                                     entry |-> preg[n][CHOOSE i \in S : TRUE]]]
    /\ preg' = [preg EXCEPT ![n] = registry_delete(@, id)]
    /\ UNCHANGED <<netVars, status, reader, ep, made, useVars>>

(* Mutant: without the mutex, as in a failed proxy_new_entry.              *)
proxy_delete_entry_unlocked(n, id) == DeleteEntry(n, id)

(* ... under the mutex                                                     *)
proxy_delete_entry(n, id) == MutexFree(n) /\ DeleteEntry(n, id)

(* The rest of proxy_close_*: the unregister request is sent, its outcome  *)
(* ignored, and the end-point is deleted.                                  *)
proxy_send_unregister_request(n) ==
    /\ app[n].pc = "unregister" /\ app[n].entry.id \notin failed
    /\ up' = IF CanSend(n)
             THEN [up EXCEPT ![n] = Append(@, UnregisterReq(app[n].entry.id))] ELSE up
    /\ ep' = DeleteEndpoints({app[n].entry.id})
    /\ app' = [app EXCEPT ![n] = IdleApp]
    /\ UNCHANGED <<conn, links, down, status, preg, reader, made, useVars>>

-----------------------------------------------------------------------------
(* The reader thread of the link to the registry: proxy_onmessage          *)

HasMessage(n, kind) == /\ reader[n] = IdleReader /\ MutexFree(n)
                       /\ down[n] # <<>>
                       /\ Head(down[n]).kind = kind

Consume(n) == down' = [down EXCEPT ![n] = Tail(@)]

(* The handler works on the end-points of S while it holds the mutex ...   *)
Uses(n, S) == using' = [using EXCEPT ![n] = S] /\ UNCHANGED failed

(* ... and releases it.                                                    *)
proxy_mutex_unlock(n) ==
    /\ ~MutexFree(n)
    /\ using' = [using EXCEPT ![n] = {}]
    /\ UNCHANGED failed

(* proxy_handle_register_add inserts the entry unless the proxy has one    *)
(* with the same name, topic, type and address, whatever its id.           *)
WithEntry(s, e) == IF Known(s, e) THEN s ELSE registry_insert(s, e)

HandleAdd(n, types) ==
    /\ HasMessage(n, "proxy-add")
    /\ Head(down[n]).entry.type \in types
    /\ Consume(n)
    /\ UNCHANGED <<conn, links, status, app, reader, made>>

(* ... and, for a link or a service, proxy_add_connection has nothing to do. *)
proxy_handle_register_add(n) ==
    /\ HandleAdd(n, {"messagelink", "streamerlink", "service"})
    /\ preg' = [preg EXCEPT ![n] = WithEntry(@, Head(down[n]).entry)]
    /\ UNCHANGED <<up, ep, useVars>>

(* Mutant: the datahub is told its own address.                            *)
proxy_connect_datalink_self(n) ==
    /\ HandleAdd(n, {"datalink"})
    /\ LET e == Head(down[n]).entry
           s == WithEntry(preg[n], e)
           k == LastSelected(s, e.topic, "datahub") IN
       /\ preg' = [preg EXCEPT ![n] = s]
       /\ ep' = IF k # 0 /\ s[k].endpoint THEN datahub_add_link(s[k].id, {s[k].addr}) ELSE ep
       /\ Uses(n, IF k # 0 /\ s[k].endpoint THEN {s[k].id} ELSE {})
    /\ UNCHANGED up

(* ... proxy_connect_datalink: only the datahub that list_get returns is   *)
(* told, if it is a local one.                                             *)
proxy_connect_datalink(n) ==
    /\ HandleAdd(n, {"datalink"})
    /\ LET e == Head(down[n]).entry
           s == WithEntry(preg[n], e)
           k == LastSelected(s, e.topic, "datahub") IN
       /\ preg' = [preg EXCEPT ![n] = s]
       /\ ep' = IF k # 0 /\ s[k].endpoint THEN datahub_add_link(s[k].id, {e.addr}) ELSE ep
       /\ Uses(n, IF k # 0 /\ s[k].endpoint THEN {s[k].id} ELSE {})
    /\ UNCHANGED up

(* ... proxy_connect_datahub and proxy_connect_streamer: all the local     *)
(* links of the topic.                                                     *)
ConnectLinks(n, linkType, hubType) ==
    /\ HandleAdd(n, {hubType})
    /\ LET e == Head(down[n]).entry
           s == WithEntry(preg[n], e) IN
       /\ preg' = [preg EXCEPT ![n] = s]
       /\ ep' = SetRemote(LocalIds(s, e.topic, linkType), e.addr)
       /\ Uses(n, LocalIds(s, e.topic, linkType))
    /\ UNCHANGED up

proxy_connect_datahub(n) == ConnectLinks(n, "datalink", "datahub")
proxy_connect_streamer(n) == ConnectLinks(n, "streamerlink", "streamer")

(* ... proxy_connect_messagehub: connect the local links that are not      *)
(* connected to the hub.  The local registry gets the new address of each, *)
(* and so does the central one: the requests are sent from the reader      *)
(* thread, in either order, and a failure to send them is ignored.         *)
proxy_connect_messagehub(n) ==
    /\ HandleAdd(n, {"messagehub"})
    /\ LET e == Head(down[n]).entry
           s == WithEntry(preg[n], e)
           L == {id \in LocalIds(s, e.topic, "messagelink") : ep[id].remote # e.addr} IN
       /\ Uses(n, LocalIds(s, e.topic, "messagelink"))
       /\ \E local \in [L -> FreeAddrs] :
          /\ \A x, y \in L : local[x] = local[y] => x = y
          /\ ep' = client_messagelink_connect(L, e.addr, local)
          /\ preg' = [preg EXCEPT ![n] =
                [i \in 1..Len(s) |->
                   IF Listening(e.addr) /\ s[i].id \in L /\ i = FirstId(s, s[i].id)
                   THEN [s[i] EXCEPT !.addr = local[s[i].id]] ELSE s[i]]]
          /\ \E order \in SetToSeqs(L) :
             up' = IF Listening(e.addr) /\ CanSend(n)
                   THEN [up EXCEPT ![n] = @ \o [i \in 1..Len(order) |->
                                   UpdateAddressReq(order[i], local[order[i]])]]
                   ELSE up

(* proxy_handle_register_remove and proxy_remove_connection, which acts    *)
(* only on datahubs: the local datalinks of the topic lose their hub.      *)
proxy_handle_register_remove(n) ==
    /\ HasMessage(n, "proxy-remove")
    /\ LET id == Head(down[n]).id
           s  == preg[n] IN
       IF id \notin IdsOf(s) THEN UNCHANGED <<preg, ep, useVars>>
       ELSE LET e == s[FirstId(s, id)]
                t == registry_delete(s, id) IN
            /\ preg' = [preg EXCEPT ![n] = t]
            /\ ep' = IF e.type = "datahub"
                     THEN SetRemote(LocalIds(t, e.topic, "datalink"), NoAddr) ELSE ep
            /\ Uses(n, IF e.type = "datahub"
                       THEN LocalIds(t, e.topic, "datalink") ELSE {})
    /\ Consume(n)
    /\ UNCHANGED <<conn, links, up, status, app, reader, made>>

(* proxy_handle_update_address, outside proxy->mutex.                      *)
proxy_handle_update_address(n) ==
    /\ HasMessage(n, "proxy-update-address")
    /\ preg' = [preg EXCEPT ![n] =
                  registry_update_addr(@, Head(down[n]).id, Head(down[n]).addr)]
    /\ Consume(n)
    /\ UNCHANGED <<conn, links, up, status, app, reader, ep, made, useVars>>

(* proxy_onresponse: the other responses change nothing (a failed register *)
(* ends the application, and the proxy sends no request that fails).       *)
proxy_onresponse(n) ==
    /\ HasMessage(n, "response")
    /\ Consume(n)
    /\ UNCHANGED <<conn, links, up, status, preg, app, reader, ep, made, useVars>>

-----------------------------------------------------------------------------
(* proxy_handle_update_list.  It runs under proxy->mutex, one entry at a   *)
(* time.  The list is requested in new_proxy only, so there are no local   *)
(* end-points to keep or to connect yet.                                   *)

proxy_handle_update_list(n) ==
    /\ HasMessage(n, "list")
    /\ reader' = [reader EXCEPT ![n] = [pc |-> "insert", todo |-> Head(down[n]).list,
                                        list |-> Head(down[n]).list]]
    /\ Consume(n)
    /\ UNCHANGED <<conn, links, up, status, preg, app, ep, made, useVars>>

(* "add the missing endpoints"                                             *)
update_list_insert(n) ==
    /\ reader[n].pc = "insert" /\ reader[n].todo # <<>>
    /\ preg' = [preg EXCEPT ![n] = WithEntry(@, Head(reader[n].todo))]
    /\ reader' = [reader EXCEPT ![n].todo = Tail(@)]
    /\ UNCHANGED <<netVars, status, app, ep, made, useVars>>

update_list_select(n) ==
    /\ reader[n].pc = "insert" /\ reader[n].todo = <<>>
    /\ reader' = [reader EXCEPT ![n] = [pc |-> "prune", todo |-> preg[n],
                                        list |-> reader[n].list]]
    /\ UNCHANGED <<netVars, status, preg, app, ep, made, useVars>>

(* "remove the endpoints that have vanished", last entry first; an entry   *)
(* with a local end-point is kept.                                         *)
Vanished(n, e) == ~Known(reader[n].list, e) /\ ~e.endpoint

update_list_prune(n) ==
    /\ reader[n].pc = "prune" /\ reader[n].todo # <<>>
    /\ LET e == Last(reader[n].todo) IN
       preg' = IF Vanished(n, e) THEN [preg EXCEPT ![n] = registry_delete(@, e.id)]
                                 ELSE preg
    /\ reader' = [reader EXCEPT ![n].todo = Front(@)]
    /\ UNCHANGED <<netVars, status, app, ep, made, useVars>>

update_list_ready(n) ==
    /\ reader[n].pc = "prune" /\ reader[n].todo = <<>>
    /\ status' = [status EXCEPT ![n] = "ready"]
    /\ reader' = [reader EXCEPT ![n] = IdleReader]
    /\ UNCHANGED <<netVars, preg, app, ep, made, useVars>>

(* The connection to the registry breaks under a running process.  The     *)
(* proxy has no code to connect again.                                     *)
LinkBreaks(n) ==
    /\ status[n] = "ready" /\ conn[n] = "open"
    /\ conn' = [conn EXCEPT ![n] = "closed"]
    /\ \E k \in 0..Len(up[n]) : up' = [up EXCEPT ![n] = SubSeq(@, 1, k)]
    /\ down' = [down EXCEPT ![n] = <<>>]
    /\ UNCHANGED <<links, proxyVars, useVars>>
=============================================================================
