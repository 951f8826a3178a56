---------------------------- MODULE OverlayHints ----------------------------
(***************************************************************************)
(* The overlay plugins (plugins/cjdns and plugins/yggdrasil) as consumers  *)
(* of the hint bus.  A plugin remembers the address of each node in        *)
(* peerCache and keeps the overlay's peers in step with it through the     *)
(* overlay's admin API.  Both plugins have the same code but for the       *)
(* removal of a peer, which cjdns leaves to its own timeouts.              *)
(*                                                                         *)
(* A hint is a record of type, node and addr; nothing keeps two nodes from *)
(* being announced with one address.  The bus calls a plugin from one      *)
(* worker at a time, so its mutex is not modelled.  A consumer that is no  *)
(* plugin of an overlay leaves the variables of this module alone.         *)
(***************************************************************************)
EXTENDS HintBus

CONSTANTS
    Nodes,
    NoAddr,    \* no address, or a nil one in a hint
    Plugins,   \* the consumers that are one of the two plugins
    Removers   \* the plugins whose removePeer calls the API (yggdrasil)

ASSUME OverlayAssumption ==
    /\ Removers \subseteq Plugins /\ Plugins \subseteq Names
    /\ \A h \in Hints : h.node \in Nodes

VARIABLES
    peerCache,  \* peerCache of each plugin: node -> address
    call,       \* the call of the admin API that Consume is about to make
    peers,      \* external: the overlay's peer addresses
    unsure,     \* history: addresses whose last API call failed
    orphaned    \* history: addresses removed for one node while cached for another

pluginVars == <<peerCache, call, peers, unsure, orphaned>>
allVars == <<vars, pluginVars>>

NoCall == [op |-> "none", addr |-> NoAddr]
Addrs == {h.addr : h \in Hints} \ {NoAddr}

PluginTypeOK ==
    /\ peerCache \in [Names -> [Nodes -> Addrs \cup {NoAddr}]]
    /\ call \in [Names -> {NoCall} \cup [op : {"add", "remove"}, addr : Addrs]]
    /\ peers \in [Names -> SUBSET Addrs]
    /\ unsure \in [Names -> SUBSET Addrs]
    /\ orphaned \in [Names -> SUBSET Addrs]

PluginInit ==
    /\ Init
    /\ peerCache = [n \in Names |-> [d \in Nodes |-> NoAddr]]
    /\ call = [n \in Names |-> NoCall]
    /\ peers = [n \in Names |-> {}]
    /\ unsure = [n \in Names |-> {}]
    /\ orphaned = [n \in Names |-> {}]

-----------------------------------------------------------------------------

\* The address is cached first; the API is called unless it was there before.
HandlePeerDiscovered(n, h) ==
    /\ n \in Plugins /\ h.type \in {"PeerDiscovered", "RouteAdded"} /\ h.addr # NoAddr
    /\ peerCache' = [peerCache EXCEPT ![n][h.node] = h.addr]
    /\ call' = [call EXCEPT ![n] =
                    IF peerCache[n][h.node] = h.addr THEN NoCall ELSE [op |-> "add", addr |-> h.addr]]
    /\ UNCHANGED orphaned

\* Mutant: the entry is not deleted.
HandleRouteRemovedKept(n, h) ==
    LET addr == peerCache[n][h.node]
        removed == addr # NoAddr /\ n \in Removers
    IN  /\ n \in Plugins /\ h.type = "RouteRemoved"
        /\ call' = [call EXCEPT ![n] = IF removed THEN [op |-> "remove", addr |-> addr] ELSE NoCall]
        /\ UNCHANGED <<peerCache, orphaned>>

\* The entry is deleted first; the address removed is the cached one, whoever
\* else has it.
HandleRouteRemoved(n, h) ==
    LET addr == peerCache[n][h.node]
        removed == addr # NoAddr /\ n \in Removers
        shared == \E d \in Nodes \ {h.node} : peerCache[n][d] = addr
    IN  /\ n \in Plugins /\ h.type = "RouteRemoved"
        /\ peerCache' = [peerCache EXCEPT ![n][h.node] = NoAddr]
        /\ call' = [call EXCEPT ![n] = IF removed THEN [op |-> "remove", addr |-> addr] ELSE NoCall]
        /\ orphaned' = [orphaned EXCEPT ![n] = IF removed /\ shared THEN @ \cup {addr} ELSE @]

\* A hint of another type or with a nil address changes nothing.
Ignored(n, h) ==
    \/ n \notin Plugins
    \/ h.type \notin {"PeerDiscovered", "RouteAdded", "RouteRemoved"}
    \/ h.type # "RouteRemoved" /\ h.addr = NoAddr

\* A worker takes a hint and calls Consume, up to the API call.
Consume(i) ==
    /\ SelectHint(i)
    /\ \/ HandlePeerDiscovered(name[i], Head(ch[i]))
       \/ HandleRouteRemoved(name[i], Head(ch[i]))
       \/ Ignored(name[i], Head(ch[i])) /\ UNCHANGED <<peerCache, call, orphaned>>
    /\ UNCHANGED <<peers, unsure>>

\* What the call does to the overlay when it is carried out.
Applied(n) ==
    CASE call[n].op = "add" -> peers[n] \cup {call[n].addr}
      [] call[n].op = "remove" -> peers[n] \ {call[n].addr}
      [] OTHER -> peers[n]

\* The call succeeds, or none was needed, and Consume returns.
CallSucceeds(i) ==
    /\ ProcessHint(i)
    /\ peers' = [peers EXCEPT ![name[i]] = Applied(name[i])]
    /\ unsure' = [unsure EXCEPT ![name[i]] = @ \ {call[name[i]].addr}]
    /\ orphaned' = [orphaned EXCEPT ![name[i]] =
                        IF call[name[i]].op = "add" THEN @ \ {call[name[i]].addr} ELSE @]
    /\ call' = [call EXCEPT ![name[i]] = NoCall]
    /\ UNCHANGED peerCache

\* callAdminAPI fails: the request was lost or refused, or its answer was.
CallFails(i) ==
    /\ ProcessHint(i)
    /\ call[name[i]] # NoCall
    /\ \/ peers' = [peers EXCEPT ![name[i]] = Applied(name[i])]
       \/ UNCHANGED peers
    /\ unsure' = [unsure EXCEPT ![name[i]] = @ \cup {call[name[i]].addr}]
    /\ call' = [call EXCEPT ![name[i]] = NoCall]
    /\ UNCHANGED <<peerCache, orphaned>>

PluginNext ==
    \/ BusStep /\ UNCHANGED pluginVars
    \/ \E i \in Regs : Consume(i) \/ CallSucceeds(i) \/ CallFails(i)

PluginSpec == PluginInit /\ [][PluginNext]_allVars /\ Fairness

-----------------------------------------------------------------------------
(* Properties *)

\* Between two calls, a cached address is a peer of the overlay, unless the
\* last call about it failed, which nothing repeats, or it was removed for
\* another node that had the same address.
CachedIsPeer ==
    \A n \in Names, d \in Nodes :
        LET a == peerCache[n][d]
        IN  a # NoAddr /\ call[n] = NoCall => a \in peers[n] \cup unsure[n] \cup orphaned[n]

=============================================================================
