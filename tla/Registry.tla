------------------------------ MODULE Registry ------------------------------
(***************************************************************************)
(* The ConnectionRegistry (internal/registry/registry.go): the map from    *)
(* client_id to connection that all protocol handlers of the server share. *)
(* The map is a function whose domain is the set of keys.  Every method    *)
(* holds cr.mu from its first to its last line, so a call is one atomic    *)
(* step of the handler that makes it: the operators below are the value of *)
(* the map after the call, or the result that a read returns.              *)
(*                                                                         *)
(* An entry keeps Protocol and MessageCount.  ConnectedAt and LastSeen are *)
(* left out: no code of the server reads them.                             *)
(***************************************************************************)
EXTENDS Naturals, FiniteSets, Functions

Entry(Protocols) == [protocol : Protocols, messageCount : Nat]

\* What cr.connections may hold when ids come from ClientIDs.
IsRegistry(reg, ClientIDs, Protocols) ==
  /\ DOMAIN reg \subseteq ClientIDs
  /\ reg \in [DOMAIN reg -> Entry(Protocols)]

NewConnectionRegistry == [id \in {} |-> 0]

\* Add stores a new Client struct under its id, whatever was there before.
AddClient(reg, id, proto) ==
  [i \in DOMAIN reg \cup {id} |->
     IF i = id THEN [protocol |-> proto, messageCount |-> 0] ELSE reg[i]]

RemoveClient(reg, id) == [i \in DOMAIN reg \ {id} |-> reg[i]]

\* An unknown id is ignored.
RecordMessageOf(reg, id) ==
  [i \in DOMAIN reg |->
     IF i = id THEN [reg[i] EXCEPT !.messageCount = @ + 1] ELSE reg[i]]

CountClients(reg) == Cardinality(DOMAIN reg)

\* The sum each HandleStats makes over List(): the clients of its protocol.
TotalMessages(reg, Protocols) ==
  SumFunctionOnSet([i \in DOMAIN reg |-> reg[i].messageCount],
                   { i \in DOMAIN reg : reg[i].protocol \in Protocols })
=============================================================================
