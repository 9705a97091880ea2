----------------------------- MODULE AgentCards -----------------------------
(***************************************************************************)
(* From the agent's card to the client's transport: what the server        *)
(* publishes (agent_card_to_dict), what the client reads                   *)
(* (card_resolver.parse_agent_card) and the interface ClientFactory picks. *)
(*                                                                         *)
(* A card is its interfaces and the two capabilities the client looks at.  *)
(* An interface is [binding, version]; a version is counted in tenths (3   *)
(* for 0.3, 10 for 1.0) and 0 stands for an interface without one.  URLs   *)
(* are left out: an endpoint serves every interface of its binding.  What  *)
(* may be missing is a sequence of at most one element; what is filtered   *)
(* out of a list leaves a gap there, and nobody looks at more than the     *)
(* order of what is left.                                                  *)
(***************************************************************************)
EXTENDS Integers, Sequences

Bindings    == {"JSONRPC", "HTTP+JSON", "GRPC"}
Unversioned == 0
Interface   == [binding : Bindings, version : Nat]

\* Mutant: whatever is below 1.0, an interface without a version too.
IsLegacyUnbounded(version) == version < 10

\* compat/v0_3/versions.py: protocol versions from 0.3 on and below 1.0.
IsLegacy(version) == 3 <= version /\ version < 10

Least(at)            == CHOOSE n \in at : \A m \in at : n <= m
First(list, Test(_)) == LET found == {n \in DOMAIN list : Test(list[n])}
                        IN IF found = {} THEN <<>> ELSE <<list[Least(found)]>>
Else(a, b)           == IF a = <<>> THEN b ELSE a

(***************************************************************************)
(* The card as 0.3 lays it out: the interfaces a 0.3 client may use, the   *)
(* first of them the main one, one version, the main interface's, and a    *)
(* flag of its own for the extended card.                                  *)
(***************************************************************************)
ToCompatInterface(i)       == i.binding
ToCompatCapabilities(card) == [streaming |-> card.streaming]
ToCoreCapabilities(old)    == [streaming |-> old.capabilities.streaming, extended |-> old.supportsExtended]

ToCompatCard(card) ==
    LET Old(i)  == i.version = Unversioned \/ IsLegacy(i.version)
        old     == {n \in DOMAIN card.interfaces : Old(card.interfaces[n])}
        primary == card.interfaces[Least(old)]
    IN IF old = {} THEN <<>>
       ELSE <<[version          |-> IF primary.version = Unversioned THEN 3 ELSE primary.version,
               bindings         |-> [n \in old |-> ToCompatInterface(card.interfaces[n])],
               capabilities     |-> ToCompatCapabilities(card),
               supportsExtended |-> card.extended]>>

\* What the server publishes: the 1.0 fields and beside them, when there is an interface
\* for them, the 0.3 fields.
CardToDict(card) == [supported |-> card.interfaces, streaming |-> card.streaming,
                     extended |-> <<card.extended>>, legacy |-> ToCompatCard(card)]

\* What a server that has 0.3 alone publishes.
OldDict(card) == [CardToDict(card) EXCEPT !.supported = <<>>, !.extended = <<>>]

\* The 0.3 flag and fields count only where there are no 1.0 ones; the main version is
\* everyone's.
ParseExtended(dict) ==
    IF dict.extended # <<>> THEN dict.extended[1]
    ELSE dict.legacy # <<>> /\ dict.legacy[1].supportsExtended
ParseConnection(dict) ==
    IF dict.supported # <<>> \/ dict.legacy = <<>> THEN dict.supported
    ELSE LET old == dict.legacy[1]
         IN [n \in DOMAIN old.bindings |-> [binding |-> old.bindings[n], version |-> old.version]]
ParseCard(dict) == [interfaces |-> ParseConnection(dict), streaming |-> dict.streaming,
                    extended |-> ParseExtended(dict)]

\* An extended card that came through 0.3 (its interfaces are not looked at again).
ThroughCompat(card) == ToCoreCapabilities(ToCompatCard(card)[1])

\* Among the interfaces of a binding: 1.0, then what is newer, then what is at least 0.3,
\* then one that does not say.
FindBestInterface(interfaces, binding) ==
    LET Is10(i)    == i.binding = binding /\ i.version = 10
        Newer(i)   == i.binding = binding /\ i.version > 10
        Least03(i) == i.binding = binding /\ i.version >= 3
        Silent(i)  == i.binding = binding /\ i.version = Unversioned
    IN Else(First(interfaces, Is10), Else(First(interfaces, Newer),
            Else(First(interfaces, Least03), First(interfaces, Silent))))

\* ClientFactory.create: in the client's order, or in the order of the card, the first
\* binding both know; in the card's order a binding without a usable interface ends it.
Select(interfaces, bindings, preferClient) ==
    LET Usable(b) == FindBestInterface(interfaces, b) # <<>>
        Known(i)  == \E n \in DOMAIN bindings : bindings[n] = i.binding
        known     == First(interfaces, Known)
        binding   == IF preferClient THEN First(bindings, Usable)
                     ELSE IF known = <<>> THEN <<>> ELSE <<known[1].binding>>
    IN IF binding = <<>> THEN <<>> ELSE FindBestInterface(interfaces, binding[1])

\* The registered producers: the transport of the selected interface's binding, the 0.3
\* one exactly for a legacy version.
Transport(interfaces, bindings, preferClient) ==
    LET i == Select(interfaces, bindings, preferClient)
    IN IF i = <<>> THEN <<>> ELSE <<[binding |-> i[1].binding, legacy |-> IsLegacy(i[1].version)]>>
=============================================================================
