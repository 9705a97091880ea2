------------------------------- MODULE Interop -------------------------------
(***************************************************************************)
(* A call from BaseClient through a client transport, the server's routes  *)
(* and adapters to the request handler, and its events or error back, for  *)
(* the three bindings in protocol 1.0 and 0.3.  The request handler is the *)
(* environment: it yields any of Events and then returns or raises.        *)
(*                                                                         *)
(* Interceptors, headers other than the version, telemetry and the syntax  *)
(* of JSON, SSE and protobuf are left out; a connection is a queue of      *)
(* frames that the client may lose at any moment.                          *)
(***************************************************************************)
EXTENDS Wire

CONSTANTS
    Calls,      \* the calls of one client
    Scenarios,  \* [world, plan]: the server's card, endpoints and handler and the client's
                \* configuration; what each call asks, Absent for one that is not made
    Events,     \* what the request handler may yield
    Failures,   \* the classes it may raise: world.raises, some of them
    MaxEvents   \* bound on the events of a stream

Unary == Ops \ Streams
Card  == [interfaces : Seq(Interface), streaming : BOOLEAN, extended : BOOLEAN]

\* An event or an answer, which has what its kind has.  What the caller gets may have a blank
\* message in its status.
Status(Text) == [state : State, message : Text \cup {Absent}, timestamp : BOOLEAN]
Event(Text)  == [kind : {"task", "status", "artifact", "message", "config", "other"},
                 status : Status(Text) \cup {Absent}, history : Message \cup {Absent},
                 artifact : Part \cup {Absent}, message : Message \cup {Absent},
                 push : Push \cup {Absent}, final : {FALSE}]
IsWhole(e) == /\ e.status # Absent   <=> e.kind \in {"task", "status"}
              /\ e.message # Absent  <=> e.kind = "message"
              /\ e.push # Absent     <=> e.kind = "config"
              /\ e.history # Absent   => e.kind = "task"
              /\ e.artifact # Absent  => e.kind \in {"task", "artifact"}
              /\ e.kind = "artifact"  => e.artifact # Absent

\* What a call asks, which has what its operation takes.
Request == [op : (Unary \ {"SendMessage"}) \cup {"Send", "SubscribeToTask"},
            data : [message : Message \cup {Absent}, history : {"unset", "zero", "some"},
                    immediate : BOOLEAN, push : Push \cup {Absent}, fields : SUBSET {"metadata", "tenant"}]]
IsProper(a) == /\ a.data.message # Absent     <=> a.op = "Send"
               /\ a.data.push # Absent         => a.op \in {"Send", "CreateConfig"}
               /\ a.op = "CreateConfig"        => a.data.push # Absent
               /\ a.data.history # "unset"     => a.op \in {"Send", "GetTask"}
               /\ a.data.immediate             => a.op = "Send"
               /\ "metadata" \in a.data.fields => a.op \in {"Send", "CancelTask"}

\* The card as the client reads it, and the transport it takes for it.
Parsed(w) == ParseCard(IF w.old THEN OldDict(w.card) ELSE CardToDict(w.card))
Chosen(w) == Transport(Parsed(w).interfaces, w.bindings, w.prefer)

\* A world in which there is a client at all, and the server has what its card offers.
IsWorld(w) ==
    /\ w.card \in Card /\ w.extendedCard \in Card /\ Chosen(w) # <<>>
    /\ ToCompatCard(w.card) = <<>> \/ ToCompatCard(w.extendedCard) # <<>>
    /\ w.old => w.compat
    /\ (\E n \in DOMAIN w.card.interfaces : w.card.interfaces[n].version \in 3..9) => w.compat
    /\ w.old \in BOOLEAN /\ w.compat \in BOOLEAN /\ w.prefer \in BOOLEAN /\ w.wants \in BOOLEAN
    /\ w.polling \in BOOLEAN /\ w.breaks \in BOOLEAN /\ w.push \in Push \cup {Absent}
    /\ w.verbs \subseteq {"GET", "POST"} /\ w.raises \subseteq Failures

ASSUME InteropAssumption ==
    /\ \A s \in Scenarios :
        /\ s = [world |-> s.world, plan |-> s.plan] /\ IsWorld(s.world)
        /\ s.plan \in [Calls -> Request \cup {Absent}]
        /\ \A c \in Calls : s.plan[c] # Absent => IsProper(s.plan[c])
    /\ \A e \in Events : e \in Event(Message) /\ IsWhole(e)
    /\ "none" \notin Failures /\ "returned" \notin Failures
    /\ MaxEvents \in Nat \ {0}

VARIABLES
    world, plan,
    card,           \* streaming, of BaseClient._card; extended, of the transport's agent_card
    override, auto, \* _subscribe_method_override, _subscribe_auto_method_override
    phase, op,      \* each call: idle, sent, runs (in the handler), over; and its operation
    wire,           \* the request on its way
    heard,          \* what the handler was asked
    yielded, raised,\* what it has yielded; "none", "returned" or the class it raised
    frames,         \* the response on its way
    got, outcome,   \* what the caller has received; "none", "ok" or the class it got
    refused, broke  \* history: the server found no handler; the connection was lost

client == <<card, override, auto>>
server == <<heard, yielded, raised>>
result == <<got, outcome, broke>>
vars   == <<world, plan, client, phase, op, wire, server, frames, result, refused>>

T == Chosen(world)[1]

Sent(o, d, verb) == [target |-> Targets(T, verb)[o], version |-> IF T.legacy THEN 3 ELSE 10,
                     data |-> Written(T, o, d)]

(***************************************************************************)
(* The server: one that has 1.0, 0.3 beside it when compat, and only 0.3   *)
(* when old.                                                               *)
(***************************************************************************)
Routes ==
    LET new == CASE T.binding = "JSONRPC"   -> Models10 \cup Streams10
                 [] T.binding = "HTTP+JSON" -> Routes10
                 [] T.binding = "GRPC"      -> TaskService10 \cup ConfigService10
        legacy == CASE T.binding = "JSONRPC"   -> Models03 \cup Streams03
                    [] T.binding = "HTTP+JSON" -> Routes03(world.verbs)
                    [] T.binding = "GRPC"      -> TaskService03 \cup ConfigService03
    IN (IF world.old THEN {} ELSE new) \cup (IF world.compat THEN legacy ELSE {})

-----------------------------------------------------------------------------
TypeOK ==
    /\ [world |-> world, plan |-> plan] \in Scenarios
    /\ card \in [streaming : BOOLEAN, extended : BOOLEAN]
    /\ override \in {"none", "GET", "POST"} /\ auto \in BOOLEAN
    /\ phase \in [Calls -> {"idle", "sent", "runs", "answered", "over"}]
    /\ op \in [Calls -> Unary \cup Streams \cup {"none"}]
    /\ \A c \in Calls : /\ Len(yielded[c]) <= MaxEvents
                        /\ Len(got[c]) <= MaxEvents
                        /\ got[c] \in Seq(Event(Message \cup {BlankMessage}))
    /\ raised \in [Calls -> Failures \cup {"none", "returned"}]
    /\ outcome \in [Calls -> {"none", "ok", "NotImplementedError", "A2AClientError"}
                                \cup DOMAIN JsonRpcCode]
    /\ refused \in [Calls -> BOOLEAN] /\ broke \in [Calls -> BOOLEAN]

Init ==
    /\ \E s \in Scenarios : world = s.world /\ plan = s.plan
    /\ card = [streaming |-> Parsed(world).streaming, extended |-> Parsed(world).extended]
    /\ override = "none" /\ auto = TRUE
    /\ phase = [c \in Calls |-> IF plan[c] = Absent THEN "over" ELSE "idle"]
    /\ op = [c \in Calls |-> "none"] /\ wire = [c \in Calls |-> <<>>]
    /\ heard = [c \in Calls |-> <<>>] /\ yielded = [c \in Calls |-> <<>>]
    /\ raised = [c \in Calls |-> "none"] /\ frames = [c \in Calls |-> <<>>]
    /\ got = [c \in Calls |-> <<>>] /\ outcome = [c \in Calls |-> "none"]
    /\ refused = [c \in Calls |-> FALSE] /\ broke = [c \in Calls |-> FALSE]

(***************************************************************************)
(* The client starts a call.                                               *)
(***************************************************************************)
Streaming == world.wants /\ card.streaming
Operation(c) == IF plan[c].op # "Send" THEN plan[c].op
                ELSE IF Streaming THEN "SendStreamingMessage" ELSE "SendMessage"
\* _apply_client_config: a polling client never waits; its own endpoint where none is given.
Configured(c) ==
    IF plan[c].op = "Send"
    THEN [plan[c].data EXCEPT !.immediate = @ \/ world.polling, !.push = IF @ = Absent THEN world.push ELSE @]
    ELSE plan[c].data

\* Mutant: the verb that was found to work is not used.
VerbForgotten == "POST"
Verb == IF override = "none" THEN "POST" ELSE override

\* The call ends in the client: the operation is not there, or the answer is the card it has.
Unable(c) == (Operation(c) = "SubscribeToTask" /\ ~Streaming) \/ Operation(c) \notin DOMAIN Targets(T, Verb)
Known(c)  == Operation(c) = "GetExtendedAgentCard" /\ ~card.extended /\ ~(T.legacy /\ T.binding = "GRPC")
EndsAtHome(c) ==
    /\ phase[c] = "idle" /\ (Unable(c) \/ Known(c))
    /\ phase' = [phase EXCEPT ![c] = "over"]
    /\ outcome' = [outcome EXCEPT ![c] = IF Unable(c) THEN "NotImplementedError" ELSE "ok"]
    /\ UNCHANGED <<world, plan, client, op, wire, server, frames, got, broke, refused>>

Send(c) ==
    LET o == Operation(c)
    IN /\ phase[c] = "idle" /\ ~Unable(c) /\ ~Known(c)
       /\ phase' = [phase EXCEPT ![c] = "sent"] /\ op' = [op EXCEPT ![c] = o]
       /\ wire' = [wire EXCEPT ![c] = <<Sent(o, Configured(c), Verb)>>]
       /\ UNCHANGED <<world, plan, client, server, frames, result, refused>>

(***************************************************************************)
(* The server.                                                             *)
(***************************************************************************)
Offered(target) == {r[2] : r \in {x \in Routes : x[1] = target}}
Expected == IF T.legacy THEN 3 ELSE 10

\* What the server's web framework or dispatcher says of a target it does not know.
Unrouted(target) ==
    CASE T.binding = "JSONRPC"   -> [code |-> JsonRpcCode["MethodNotFoundError"]]
      [] T.binding = "HTTP+JSON" -> [status |-> IF \E r \in Routes : r[1][2] = target[2] THEN 405 ELSE 404,
                                     reason |-> "unknown"]
      [] T.binding = "GRPC"      -> [reason |-> "unknown"]

\* No handler: an unknown method, path or verb, or a version the endpoint does not speak.
Refuse(c) ==
    LET w == wire[c][1]
        frame == IF Offered(w.target) = {} THEN Unrouted(w.target)
                 ELSE ErrorFrame(T, op[c], "VersionNotSupportedError")
    IN /\ phase[c] = "sent"
       /\ Offered(w.target) = {} \/ (T.binding # "GRPC" /\ ~IsVersionCompatible(w.version, Expected))
       /\ frames' = [frames EXCEPT ![c] = <<frame>>]
       /\ phase' = [phase EXCEPT ![c] = "answered"] /\ refused' = [refused EXCEPT ![c] = TRUE]
       /\ UNCHANGED <<world, plan, client, op, wire, server, result>>

Handle(c) ==
    LET w == wire[c][1]
    IN /\ phase[c] = "sent"
       /\ T.binding = "GRPC" \/ IsVersionCompatible(w.version, Expected)
       /\ \E o \in Offered(w.target) :
            heard' = [heard EXCEPT ![c] = <<[op |-> o, data |-> Read(T, o, w.data)]>>]
       /\ phase' = [phase EXCEPT ![c] = "runs"]
       /\ UNCHANGED <<world, plan, client, op, wire, yielded, raised, frames, result, refused>>

Kinds(o) == CASE o \in Streams      -> {"task", "status", "artifact", "message"}
              [] o = "SendMessage"  -> {"task", "message"}
              [] o \in {"GetTask", "CancelTask"} -> {"task"}
              [] o \in {"CreateConfig", "GetConfig", "ListConfigs"} -> {"config"}
              [] OTHER              -> {"other"}
\* apply_history_length: an answered task goes without its history when its length is zero.
Trimmed(e, o, d) == IF e.kind = "task" /\ o \in Sends \cup {"GetTask"} /\ d.history = "zero"
                    THEN [e EXCEPT !.history = Absent] ELSE e

\* The handler yields an event of a stream, or returns the answer of a unary call.
Yield(c) ==
    LET o == heard[c][1].op
    IN /\ phase[c] = "runs" /\ raised[c] = "none"
       /\ Len(yielded[c]) < (IF o \in Streams THEN MaxEvents ELSE 1)
       /\ \E e \in Events :
            LET answer == Trimmed(e, o, heard[c][1].data)
            IN /\ e.kind \in Kinds(o)
               /\ yielded' = [yielded EXCEPT ![c] = Append(@, answer)]
               /\ frames' = [frames EXCEPT ![c] = Append(@, [event |-> Reply(T, answer)])]
       /\ raised' = IF o \in Streams THEN raised ELSE [raised EXCEPT ![c] = "returned"]
       /\ phase' = IF o \in Streams THEN phase ELSE [phase EXCEPT ![c] = "answered"]
       /\ UNCHANGED <<world, plan, client, op, wire, heard, result, refused>>

Finish(c) ==
    /\ phase[c] = "runs" /\ raised[c] = "none" /\ heard[c][1].op \in Streams
    /\ raised' = [raised EXCEPT ![c] = "returned"]
    /\ frames' = [frames EXCEPT ![c] = Append(@, [end |-> TRUE])]
    /\ phase' = [phase EXCEPT ![c] = "answered"]
    /\ UNCHANGED <<world, plan, client, op, wire, heard, yielded, result, refused>>

Raise(c) ==
    /\ phase[c] = "runs" /\ raised[c] = "none"
    /\ \E e \in world.raises :
        /\ raised' = [raised EXCEPT ![c] = e]
        /\ frames' = [frames EXCEPT ![c] = Append(@, ErrorFrame(T, heard[c][1].op, e))]
    /\ phase' = [phase EXCEPT ![c] = "answered"]
    /\ UNCHANGED <<world, plan, client, op, wire, heard, yielded, result, refused>>

(***************************************************************************)
(* The client reads the response.                                          *)
(***************************************************************************)
Frame(c)    == Head(frames[c])
Waiting(c)  == phase[c] \in {"runs", "answered"} /\ frames[c] # <<>>
Close(c, o) == phase' = [phase EXCEPT ![c] = "over"] /\ outcome' = [outcome EXCEPT ![c] = o]
                /\ frames' = [frames EXCEPT ![c] = <<>>]

\* The extended card becomes BaseClient's; only the 0.3 transports take it for their own too.
Extended == IF T.legacy THEN ThroughCompat(world.extendedCard)
            ELSE [card EXCEPT !.streaming = world.extendedCard.streaming]

\* An answer; in a stream, BaseClient stops after a Message.
TakeEvent(c) ==
    LET e == Understood(T, Frame(c).event)
    IN /\ Waiting(c) /\ "event" \in DOMAIN Frame(c)
       /\ got' = [got EXCEPT ![c] = Append(@, e)]
       /\ IF op[c] \in Unary \/ e.kind = "message" THEN Close(c, "ok")
          ELSE frames' = [frames EXCEPT ![c] = Tail(@)] /\ UNCHANGED <<phase, outcome>>
       /\ card' = IF op[c] = "GetExtendedAgentCard" THEN Extended ELSE card
       /\ UNCHANGED <<world, plan, override, auto, op, wire, server, broke, refused>>

TakeEnd(c) ==
    /\ Waiting(c) /\ "end" \in DOMAIN Frame(c) /\ Close(c, "ok")
    /\ UNCHANGED <<world, plan, client, op, wire, server, got, broke, refused>>

WrongVerb(c) == /\ T.legacy /\ T.binding = "HTTP+JSON" /\ op[c] = "SubscribeToTask"
                /\ "status" \in DOMAIN Frame(c) /\ Frame(c).status = 405
IsError(f)   == DOMAIN f \cap {"code", "status", "reason", "abort"} # {}

TakeError(c) ==
    /\ Waiting(c) /\ IsError(Frame(c)) /\ ~WrongVerb(c)
    /\ Close(c, ErrorClass(T, Frame(c)))
    /\ UNCHANGED <<world, plan, client, op, wire, server, got, broke, refused>>

\* CompatRestTransport.subscribe on a 405: GET, unless an override is set already; then the
\* automatic fallback is over and POST stays.
FallBack(c) ==
    /\ Waiting(c) /\ WrongVerb(c)
    /\ IF override = "none"
       THEN /\ override' = "GET" /\ auto' = auto
            /\ wire' = [wire EXCEPT ![c] = <<Sent("SubscribeToTask", Configured(c), "GET")>>]
            /\ phase' = [phase EXCEPT ![c] = "sent"] /\ frames' = [frames EXCEPT ![c] = <<>>]
            /\ outcome' = outcome
       ELSE /\ override' = (IF auto THEN "POST" ELSE override) /\ auto' = FALSE
            /\ Close(c, "A2AClientError") /\ wire' = wire
    /\ UNCHANGED <<world, plan, card, op, server, got, broke, refused>>

\* Mutant: a lost connection passes for the end of the answer.
BreakSilently(c) ==
    /\ phase[c] \in {"sent", "runs", "answered"} /\ world.breaks
    /\ Close(c, "ok") /\ broke' = [broke EXCEPT ![c] = TRUE]
    /\ UNCHANGED <<world, plan, client, op, wire, server, got, refused>>

\* The connection is lost, or the caller's time is over.
Break(c) ==
    /\ phase[c] \in {"sent", "runs", "answered"} /\ world.breaks
    /\ Close(c, "A2AClientError") /\ broke' = [broke EXCEPT ![c] = TRUE]
    /\ UNCHANGED <<world, plan, client, op, wire, server, got, refused>>

Next == \E c \in Calls :
    \/ EndsAtHome(c) \/ Send(c) \/ Refuse(c) \/ Handle(c) \/ Yield(c) \/ Finish(c) \/ Raise(c)
    \/ TakeEvent(c) \/ TakeEnd(c) \/ TakeError(c) \/ FallBack(c) \/ Break(c)

Spec == Init /\ [][Next]_vars

-----------------------------------------------------------------------------
(* What must hold                                                          *)

\* The client calls only what the server has: whatever the card offers, the transport chosen
\* from it reaches a handler, except that an old REST server may not know the verb of a
\* subscription; and the handler is asked for what the caller wanted (client_factory.py,
\* conversions.py, proto_utils.py and the transports).  Of the data, 0.3 has no tenant and its
\* protobuf form no references and no difference between no history length and zero; the
\* metadata of a cancel is lost over REST and in 0.3's protobuf form.
Keeps(c) ==
    LET asked == plan[c].data   given == heard[c][1].data   o == op[c]
        cancel == o = "CancelTask" /\ (T.binding = "HTTP+JSON" \/ ViaProto(T))
    IN /\ heard[c][1].op = o
       /\ IF plan[c].op = "Send" THEN o \in Sends ELSE o = plan[c].op
       /\ given.immediate = (asked.immediate \/ (o \in Sends /\ world.polling))
       /\ given.push = (IF o \in Sends /\ asked.push = Absent THEN world.push ELSE asked.push)
       /\ asked.fields \ given.fields \subseteq (IF T.legacy THEN {"tenant"} ELSE {})
                                               \cup (IF cancel THEN {"metadata"} ELSE {})
       /\ given.fields \subseteq asked.fields
       /\ \/ given.history = asked.history
          \/ ViaProto(T) /\ {given.history, asked.history} = {"unset", "zero"}
       /\ o \in Sends =>
            /\ given.message.part = asked.message.part
            /\ \/ given.message.role = asked.message.role
               \/ T.legacy /\ asked.message.role = "unspecified"
            /\ asked.message.has \ given.message.has \subseteq (IF ViaProto(T) THEN {"references"} ELSE {})
CallsArrive ==
    \A c \in Calls : /\ refused[c] => T.legacy /\ T.binding = "HTTP+JSON" /\ op[c] = "SubscribeToTask"
                     /\ heard[c] # <<>> => Keeps(c)

\* An error of the handler reaches the caller as the class it was raised as, after whatever
\* was yielded before it: over the three bindings of 1.0 and over gRPC 0.3; only a Message
\* or a lost connection keeps it from the caller.  (0.3 over JSON-RPC answers with an
\* InternalError and over REST loses the class: Raise and RestClass show how.)
ErrorsKeepTheirClass ==
    \A c \in Calls :
        raised[c] \in DOMAIN JsonRpcCode \ {"JSONParseError"} /\ phase[c] = "over" /\ ~broke[c] /\ (~T.legacy \/ T.binding = "GRPC")
        => \/ outcome[c] = raised[c] /\ Len(got[c]) = Len(yielded[c])
           \/ got[c] # <<>> /\ got[c][Len(got[c])].kind = "message"

\* The caller receives the handler's events unchanged, in order and without a gap, and is told
\* that the stream is complete only when it is or when a Message was its last event; in
\* particular a lost connection or an error never looks like an end.  0.3 knows no message
\* without a role, and its protobuf form loses timestamps and references and puts an empty
\* message where a status has none.
SameMessage(a, b) ==
    IF ~T.legacy \/ a = Absent THEN b = a
    ELSE b = [a EXCEPT !.role = IF @ = "unspecified" THEN "agent" ELSE @,
                       !.has = IF ViaProto(T) THEN @ \ {"references"} ELSE @]
SameStatus(a, b)  ==
    IF a = Absent THEN b = a
    ELSE /\ b.state = a.state /\ (ViaProto(T) \/ b.timestamp = a.timestamp)
         /\ SameMessage(a.message, b.message) \/ (ViaProto(T) /\ a.message = Absent)
SameEvent(a, b)   == /\ a.kind = b.kind /\ a.artifact = b.artifact /\ a.push = b.push /\ a.final = b.final
                     /\ SameStatus(a.status, b.status) /\ SameMessage(a.message, b.message)
                     /\ SameMessage(a.history, b.history)
StreamIsFaithful ==
    \A c \in Calls :
        /\ Len(got[c]) <= Len(yielded[c])
        /\ \A n \in DOMAIN got[c] : SameEvent(yielded[c][n], got[c][n])
        /\ (outcome[c] = "ok" /\ op[c] # "none") =>
              \/ raised[c] = "returned" /\ Len(got[c]) = Len(yielded[c])
              \/ got[c] # <<>> /\ got[c][Len(got[c])].kind = "message"

\* subscribe() of the 0.3 REST transport "falls back to GET and remembers this preference for
\* future calls on this transport instance" (rest_transport.py:286-287): on a server that has
\* GET alone, once a subscription has fallen back, no later one is sent with POST or takes the
\* preference back.  Except that one still under way with POST is refused and does take it
\* back, for good: hence the last conjunct.
Settled ==
    /\ world.verbs = {"GET"} /\ override = "GET"
    /\ \A c \in Calls : op[c] = "SubscribeToTask" /\ phase[c] \in {"sent", "answered"} =>
                        wire[c][1].target[1] = "GET"
PreferenceKept == [][Settled => Settled']_vars
=============================================================================
