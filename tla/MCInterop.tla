----------------------------- MODULE MCInterop -----------------------------
(***************************************************************************)
(* TLC instances of Interop: a server for each binding and version, cards  *)
(* with several interfaces, servers of 0.3 that know one verb or none for  *)
(* a subscription; one call of every operation with every kind of data, or *)
(* two subscriptions, or a message beside a request for the extended card. *)
(***************************************************************************)
EXTENDS Interop, TLC

CONSTANTS c1, c2

TwoCalls == {c1, c2}
I(binding, version) == [binding |-> binding, version |-> version]
Client == <<"JSONRPC", "HTTP+JSON", "GRPC">>

World(interfaces) ==
    [old |-> FALSE, compat |-> TRUE,
     card |-> [interfaces |-> interfaces, streaming |-> TRUE, extended |-> TRUE],
     extendedCard |-> [interfaces |-> interfaces, streaming |-> FALSE, extended |-> FALSE],
     bindings |-> Client, prefer |-> FALSE, wants |-> TRUE, polling |-> FALSE,
     push |-> Absent, verbs |-> {"GET", "POST"}, breaks |-> FALSE, raises |-> {}]
Plain == {World(<<I(b, v)>>) : b \in Bindings, v \in {3, 10}}
Modern == {[World(<<I(b, v)>>) EXCEPT !.compat = FALSE] : b \in {"JSONRPC", "GRPC"}, v \in {Unversioned, 10}}
Mixed ==
    {[World(<<I("HTTP+JSON", 3), I("JSONRPC", 10), I("HTTP+JSON", 10)>>) EXCEPT !.prefer = p] : p \in BOOLEAN}
    \cup {World(<<I("GRPC", 3), I("GRPC", Unversioned)>>)}
Polling == {[w EXCEPT !.polling = TRUE, !.push = [scheme |-> "none"], !.wants = b, !.card.streaming = ~b] :
                w \in Plain, b \in BOOLEAN}
Closed == {[w EXCEPT !.card.extended = FALSE, !.breaks = TRUE] : w \in Plain}
OldRest == {[World(<<I("HTTP+JSON", 3)>>) EXCEPT !.old = TRUE, !.verbs = v] : v \in {{}, {"GET"}, {"POST"}}}
AllWorlds == Plain \cup Modern \cup Mixed \cup Polling \cup Closed \cup OldRest

Text == [role |-> "user", part |-> "text", has |-> {}]
Nothing == [message |-> Absent, history |-> "unset", immediate |-> FALSE, push |-> Absent, fields |-> {}]
Hello == [Nothing EXCEPT !.message = Text]
SendData ==
    {[Hello EXCEPT !.history = h, !.immediate = i, !.push = IF i THEN [scheme |-> "bearer"] ELSE Absent,
                   !.fields = {"metadata"}] :
        h \in {"unset", "zero", "some"}, i \in BOOLEAN}
    \cup {[Hello EXCEPT !.message.part = p, !.message.has = {"references", "extensions"}, !.fields = {"tenant"}] :
            p \in {"value", "struct", "url"}}
    \cup {[Hello EXCEPT !.message.role = "unspecified"]}
Config == [Nothing EXCEPT !.push = [scheme |-> "bearer"]]
Ask(o, d) == [op |-> o, data |-> d]
Requests ==
    {Ask("Send", d) : d \in SendData}
    \cup {Ask("GetTask", [Nothing EXCEPT !.history = h]) : h \in {"unset", "zero", "some"}}
    \cup {Ask("CancelTask", [Nothing EXCEPT !.fields = {"metadata"}]), Ask("CreateConfig", Config)}
Operations ==
    {Ask("Send", Hello), Ask("CreateConfig", Config)}
    \cup {Ask(o, Nothing) : o \in (Unary \ {"SendMessage", "CreateConfig"}) \cup {"SubscribeToTask"}}
Alone(a) == (c1 :> a) @@ (c2 :> Absent)
Pairs ==
    {[c \in TwoCalls |-> Ask("SubscribeToTask", Nothing)],
     (c1 :> Ask("GetExtendedAgentCard", Nothing)) @@ (c2 :> Ask("Send", Hello))}

Note == [role |-> "agent", part |-> "value", has |-> {"references", "metadata"}]
E(kind) == [kind |-> kind, status |-> Absent, history |-> Absent, artifact |-> Absent,
            message |-> Absent, push |-> Absent, final |-> FALSE]
In(state, message) == [state |-> state, message |-> message, timestamp |-> TRUE]
SomeEvents ==
    {[E("task") EXCEPT !.status = In("unspecified", Absent), !.artifact = "raw",
                      !.history = [Text EXCEPT !.role = "unspecified"]],
     [E("status") EXCEPT !.status = In("completed", Note)], [E("artifact") EXCEPT !.artifact = "url"],
     [E("message") EXCEPT !.message = Note], E("other"),
     [E("config") EXCEPT !.push = [scheme |-> "bearer"]]}
AllFailures == DOMAIN JsonRpcCode \cup {"Exception"}

AllScenarios ==
    [world : AllWorlds, plan : {Alone(a) : a \in Requests}]
    \cup [world : {[w EXCEPT !.raises = AllFailures] : w \in AllWorlds}, plan : {Alone(a) : a \in Operations}]
    \cup [world : {[w EXCEPT !.raises = {"TaskNotFoundError"}] : w \in Plain \cup OldRest}, plan : Pairs]
=============================================================================
