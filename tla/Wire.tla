-------------------------------- MODULE Wire --------------------------------
(***************************************************************************)
(* What travels between the client transports (client/transports and       *)
(* compat/v0_3/*_transport.py) and the server's endpoints (routes,         *)
(* dispatchers and compat/v0_3's handlers), for the three bindings in 1.0  *)
(* and 0.3: the method or path of each operation, how the request is       *)
(* written and read, how an error is written and understood.               *)
(*                                                                         *)
(* t is a transport, [binding, legacy].  An operation that a transport     *)
(* does not have is not in the domain of its table.                        *)
(***************************************************************************)
EXTENDS Compat, AgentCards

Streams == {"SendStreamingMessage", "SubscribeToTask"}
Sends   == {"SendMessage", "SendStreamingMessage"}
Tasks   == Sends \cup {"GetTask", "ListTasks", "CancelTask"}
Configs == {"CreateConfig", "GetConfig", "ListConfigs", "DeleteConfig"}
Others  == Configs \cup {"SubscribeToTask", "GetExtendedAgentCard"}
Ops     == Tasks \cup Others
ViaProto(t) == t.legacy /\ t.binding # "JSONRPC"

-----------------------------------------------------------------------------
(* The client transports                                                   *)

JsonRpcTasks10  == [o \in Tasks |-> o]
JsonRpcOthers10 == [o \in Others |-> o]

RestTasks10 ==
    [SendMessage |-> <<"POST", "/message:send">>, SendStreamingMessage |-> <<"POST", "/message:stream">>,
     GetTask |-> <<"GET", "/tasks/{id}">>, ListTasks |-> <<"GET", "/tasks">>,
     CancelTask |-> <<"POST", "/tasks/{id}:cancel">>]
RestOthers10 ==
    [SubscribeToTask |-> <<"POST", "/tasks/{id}:subscribe">>,
     CreateConfig |-> <<"POST", "/tasks/{id}/configs">>, GetConfig |-> <<"GET", "/tasks/{id}/configs/{push}">>,
     ListConfigs |-> <<"GET", "/tasks/{id}/configs">>,
     DeleteConfig |-> <<"DELETE", "/tasks/{id}/configs/{push}">>,
     GetExtendedAgentCard |-> <<"GET", "/extendedAgentCard">>]

Method10(o) == <<"lf.a2a.v1", o>>
GrpcTasks10  == [o \in Tasks \cup {"SubscribeToTask"} |-> Method10(o)]
GrpcOthers10 == [o \in Configs \cup {"GetExtendedAgentCard"} |-> Method10(o)]

JsonRpcTasks03 ==
    [SendMessage |-> "message/send", SendStreamingMessage |-> "message/stream",
     GetTask |-> "tasks/get", CancelTask |-> "tasks/cancel"]
JsonRpcConfigs03 ==
    [CreateConfig |-> "tasks/pushNotificationConfig/set", GetConfig |-> "tasks/pushNotificationConfig/get",
     ListConfigs |-> "tasks/pushNotificationConfig/list",
     DeleteConfig |-> "tasks/pushNotificationConfig/delete"]
JsonRpcOthers03 ==
    [SubscribeToTask |-> "tasks/resubscribe",
     GetExtendedAgentCard |-> "agent/getAuthenticatedExtendedCard"]

RestTasks03 ==
    [SendMessage |-> <<"POST", "/v1/message:send">>, SendStreamingMessage |-> <<"POST", "/v1/message:stream">>,
     GetTask |-> <<"GET", "/v1/tasks/{id}">>, CancelTask |-> <<"POST", "/v1/tasks/{id}:cancel">>]
RestOthers03 ==
    [CreateConfig |-> <<"POST", "/v1/tasks/{id}/configs">>,
     GetConfig |-> <<"GET", "/v1/tasks/{id}/configs/{push}">>, GetExtendedAgentCard |-> <<"GET", "/v1/card">>]
RestSubscribe03(verb) == [SubscribeToTask |-> <<verb, "/v1/tasks/{id}:subscribe">>]

Method03(o) == <<"a2a.v1", CASE o = "SubscribeToTask"      -> "TaskSubscription"
                             [] o = "GetExtendedAgentCard" -> "GetAgentCard"
                             [] o = "ListConfigs"          -> "ListConfig"
                             [] OTHER                      -> o>>
GrpcTasks03  == [o \in Sends \cup {"SubscribeToTask", "GetTask", "CancelTask"} |-> Method03(o)]
GrpcOthers03 == [o \in Configs \cup {"GetExtendedAgentCard"} |-> Method03(o)]

Both(f, g) == [o \in DOMAIN f \cup DOMAIN g |-> IF o \in DOMAIN f THEN f[o] ELSE g[o]]
Targets(t, verb) ==
    CASE t.binding = "JSONRPC" /\ ~t.legacy   -> Both(JsonRpcTasks10, JsonRpcOthers10)
      [] t.binding = "HTTP+JSON" /\ ~t.legacy -> Both(RestTasks10, RestOthers10)
      [] t.binding = "GRPC" /\ ~t.legacy      -> Both(GrpcTasks10, GrpcOthers10)
      [] t.binding = "JSONRPC" /\ t.legacy    -> Both(JsonRpcTasks03, Both(JsonRpcConfigs03, JsonRpcOthers03))
      [] t.binding = "HTTP+JSON" /\ t.legacy  -> Both(RestTasks03, Both(RestOthers03, RestSubscribe03(verb)))
      [] t.binding = "GRPC" /\ t.legacy       -> Both(GrpcTasks03, GrpcOthers03)

\* The data as the transport writes it: in protobuf 0.3 a cancel has no metadata.
WithoutMetadata(d) == [d EXCEPT !.fields = @ \ {"metadata"}]
WrittenProto(t, o, d) ==
    CASE o \in Sends                              -> ProtoSend(d)
      [] o = "GetTask" /\ t.binding = "GRPC"      -> ProtoQuery(d)
      [] o = "CancelTask"                         -> WithoutMetadata(d)
      [] OTHER                                    -> d
Written(t, o, d) == IF ~t.legacy THEN d
                    ELSE IF ViaProto(t) THEN WrittenProto(t, o, ToCompatRequest(o, d))
                    ELSE ToCompatRequest(o, d)

-----------------------------------------------------------------------------
(* The server's endpoints: <<target, operation>>                           *)

Models10  == {<<o, o>> : o \in Ops \ Streams}
Streams10 == {<<o, o>> : o \in Streams}

Routes10 ==
    {<<<<"POST", "/message:send">>, "SendMessage">>,
     <<<<"POST", "/message:stream">>, "SendStreamingMessage">>,
     <<<<"POST", "/tasks/{id}:cancel">>, "CancelTask">>,
     <<<<"GET", "/tasks/{id}:subscribe">>, "SubscribeToTask">>,
     <<<<"POST", "/tasks/{id}:subscribe">>, "SubscribeToTask">>,
     <<<<"GET", "/tasks/{id}">>, "GetTask">>, <<<<"GET", "/tasks">>, "ListTasks">>,
     <<<<"GET", "/tasks/{id}/configs/{push}">>, "GetConfig">>,
     <<<<"DELETE", "/tasks/{id}/configs/{push}">>, "DeleteConfig">>,
     <<<<"POST", "/tasks/{id}/configs">>, "CreateConfig">>,
     <<<<"GET", "/tasks/{id}/configs">>, "ListConfigs">>,
     <<<<"GET", "/extendedAgentCard">>, "GetExtendedAgentCard">>}

TaskService10   == {<<Method10(o), o>> : o \in Sends \cup {"CancelTask", "SubscribeToTask"}}
ConfigService10 == {<<Method10(o), o>> : o \in Configs \cup {"GetTask", "ListTasks", "GetExtendedAgentCard"}}

Models03 ==
    {<<"message/send", "SendMessage">>, <<"tasks/get", "GetTask">>, <<"tasks/cancel", "CancelTask">>,
     <<"tasks/pushNotificationConfig/set", "CreateConfig">>,
     <<"tasks/pushNotificationConfig/get", "GetConfig">>,
     <<"tasks/pushNotificationConfig/list", "ListConfigs">>,
     <<"tasks/pushNotificationConfig/delete", "DeleteConfig">>,
     <<"agent/getAuthenticatedExtendedCard", "GetExtendedAgentCard">>}
Streams03 == {<<"message/stream", "SendStreamingMessage">>, <<"tasks/resubscribe", "SubscribeToTask">>}

\* verbs: those a server has for a subscription; this one has both.
Routes03(verbs) ==
    {<<<<"POST", "/v1/message:send">>, "SendMessage">>,
     <<<<"POST", "/v1/message:stream">>, "SendStreamingMessage">>,
     <<<<"POST", "/v1/tasks/{id}:cancel">>, "CancelTask">>, <<<<"GET", "/v1/tasks/{id}">>, "GetTask">>,
     <<<<"GET", "/v1/tasks/{id}/configs/{push}">>, "GetConfig">>,
     <<<<"POST", "/v1/tasks/{id}/configs">>, "CreateConfig">>,
     <<<<"GET", "/v1/tasks/{id}/configs">>, "ListConfigs">>,
     <<<<"GET", "/v1/card">>, "GetExtendedAgentCard">>}
    \cup {<<<<verb, "/v1/tasks/{id}:subscribe">>, "SubscribeToTask">> : verb \in verbs}

TaskService03   == {<<Method03(o), o>> : o \in Sends \cup {"GetTask", "CancelTask", "SubscribeToTask"}}
ConfigService03 == {<<Method03(o), o>> : o \in Configs \cup {"GetExtendedAgentCard"}}

\* The data as the request handler is given it.  The 1.0 REST endpoint ignores a cancel's body.
ReadRest10(o, d) == IF o = "CancelTask" THEN WithoutMetadata(d) ELSE d
ReadRest03(o, d) == IF o \in Sends THEN FromProtoSend(d) ELSE d
ReadGrpc03(o, d) == CASE o \in Sends     -> FromProtoSend(d)
                      [] o = "GetTask"   -> FromProtoQuery(d)
                      [] OTHER           -> d
Read(t, o, d) ==
    CASE t.binding = "HTTP+JSON" /\ ~t.legacy  -> ReadRest10(o, d)
      [] t.binding # "HTTP+JSON" /\ ~t.legacy  -> d
      [] t.binding = "JSONRPC" /\ t.legacy     -> ToCoreRequest(o, d)
      [] t.binding = "HTTP+JSON" /\ t.legacy   -> ToCoreRequest(o, ReadRest03(o, d))
      [] t.binding = "GRPC" /\ t.legacy        -> ToCoreRequest(o, ReadGrpc03(o, d))

\* validate_version: the same major version, whatever the minor; gRPC does not look.
IsVersionCompatible(actual, expected) == actual = expected \/ actual \div 10 = expected \div 10

\* Answers and events.
ReplyProto(e) == ProtoEvent(ToCompatEvent(e))
Reply(t, e) == IF ~t.legacy THEN e ELSE IF ViaProto(t) THEN ReplyProto(e) ELSE ToCompatEvent(e)
Understood(t, e) ==
    IF ~t.legacy THEN e ELSE ToCoreEvent(IF ViaProto(t) THEN FromProtoEvent(e) ELSE e)

-----------------------------------------------------------------------------
(* Errors                                                                  *)

JsonRpcCode ==
    [TaskNotFoundError |-> -32001, TaskNotCancelableError |-> -32002,
     PushNotificationNotSupportedError |-> -32003, UnsupportedOperationError |-> -32004,
     ContentTypeNotSupportedError |-> -32005, InvalidAgentResponseError |-> -32006,
     ExtendedAgentCardNotConfiguredError |-> -32007, ExtensionSupportRequiredError |-> -32008,
     VersionNotSupportedError |-> -32009, InvalidParamsError |-> -32602,
     InvalidRequestError |-> -32600, MethodNotFoundError |-> -32601, InternalError |-> -32603,
     JSONParseError |-> -32700]
\* Mutant: a class forgotten in the tables of REST and gRPC.
MappedForgotten == DOMAIN JsonRpcCode \ {"JSONParseError", "ExtensionSupportRequiredError"}
Mapped == DOMAIN JsonRpcCode \ {"JSONParseError"}
HttpCode(e) == CASE e \in {"TaskNotFoundError", "MethodNotFoundError"}                     -> 404
                 [] e \notin Mapped \/ e \in {"InvalidAgentResponseError", "InternalError"} -> 500
                 [] OTHER                                                                 -> 400

JsonRpcError10(e) == [code |-> IF e \in DOMAIN JsonRpcCode THEN JsonRpcCode[e] ELSE JsonRpcCode["InternalError"]]
JsonRpcError03(e) == [code |-> JsonRpcCode["InternalError"]]
Reason(e)         == IF e \in Mapped THEN e ELSE "unknown"
RestError(e)      == [status |-> HttpCode(e), reason |-> Reason(e)]
\* 0.3 REST has sent its headers before the handler runs: the stream just breaks off.
RestStreamError03(e) == [abort |-> TRUE]
GrpcError10(e)    == [reason |-> Reason(e)]
GrpcError03(e)    == [reason |-> Reason(e)]
ErrorFrame(t, o, e) ==
    CASE t.binding = "JSONRPC" /\ t.legacy    -> JsonRpcError03(e)
      [] t.binding = "JSONRPC" /\ ~t.legacy   -> JsonRpcError10(e)
      [] t.binding = "HTTP+JSON" /\ t.legacy /\ o \in Streams      -> RestStreamError03(e)
      [] t.binding = "HTTP+JSON" /\ (~t.legacy \/ o \notin Streams) -> RestError(e)
      [] t.binding = "GRPC" /\ t.legacy       -> GrpcError03(e)
      [] t.binding = "GRPC" /\ ~t.legacy      -> GrpcError10(e)

JsonRpcClass(f) == CHOOSE e \in DOMAIN JsonRpcCode : JsonRpcCode[e] = f.code
NotFound(f)     == IF f.status = 404 THEN "MethodNotFoundError" ELSE "A2AClientError"
\* Mutant: the reason taken for a class without a look at the table.
RestClass10Unchecked(f) == f.reason
RestClass10(f)  == IF f.reason \in Mapped THEN f.reason ELSE NotFound(f)
\* It looks for a `type' that no server sends, and is left with the status.
RestClass03(f)  == NotFound(f)
GrpcClass10(f)  == IF f.reason \in Mapped THEN f.reason ELSE "A2AClientError"
GrpcClass03(f)  == IF f.reason \in Mapped THEN f.reason ELSE "A2AClientError"
ErrorClass(t, f) ==
    CASE "abort" \in DOMAIN f  -> "A2AClientError"
      [] "code" \in DOMAIN f   -> JsonRpcClass(f)
      [] "status" \in DOMAIN f -> IF t.legacy THEN RestClass03(f) ELSE RestClass10(f)
      [] DOMAIN f = {"reason"} -> IF t.legacy THEN GrpcClass03(f) ELSE GrpcClass10(f)
=============================================================================
