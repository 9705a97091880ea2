------------------------------- MODULE Compat -------------------------------
(***************************************************************************)
(* The data of a call between its 1.0 form and the 0.3 ones: the 0.3 types *)
(* of compat/v0_3/types.py (conversions.py: ToCompat..., ToCore...) and    *)
(* the 0.3 protobuf messages (proto_utils.py: Proto..., FromProto...),     *)
(* which cannot tell a field that is absent from one that is empty.        *)
(*                                                                         *)
(* A message is its role, the kind of its only part and the optional       *)
(* fields it has; a status its state, message and timestamp; a task its    *)
(* status, at most one message of history and one artifact of one part.    *)
(***************************************************************************)
EXTENDS Integers, Sequences

CONSTANT Absent     \* what may be missing and is

Part    == {"text", "struct", "value", "raw", "url"}
Message == [role : {"user", "agent", "unspecified"}, part : Part,
            has : SUBSET {"references", "metadata", "extensions"}]
Push    == [scheme : {"none", "bearer"}]
State   == {"unspecified", "submitted", "working", "input-required", "auth-required",
            "completed", "canceled", "failed", "rejected"}
Ended   == {"completed", "canceled", "failed", "rejected"}

\* No part or message, in whichever of the forms below, and no push configuration.
CompatPart == [content : {"text", "struct", "bytes", "uri", "data", "file_with_bytes", "file_with_uri"},
               wrapped : BOOLEAN]
ASSUME AbsentAssumption ==
    /\ Absent \notin Part \cup CompatPart \cup Push \cup [schemes : {<<>>, <<"bearer">>}]
    /\ Absent \notin [role : {"user", "agent", "unspecified"}, part : Part \cup CompatPart \cup {Absent},
                     has : SUBSET {"references", "metadata", "extensions"}]

Option(value, Convert(_)) == IF value = Absent THEN Absent ELSE Convert(value)

-----------------------------------------------------------------------------
(* Between 1.0 and the types of 0.3                                        *)

CompatState == [s \in State |-> IF s = "unspecified" THEN "unknown" ELSE s]
ToCompatState(s) == CompatState[s]
ToCoreState(s)   == CHOOSE core \in State : CompatState[core] = s

\* A data part of 0.3 is a dictionary: any other value travels wrapped in one, marked; and a
\* file is its bytes or its URI.
ToCompatPart(part) ==
    [content |-> CASE part = "value" -> "struct" [] part = "raw" -> "bytes" [] part = "url" -> "uri"
                   [] OTHER -> part,
     wrapped |-> part = "value"]
ToCorePart(part) ==
    CASE part.content = "struct" -> (IF part.wrapped THEN "value" ELSE "struct")
      [] part.content = "bytes"  -> "raw"
      [] part.content = "uri"    -> "url"
      [] part.content = "text"   -> "text"

ToCompatMessage(m) == [m EXCEPT !.role = IF @ = "user" THEN "user" ELSE "agent",
                                !.part = Option(@, ToCompatPart)]
ToCoreMessage(m)   == [m EXCEPT !.part = Option(@, ToCorePart)]

ToCompatArtifact(part) == ToCompatPart(part)
ToCoreArtifact(part)   == ToCorePart(part)

ToCompatStatus(s) == [s EXCEPT !.state = ToCompatState(@), !.message = Option(@, ToCompatMessage)]
ToCoreStatus(s)   == [s EXCEPT !.state = ToCoreState(@), !.message = Option(@, ToCoreMessage)]

\* A push notification has one scheme in 1.0 and a list of them in 0.3.
ToCompatPush(p) == [schemes |-> IF p.scheme = "none" THEN <<>> ELSE <<p.scheme>>]
ToCorePush(p)   == [scheme |-> IF p.schemes = <<>> THEN "none" ELSE p.schemes[1]]

(***************************************************************************)
(* Events and answers: [kind, status, history, artifact, message, push,    *)
(* final], in each kind Absent what it does not have.  0.3 says of a       *)
(* status update whether it is the last.                                   *)
(***************************************************************************)
ToCompatTask(e)   == [e EXCEPT !.status = ToCompatStatus(@), !.history = Option(@, ToCompatMessage),
                               !.artifact = Option(@, ToCompatArtifact)]
ToCoreTask(e)     == [e EXCEPT !.status = ToCoreStatus(@), !.history = Option(@, ToCoreMessage),
                               !.artifact = Option(@, ToCoreArtifact)]
ToCompatUpdate(e) == [e EXCEPT !.status = ToCompatStatus(@), !.final = e.status.state \in Ended]
ToCoreUpdate(e)   == [e EXCEPT !.status = ToCoreStatus(@), !.final = FALSE]
ToCompatArtifactUpdate(e) == [e EXCEPT !.artifact = ToCompatArtifact(@)]
ToCoreArtifactUpdate(e)   == [e EXCEPT !.artifact = ToCoreArtifact(@)]
ToCompatConfig(e) == [e EXCEPT !.push = ToCompatPush(@)]
ToCoreConfig(e)   == [e EXCEPT !.push = ToCorePush(@)]

\* What message/send answers, and then whatever a stream carries or a call answers.
ToCompatAnswer(e) == IF e.kind = "task" THEN ToCompatTask(e) ELSE [e EXCEPT !.message = ToCompatMessage(@)]
ToCoreAnswer(e)   == IF e.kind = "task" THEN ToCoreTask(e) ELSE [e EXCEPT !.message = ToCoreMessage(@)]
ToCompatEvent(e) ==
    CASE e.kind \in {"task", "message"} -> ToCompatAnswer(e)
      [] e.kind = "status"              -> ToCompatUpdate(e)
      [] e.kind = "artifact"            -> ToCompatArtifactUpdate(e)
      [] e.kind = "config"              -> ToCompatConfig(e)
      [] e.kind = "other"               -> e
ToCoreEvent(e) ==
    CASE e.kind \in {"task", "message"} -> ToCoreAnswer(e)
      [] e.kind = "status"              -> ToCoreUpdate(e)
      [] e.kind = "artifact"            -> ToCoreArtifactUpdate(e)
      [] e.kind = "config"              -> ToCoreConfig(e)
      [] e.kind = "other"               -> e

(***************************************************************************)
(* Requests: [message, history, immediate, push, fields], a history length *)
(* "unset", "zero" or "some".  What 1.0 calls return_immediately, 0.3      *)
(* calls blocking and means the opposite.  A request is built anew from    *)
(* the fields its conversion names: the tenant has no place in 0.3.        *)
(***************************************************************************)
Blank03 == [message |-> Absent, history |-> "unset", blocking |-> TRUE, push |-> Absent, fields |-> {}]
Blank10 == [message |-> Absent, history |-> "unset", immediate |-> FALSE, push |-> Absent, fields |-> {}]

ToCompatConfiguration(old, r) ==
    [old EXCEPT !.history = r.history, !.blocking = ~r.immediate, !.push = Option(r.push, ToCompatPush)]
ToCoreConfiguration(new, r) ==
    [new EXCEPT !.history = r.history, !.immediate = ~r.blocking, !.push = Option(r.push, ToCorePush)]

ToCompatSend(r) == ToCompatConfiguration([Blank03 EXCEPT !.message = ToCompatMessage(r.message),
                                                         !.fields = r.fields \cap {"metadata"}], r)
ToCoreSend(r)   == ToCoreConfiguration([Blank10 EXCEPT !.message = ToCoreMessage(r.message),
                                                       !.fields = r.fields \cap {"metadata"}], r)
ToCompatQuery(r)  == [Blank03 EXCEPT !.history = r.history]
ToCoreQuery(r)    == [Blank10 EXCEPT !.history = r.history]
ToCompatCancel(r) == [Blank03 EXCEPT !.fields = r.fields \cap {"metadata"}]
ToCoreCancel(r)   == [Blank10 EXCEPT !.fields = r.fields \cap {"metadata"}]
ToCompatCreate(r) == [Blank03 EXCEPT !.push = ToCompatPush(r.push)]
ToCoreCreate(r)   == [Blank10 EXCEPT !.push = ToCorePush(r.push)]
\* The identifiers, which the others carry and nothing else, are left out.
ToCompatConfigId(r) == Blank03
ToCoreConfigId(r)   == Blank10
ToCompatTaskId(r)   == Blank03
ToCoreTaskId(r)     == Blank10

ToCompatRequest(o, r) ==
    CASE o \in {"SendMessage", "SendStreamingMessage"} -> ToCompatSend(r)
      [] o = "GetTask"      -> ToCompatQuery(r)
      [] o = "CancelTask"   -> ToCompatCancel(r)
      [] o = "CreateConfig" -> ToCompatCreate(r)
      [] o \in {"GetConfig", "DeleteConfig"} -> ToCompatConfigId(r)
      [] OTHER              -> ToCompatTaskId(r)
ToCoreRequest(o, r) ==
    CASE o \in {"SendMessage", "SendStreamingMessage"} -> ToCoreSend(r)
      [] o = "GetTask"      -> ToCoreQuery(r)
      [] o = "CancelTask"   -> ToCoreCancel(r)
      [] o = "CreateConfig" -> ToCoreCreate(r)
      [] o \in {"GetConfig", "DeleteConfig"} -> ToCoreConfigId(r)
      [] OTHER              -> ToCoreTaskId(r)

-----------------------------------------------------------------------------
(* Between the types and the protobuf messages of 0.3                      *)

ProtoState(s)     == IF s = "unknown" THEN "unspecified" ELSE s
FromProtoState(s) == IF s = "unspecified" THEN "unknown" ELSE s

\* The part's metadata travels with it, and the mark of a wrapped value in it.
PartField == [text |-> "text", struct |-> "data", bytes |-> "file_with_bytes", uri |-> "file_with_uri"]
ProtoPart(part)     == [part EXCEPT !.content = PartField[@]]
FromProtoPart(part) == [part EXCEPT !.content = CHOOSE c \in DOMAIN PartField : PartField[c] = @]

\* No references; and where there is no message, an empty one is read.
ProtoMessage(m)     == [m EXCEPT !.has = @ \ {"references"}, !.part = Option(@, ProtoPart)]
BlankMessage        == [role |-> "agent", part |-> Absent, has |-> {}]
FromProtoMessage(m) == IF m = Absent THEN BlankMessage ELSE [m EXCEPT !.part = Option(@, FromProtoPart)]

\* No timestamp.
ProtoStatus(s)     == [s EXCEPT !.state = ProtoState(@), !.message = Option(@, ProtoMessage),
                                !.timestamp = FALSE]
FromProtoStatus(s) == [s EXCEPT !.state = FromProtoState(@), !.message = FromProtoMessage(@)]

ProtoTask(e)     == [e EXCEPT !.status = ProtoStatus(@), !.history = Option(@, ProtoMessage),
                              !.artifact = Option(@, ProtoPart)]
FromProtoTask(e) == [e EXCEPT !.status = FromProtoStatus(@), !.history = Option(@, FromProtoMessage),
                              !.artifact = Option(@, FromProtoPart)]
ProtoEvent(e) ==
    CASE e.kind = "message"  -> [e EXCEPT !.message = ProtoMessage(@)]
      [] e.kind = "task"     -> ProtoTask(e)
      [] e.kind = "status"   -> [e EXCEPT !.status = ProtoStatus(@)]
      [] e.kind = "artifact" -> [e EXCEPT !.artifact = ProtoPart(@)]
      [] e.kind \in {"config", "other"} -> e
FromProtoEvent(e) ==
    CASE e.kind = "message"  -> [e EXCEPT !.message = FromProtoMessage(@)]
      [] e.kind = "task"     -> FromProtoTask(e)
      [] e.kind = "status"   -> [e EXCEPT !.status = FromProtoStatus(@)]
      [] e.kind = "artifact" -> [e EXCEPT !.artifact = FromProtoPart(@)]
      [] e.kind \in {"config", "other"} -> e

\* A history length is an int32 without presence.
ProtoHistory(h)          == IF h = "unset" THEN "zero" ELSE h
ProtoConfiguration(r)     == [r EXCEPT !.history = ProtoHistory(@)]
ProtoSend(r)             == ProtoConfiguration([r EXCEPT !.message = ProtoMessage(@)])
FromProtoSend(r)         == [r EXCEPT !.message = FromProtoMessage(@)]
\* tasks/get over gRPC writes the length whether it is set or not, and reads zero as unset.
ProtoQuery(r)     == [r EXCEPT !.history = ProtoHistory(@)]
FromProtoQuery(r) == [r EXCEPT !.history = IF @ = "zero" THEN "unset" ELSE @]
=============================================================================
